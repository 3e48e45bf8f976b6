------------------------- MODULE UserOnboarding_proofs -------------------------
(***************************************************************************)
(* Theorems about UserOnboarding, for any sets of persons, clients and     *)
(* request slots and any bounds.  What they need of the session service    *)
(* comes from its own theorems.                                            *)
(***************************************************************************)
EXTENDS UserOnboarding, WhatsAppSessions_proofs

ObRecord == [pc : ObLabel, who : Person \cup {None}, code : Client \cup {None},
             saved : BOOLEAN, ok : BOOLEAN, before : SUBSET Client,
             rest : SUBSET Person]

(* Requests that have a phone to work with. *)
Phoned == {"call", "create", "code", "mail", "fail", "notice", "load", "close", "recall",
           "reopen", "connecting", "confirm", "giveup"}

(* Where a request is, in the terms of its locals. *)
WhoOK(r) ==
  /\ r.pc = "idle" => r = ObIdle
  /\ r.pc # "idle" => r.who \in Person
  /\ r.pc \in Phoned => r.who \in Session
  /\ r.pc = "welcome" => r.who \in Admin

WhoInv == \A o \in Request : WhoOK(ob[o])

LEMMA IdleIsTyped ==
  /\ ObIdle \in ObRecord /\ ObIdle.pc = "idle" /\ ObIdle.who = None /\ ObIdle.rest = {}
  /\ ObIdle.saved = FALSE /\ ObIdle.ok = TRUE /\ ObIdle.before = {}
  BY DEF ObIdle, ObRecord, ObLabel

LEMMA PersonIsNotNone == None \notin Person /\ Session \cap Admin = {}
  BY SessionsAssumption, OnboardingAssumption DEF Person

(* The type of everything but the requests. *)
RestTyped ==
  /\ user \in [Person -> [state : {"absent", "saved", "removed"},
                          wa : {"disconnected", "connecting", "failed"}]]
  /\ replies \subseteq [who : Person, ok : BOOLEAN, saved : BOOLEAN]
  /\ regen \in [Session -> {"never", "code", "nocode", "rejected"}]
  /\ crossed \subseteq Person
  /\ requests \in Nat /\ mailFaults \in Nat

LEMMA ObTypeParts == ObTypeOK <=> RestTyped /\ ob \in [Request -> ObRecord]
  BY DEF ObTypeOK, RestTyped, ObRecord

LEMMA ObTypePartsNext == ObTypeOK' <=> RestTyped' /\ ob' \in [Request -> ObRecord]
  BY DEF ObTypeOK, RestTyped, ObRecord

(* A request that resumes after a call goes to one of a few places. *)
LEMMA ResumedCases ==
  ASSUME NEW o \in Request, ob[o] \in ObRecord
  PROVE  \/ Resumed(o) = ob[o] /\ ob[o].pc \notin {"create", "close", "reopen"}
         \/ /\ ob[o].pc = "create"
            /\ \E l \in {"done", "code"} : Resumed(o) = [ob[o] EXCEPT !.pc = l]
         \/ ob[o].pc = "close" /\ Resumed(o) = [ob[o] EXCEPT !.pc = "recall"]
         \/ /\ ob[o].pc = "reopen"
            /\ \E l \in {"giveup", "connecting"} : Resumed(o) = [ob[o] EXCEPT !.pc = l]
  BY DEF Resumed

LEMMA FollowStep ==
  ASSUME ob \in [Request -> ObRecord], Follow, NEW o \in Request
  PROVE  \/ ob'[o] = ob[o]
         \/ /\ op[o] # Idle /\ op'[o] = Idle
            /\ \/ /\ ob[o].pc = "create"
                  /\ \E l \in {"done", "code"} : ob'[o] = [ob[o] EXCEPT !.pc = l]
               \/ ob[o].pc = "close" /\ ob'[o] = [ob[o] EXCEPT !.pc = "recall"]
               \/ /\ ob[o].pc = "reopen"
                  /\ \E l \in {"giveup", "connecting"} : ob'[o] = [ob[o] EXCEPT !.pc = l]
<1>1. ob'[o] = IF op[o] # Idle /\ op'[o] = Idle THEN Resumed(o) ELSE ob[o]
  BY DEF Follow, Returns
<1>2. ob[o] \in ObRecord
  OBVIOUS
<1> QED
  BY <1>1, <1>2, ResumedCases

LEMMA FollowType ==
  ASSUME ObTypeOK, WhoInv, Follow
  PROVE  ObTypeOK' /\ WhoInv'
<1>1. ob \in [Request -> ObRecord]
  BY DEF ObTypeOK, ObRecord
<1>2. ob' = [o \in Request |-> ob'[o]]
  BY DEF Follow
<1>3. ASSUME NEW o \in Request
      PROVE  /\ ob'[o] \in ObRecord
             /\ WhoOK(ob'[o])
  <2>1. ob'[o] = ob[o] \/ \E l \in {"done", "code", "recall", "giveup", "connecting"} :
                            /\ ob'[o] = [ob[o] EXCEPT !.pc = l]
                            /\ ob[o].pc \in {"create", "close", "reopen"}
    BY <1>1, FollowStep
  <2>2. ob[o] \in ObRecord
    BY <1>1
  <2>3. CASE ob'[o] = ob[o]
    BY <2>2, <2>3 DEF WhoInv, WhoOK
  <2>4. ASSUME NEW l \in {"done", "code", "recall", "giveup", "connecting"},
               ob'[o] = [ob[o] EXCEPT !.pc = l], ob[o].pc \in {"create", "close", "reopen"}
        PROVE  /\ ob'[o] \in ObRecord
               /\ WhoOK(ob'[o])
    <3>1. ob[o].who \in Session /\ ob[o].who \in Person
      BY <2>4 DEF WhoInv, WhoOK, Phoned
    <3>2. ob'[o].pc = l /\ ob'[o].who = ob[o].who
      BY <2>2, <2>4 DEF ObRecord
    <3>3. ob'[o] \in ObRecord
      BY <2>2, <2>4 DEF ObRecord, ObLabel
    <3> QED
      BY <3>1, <3>2, <3>3 DEF WhoOK
  <2> QED
    BY <2>1, <2>3, <2>4
<1>4. ob' \in [Request -> ObRecord]
  BY <1>2, <1>3
<1>5. RestTyped
  BY ObTypeParts
<1>6. regen' \in [Session -> {"never", "code", "nocode", "rejected"}]
  <2>1. \A u \in Session : regen'[u] \in {regen[u], "rejected"}
    BY DEF Follow
  <2>2. regen' = [u \in Session |-> regen'[u]]
    BY DEF Follow
  <2> QED
    BY <1>5, <2>1, <2>2 DEF RestTyped
<1>7. RestTyped'
  BY <1>5, <1>6 DEF RestTyped, Follow
<1> QED
  BY <1>3, <1>4, <1>7, ObTypePartsNext DEF WhoInv

LEMMA ObTypeInit == ObInit => TypeOK /\ ObTypeOK /\ WhoInv
<1> SUFFICES ASSUME ObInit PROVE TypeOK /\ ObTypeOK /\ WhoInv
  OBVIOUS
<1>1. TypeOK
  BY TypeInit DEF ObInit
<1>2. ob \in [Request -> ObRecord] /\ \A o \in Request : ob[o] = ObIdle
  BY IdleIsTyped DEF ObInit
<1> QED
  BY <1>1, <1>2, IdleIsTyped DEF ObInit, ObTypeOK, ObRecord, WhoInv, WhoOK, Phoned

(* What a step of onboarding is for the session service: one of its own steps,
   or a read of it that fails. *)
ReadFails == dbFaults' = dbFaults + 1
             /\ UNCHANGED <<procVars, clients, docVars, op, libVars, handlers, crashes>>

LEMMA ServiceStep == TypeOK /\ WhoInv /\ [ObNext]_allVars => [Next]_vars \/ ReadFails
<1> SUFFICES ASSUME TypeOK, WhoInv, [ObNext]_allVars PROVE [Next]_vars \/ ReadFails
  OBVIOUS
<1>1. ASSUME NEW o \in Request, Onboard(o) PROVE [Next]_vars \/ ReadFails
  <2>1. CASE CallCreateSession(o)
    <3>1. Who(o) \in Session
      BY <2>1 DEF CallCreateSession, WhoInv, WhoOK, Phoned, Who
    <3> QED
      BY <2>1, <3>1 DEF CallCreateSession, Next
  <2>2. CASE LoadUser(o)
    <3>1. Who(o) \in Session
      BY <2>2 DEF LoadUser, WhoInv, WhoOK, Phoned, Who
    <3> QED
      BY <2>2, <3>1 DEF LoadUser, Next
  <2>3. CASE ReadCode(o)
    BY <2>3 DEF ReadCode, ReadFails, vars, budgets
  <2> QED
    BY <1>1, <2>1, <2>2, <2>3
       DEF Onboard, FindInvitee, SaveInvitee, MarkUserFailed, MailInvitation, MailWelcome,
           NextInvitee, MarkConnecting, ReturnCode, GiveUp
<1>2. ASSUME NEW o \in Slot, Call(o) PROVE [Next]_vars
  BY <1>2 DEF Call, Next
<1>3. CASE Elsewhere
  BY <1>3 DEF Elsewhere, Next
<1>4. CASE ProcessDies
  BY <1>4 DEF ProcessDies, Next
<1> QED
  BY <1>1, <1>2, <1>3, <1>4
     DEF ObNext, StartInvite, StartRegenerate, Begin, RemoveUser, allVars

(* What a record keeps and what it gets when a request goes on. *)
LEMMA ObFields ==
  ASSUME NEW r \in ObRecord, NEW l \in ObLabel, NEW c \in Client \cup {None},
         NEW sv \in BOOLEAN, NEW k \in BOOLEAN, NEW b \in SUBSET Client
  PROVE  /\ [r EXCEPT !.pc = l] \in ObRecord
         /\ [r EXCEPT !.pc = l, !.code = c] \in ObRecord
         /\ [r EXCEPT !.pc = l, !.ok = k] \in ObRecord
         /\ [r EXCEPT !.pc = l, !.saved = sv] \in ObRecord
         /\ [r EXCEPT !.pc = l, !.before = b] \in ObRecord
  BY DEF ObRecord

LEMMA ObMove ==
  ASSUME ob \in [Request -> ObRecord], NEW o \in Request, NEW l, NEW c, NEW b,
         NEW sv, NEW k
  PROVE  /\ [ob EXCEPT ![o].pc = l] = [ob EXCEPT ![o] = [ob[o] EXCEPT !.pc = l]]
         /\ [ob EXCEPT ![o].pc = l, ![o].code = c]
              = [ob EXCEPT ![o] = [ob[o] EXCEPT !.pc = l, !.code = c]]
         /\ [ob EXCEPT ![o].code = c, ![o].pc = l]
              = [ob EXCEPT ![o] = [ob[o] EXCEPT !.pc = l, !.code = c]]
         /\ [ob EXCEPT ![o].pc = l, ![o].ok = k]
              = [ob EXCEPT ![o] = [ob[o] EXCEPT !.pc = l, !.ok = k]]
         /\ [ob EXCEPT ![o].pc = l, ![o].saved = sv]
              = [ob EXCEPT ![o] = [ob[o] EXCEPT !.pc = l, !.saved = sv]]
         /\ [ob EXCEPT ![o].pc = l, ![o].before = b]
              = [ob EXCEPT ![o] = [ob[o] EXCEPT !.pc = l, !.before = b]]
<1>1. ob[o] \in ObRecord
  OBVIOUS
<1>2. [ob EXCEPT ![o].pc = l] = [ob EXCEPT ![o] = [ob[o] EXCEPT !.pc = l]]
  OBVIOUS
<1>3. [ob EXCEPT ![o].pc = l, ![o].code = c]
              = [ob EXCEPT ![o] = [ob[o] EXCEPT !.pc = l, !.code = c]]
  OBVIOUS
<1>4. [ob EXCEPT ![o].code = c, ![o].pc = l]
              = [ob EXCEPT ![o] = [ob[o] EXCEPT !.pc = l, !.code = c]]
  BY <1>1 DEF ObRecord
<1>5. [ob EXCEPT ![o].pc = l, ![o].ok = k]
              = [ob EXCEPT ![o] = [ob[o] EXCEPT !.pc = l, !.ok = k]]
  OBVIOUS
<1>6. [ob EXCEPT ![o].pc = l, ![o].saved = sv]
              = [ob EXCEPT ![o] = [ob[o] EXCEPT !.pc = l, !.saved = sv]]
  OBVIOUS
<1>7. [ob EXCEPT ![o].pc = l, ![o].before = b]
              = [ob EXCEPT ![o] = [ob[o] EXCEPT !.pc = l, !.before = b]]
  OBVIOUS
<1> QED
  BY <1>2, <1>3, <1>4, <1>5, <1>6, <1>7

LEMMA ObChange ==
  ASSUME ob \in [Request -> ObRecord], WhoInv, NEW o \in Request, NEW r \in ObRecord,
         WhoOK(r), ob' = [ob EXCEPT ![o] = r]
  PROVE  ob' \in [Request -> ObRecord] /\ WhoInv'
<1>1. ob' \in [Request -> ObRecord]
  OBVIOUS
<1>2. \A q \in Request : ob'[q] = IF q = o THEN r ELSE ob[q]
  OBVIOUS
<1> QED
  BY <1>1, <1>2 DEF WhoInv

(* A request that goes on at another label, with the same person. *)
LEMMA ObAdvance ==
  ASSUME ob \in [Request -> ObRecord], WhoInv, NEW o \in Request,
         ob[o].pc \in Phoned,
         NEW l \in ObLabel \ {"idle", "welcome"}, To(o, l)
  PROVE  ob' \in [Request -> ObRecord] /\ WhoInv'
<1> DEFINE r == [ob[o] EXCEPT !.pc = l]
<1>1. r \in ObRecord /\ ob' = [ob EXCEPT ![o] = r]
  BY ObFields, ObMove DEF To
<1>2. r.pc = l /\ r.who = ob[o].who /\ ob[o].who \in Session
  BY DEF ObRecord, WhoInv, WhoOK, Phoned
<1>3. WhoOK(r)
  BY <1>2 DEF WhoOK, Person
<1> HIDE DEF r
<1> QED
  BY <1>1, <1>3, ObChange

LEMMA ObReturns ==
  ASSUME ob \in [Request -> ObRecord], WhoInv, NEW o \in Request,
         ob' = [ob EXCEPT ![o] = ObIdle]
  PROVE  ob' \in [Request -> ObRecord] /\ WhoInv'
<1>1. WhoOK(ObIdle)
  BY IdleIsTyped DEF WhoOK, Phoned
<1> QED
  BY <1>1, IdleIsTyped, ObChange

(* What starts or goes on with the next person. *)
LEMMA ObFresh ==
  ASSUME NEW u \in Person, NEW R \in SUBSET Person
  PROVE  /\ [ObIdle EXCEPT !.pc = "find", !.who = u, !.rest = R] \in ObRecord
         /\ WhoOK([ObIdle EXCEPT !.pc = "find", !.who = u, !.rest = R])
         /\ u \in Session =>
              /\ [ObIdle EXCEPT !.pc = "load", !.who = u] \in ObRecord
              /\ WhoOK([ObIdle EXCEPT !.pc = "load", !.who = u])
  BY DEF ObIdle, ObRecord, ObLabel, WhoOK, Phoned

LEMMA ObFailsInvite ==
  ASSUME ob \in [Request -> ObRecord], WhoInv, NEW o \in Request, ob[o].pc # "idle",
         ob' = [ob EXCEPT ![o].pc = "done", ![o].ok = FALSE]
  PROVE  ob' \in [Request -> ObRecord] /\ WhoInv'
<1> DEFINE r == [ob[o] EXCEPT !.pc = "done", !.ok = FALSE]
<1>1. r \in ObRecord
  BY ObFields DEF ObLabel
<1>2. r.pc = "done" /\ r.who = ob[o].who /\ ob[o].who \in Person
  BY DEF ObRecord, WhoInv, WhoOK
<1>3. WhoOK(r)
  BY <1>2 DEF WhoOK, Phoned
<1>4. ob' = [ob EXCEPT ![o] = r]
  BY ObMove
<1> HIDE DEF r
<1> QED
  BY <1>1, <1>3, <1>4, ObChange

LEMMA ObTypeStep ==
  TypeOK /\ ObTypeOK /\ WhoInv /\ [ObNext]_allVars => TypeOK' /\ ObTypeOK' /\ WhoInv'
<1> SUFFICES ASSUME TypeOK, ObTypeOK, WhoInv, [ObNext]_allVars
             PROVE  TypeOK' /\ ObTypeOK' /\ WhoInv'
  OBVIOUS
<1>t. TypeOK'
  <2>1. ASSUME ReadFails PROVE TypeOK'
    BY <2>1 DEF ReadFails, TypeOK, procVars, docVars, libVars
  <2> QED
    BY <2>1, TypeStep, ServiceStep
<1>a. ob \in [Request -> ObRecord] /\ RestTyped /\ \A o \in Request : ob[o] \in ObRecord
  BY ObTypeParts
<1>r. Session \subseteq Person /\ Admin \subseteq Person
  BY DEF Person
<1> DEFINE Kept == ob' \in [Request -> ObRecord] /\ WhoInv' /\ RestTyped'
<1>1. ASSUME NEW o \in Request, NEW U \in SUBSET Person, StartInvite(o, U) PROVE Kept
  <2>1. PICK u \in U :
          Begin(o, [ObIdle EXCEPT !.pc = "find", !.who = u, !.rest = U \ {u}], U)
    BY <1>1 DEF StartInvite
  <2> DEFINE r == [ObIdle EXCEPT !.pc = "find", !.who = u, !.rest = U \ {u}]
  <2>2. r \in ObRecord /\ WhoOK(r)
    <3>1. u \in Person /\ U \ {u} \in SUBSET Person
      OBVIOUS
    <3> QED
      BY <3>1, ObFresh
  <2> HIDE DEF r
  <2>3. ob' = [ob EXCEPT ![o] = r] /\ RestTyped'
    BY <1>a, <2>1 DEF Begin, RestTyped, Busy, r
  <2> QED
    BY <1>a, <2>2, <2>3, ObChange
<1>2. ASSUME NEW o \in Request, NEW u \in Session, StartRegenerate(o, u) PROVE Kept
  <2> DEFINE r == [ObIdle EXCEPT !.pc = "load", !.who = u]
  <2>2. r \in ObRecord /\ WhoOK(r)
    BY <1>r, ObFresh
  <2> HIDE DEF r
  <2>3. ob' = [ob EXCEPT ![o] = r] /\ RestTyped'
    BY <1>2, <1>a, <1>r DEF StartRegenerate, Begin, RestTyped, Busy, r
  <2> QED
    BY <1>a, <2>2, <2>3, ObChange
<1>3. ASSUME NEW o \in Request, FindInvitee(o) PROVE Kept
  <2>0. RestTyped' /\ ob[o].pc = "find" /\ ob[o].who \in Person
    BY <1>3, <1>a DEF FindInvitee, RestTyped, WhoInv, WhoOK
  <2>1. ASSUME To(o, "save") PROVE Kept
    <3> DEFINE r == [ob[o] EXCEPT !.pc = "save"]
    <3>1. r \in ObRecord /\ r.pc = "save" /\ r.who = ob[o].who
      BY <1>a DEF ObRecord, ObLabel
    <3>2. ob' = [ob EXCEPT ![o] = r]
      BY <1>a, <2>1, ObMove DEF To
    <3>3. WhoOK(r)
      BY <2>0, <3>1 DEF WhoOK, Phoned
    <3> HIDE DEF r
    <3> QED
      BY <1>a, <2>0, <3>1, <3>2, <3>3, ObChange
  <2> QED
    BY <1>3, <1>a, <2>0, <2>1, ObFailsInvite DEF FindInvitee
<1>4. ASSUME NEW o \in Request, SaveInvitee(o) PROVE Kept
  <2>0. ob[o].pc = "save" /\ Who(o) \in Person /\ Who(o) = ob[o].who
    BY <1>4 DEF SaveInvitee, WhoInv, WhoOK, Who
  <2>1. RestTyped'
    BY <1>4, <1>a, <2>0 DEF SaveInvitee, RestTyped
  <2>2. ASSUME NEW l \in {"call", "welcome"}, l = "call" => Who(o) \in Session,
               l = "welcome" => Who(o) \in Admin,
               ob' = [ob EXCEPT ![o].pc = l, ![o].saved = TRUE]
        PROVE  Kept
    <3> DEFINE r == [ob[o] EXCEPT !.pc = l, !.saved = TRUE]
    <3>1. r \in ObRecord
      BY <1>a, ObFields DEF ObLabel
    <3>2. r.pc = l /\ r.who = ob[o].who
      BY <1>a DEF ObRecord
    <3>3. WhoOK(r)
      BY <2>0, <2>2, <3>2 DEF WhoOK, Phoned
    <3>4. ob' = [ob EXCEPT ![o] = r]
      BY <1>a, <2>2, ObMove
    <3> HIDE DEF r
    <3> QED
      BY <1>a, <2>1, <3>1, <3>3, <3>4, ObChange
  <2>3. CASE user[Who(o)].state = "absent"
    <3>1. ob' = [ob EXCEPT ![o].pc = IF Who(o) \in Session THEN "call" ELSE "welcome",
                           ![o].saved = TRUE]
      BY <1>4, <2>3 DEF SaveInvitee
    <3>2. CASE Who(o) \in Session
      BY <2>2, <3>1, <3>2
    <3>3. CASE Who(o) \notin Session
      <4>1. Who(o) \in Admin
        BY <2>0, <3>3 DEF Person
      <4>2. ob' = [ob EXCEPT ![o].pc = "welcome", ![o].saved = TRUE]
        BY <3>1, <3>3
      <4> QED
        BY <2>2, <4>1, <4>2
    <3> QED
      BY <3>2, <3>3
  <2>4. CASE user[Who(o)].state # "absent"
    BY <1>4, <1>a, <2>0, <2>1, <2>4, ObFailsInvite DEF SaveInvitee
  <2> QED
    BY <2>3, <2>4
<1>5. ASSUME NEW o \in Request, CallCreateSession(o) PROVE Kept
  BY <1>5, <1>a, ObAdvance DEF CallCreateSession, RestTyped, Phoned, ObLabel
<1>6. ASSUME NEW o \in Request, ReadCode(o) PROVE Kept
  <2>1. ob[o].pc = "code" /\ ob[o].who \in Session /\ ob[o].who \in Person
    BY <1>6 DEF ReadCode, WhoInv, WhoOK, Phoned
  <2>2. GetQRCode(o) \in Client \cup {None}
    BY <2>1 DEF GetQRCode, Who, TypeOK
  <2>3. RestTyped'
    <3>1. \/ regen' = regen
          \/ regen' = [regen EXCEPT ![Who(o)] = "rejected"]
      BY <1>6 DEF ReadCode
    <3>2. regen' \in [Session -> {"never", "code", "nocode", "rejected"}]
      BY <1>a, <2>1, <3>1 DEF RestTyped, Who
    <3> QED
      BY <1>6, <1>a, <3>2 DEF ReadCode, RestTyped
  <2>4. ASSUME NEW l \in {"mail", "confirm"},
               ob' = [ob EXCEPT ![o].code = GetQRCode(o), ![o].pc = l]
        PROVE  Kept
    <3> DEFINE r == [ob[o] EXCEPT !.pc = l, !.code = GetQRCode(o)]
    <3>1. r \in ObRecord
      BY <1>a, <2>2, ObFields DEF ObLabel
    <3>2. r.pc = l /\ r.who = ob[o].who
      BY <1>a DEF ObRecord
    <3>3. WhoOK(r)
      BY <2>1, <3>2 DEF WhoOK, Phoned
    <3>4. ob' = [ob EXCEPT ![o] = r]
      BY <1>a, <2>4, ObMove, ZenonT(40)
    <3> HIDE DEF r
    <3> QED
      BY <1>a, <2>3, <3>1, <3>3, <3>4, ObChange
  <2>5. ASSUME NEW l \in {"fail", "giveup", "done"}, To(o, l) PROVE Kept
    BY <1>a, <2>1, <2>3, <2>5, ObAdvance DEF Phoned, ObLabel
  <2> QED
    BY <1>6, <2>4, <2>5 DEF ReadCode
<1>7. ASSUME NEW o \in Request, MarkUserFailed(o) PROVE Kept
  <2>1. Who(o) \in Session /\ ob[o].pc \in Phoned
    BY <1>7 DEF MarkUserFailed, WhoInv, WhoOK, Phoned, Who
  <2>2. RestTyped'
    BY <1>7, <1>a, <1>r, <2>1 DEF MarkUserFailed, SetWa, RestTyped
  <2> QED
    BY <1>7, <1>a, <2>1, <2>2, ObAdvance DEF MarkUserFailed, ObLabel
<1>8. ASSUME NEW o \in Request, MailInvitation(o) PROVE Kept
  <2>1. Who(o) \in Session /\ ob[o].pc \in Phoned
    BY <1>8 DEF MailInvitation, WhoInv, WhoOK, Phoned, Who
  <2>2. RestTyped'
    BY <1>8, <1>a, <2>1 DEF MailInvitation, MailFails, RestTyped
  <2> QED
    BY <1>8, <1>a, <2>1, <2>2, ObAdvance DEF MailInvitation, ObLabel
<1>9. ASSUME NEW o \in Request, MailWelcome(o) PROVE Kept
  <2>0. RestTyped' /\ ob[o].pc = "welcome" /\ ob[o].who \in Person
    BY <1>9, <1>a DEF MailWelcome, MailFails, RestTyped, WhoInv, WhoOK
  <2>1. ASSUME To(o, "done") PROVE Kept
    <3> DEFINE r == [ob[o] EXCEPT !.pc = "done"]
    <3>1. r \in ObRecord /\ r.pc = "done" /\ r.who = ob[o].who
      BY <1>a DEF ObRecord, ObLabel
    <3>2. ob' = [ob EXCEPT ![o] = r]
      BY <1>a, <2>1, ObMove DEF To
    <3>3. WhoOK(r)
      BY <2>0, <3>1 DEF WhoOK, Phoned
    <3> HIDE DEF r
    <3> QED
      BY <1>a, <2>0, <3>1, <3>2, <3>3, ObChange
  <2> QED
    BY <1>9, <1>a, <2>0, <2>1, ObFailsInvite DEF MailWelcome, SendToDLQ
<1>10. ASSUME NEW o \in Request, NextInvitee(o) PROVE Kept
  <2>1. /\ ob[o].who \in Person /\ ob[o].rest \subseteq Person
        /\ ob[o].ok \in BOOLEAN /\ ob[o].saved \in BOOLEAN
    BY <1>10, <1>a DEF NextInvitee, WhoInv, WhoOK, ObRecord
  <2>2. RestTyped'
    <3>1. [who |-> ob[o].who, ok |-> ob[o].ok, saved |-> ob[o].saved]
            \in [who : Person, ok : BOOLEAN, saved : BOOLEAN]
      BY <2>1
    <3>2. replies' \subseteq [who : Person, ok : BOOLEAN, saved : BOOLEAN]
      BY <1>10, <1>a, <3>1 DEF NextInvitee, RestTyped, Who
    <3>3. UNCHANGED <<user, regen, crossed, requests, mailFaults>>
      BY <1>10 DEF NextInvitee
    <3> QED
      BY <1>a, <3>2, <3>3 DEF RestTyped
  <2>3. ASSUME NEW u \in ob[o].rest,
               ob' = [ob EXCEPT ![o] = [ObIdle EXCEPT !.pc = "find", !.who = u,
                                                      !.rest = ob[o].rest \ {u}]]
        PROVE  Kept
    <3> DEFINE r == [ObIdle EXCEPT !.pc = "find", !.who = u, !.rest = ob[o].rest \ {u}]
    <3>1. r \in ObRecord /\ WhoOK(r)
      <4>1. u \in Person /\ ob[o].rest \ {u} \in SUBSET Person
        BY <2>1
      <4> QED
        BY <4>1, ObFresh
    <3> HIDE DEF r
    <3>2. ob' = [ob EXCEPT ![o] = r]
      BY <2>3 DEF r
    <3> QED
      BY <1>a, <2>2, <3>1, <3>2, ObChange
  <2> QED
    BY <1>10, <1>a, <2>2, <2>3, ObReturns DEF NextInvitee
<1>11. ASSUME NEW o \in Request, LoadUser(o) PROVE Kept
  <2>1. Who(o) \in Session /\ ob[o].pc = "load" /\ Who(o) = ob[o].who
    BY <1>11 DEF LoadUser, WhoInv, WhoOK, Phoned, Who
  <2>2. RestTyped'
    BY <1>11, <1>a DEF LoadUser, RestTyped
  <2>3. ASSUME ob' = [ob EXCEPT ![o].pc = "close",
                                ![o].before = {c \in Client : owner[c] = Who(o)}]
        PROVE  Kept
    <3> DEFINE b == {c \in Client : owner[c] = Who(o)}
               r == [ob[o] EXCEPT !.pc = "close", !.before = b]
    <3>1. r \in ObRecord
      BY <1>a, ObFields DEF ObLabel
    <3>2. r.pc = "close" /\ r.who = ob[o].who
      BY <1>a DEF ObRecord
    <3>3. WhoOK(r)
      BY <1>r, <2>1, <3>2 DEF WhoOK
    <3>4. ob' = [ob EXCEPT ![o] = r]
      BY <1>a, <2>3, ObMove
    <3> HIDE DEF r
    <3> QED
      BY <1>a, <2>2, <3>1, <3>3, <3>4, ObChange
  <2> QED
    BY <1>11, <1>a, <2>2, <2>3, ObReturns DEF LoadUser
<1>12. ASSUME NEW o \in Request, MarkConnecting(o) PROVE Kept
  <2>1. Who(o) \in Session /\ ob[o].pc \in Phoned
    BY <1>12 DEF MarkConnecting, WhoInv, WhoOK, Phoned, Who
  <2>2. RestTyped'
    BY <1>12, <1>a, <1>r, <2>1 DEF MarkConnecting, SetWa, RestTyped
  <2> QED
    <3>1. To(o, "code") \/ To(o, "giveup")
      BY <1>12 DEF MarkConnecting
    <3> QED
      BY <1>a, <2>1, <2>2, <3>1, ObAdvance DEF ObLabel
<1>13. ASSUME NEW o \in Request, ReturnCode(o) PROVE Kept
  <2>1. Who(o) \in Session /\ ob[o].pc \in Phoned
    BY <1>13 DEF ReturnCode, WhoInv, WhoOK, Phoned, Who
  <2>2. RestTyped'
    <3>1. user' \in [Person -> [state : {"absent", "saved", "removed"},
                                wa : {"disconnected", "connecting", "failed"}]]
      BY <1>13, <1>a, <1>r, <2>1 DEF ReturnCode, SetWa, RestTyped
    <3>2. regen' \in [Session -> {"never", "code", "nocode", "rejected"}]
      BY <1>13, <1>a, <2>1 DEF ReturnCode, RestTyped
    <3> QED
      BY <1>13, <1>a, <3>1, <3>2 DEF ReturnCode, RestTyped
  <2> QED
    <3>1. To(o, "giveup") \/ ob' = [ob EXCEPT ![o] = ObIdle]
      BY <1>13 DEF ReturnCode
    <3> QED
      BY <1>a, <2>1, <2>2, <3>1, ObAdvance, ObReturns DEF ObLabel
<1>14. ASSUME NEW o \in Request, GiveUp(o) PROVE Kept
  <2>1. Who(o) \in Session
    BY <1>14 DEF GiveUp, WhoInv, WhoOK, Phoned, Who
  <2>2. RestTyped'
    BY <1>14, <1>a, <1>r, <2>1 DEF GiveUp, SetWa, RestTyped
  <2> QED
    BY <1>14, <1>a, <2>2, ObReturns DEF GiveUp
<1>15. ASSUME NEW o \in Slot, Call(o) PROVE Kept
  BY <1>15, FollowType, ObTypePartsNext DEF Call
<1>16. ASSUME NEW u \in Person, RemoveUser(u) PROVE Kept
  BY <1>16, <1>a DEF RemoveUser, RestTyped, WhoInv
<1>17. ASSUME Elsewhere PROVE Kept
  BY <1>17, <1>a DEF Elsewhere, obVars, RestTyped, WhoInv
<1>18. ASSUME ProcessDies PROVE Kept
  <2>1. ob' = [o \in Request |-> ObIdle] /\ RestTyped'
    BY <1>18, <1>a DEF ProcessDies, RestTyped
  <2>2. \A o \in Request : ob'[o] = ObIdle
    BY <2>1
  <2>3. WhoOK(ObIdle)
    BY IdleIsTyped DEF WhoOK, Phoned
  <2> QED
    BY <2>1, <2>2, <2>3, IdleIsTyped DEF WhoInv
<1>19. ASSUME UNCHANGED allVars PROVE Kept
  BY <1>19, <1>a DEF allVars, obVars, RestTyped, WhoInv
<1> HIDE DEF Kept
<1>20. ASSUME NEW o \in Request, Onboard(o) PROVE Kept
  BY <1>3, <1>4, <1>5, <1>6, <1>7, <1>8, <1>9, <1>10, <1>11, <1>12, <1>13, <1>14, <1>20
     DEF Onboard
<1>21. Kept
  BY <1>1, <1>2, <1>15, <1>16, <1>17, <1>18, <1>19, <1>20 DEF ObNext
<1> QED
  BY <1>t, <1>21, ObTypePartsNext DEF Kept

(* Every reachable state of onboarding and of the session service under it is well
   typed. *)
THEOREM ObTypeCorrect == ObSpec => [](TypeOK /\ ObTypeOK)
<1> QED
  BY ObTypeInit, ObTypeStep, PTL DEF ObSpec

-----------------------------------------------------------------------------
(* What an invitation answers *)

(* What the locals of an invitation say of the user document at each place; n
   mails could not be sent so far. *)
AnswerOK(r, n) ==
  /\ r.pc \in {"find", "save"} => ~r.saved /\ r.ok
  /\ r.pc \in {"call", "create", "mail", "fail", "notice", "welcome"} => r.saved /\ r.ok
  /\ r.pc \in {"load", "close", "recall", "reopen", "connecting", "confirm", "giveup"}
       => ~r.saved /\ r.ok
  /\ r.pc = "code" => r.ok
  /\ r.pc = "done" => \/ r.ok = r.saved
                      \/ r.who \in Admin /\ n > 0

AnswerInv ==
  /\ \A o \in Request : AnswerOK(ob[o], mailFaults)
  /\ InviteReplyTruthful

(* The request that moves has an answer that holds, and so have the others. *)
LEMMA AnswerChange ==
  ASSUME ob \in [Request -> ObRecord], \A q \in Request : AnswerOK(ob[q], mailFaults),
         NEW o \in Request, NEW r, AnswerOK(r, mailFaults'), ob' = [ob EXCEPT ![o] = r],
         mailFaults \in Nat, mailFaults' \in Nat, mailFaults' >= mailFaults
  PROVE  \A q \in Request : AnswerOK(ob'[q], mailFaults')
<1>1. ASSUME NEW q \in Request, q # o PROVE AnswerOK(ob'[q], mailFaults')
  <2>1. ob'[q] = ob[q] /\ AnswerOK(ob[q], mailFaults)
    BY <1>1
  <2>2. mailFaults > 0 => mailFaults' > 0
    OBVIOUS
  <2> QED
    BY <2>1, <2>2 DEF AnswerOK
<1>2. ob'[o] = r
  OBVIOUS
<1> QED
  BY <1>1, <1>2

LEMMA AnswerMoves ==
  ASSUME ob \in [Request -> ObRecord], \A q \in Request : AnswerOK(ob[q], mailFaults),
         mailFaults \in Nat, mailFaults' \in Nat, mailFaults' >= mailFaults,
         NEW o \in Request, NEW l, To(o, l),
         \/ ob[o].pc \in {"call", "create", "mail", "fail", "notice"}
            /\ l \in {"create", "mail", "fail", "notice", "done", "code"}
         \/ ob[o].pc = "find" /\ l = "save"
         \/ ob[o].pc = "welcome" /\ l = "done"
         \/ ob[o].pc = "code" /\ ob[o].saved /\ l \in {"mail", "fail", "done"}
         \/ ob[o].pc = "code" /\ ~ob[o].saved /\ l \in {"confirm", "giveup"}
         \/ ob[o].pc = "recall" /\ l = "reopen"
         \/ ob[o].pc = "reopen" /\ l \in {"connecting", "giveup"}
         \/ ob[o].pc = "close" /\ l = "recall"
         \/ ob[o].pc = "connecting" /\ l \in {"code", "giveup"}
         \/ ob[o].pc = "confirm" /\ l = "giveup"
  PROVE  \A q \in Request : AnswerOK(ob'[q], mailFaults')
<1> DEFINE r == [ob[o] EXCEPT !.pc = l]
<1>1. ob' = [ob EXCEPT ![o] = r]
  BY ObMove DEF To
<1>2. r.pc = l /\ r.saved = ob[o].saved /\ r.ok = ob[o].ok /\ r.who = ob[o].who
  BY DEF ObRecord
<1>3. AnswerOK(ob[o], mailFaults)
  OBVIOUS
<1>4. AnswerOK(r, mailFaults')
  BY <1>2, <1>3 DEF AnswerOK
<1> HIDE DEF r
<1> QED
  BY <1>1, <1>4, AnswerChange

LEMMA AnswerSame ==
  ASSUME AnswerInv, UNCHANGED ob, UNCHANGED replies, mailFaults \in Nat,
         mailFaults' \in Nat, mailFaults' >= mailFaults
  PROVE  AnswerInv'
<1>1. mailFaults > 0 => mailFaults' > 0
  OBVIOUS
<1> QED
  BY <1>1 DEF AnswerInv, AnswerOK, InviteReplyTruthful

LEMMA AnswersKept ==
  ASSUME InviteReplyTruthful, UNCHANGED replies, mailFaults \in Nat,
         mailFaults' \in Nat, mailFaults' >= mailFaults
  PROVE  InviteReplyTruthful'
<1>1. mailFaults > 0 => mailFaults' > 0
  OBVIOUS
<1> QED
  BY <1>1 DEF InviteReplyTruthful

LEMMA AnswerFresh ==
  ASSUME NEW u, NEW R, NEW n
  PROVE  /\ AnswerOK([ObIdle EXCEPT !.pc = "find", !.who = u, !.rest = R], n)
         /\ AnswerOK([ObIdle EXCEPT !.pc = "load", !.who = u], n)
         /\ AnswerOK(ObIdle, n)
  BY DEF AnswerOK, ObIdle

LEMMA AnswerStep ==
  ObTypeOK /\ WhoInv /\ AnswerInv /\ [ObNext]_allVars => AnswerInv'
<1> SUFFICES ASSUME ObTypeOK, WhoInv, AnswerInv, [ObNext]_allVars PROVE AnswerInv'
  OBVIOUS
<1>a. /\ ob \in [Request -> ObRecord] /\ \A o \in Request : ob[o] \in ObRecord
      /\ mailFaults \in Nat
  BY ObTypeParts DEF RestTyped
<1>b. InviteReplyTruthful /\ \A o \in Request : AnswerOK(ob[o], mailFaults)
  BY DEF AnswerInv
<1>c. ASSUME UNCHANGED <<replies, mailFaults>>
      PROVE  InviteReplyTruthful' /\ mailFaults' \in Nat /\ mailFaults' >= mailFaults
  BY <1>a, <1>b, <1>c DEF InviteReplyTruthful
<1> DEFINE Answers == \A q \in Request : AnswerOK(ob'[q], mailFaults')
<1>q. ASSUME InviteReplyTruthful', Answers PROVE AnswerInv'
  BY <1>q DEF AnswerInv
<1>1. ASSUME NEW o \in Request, NEW U \in SUBSET Person, StartInvite(o, U)
      PROVE  AnswerInv'
  <2>1. PICK u \in U :
          Begin(o, [ObIdle EXCEPT !.pc = "find", !.who = u, !.rest = U \ {u}], U)
    BY <1>1 DEF StartInvite
  <2>2. /\ ob' = [ob EXCEPT ![o] = [ObIdle EXCEPT !.pc = "find", !.who = u, !.rest = U \ {u}]]
        /\ UNCHANGED <<replies, mailFaults>>
    BY <2>1 DEF Begin
  <2> QED
    BY <1>a, <1>b, <1>c, <1>q, <2>2, AnswerFresh, AnswerChange
<1>2. ASSUME NEW o \in Request, NEW u \in Session, StartRegenerate(o, u) PROVE AnswerInv'
  <2>1. /\ ob' = [ob EXCEPT ![o] = [ObIdle EXCEPT !.pc = "load", !.who = u]]
        /\ UNCHANGED <<replies, mailFaults>>
    BY <1>2 DEF StartRegenerate, Begin
  <2> QED
    BY <1>a, <1>b, <1>c, <1>q, <2>1, AnswerFresh, AnswerChange
<1>n. ASSUME NEW o \in Request, ob[o].pc \in {"find", "save"}, UNCHANGED <<replies, mailFaults>>,
             ob' = [ob EXCEPT ![o].pc = "done", ![o].ok = FALSE]
      PROVE  AnswerInv'
  <2> DEFINE r == [ob[o] EXCEPT !.pc = "done", !.ok = FALSE]
  <2>1. ob' = [ob EXCEPT ![o] = r]
    BY <1>a, <1>n, ObMove
  <2>2. r.pc = "done" /\ r.ok = FALSE /\ r.saved = ob[o].saved /\ ob[o].saved \in BOOLEAN
    BY <1>a DEF ObRecord
  <2>3. AnswerOK(ob[o], mailFaults)
    BY <1>b
  <2>4. AnswerOK(r, mailFaults')
    BY <1>n, <2>2, <2>3 DEF AnswerOK
  <2> HIDE DEF r
  <2> QED
    BY <1>a, <1>b, <1>c, <1>n, <1>q, <2>1, <2>4, AnswerChange
<1>3. ASSUME NEW o \in Request, FindInvitee(o) PROVE AnswerInv'
  <2>1. ob[o].pc = "find" /\ UNCHANGED <<replies, mailFaults>>
    BY <1>3 DEF FindInvitee
  <2>2. CASE To(o, "save")
    BY <1>a, <1>b, <1>c, <1>q, <2>1, <2>2, AnswerMoves
  <2> QED
    BY <1>3, <1>n, <2>1, <2>2 DEF FindInvitee
<1>4. ASSUME NEW o \in Request, SaveInvitee(o) PROVE AnswerInv'
  <2>1. ob[o].pc = "save" /\ UNCHANGED <<replies, mailFaults>>
    BY <1>4 DEF SaveInvitee
  <2>2. ASSUME NEW l \in {"call", "welcome"},
               ob' = [ob EXCEPT ![o].pc = l, ![o].saved = TRUE]
        PROVE  AnswerInv'
    <3> DEFINE r == [ob[o] EXCEPT !.pc = l, !.saved = TRUE]
    <3>1. ob' = [ob EXCEPT ![o] = r]
      BY <1>a, <2>2, ObMove
    <3>2. r.pc = l /\ r.ok = ob[o].ok /\ r.saved = TRUE
      BY <1>a DEF ObRecord
    <3>3. AnswerOK(ob[o], mailFaults)
      BY <1>b
    <3>4. AnswerOK(r, mailFaults')
      BY <2>1, <3>2, <3>3 DEF AnswerOK
    <3> HIDE DEF r
    <3> QED
      BY <1>a, <1>b, <1>c, <1>q, <2>1, <3>1, <3>4, AnswerChange
  <2>3. CASE user[Who(o)].state = "absent"
    <3>1. ob' = [ob EXCEPT ![o].pc = IF Who(o) \in Session THEN "call" ELSE "welcome",
                           ![o].saved = TRUE]
      BY <1>4, <2>3 DEF SaveInvitee
    <3>2. CASE Who(o) \in Session
      BY <2>2, <3>1, <3>2
    <3>3. CASE Who(o) \notin Session
      BY <2>2, <3>1, <3>3
    <3> QED
      BY <3>2, <3>3
  <2>4. CASE user[Who(o)].state # "absent"
    BY <1>4, <1>n, <2>1, <2>4 DEF SaveInvitee
  <2> QED
    BY <2>3, <2>4
<1>m. ASSUME NEW o \in Request, NEW l, To(o, l), UNCHANGED <<replies, mailFaults>>,
             \/ ob[o].pc = "call" /\ l = "create"
             \/ ob[o].pc = "fail" /\ l \in {"notice", "done"}
             \/ ob[o].pc = "code" /\ ob[o].saved /\ l \in {"mail", "fail", "done"}
             \/ ob[o].pc = "code" /\ ~ob[o].saved /\ l \in {"confirm", "giveup"}
             \/ ob[o].pc = "recall" /\ l = "reopen"
             \/ ob[o].pc = "connecting" /\ l \in {"code", "giveup"}
             \/ ob[o].pc = "confirm" /\ l = "giveup"
      PROVE  AnswerInv'
  BY <1>a, <1>b, <1>c, <1>m, <1>q, AnswerMoves
<1>i. ASSUME NEW o \in Request, ob' = [ob EXCEPT ![o] = ObIdle],
             UNCHANGED <<replies, mailFaults>>
      PROVE  AnswerInv'
  BY <1>a, <1>b, <1>c, <1>i, <1>q, AnswerFresh, AnswerChange
<1>5. ASSUME NEW o \in Request, CallCreateSession(o) PROVE AnswerInv'
  <2>1. UNCHANGED <<replies, mailFaults>>
    BY <1>5 DEF CallCreateSession
  <2> QED
    BY <1>5, <1>m, <2>1 DEF CallCreateSession
<1>6. ASSUME NEW o \in Request, ReadCode(o) PROVE AnswerInv'
  <2>1. ob[o].pc = "code" /\ UNCHANGED <<replies, mailFaults>>
    BY <1>6 DEF ReadCode
  <2>2. ASSUME NEW l \in {"mail", "confirm"}, l = IF ob[o].saved THEN "mail" ELSE "confirm",
               ob' = [ob EXCEPT ![o].code = GetQRCode(o), ![o].pc = l]
        PROVE  AnswerInv'
    <3> DEFINE r == [ob[o] EXCEPT !.pc = l, !.code = GetQRCode(o)]
    <3>1. ob' = [ob EXCEPT ![o] = r]
      <4>1. [ob EXCEPT ![o].code = GetQRCode(o), ![o].pc = l] = [ob EXCEPT ![o] = r]
        BY <1>a, ObMove, ZenonT(40)
      <4> QED
        BY <2>2, <4>1
    <3>2. r.pc = l /\ r.ok = ob[o].ok /\ r.saved = ob[o].saved
      BY <1>a DEF ObRecord
    <3>3. AnswerOK(ob[o], mailFaults)
      BY <1>b
    <3>4. AnswerOK(r, mailFaults')
      BY <2>1, <2>2, <3>2, <3>3 DEF AnswerOK
    <3> HIDE DEF r
    <3> QED
      BY <1>a, <1>b, <1>c, <1>q, <2>1, <3>1, <3>4, AnswerChange
  <2>3. CASE ob' = [ob EXCEPT ![o].code = GetQRCode(o),
                              ![o].pc = IF ob[o].saved THEN "mail" ELSE "confirm"]
    BY <2>2, <2>3
  <2>4. ASSUME NEW l, To(o, l),
               \/ l = IF ob[o].saved THEN "fail" ELSE "giveup"
               \/ l = IF ob[o].saved THEN "done" ELSE "giveup"
        PROVE  AnswerInv'
    BY <1>m, <2>1, <2>4
  <2> QED
    BY <1>6, <2>3, <2>4 DEF ReadCode
<1>7. ASSUME NEW o \in Request, MarkUserFailed(o) PROVE AnswerInv'
  BY <1>7, <1>m DEF MarkUserFailed
<1>8. ASSUME NEW o \in Request, MailInvitation(o) PROVE AnswerInv'
  <2>1. /\ ob[o].pc \in {"mail", "notice"} /\ To(o, "done") /\ UNCHANGED replies
        /\ mailFaults' \in Nat /\ mailFaults' >= mailFaults
    BY <1>8, <1>a DEF MailInvitation, MailFails
  <2> QED
    BY <1>a, <1>b, <1>q, <2>1, AnswerMoves, AnswersKept
<1>9. ASSUME NEW o \in Request, MailWelcome(o) PROVE AnswerInv'
  <2>1. /\ ob[o].pc = "welcome" /\ UNCHANGED replies
        /\ mailFaults' \in Nat /\ mailFaults' >= mailFaults
    BY <1>9, <1>a DEF MailWelcome, MailFails
  <2>2. ob[o].who \in Admin
    BY <2>1 DEF WhoInv, WhoOK
  <2>3. CASE To(o, "done")
    BY <1>a, <1>b, <1>q, <2>1, <2>3, AnswerMoves, AnswersKept
  <2>4. CASE MailFails /\ SendToDLQ(o)
    <3> DEFINE r == [ob[o] EXCEPT !.pc = "done", !.ok = FALSE]
    <3>1. ob' = [ob EXCEPT ![o] = r]
      BY <1>a, <2>4, ObMove DEF SendToDLQ
    <3>2. r.pc = "done" /\ r.who \in Admin
      BY <1>a, <2>2 DEF ObRecord
    <3>3. mailFaults' > 0
      BY <1>a, <2>4 DEF MailFails
    <3>4. AnswerOK(r, mailFaults')
      BY <3>2, <3>3 DEF AnswerOK
    <3> HIDE DEF r
    <3> QED
      BY <1>a, <1>b, <1>q, <2>1, <3>1, <3>4, AnswerChange, AnswersKept
  <2> QED
    BY <1>9, <2>3, <2>4 DEF MailWelcome
<1>10. ASSUME NEW o \in Request, NextInvitee(o) PROVE AnswerInv'
  <2>1. /\ ob[o].pc = "done" /\ AnswerOK(ob[o], mailFaults) /\ UNCHANGED mailFaults
        /\ replies' = replies \cup {[who |-> ob[o].who, ok |-> ob[o].ok,
                                     saved |-> ob[o].saved]}
    BY <1>10, <1>b DEF NextInvitee, Who
  <2>2. InviteReplyTruthful'
    BY <1>a, <1>b, <2>1 DEF InviteReplyTruthful, AnswerOK
  <2>3. ASSUME NEW u \in ob[o].rest,
               ob' = [ob EXCEPT ![o] = [ObIdle EXCEPT !.pc = "find", !.who = u,
                                                      !.rest = ob[o].rest \ {u}]]
        PROVE  AnswerInv'
    BY <1>a, <1>b, <1>q, <2>1, <2>2, <2>3, AnswerFresh, AnswerChange
  <2>4. CASE ob' = [ob EXCEPT ![o] = ObIdle]
    BY <1>a, <1>b, <1>q, <2>1, <2>2, <2>4, AnswerFresh, AnswerChange
  <2> QED
    BY <1>10, <2>3, <2>4 DEF NextInvitee
<1>11. ASSUME NEW o \in Request, LoadUser(o) PROVE AnswerInv'
  <2>1. ob[o].pc = "load" /\ UNCHANGED <<replies, mailFaults>>
    BY <1>11 DEF LoadUser
  <2>2. CASE ob' = [ob EXCEPT ![o].pc = "close",
                              ![o].before = {c \in Client : owner[c] = Who(o)}]
    <3> DEFINE b == {c \in Client : owner[c] = Who(o)}
               r == [ob[o] EXCEPT !.pc = "close", !.before = b]
    <3>1. ob' = [ob EXCEPT ![o] = r]
      BY <1>a, <2>2, ObMove
    <3>2. r.pc = "close" /\ r.ok = ob[o].ok /\ r.saved = ob[o].saved
      BY <1>a DEF ObRecord
    <3>3. AnswerOK(ob[o], mailFaults)
      BY <1>b
    <3>4. AnswerOK(r, mailFaults')
      BY <2>1, <3>2, <3>3 DEF AnswerOK
    <3> HIDE DEF r
    <3> QED
      BY <1>a, <1>b, <1>c, <1>q, <2>1, <3>1, <3>4, AnswerChange
  <2> QED
    BY <1>11, <1>i, <2>1, <2>2 DEF LoadUser
<1>12. ASSUME NEW o \in Request, MarkConnecting(o) PROVE AnswerInv'
  <2>1. To(o, "code") \/ To(o, "giveup")
    BY <1>12 DEF MarkConnecting
  <2> QED
    BY <1>12, <1>m, <2>1 DEF MarkConnecting
<1>13. ASSUME NEW o \in Request, ReturnCode(o) PROVE AnswerInv'
  <2>1. To(o, "giveup") \/ ob' = [ob EXCEPT ![o] = ObIdle]
    BY <1>13 DEF ReturnCode
  <2> QED
    BY <1>13, <1>i, <1>m, <2>1 DEF ReturnCode
<1>14. ASSUME NEW o \in Request, GiveUp(o) PROVE AnswerInv'
  BY <1>14, <1>i DEF GiveUp
<1>15. ASSUME NEW o \in Slot, Call(o) PROVE AnswerInv'
  <2>1. Follow /\ UNCHANGED <<replies, mailFaults>>
    BY <1>15 DEF Call, Follow
  <2>2. ASSUME NEW q \in Request PROVE AnswerOK(ob'[q], mailFaults')
    <3>1. \/ ob'[q] = ob[q]
          \/ ob[q].pc = "create" /\ \E l \in {"done", "code"} : ob'[q] = [ob[q] EXCEPT !.pc = l]
          \/ ob[q].pc = "close" /\ ob'[q] = [ob[q] EXCEPT !.pc = "recall"]
          \/ /\ ob[q].pc = "reopen"
             /\ \E l \in {"giveup", "connecting"} : ob'[q] = [ob[q] EXCEPT !.pc = l]
      BY <1>a, <2>1, FollowStep
    <3>2. ob[q] \in ObRecord /\ AnswerOK(ob[q], mailFaults) /\ mailFaults' = mailFaults
      BY <1>a, <1>b, <2>1
    <3>3. ASSUME NEW l, ob'[q] = [ob[q] EXCEPT !.pc = l],
                 \/ ob[q].pc = "create" /\ l \in {"done", "code"}
                 \/ ob[q].pc = "close" /\ l = "recall"
                 \/ ob[q].pc = "reopen" /\ l \in {"giveup", "connecting"}
          PROVE  AnswerOK(ob'[q], mailFaults')
      <4>1. /\ ob'[q].pc = l /\ ob'[q].ok = ob[q].ok /\ ob'[q].saved = ob[q].saved
            /\ ob'[q].who = ob[q].who
        BY <3>2, <3>3 DEF ObRecord
      <4> QED
        BY <3>2, <3>3, <4>1 DEF AnswerOK
    <3> QED
      BY <3>1, <3>2, <3>3
  <2> QED
    BY <1>c, <1>q, <2>1, <2>2
<1>16. ASSUME NEW u \in Person, RemoveUser(u) PROVE AnswerInv'
  BY <1>16, <1>a, AnswerSame DEF RemoveUser
<1>17. ASSUME Elsewhere PROVE AnswerInv'
  BY <1>17, <1>a, AnswerSame DEF Elsewhere, obVars
<1>18. ASSUME ProcessDies PROVE AnswerInv'
  <2>1. ob' = [o \in Request |-> ObIdle] /\ UNCHANGED <<replies, mailFaults>>
    BY <1>18 DEF ProcessDies
  <2>2. \A o \in Request : ob'[o] = ObIdle
    BY <2>1
  <2> QED
    BY <1>c, <1>q, <2>1, <2>2, AnswerFresh
<1>19. ASSUME UNCHANGED allVars PROVE AnswerInv'
  BY <1>19, <1>a, AnswerSame DEF allVars, obVars
<1> HIDE DEF Answers
<1>20. ASSUME NEW o \in Request, Onboard(o) PROVE AnswerInv'
  BY <1>3, <1>4, <1>5, <1>6, <1>7, <1>8, <1>9, <1>10, <1>11, <1>12, <1>13, <1>14, <1>20
     DEF Onboard
<1> QED
  BY <1>1, <1>2, <1>15, <1>16, <1>17, <1>18, <1>19, <1>20 DEF ObNext

(* An invitation that answers with an error has stored nobody, and one that succeeds
   has, for any number of requests on the same persons, any faults of the clients, of
   the database and of the mail, and any crashes; an administrator whose mail could not
   be sent is the one exception. *)
THEOREM RepliesAreTruthful == ObSpec => []InviteReplyTruthful
<1>1. ObInit => AnswerInv
  BY AnswerFresh DEF ObInit, AnswerInv, InviteReplyTruthful
<1>2. AnswerInv => InviteReplyTruthful
  BY DEF AnswerInv
<1> QED
  BY <1>1, <1>2, ObTypeInit, ObTypeStep, AnswerStep, PTL DEF ObSpec

-----------------------------------------------------------------------------
(* The connection status of a user *)

Works(r, u) == r.who = u \/ u \in r.rest

(* A person nobody has crossed on is worked on by one request at most. *)
AloneInv ==
  \A u \in Person : u \notin crossed =>
    \A p, q \in Request : Works(ob[p], u) /\ Works(ob[q], u) => p = q

(* Requests that act on a stored document. *)
Past == {"call", "create", "code", "mail", "fail", "notice", "welcome", "close", "recall",
         "reopen", "connecting", "confirm", "giveup"}

StoredInv ==
  /\ \A o \in Request : ob[o].pc \in Past => user[ob[o].who].state # "absent"
  /\ \A u \in Session : user[u].state = "absent" =>
       user[u].wa = "disconnected" /\ regen[u] = "never"

(* An invitation whose outcome nothing has recorded yet, and a regeneration that has
   said CONNECTING, or is about to say FAILED, with the outcome still to come. *)
FreshAt(r) == r.pc \in {"call", "create", "mail", "fail"} \/ (r.pc = "code" /\ r.saved)
OpenAt(r)  == r.pc \in {"confirm", "giveup"} \/ (r.pc = "code" /\ ~r.saved)

Unmarked(u) == user[u].wa = "disconnected" /\ regen[u] = "never"
Settled(u)  ==
  /\ user[u].wa = "failed" <=> regen[u] = "nocode"
  /\ regen[u] = "rejected" => user[u].wa = "disconnected"

StatusOK(u) ==
  Saved(u) /\ u \notin crossed =>
    /\ \A o \in Request : ob[o].who = u /\ FreshAt(ob[o]) => Unmarked(u)
    /\ (\A o \in Request : ob[o].who = u => ~OpenAt(ob[o])) => Settled(u)

StatusInv == crashes = 0 => \A u \in Session : StatusOK(u)

WaInv == AloneInv /\ StoredInv /\ StatusInv

(* One request moves from person w: the others are as they were, and so are the
   documents of the others. *)
LEMMA WaMove ==
  ASSUME ob \in [Request -> ObRecord], WhoInv, WaInv, crashes' = 0 => crashes = 0,
         NEW o \in Request, NEW r, ob' = [ob EXCEPT ![o] = r], UNCHANGED crossed,
         NEW w \in Person, ob[o].who = w,
         r.who = w \/ r.who \in ob[o].rest \cup {None}, r.rest \subseteq ob[o].rest,
         r.who # w => r.pc \in {"idle", "find"},
         \A u \in Person : u # w => user'[u] = user[u],
         \A u \in Session : u # w => regen'[u] = regen[u],
         user[w].state # "absent" => user'[w].state # "absent",
         w \in Session /\ user'[w].state = "absent" =>
            user'[w].wa = "disconnected" /\ regen'[w] = "never",
         r.who = w /\ r.pc \in Past => user'[w].state # "absent",
         crashes' = 0 /\ w \in Session /\ user'[w].state = "saved" /\ w \notin crossed =>
           /\ r.who = w /\ FreshAt(r) => Unmarked(w)'
           /\ ~(r.who = w /\ OpenAt(r)) => Settled(w)'
  PROVE  WaInv'
<1>1. ob'[o] = r /\ \A q \in Request : q # o => ob'[q] = ob[q]
  OBVIOUS
<1>2. Session \subseteq Person /\ None \notin Person
  BY PersonIsNotNone DEF Person
<1>3. ASSUME NEW u \in Person, NEW q \in Request, Works(ob'[q], u)
      PROVE  Works(ob[q], u)
  <2>1. CASE q # o
    BY <1>1, <1>3, <2>1
  <2>2. CASE q = o
    BY <1>1, <1>2, <1>3, <2>2 DEF Works
  <2> QED
    BY <2>1, <2>2
<1>4. AloneInv'
  BY <1>3 DEF WaInv, AloneInv
<1>5. StoredInv'
  <2>1. ASSUME NEW q \in Request, ob'[q].pc \in Past
        PROVE  user'[ob'[q].who].state # "absent"
    <3>1. CASE q = o
      BY <1>1, <2>1, <3>1 DEF Past
    <3>2. CASE q # o
      <4>1. ob'[q] = ob[q] /\ user[ob[q].who].state # "absent"
        BY <1>1, <2>1, <3>2 DEF WaInv, StoredInv
      <4>2. CASE ob[q].who = w
        BY <4>1, <4>2
      <4>3. CASE ob[q].who \in Person /\ ob[q].who # w
        BY <4>1, <4>3
      <4>4. ob[q].who \in Person
        BY <2>1, <4>1 DEF WhoInv, WhoOK, Past
      <4> QED
        BY <4>2, <4>3, <4>4
    <3> QED
      BY <3>1, <3>2
  <2>2. ASSUME NEW u \in Session, user'[u].state = "absent"
        PROVE  user'[u].wa = "disconnected" /\ regen'[u] = "never"
    BY <1>2, <2>2 DEF WaInv, StoredInv
  <2> QED
    BY <2>1, <2>2 DEF StoredInv
<1>6. StatusInv'
  <2> SUFFICES ASSUME crashes' = 0, NEW u \in Session PROVE StatusOK(u)'
    BY DEF StatusInv
  <2>1. StatusOK(u)
    BY DEF WaInv, StatusInv
  <2>2. CASE u = w
    <3> SUFFICES ASSUME user'[u].state = "saved", u \notin crossed
                 PROVE  /\ \A q \in Request : ob'[q].who = u /\ FreshAt(ob'[q]) => Unmarked(u)'
                        /\ (\A q \in Request : ob'[q].who = u => ~OpenAt(ob'[q])) => Settled(u)'
      BY DEF StatusOK, Saved, FreshAt, OpenAt
    <3>1. /\ r.who = w /\ FreshAt(r) => Unmarked(w)'
          /\ ~(r.who = w /\ OpenAt(r)) => Settled(w)'
      BY <2>2
    <3>2. \A q \in Request : ob'[q].who = u => q = o
      <4>1. ASSUME NEW q \in Request, ob'[q].who = u PROVE q = o
        <5>1. Works(ob[q], u) /\ Works(ob[o], u)
          BY <1>2, <1>3, <2>2, <4>1 DEF Works
        <5> QED
          BY <1>2, <5>1 DEF WaInv, AloneInv
      <4> QED
        BY <4>1
    <3> QED
      BY <1>1, <2>2, <3>1, <3>2
  <2>3. CASE u # w
    <3>1. user'[u] = user[u] /\ regen'[u] = regen[u]
      BY <1>2, <2>3
    <3>2. ASSUME NEW q \in Request
          PROVE  /\ ob'[q].who = u /\ FreshAt(ob'[q]) => ob[q].who = u /\ FreshAt(ob[q])
                 /\ ob[q].who = u /\ OpenAt(ob[q]) => ob'[q].who = u /\ OpenAt(ob'[q])
      <4>1. CASE q # o
        BY <1>1, <4>1
      <4>2. CASE q = o
        BY <1>1, <2>3, <4>2 DEF FreshAt, OpenAt
      <4> QED
        BY <4>1, <4>2
    <3> QED
      BY <2>1, <3>1, <3>2 DEF StatusOK, Saved, Unmarked, Settled, FreshAt, OpenAt
  <2> QED
    BY <2>2, <2>3
<1> QED
  BY <1>4, <1>5, <1>6 DEF WaInv

(* A request that begins makes the persons it shares with another crossed. *)
LEMMA WaBegin ==
  ASSUME ob \in [Request -> ObRecord], WaInv, crashes' = 0 => crashes = 0,
         NEW o \in Request, ob[o] = ObIdle, NEW r, ob' = [ob EXCEPT ![o] = r],
         NEW U \in SUBSET Person, r.who \in U, r.rest \subseteq U,
         r.pc \in {"find", "load"}, crossed' = crossed \cup Busy(U),
         UNCHANGED <<user, regen>>
  PROVE  WaInv'
<1>1. ob'[o] = r /\ \A q \in Request : q # o => ob'[q] = ob[q]
  OBVIOUS
<1>2. Session \subseteq Person /\ None \notin Person
  BY PersonIsNotNone DEF Person
<1>3. AloneInv'
  <2> SUFFICES ASSUME NEW u \in Person, u \notin crossed', NEW p \in Request, NEW q \in Request,
                      Works(ob'[p], u), Works(ob'[q], u)
               PROVE  p = q
    BY DEF AloneInv, Works
  <2>1. u \notin crossed
    OBVIOUS
  <2>2. CASE u \in U
    <3>1. \A a \in Request : ~Works(ob[a], u)
      BY <2>2 DEF Busy, Works
    <3> QED
      BY <1>1, <3>1
  <2>3. CASE u \notin U
    <3>1. ~Works(r, u)
      BY <2>3 DEF Works
    <3>2. Works(ob[p], u) /\ Works(ob[q], u)
      BY <1>1, <3>1
    <3> QED
      BY <2>1, <3>2 DEF WaInv, AloneInv
  <2> QED
    BY <2>2, <2>3
<1>4. StoredInv'
  BY <1>1 DEF WaInv, StoredInv, Past
<1>5. StatusInv'
  <2> SUFFICES ASSUME crashes' = 0, NEW u \in Session PROVE StatusOK(u)'
    BY DEF StatusInv
  <2>1. StatusOK(u)
    BY DEF WaInv, StatusInv
  <2>2. ASSUME NEW q \in Request
        PROVE  /\ ob'[q].who = u /\ FreshAt(ob'[q]) => ob[q].who = u /\ FreshAt(ob[q])
               /\ ob[q].who = u /\ OpenAt(ob[q]) => ob'[q].who = u /\ OpenAt(ob'[q])
    <3>1. CASE q # o
      BY <1>1, <3>1
    <3>2. CASE q = o
      BY <1>1, <3>2, IdleIsTyped DEF FreshAt, OpenAt
    <3> QED
      BY <3>1, <3>2
  <2> QED
    BY <2>1, <2>2 DEF StatusOK, Saved, Unmarked, Settled, FreshAt, OpenAt
<1> QED
  BY <1>3, <1>4, <1>5 DEF WaInv

(* Requests that resume after a call, the documents as they were. *)
LEMMA WaFollow ==
  ASSUME ob \in [Request -> ObRecord], WhoInv, AnswerInv, WaInv,
         crashes' = 0 => crashes = 0, Follow
  PROVE  WaInv'
<1>1. ASSUME NEW q \in Request
      PROVE  /\ ob'[q].who = ob[q].who /\ ob'[q].rest = ob[q].rest
             /\ ob'[q].pc \in Past => ob[q].pc \in Past
             /\ FreshAt(ob'[q]) => FreshAt(ob[q])
             /\ OpenAt(ob[q]) => OpenAt(ob'[q])
  <2>1. \/ ob'[q] = ob[q]
        \/ ob[q].pc = "create" /\ \E l \in {"done", "code"} : ob'[q] = [ob[q] EXCEPT !.pc = l]
        \/ ob[q].pc = "close" /\ ob'[q] = [ob[q] EXCEPT !.pc = "recall"]
        \/ /\ ob[q].pc = "reopen"
           /\ \E l \in {"giveup", "connecting"} : ob'[q] = [ob[q] EXCEPT !.pc = l]
    BY FollowStep
  <2>2. ob[q] \in ObRecord /\ AnswerOK(ob[q], mailFaults)
    BY DEF AnswerInv
  <2>3. ASSUME NEW l, ob'[q] = [ob[q] EXCEPT !.pc = l],
               \/ ob[q].pc = "create" /\ l \in {"done", "code"}
               \/ ob[q].pc = "close" /\ l = "recall"
               \/ ob[q].pc = "reopen" /\ l \in {"giveup", "connecting"}
        PROVE  /\ ob'[q].who = ob[q].who /\ ob'[q].rest = ob[q].rest
               /\ ob[q].pc \in Past
               /\ FreshAt(ob'[q]) => FreshAt(ob[q])
               /\ OpenAt(ob[q]) => OpenAt(ob'[q])
    <3>1. /\ ob'[q].pc = l /\ ob'[q].who = ob[q].who /\ ob'[q].rest = ob[q].rest
          /\ ob'[q].saved = ob[q].saved
      BY <2>2, <2>3 DEF ObRecord
    <3> QED
      BY <2>2, <2>3, <3>1 DEF AnswerOK, FreshAt, OpenAt, Past
  <2>4. CASE ob'[q] = ob[q]
    BY <2>4
  <2> QED
    BY <2>1, <2>3, <2>4
<1>2. UNCHANGED <<user, crossed>>
  BY DEF Follow
<1>r. ASSUME NEW u \in Session
      PROVE  \/ regen'[u] = regen[u]
             \/ /\ regen'[u] = "rejected"
                /\ \E o \in Request : /\ ob[o].who = u /\ ob[o].pc = "create"
                                      /\ ob'[o].pc = "done"
  <2>1. CASE regen'[u] = regen[u]
    BY <2>1
  <2>2. CASE regen'[u] # regen[u]
    <3>1. PICK o \in Request : /\ Returns(o) /\ Rejects(o)
                              /\ ob[o].pc = "create" /\ Who(o) = u
      BY <2>2 DEF Follow
    <3>2. regen'[u] = "rejected"
      BY <3>1 DEF Follow
    <3>3. ob'[o] = [ob[o] EXCEPT !.pc = "done"]
      BY <3>1 DEF Follow, Resumed
    <3>4. ob'[o].pc = "done"
      BY <3>3 DEF ObRecord
    <3> QED
      BY <3>1, <3>2, <3>4 DEF Who
  <2> QED
    BY <2>1, <2>2
<1>3. AloneInv'
  BY <1>1, <1>2 DEF WaInv, AloneInv, Works
<1>4. StoredInv'
  <2>1. ASSUME NEW u \in Session, user'[u].state = "absent"
        PROVE  user'[u].wa = "disconnected" /\ regen'[u] = "never"
    <3>1. \A o \in Request : ob[o].who = u => ob[o].pc # "create"
      BY <1>2, <2>1 DEF WaInv, StoredInv, Past
    <3> QED
      BY <1>2, <1>r, <2>1, <3>1 DEF WaInv, StoredInv
  <2> QED
    BY <1>1, <1>2, <2>1 DEF WaInv, StoredInv
<1>5. StatusInv'
  <2> SUFFICES ASSUME crashes' = 0, NEW u \in Session PROVE StatusOK(u)'
    BY DEF StatusInv
  <2>1. StatusOK(u)
    BY DEF WaInv, StatusInv
  <2>2. \A q \in Request :
          /\ ob'[q].who = ob[q].who
          /\ FreshAt(ob'[q]) => FreshAt(ob[q])
          /\ OpenAt(ob[q]) => OpenAt(ob'[q])
    BY <1>1
  <2>3. CASE regen'[u] = regen[u]
    BY <1>2, <2>1, <2>2, <2>3 DEF StatusOK, Saved, Unmarked, Settled, FreshAt, OpenAt
  <2>4. CASE regen'[u] # regen[u]
    <3> SUFFICES ASSUME user[u].state = "saved", u \notin crossed
                 PROVE  /\ \A q \in Request : ob'[q].who = u /\ FreshAt(ob'[q]) => Unmarked(u)'
                        /\ (\A q \in Request : ob'[q].who = u => ~OpenAt(ob'[q])) => Settled(u)'
      BY <1>2 DEF StatusOK, Saved, FreshAt, OpenAt
    <3>1. PICK o \in Request : ob[o].who = u /\ ob[o].pc = "create" /\ ob'[o].pc = "done"
      BY <1>r, <2>4
    <3>2. \A q \in Request : ob'[q].who = u => q = o
      <4>1. ASSUME NEW q \in Request, ob'[q].who = u PROVE q = o
        <5>1. u \in Person /\ Works(ob[q], u) /\ Works(ob[o], u)
          BY <1>1, <3>1, <4>1 DEF Works, Person
        <5> QED
          BY <5>1 DEF WaInv, AloneInv
      <4> QED
        BY <4>1
    <3>3. ~FreshAt(ob'[o])
      BY <3>1 DEF FreshAt
    <3>4. user[u].wa = "disconnected" /\ regen'[u] = "rejected"
      <4>1. Unmarked(u)
        BY <2>1, <3>1 DEF StatusOK, Saved, FreshAt
      <4> QED
        BY <1>r, <2>4, <4>1 DEF Unmarked
    <3>5. Settled(u)'
      BY <1>2, <3>4 DEF Settled
    <3> QED
      BY <3>2, <3>3, <3>5
  <2> QED
    BY <2>3, <2>4
<1> QED
  BY <1>3, <1>4, <1>5 DEF WaInv

(* Nothing of a request moves; documents may be removed. *)
LEMMA WaSame ==
  ASSUME WaInv, WhoInv, user \in [Person -> [state : {"absent", "saved", "removed"},
                            wa : {"disconnected", "connecting", "failed"}]],
         crashes' = 0 => crashes = 0, UNCHANGED <<ob, regen, crossed>>,
         \/ UNCHANGED user
         \/ \E u \in Person : user' = [user EXCEPT ![u].state = "removed"]
  PROVE  WaInv'
<1>1. \A u \in Person : user'[u].state \in {user[u].state, "removed"} /\ user'[u].wa = user[u].wa
  OBVIOUS
<1>2. Session \subseteq Person
  BY DEF Person
<1>3. AloneInv'
  BY DEF WaInv, AloneInv
<1>4. StoredInv'
  <2>1. ASSUME NEW q \in Request, ob[q].pc \in Past
        PROVE  user'[ob[q].who].state # "absent"
    <3>1. ob[q].who \in Person
      BY <2>1 DEF WhoInv, WhoOK, Past
    <3> QED
      BY <1>1, <2>1, <3>1 DEF WaInv, StoredInv
  <2> QED
    BY <1>1, <1>2, <2>1 DEF WaInv, StoredInv
<1>5. StatusInv'
  <2> SUFFICES ASSUME crashes' = 0, NEW u \in Session PROVE StatusOK(u)'
    BY DEF StatusInv
  <2>1. StatusOK(u)
    BY DEF WaInv, StatusInv
  <2>2. (Saved(u)' => Saved(u)) /\ user'[u].wa = user[u].wa
    BY <1>1, <1>2 DEF Saved
  <2> QED
    BY <2>1, <2>2 DEF StatusOK, Unmarked, Settled
<1> QED
  BY <1>3, <1>4, <1>5 DEF WaInv

(* Only the death of the process counts as one. *)
LEMMA CrashesCount ==
  TypeOK /\ [Next]_vars => crashes' = crashes \/ Crash
<1> SUFFICES ASSUME TypeOK, [Next]_vars PROVE crashes' = crashes \/ Crash
  OBVIOUS
<1>1. ASSUME NEW o \in Request, NEW s \in Session,
             StartCreateSession(o, s) \/ StartDisconnectSession(o, s)
      PROVE  crashes' = crashes
  BY <1>1 DEF StartCreateSession, StartDisconnectSession, budgets
<1>2. ASSUME NEW o \in Slot, Operate(o) PROVE crashes' = crashes
  BY <1>2 DEF Operate, FindSession, InsertSession, TouchSession, InitializeClient,
     ClientInitialized, ClientInitFails, MarkInitFailed, CloseClient, MarkDisconnected, budgets
<1>3. ASSUME NEW o \in Slot, OperationDbError(o) PROVE crashes' = crashes
  BY <1>3 DEF OperationDbError
<1>4. ASSUME NEW c \in Client, Library(c) PROVE crashes' = crashes
  BY <1>4 DEF Library, EmitQR, EmitAuthenticated, EmitReady, EmitDisconnected,
              EmitAuthFailure, Emit, budgets
<1>5. ASSUME NEW c \in Client, Handle(c) PROVE crashes' = crashes
  BY <1>5 DEF Handle, HandleQRCode, HandleAuthenticated, HandleReady, HandleAuthFailure,
              HandleDisconnected, DropClient, HandleFailed, budgets
<1>6. ASSUME NEW c \in Client, HandlerDbError(c) PROVE crashes' = crashes
  BY <1>6 DEF HandlerDbError
<1>7. ASSUME NEW s \in Session, ReconnectNext(s) PROVE crashes' = crashes
  BY <1>7 DEF ReconnectNext, budgets
<1>8. CASE Listen \/ Restart
  BY <1>8 DEF Listen, Restart, budgets
<1> QED
  BY <1>1, <1>2, <1>3, <1>4, <1>5, <1>6, <1>7, <1>8 DEF Next, vars, budgets

(* The move of one request to another place, nothing written. *)
LEMMA WaTo ==
  ASSUME ob \in [Request -> ObRecord], WhoInv, WaInv, crashes' = 0 => crashes = 0,
         NEW o \in Request, NEW r, ob' = [ob EXCEPT ![o] = r],
         UNCHANGED <<user, regen, crossed>>, ob[o].pc # "idle",
         r.who = ob[o].who, r.rest = ob[o].rest,
         r.pc \in Past => user[ob[o].who].state # "absent",
         FreshAt(r) => FreshAt(ob[o]), OpenAt(ob[o]) => OpenAt(r)
  PROVE  WaInv'
<1>1. PICK w \in Person : ob[o].who = w
  BY DEF WhoInv, WhoOK
<1>2. w \in Session /\ user'[w].state = "absent" => user'[w].wa = "disconnected" /\ regen'[w] = "never"
  BY <1>1 DEF WaInv, StoredInv
<1>3. ASSUME crashes' = 0, w \in Session, user'[w].state = "saved", w \notin crossed
      PROVE  /\ r.who = w /\ FreshAt(r) => Unmarked(w)'
             /\ ~(r.who = w /\ OpenAt(r)) => Settled(w)'
  <2>1. StatusOK(w)
    BY <1>3 DEF WaInv, StatusInv
  <2>2. FreshAt(ob[o]) => Unmarked(w)
    BY <1>1, <1>3, <2>1 DEF StatusOK, Saved
  <2>3. ASSUME ~OpenAt(ob[o]) PROVE Settled(w)
    <3>1. ASSUME NEW q \in Request, ob[q].who = w PROVE q = o
      <4>1. Works(ob[q], w) /\ Works(ob[o], w)
        BY <1>1, <3>1 DEF Works
      <4> QED
        BY <1>1, <1>3, <4>1 DEF WaInv, AloneInv
    <3> QED
      BY <1>1, <1>3, <2>1, <2>3, <3>1 DEF StatusOK, Saved
  <2> QED
    BY <1>1, <2>2, <2>3 DEF Unmarked, Settled
<1>4. /\ ob[o].who = w /\ r.who = w
      /\ r.who = w \/ r.who \in ob[o].rest \cup {None}
      /\ r.rest \subseteq ob[o].rest
      /\ r.who # w => r.pc \in {"idle", "find"}
  BY <1>1
<1>5. /\ UNCHANGED crossed
      /\ \A u \in Person : u # w => user'[u] = user[u]
      /\ \A u \in Session : u # w => regen'[u] = regen[u]
      /\ user[w].state # "absent" => user'[w].state # "absent"
      /\ r.who = w /\ r.pc \in Past => user'[w].state # "absent"
  BY <1>1
<1> QED
  BY <1>2, <1>3, <1>4, <1>5, WaMove

(* The move of one request by a plain change of its label. *)
LEMMA WaLabel ==
  ASSUME ob \in [Request -> ObRecord], WhoInv, WaInv, crashes' = 0 => crashes = 0,
         NEW o \in Request, NEW l, To(o, l), UNCHANGED <<user, regen, crossed>>,
         \/ ob[o].pc = "find" /\ l = "save"
         \/ ob[o].pc = "call" /\ l = "create"
         \/ ob[o].pc = "recall" /\ l = "reopen"
         \/ ob[o].pc = "code" /\ ob[o].saved /\ l \in {"mail", "fail", "done"}
         \/ ob[o].pc = "code" /\ ~ob[o].saved /\ l \in {"confirm", "giveup"}
         \/ ob[o].pc = "notice" /\ l = "done"
         \/ ob[o].pc = "welcome" /\ l = "done"
         \/ ob[o].pc = "connecting" /\ l = "giveup"
         \/ ob[o].pc = "confirm" /\ l = "giveup"
  PROVE  WaInv'
<1> DEFINE r == [ob[o] EXCEPT !.pc = l]
<1>1. ob' = [ob EXCEPT ![o] = r]
  BY ObMove DEF To
<1>2. r.pc = l /\ r.who = ob[o].who /\ r.rest = ob[o].rest /\ r.saved = ob[o].saved
  BY DEF ObRecord
<1>3. r.pc \in Past => user[ob[o].who].state # "absent"
  BY <1>2 DEF WaInv, StoredInv, Past
<1>4. (FreshAt(r) => FreshAt(ob[o])) /\ (OpenAt(ob[o]) => OpenAt(r))
  BY <1>2 DEF FreshAt, OpenAt
<1>5. ob[o].pc # "idle"
  OBVIOUS
<1> HIDE DEF r
<1> QED
  BY <1>1, <1>2, <1>3, <1>4, <1>5, WaTo

(* What the invariant says of the one request a person has. *)
LEMMA WaHere ==
  ASSUME WaInv, crashes = 0, NEW o \in Request, NEW w \in Session, ob[o].who = w,
         user[w].state = "saved", w \notin crossed
  PROVE  /\ FreshAt(ob[o]) => Unmarked(w)
         /\ ~OpenAt(ob[o]) => Settled(w)
<1>1. StatusOK(w)
  BY DEF WaInv, StatusInv
<1>2. ASSUME NEW q \in Request, ob[q].who = w PROVE q = o
  <2>1. Works(ob[q], w) /\ Works(ob[o], w) /\ w \in Person
    BY <1>2 DEF Works, Person
  <2> QED
    BY <2>1 DEF WaInv, AloneInv
<1> QED
  BY <1>1, <1>2 DEF StatusOK, Saved

(* The end of one person's turn in a request, nothing written. *)
LEMMA WaNext ==
  ASSUME ob \in [Request -> ObRecord], WhoInv, WaInv, crashes' = 0 => crashes = 0,
         NEW o \in Request, ob[o].pc \in {"done", "load"},
         NEW r, ob' = [ob EXCEPT ![o] = r], UNCHANGED <<user, regen, crossed>>,
         r.who \in ob[o].rest \cup {None}, r.rest \subseteq ob[o].rest,
         r.pc \in {"idle", "find"}
  PROVE  WaInv'
<1>1. PICK w \in Person : ob[o].who = w
  BY DEF WhoInv, WhoOK
<1>2. /\ w \in Session /\ user'[w].state = "absent" =>
           user'[w].wa = "disconnected" /\ regen'[w] = "never"
      /\ r.who = w /\ r.pc \in Past => user'[w].state # "absent"
      /\ r.who = w \/ r.who \in ob[o].rest \cup {None}
      /\ \A u \in Person : u # w => user'[u] = user[u]
      /\ \A u \in Session : u # w => regen'[u] = regen[u]
  BY DEF WaInv, StoredInv, Past
<1>3. ~FreshAt(r) /\ ~OpenAt(ob[o])
  BY DEF FreshAt, OpenAt
<1>4. ASSUME crashes' = 0, w \in Session, user'[w].state = "saved", w \notin crossed
      PROVE  /\ r.who = w /\ FreshAt(r) => Unmarked(w)'
             /\ ~(r.who = w /\ OpenAt(r)) => Settled(w)'
  <2>1. Settled(w)
    BY <1>1, <1>3, <1>4, WaHere
  <2> QED
    BY <1>3, <2>1 DEF Settled
<1> QED
  BY <1>1, <1>2, <1>4, WaMove

LEMMA WaFailsInvite ==
  ASSUME ob \in [Request -> ObRecord], WhoInv, WaInv, crashes' = 0 => crashes = 0,
         NEW o \in Request, ob[o].pc \in {"find", "save", "welcome"},
         ob' = [ob EXCEPT ![o].pc = "done", ![o].ok = FALSE],
         UNCHANGED <<user, regen, crossed>>
  PROVE  WaInv'
<1> DEFINE r == [ob[o] EXCEPT !.pc = "done", !.ok = FALSE]
<1>1. ob' = [ob EXCEPT ![o] = r]
  BY ObMove
<1>2. r.pc = "done" /\ r.who = ob[o].who /\ r.rest = ob[o].rest
  BY DEF ObRecord
<1>3. ~FreshAt(r) /\ ~OpenAt(ob[o]) /\ r.pc \notin Past /\ ob[o].pc # "idle"
  BY <1>2 DEF FreshAt, OpenAt, Past
<1> HIDE DEF r
<1> QED
  BY <1>1, <1>2, <1>3, WaTo

LEMMA WaSave ==
  ASSUME ob \in [Request -> ObRecord], RestTyped, WhoInv, WaInv,
         crashes' = 0 => crashes = 0, NEW o \in Request, SaveInvitee(o)
  PROVE  WaInv'
<1>1. PICK w \in Person : ob[o].who = w
  BY DEF SaveInvitee, WhoInv, WhoOK
<1>2. ob[o].pc = "save" /\ UNCHANGED <<regen, crossed>>
  BY DEF SaveInvitee
<1>3. CASE user[w].state # "absent"
  <2>1. ob' = [ob EXCEPT ![o].pc = "done", ![o].ok = FALSE] /\ UNCHANGED user
    BY <1>1, <1>3 DEF SaveInvitee, Who
  <2> QED
    BY <1>2, <2>1, WaFailsInvite
<1>4. CASE user[w].state = "absent"
  <2>1. PICK l \in {"call", "welcome"} :
          /\ ob' = [ob EXCEPT ![o].pc = l, ![o].saved = TRUE]
          /\ w \in Session => l = "call"
    <3>1. ob' = [ob EXCEPT ![o].pc = IF w \in Session THEN "call" ELSE "welcome",
                           ![o].saved = TRUE]
      BY <1>1, <1>4 DEF SaveInvitee, Who
    <3>2. CASE w \in Session
      BY <3>1, <3>2
    <3>3. CASE w \notin Session
      BY <3>1, <3>3
    <3> QED
      BY <3>2, <3>3
  <2> DEFINE r == [ob[o] EXCEPT !.pc = l, !.saved = TRUE]
  <2>2. ob' = [ob EXCEPT ![o] = r]
    BY <2>1, ObMove
  <2>3. r.pc = l /\ r.who = w /\ r.rest = ob[o].rest
    BY <1>1 DEF ObRecord
  <2>4. /\ \A u \in Person : u # w => user'[u] = user[u]
        /\ user'[w].state = "saved" /\ user'[w].wa = user[w].wa
    BY <1>1, <1>4 DEF SaveInvitee, Who, RestTyped
  <2>5. ~OpenAt(r)
    BY <2>3 DEF OpenAt
  <2>6. w \in Session => Unmarked(w)' /\ Settled(w)'
    BY <1>2, <1>4, <2>4 DEF WaInv, StoredInv, Unmarked, Settled
  <2>7. /\ r.who = w \/ r.who \in ob[o].rest \cup {None}
        /\ r.rest \subseteq ob[o].rest
        /\ r.who # w => r.pc \in {"idle", "find"}
        /\ \A u \in Session : u # w => regen'[u] = regen[u]
        /\ user[w].state # "absent" => user'[w].state # "absent"
        /\ w \in Session /\ user'[w].state = "absent" =>
             user'[w].wa = "disconnected" /\ regen'[w] = "never"
        /\ r.who = w /\ r.pc \in Past => user'[w].state # "absent"
    BY <1>2, <2>3, <2>4
  <2> HIDE DEF r
  <2>8. crashes' = 0 /\ w \in Session /\ user'[w].state = "saved" /\ w \notin crossed =>
           /\ r.who = w /\ FreshAt(r) => Unmarked(w)'
           /\ ~(r.who = w /\ OpenAt(r)) => Settled(w)'
    BY <2>6
  <2> QED
    BY <1>1, <1>2, <2>2, <2>4, <2>7, <2>8, WaMove
<1> QED
  BY <1>3, <1>4

(* A request that writes the outcome of the person it works on, whose document is
   stored. *)
LEMMA WaWrite ==
  ASSUME ob \in [Request -> ObRecord], RestTyped, WhoInv, WaInv,
         crashes' = 0 => crashes = 0, NEW o \in Request, NEW w \in Session,
         ob[o].who = w, ob[o].pc \in Past, UNCHANGED crossed,
         NEW r, ob' = [ob EXCEPT ![o] = r], r.rest \subseteq ob[o].rest,
         \/ r.who = w
         \/ r.who = None /\ r.pc = "idle",
         UNCHANGED user \/ \E wa \in {"connecting", "failed"} : SetWa(w, wa),
         \A u \in Session : u # w => regen'[u] = regen[u],
         ~FreshAt(r) \/ r.who # w,
         \/ crashes' # 0 \/ w \in crossed \/ user[w].state # "saved"
         \/ Settled(w)'
         \/ r.who = w /\ OpenAt(r)
  PROVE  WaInv'
<1>1. w \in Person
  BY DEF Person
<1>2. user[w].state # "absent"
  BY DEF WaInv, StoredInv
<1>3. /\ \A u \in Person : u # w => user'[u] = user[u]
      /\ user'[w].state = user[w].state
  BY <1>1 DEF SetWa, RestTyped
<1>4. /\ r.who = w \/ r.who \in ob[o].rest \cup {None}
      /\ r.who # w => r.pc \in {"idle", "find"}
      /\ user[w].state # "absent" => user'[w].state # "absent"
      /\ w \in Session /\ user'[w].state = "absent" =>
             user'[w].wa = "disconnected" /\ regen'[w] = "never"
      /\ r.who = w /\ r.pc \in Past => user'[w].state # "absent"
  BY <1>2, <1>3
<1>5. crashes' = 0 /\ w \in Session /\ user'[w].state = "saved" /\ w \notin crossed =>
           /\ r.who = w /\ FreshAt(r) => Unmarked(w)'
           /\ ~(r.who = w /\ OpenAt(r)) => Settled(w)'
  BY <1>3
<1> QED
  BY <1>1, <1>3, <1>4, <1>5, WaMove

LEMMA WaStep ==
  TypeOK /\ ObTypeOK /\ WhoInv /\ AnswerInv /\ WaInv /\ [ObNext]_allVars => WaInv'
<1> SUFFICES ASSUME TypeOK, ObTypeOK, WhoInv, AnswerInv, WaInv, [ObNext]_allVars
             PROVE  WaInv'
  OBVIOUS
<1>a. /\ ob \in [Request -> ObRecord] /\ \A o \in Request : ob[o] \in ObRecord
      /\ RestTyped
  BY ObTypeParts
<1>b. crashes \in Nat /\ \A o \in Request : AnswerOK(ob[o], mailFaults)
  BY DEF TypeOK, AnswerInv
<1>c. crashes' = 0 => crashes = 0
  <2>1. ASSUME [Next]_vars PROVE crashes' = 0 => crashes = 0
    <3>1. CASE crashes' = crashes
      BY <3>1
    <3>2. CASE Crash
      BY <1>b, <3>2 DEF Crash
    <3> QED
      BY <2>1, <3>1, <3>2, CrashesCount
  <2>2. ASSUME ReadFails PROVE crashes' = 0 => crashes = 0
    BY <2>2 DEF ReadFails
  <2> QED
    BY <2>1, <2>2, ServiceStep
<1>1. ASSUME NEW o \in Request, NEW U \in SUBSET Person, StartInvite(o, U) PROVE WaInv'
  <2>1. PICK u \in U :
          Begin(o, [ObIdle EXCEPT !.pc = "find", !.who = u, !.rest = U \ {u}], U)
    BY <1>1 DEF StartInvite
  <2> DEFINE r == [ObIdle EXCEPT !.pc = "find", !.who = u, !.rest = U \ {u}]
  <2>2. r.pc = "find" /\ r.who = u /\ r.rest = U \ {u}
    BY DEF ObIdle
  <2>3. /\ ob[o] = ObIdle /\ ob' = [ob EXCEPT ![o] = r] /\ crossed' = crossed \cup Busy(U)
        /\ UNCHANGED <<user, regen>>
    BY <2>1 DEF Begin
  <2> HIDE DEF r
  <2> QED
    BY <1>a, <1>c, <2>2, <2>3, WaBegin
<1>2. ASSUME NEW o \in Request, NEW u \in Session, StartRegenerate(o, u) PROVE WaInv'
  <2> DEFINE r == [ObIdle EXCEPT !.pc = "load", !.who = u]
  <2>1. r.pc = "load" /\ r.who \in {u} /\ r.rest \subseteq {u}
    BY DEF ObIdle
  <2>2. /\ ob[o] = ObIdle /\ ob' = [ob EXCEPT ![o] = r] /\ crossed' = crossed \cup Busy({u})
        /\ UNCHANGED <<user, regen>>
    BY <1>2 DEF StartRegenerate, Begin
  <2>3. {u} \in SUBSET Person
    BY DEF Person
  <2> HIDE DEF r
  <2> QED
    BY <1>a, <1>c, <2>1, <2>2, <2>3, WaBegin
<1>3. ASSUME NEW o \in Request, FindInvitee(o) PROVE WaInv'
  <2>1. ob[o].pc = "find" /\ UNCHANGED <<user, regen, crossed>>
    BY <1>3 DEF FindInvitee
  <2>2. To(o, "save") \/ ob' = [ob EXCEPT ![o].pc = "done", ![o].ok = FALSE]
    BY <1>3 DEF FindInvitee
  <2> QED
    BY <1>a, <1>c, <2>1, <2>2, WaLabel, WaFailsInvite
<1>4. ASSUME NEW o \in Request, SaveInvitee(o) PROVE WaInv'
  BY <1>4, <1>a, <1>c, WaSave
<1>5. ASSUME NEW o \in Request, CallCreateSession(o) PROVE WaInv'
  <2>1. /\ UNCHANGED <<user, regen, crossed>>
        /\ \/ ob[o].pc = "call" /\ To(o, "create")
           \/ ob[o].pc = "recall" /\ To(o, "reopen")
    BY <1>5 DEF CallCreateSession
  <2> QED
    BY <1>a, <1>c, <2>1, WaLabel
<1>w. ASSUME NEW o \in Request, ob[o].pc \in Past, ob[o].pc \in Phoned, UNCHANGED crossed,
             NEW l \in {"notice", "done", "code"}, To(o, l),
             l = "code" => ~ob[o].saved,
             UNCHANGED user \/ \E wa \in {"connecting", "failed"} : SetWa(Who(o), wa),
             \A u \in Session : u # Who(o) => regen'[u] = regen[u],
             \/ crashes' # 0 \/ Who(o) \in crossed \/ ~Saved(Who(o))
             \/ \A v \in Session : v = Who(o) => Settled(v)'
             \/ l = "code"
      PROVE  WaInv'
  <2>1. PICK w \in Session : ob[o].who = w
    BY <1>w DEF WhoInv, WhoOK, Phoned
  <2> DEFINE r == [ob[o] EXCEPT !.pc = l]
  <2>2. ob' = [ob EXCEPT ![o] = r]
    BY <1>a, <1>w, ObMove DEF To
  <2>3. /\ r.pc = l /\ r.who = w /\ r.rest = ob[o].rest /\ r.saved = ob[o].saved
    BY <1>a, <2>1 DEF ObRecord
  <2>4. ~FreshAt(r) /\ (l = "code" => OpenAt(r))
    BY <1>w, <2>3 DEF FreshAt, OpenAt
  <2>5. /\ UNCHANGED user \/ \E wa \in {"connecting", "failed"} : SetWa(w, wa)
        /\ \A u \in Session : u # w => regen'[u] = regen[u]
        /\ \/ crashes' # 0 \/ w \in crossed \/ user[w].state # "saved"
           \/ Settled(w)'
           \/ l = "code"
    BY <1>w, <2>1 DEF Who, Saved
  <2> HIDE DEF r
  <2> QED
    BY <1>a, <1>c, <1>w, <2>1, <2>2, <2>3, <2>4, <2>5, WaWrite
<1>6. ASSUME NEW o \in Request, ReadCode(o) PROVE WaInv'
  <2>1. ob[o].pc = "code" /\ UNCHANGED <<user, crossed>>
    BY <1>6 DEF ReadCode
  <2>2. ASSUME NEW l, l = IF ob[o].saved THEN "mail" ELSE "confirm",
               ob' = [ob EXCEPT ![o].code = GetQRCode(o), ![o].pc = l],
               UNCHANGED regen
        PROVE  WaInv'
    <3> DEFINE r == [ob[o] EXCEPT !.pc = l, !.code = GetQRCode(o)]
    <3>1. ob' = [ob EXCEPT ![o] = r]
      <4>1. [ob EXCEPT ![o].code = GetQRCode(o), ![o].pc = l] = [ob EXCEPT ![o] = r]
        BY <1>a, ObMove, ZenonT(40)
      <4> QED
        BY <2>2, <4>1
    <3>2. /\ r.pc = l /\ r.who = ob[o].who /\ r.rest = ob[o].rest /\ r.saved = ob[o].saved
      BY <1>a DEF ObRecord
    <3>3. (FreshAt(r) => FreshAt(ob[o])) /\ (OpenAt(ob[o]) => OpenAt(r))
      BY <2>1, <2>2, <3>2 DEF FreshAt, OpenAt
    <3>4. user[ob[o].who].state # "absent" /\ ob[o].pc # "idle"
      BY <2>1 DEF WaInv, StoredInv, Past
    <3> HIDE DEF r
    <3> QED
      BY <1>a, <1>c, <2>1, <2>2, <3>1, <3>2, <3>3, <3>4, WaTo
  <2>3. ASSUME NEW l, To(o, l), UNCHANGED regen,
               \/ l = IF ob[o].saved THEN "fail" ELSE "giveup"
               \/ ~ob[o].saved /\ l = "giveup"
        PROVE  WaInv'
    <3>1. ob[o].saved \in BOOLEAN
      BY <1>a DEF ObRecord
    <3> QED
      BY <1>a, <1>c, <2>1, <2>3, <3>1, WaLabel
  <2>4. ASSUME ob[o].saved, To(o, "done"), regen' = [regen EXCEPT ![Who(o)] = "rejected"]
        PROVE  WaInv'
    <3>1. PICK w \in Session : Who(o) = w /\ ob[o].who = w
      BY <2>1 DEF WhoInv, WhoOK, Phoned, Who
    <3>2. regen'[w] = "rejected" /\ \A u \in Session : u # w => regen'[u] = regen[u]
      BY <1>a, <2>4, <3>1 DEF RestTyped
    <3>3. \/ crashes' # 0 \/ w \in crossed \/ ~Saved(w)
          \/ Settled(w)'
      <4>1. ASSUME crashes = 0, w \notin crossed, Saved(w)
            PROVE  user[w].wa = "disconnected"
        BY <2>1, <2>4, <3>1, <4>1, WaHere DEF FreshAt, Unmarked, Saved
      <4> QED
        BY <1>c, <2>1, <3>2, <4>1 DEF Settled
    <3>4. ob[o].pc \in Past /\ ob[o].pc \in Phoned
      BY <2>1 DEF Past, Phoned
    <3> QED
      BY <1>w, <2>1, <2>4, <3>1, <3>2, <3>3, <3>4
  <2> QED
    BY <1>6, <2>2, <2>3, <2>4 DEF ReadCode
<1>7. ASSUME NEW o \in Request, MarkUserFailed(o) PROVE WaInv'
  <2>1. PICK w \in Session : Who(o) = w /\ w \in Person
    BY <1>7 DEF MarkUserFailed, WhoInv, WhoOK, Phoned, Who
  <2>2. /\ ob[o].pc \in Past /\ ob[o].pc \in Phoned /\ UNCHANGED crossed
        /\ regen' = [regen EXCEPT ![w] = "nocode"]
        /\ \/ Saved(w) /\ SetWa(w, "failed") /\ To(o, "notice")
           \/ ~Saved(w) /\ UNCHANGED user /\ To(o, "done")
    BY <1>7, <2>1 DEF MarkUserFailed, Past, Phoned
  <2>3. regen'[w] = "nocode" /\ \A u \in Session : u # w => regen'[u] = regen[u]
    BY <1>a, <2>2 DEF RestTyped
  <2>4. SetWa(w, "failed") => user'[w].wa = "failed"
    BY <1>a, <2>1 DEF SetWa, RestTyped
  <2> QED
    BY <1>w, <2>1, <2>2, <2>3, <2>4 DEF Settled
<1>8. ASSUME NEW o \in Request, MailInvitation(o) PROVE WaInv'
  <2>1. PICK w \in Session : Who(o) = w /\ ob[o].who = w
    BY <1>8 DEF MailInvitation, WhoInv, WhoOK, Phoned, Who
  <2>2. To(o, "done") /\ UNCHANGED <<user, crossed>>
    BY <1>8 DEF MailInvitation
  <2>3. CASE ob[o].pc = "notice"
    <3>1. UNCHANGED regen
      BY <1>8, <2>3 DEF MailInvitation
    <3> QED
      BY <1>a, <1>c, <2>2, <2>3, <3>1, WaLabel
  <2>4. CASE ob[o].pc = "mail"
    <3>1. regen' = [regen EXCEPT ![w] = "code"]
      BY <1>8, <2>1, <2>4 DEF MailInvitation
    <3>2. regen'[w] = "code" /\ \A u \in Session : u # w => regen'[u] = regen[u]
      BY <1>a, <3>1 DEF RestTyped
    <3>3. \/ crashes' # 0 \/ w \in crossed \/ ~Saved(w)
          \/ Settled(w)'
      <4>1. ASSUME crashes = 0, w \notin crossed, Saved(w)
            PROVE  user[w].wa = "disconnected"
        BY <2>1, <2>4, <4>1, WaHere DEF FreshAt, Unmarked, Saved
      <4> QED
        BY <1>c, <2>2, <3>2, <4>1 DEF Settled
    <3>4. ob[o].pc \in Past /\ ob[o].pc \in Phoned
      BY <2>4 DEF Past, Phoned
    <3> QED
      BY <1>w, <2>1, <2>2, <3>2, <3>3, <3>4
  <2> QED
    BY <1>8, <2>3, <2>4 DEF MailInvitation
<1>9. ASSUME NEW o \in Request, MailWelcome(o) PROVE WaInv'
  <2>1. ob[o].pc = "welcome" /\ UNCHANGED <<user, regen, crossed>>
    BY <1>9 DEF MailWelcome
  <2>2. To(o, "done") \/ ob' = [ob EXCEPT ![o].pc = "done", ![o].ok = FALSE]
    BY <1>9 DEF MailWelcome, SendToDLQ
  <2> QED
    BY <1>a, <1>c, <2>1, <2>2, WaLabel, WaFailsInvite
<1>10. ASSUME NEW o \in Request, NextInvitee(o) PROVE WaInv'
  <2>1. ob[o].pc = "done" /\ UNCHANGED <<user, regen, crossed>>
    BY <1>10 DEF NextInvitee
  <2>2. ASSUME NEW u \in ob[o].rest,
               ob' = [ob EXCEPT ![o] = [ObIdle EXCEPT !.pc = "find", !.who = u,
                                                      !.rest = ob[o].rest \ {u}]]
        PROVE  WaInv'
    <3> DEFINE r == [ObIdle EXCEPT !.pc = "find", !.who = u, !.rest = ob[o].rest \ {u}]
    <3>1. r.pc = "find" /\ r.who = u /\ r.rest = ob[o].rest \ {u}
      BY DEF ObIdle
    <3>2. ob' = [ob EXCEPT ![o] = r]
      BY <2>2
    <3> HIDE DEF r
    <3> QED
      BY <1>a, <1>c, <2>1, <3>1, <3>2, WaNext
  <2>3. CASE ob' = [ob EXCEPT ![o] = ObIdle]
    BY <1>a, <1>c, <2>1, <2>3, IdleIsTyped, WaNext
  <2> QED
    BY <1>10, <2>2, <2>3 DEF NextInvitee
<1>11. ASSUME NEW o \in Request, LoadUser(o) PROVE WaInv'
  <2>1. ob[o].pc = "load" /\ UNCHANGED <<user, regen, crossed>>
    BY <1>11 DEF LoadUser
  <2>2. CASE ob' = [ob EXCEPT ![o] = ObIdle]
    BY <1>a, <1>c, <2>1, <2>2, IdleIsTyped, WaNext
  <2>3. CASE /\ Saved(Who(o))
             /\ ob' = [ob EXCEPT ![o].pc = "close",
                                 ![o].before = {c \in Client : owner[c] = Who(o)}]
    <3> DEFINE b == {c \in Client : owner[c] = Who(o)}
               r == [ob[o] EXCEPT !.pc = "close", !.before = b]
    <3>1. ob' = [ob EXCEPT ![o] = r]
      BY <1>a, <2>3, ObMove
    <3>2. r.pc = "close" /\ r.who = ob[o].who /\ r.rest = ob[o].rest
      BY <1>a DEF ObRecord
    <3>3. user[ob[o].who].state # "absent" /\ ob[o].pc # "idle"
      BY <2>1, <2>3 DEF Saved, Who
    <3>4. ~FreshAt(r) /\ ~OpenAt(ob[o])
      BY <2>1, <3>2 DEF FreshAt, OpenAt
    <3> HIDE DEF r
    <3> QED
      BY <1>a, <1>c, <2>1, <3>1, <3>2, <3>3, <3>4, WaTo
  <2> QED
    BY <1>11, <2>2, <2>3 DEF LoadUser
<1>12. ASSUME NEW o \in Request, MarkConnecting(o) PROVE WaInv'
  <2>1. ob[o].pc = "connecting" /\ UNCHANGED <<regen, crossed>> /\ ~ob[o].saved
    BY <1>12, <1>b DEF MarkConnecting, AnswerOK
  <2>2. CASE UNCHANGED user /\ To(o, "giveup")
    BY <1>a, <1>c, <2>1, <2>2, WaLabel
  <2>3. CASE SetWa(Who(o), "connecting") /\ To(o, "code")
    BY <1>w, <2>1, <2>3 DEF Past, Phoned
  <2> QED
    BY <1>12, <2>2, <2>3 DEF MarkConnecting
<1>i. ASSUME NEW o \in Request, ob[o].pc \in {"confirm", "giveup"}, UNCHANGED crossed,
             ob' = [ob EXCEPT ![o] = ObIdle],
             UNCHANGED user \/ \E wa \in {"connecting", "failed"} : SetWa(Who(o), wa),
             \A u \in Session : u # Who(o) => regen'[u] = regen[u],
             ~Saved(Who(o)) \/ \A v \in Session : v = Who(o) => Settled(v)'
      PROVE  WaInv'
  <2>1. PICK w \in Session : ob[o].who = w
    BY <1>i DEF WhoInv, WhoOK, Phoned
  <2>2. /\ UNCHANGED user \/ \E wa \in {"connecting", "failed"} : SetWa(w, wa)
        /\ \A u \in Session : u # w => regen'[u] = regen[u]
        /\ user[w].state # "saved" \/ Settled(w)'
        /\ ob[o].pc \in Past
    BY <1>i, <2>1 DEF Who, Saved, Past
  <2>3. ObIdle.rest \subseteq ob[o].rest /\ ~FreshAt(ObIdle)
    BY IdleIsTyped DEF FreshAt
  <2> QED
    BY <1>a, <1>c, <1>i, <2>1, <2>2, <2>3, IdleIsTyped, WaWrite
<1>13. ASSUME NEW o \in Request, ReturnCode(o) PROVE WaInv'
  <2>1. ob[o].pc = "confirm" /\ UNCHANGED crossed
    BY <1>13 DEF ReturnCode
  <2>2. CASE To(o, "giveup") /\ UNCHANGED <<user, regen>>
    BY <1>a, <1>c, <2>1, <2>2, WaLabel
  <2>3. CASE /\ SetWa(Who(o), "connecting") /\ regen' = [regen EXCEPT ![Who(o)] = "code"]
             /\ ob' = [ob EXCEPT ![o] = ObIdle]
    <3>1. PICK w \in Session : Who(o) = w /\ w \in Person
      BY <2>1 DEF WhoInv, WhoOK, Phoned, Who
    <3>2. regen'[w] = "code" /\ \A u \in Session : u # w => regen'[u] = regen[u]
      BY <1>a, <2>3, <3>1 DEF RestTyped
    <3>3. user'[w].wa = "connecting" /\ SetWa(w, "connecting")
      BY <1>a, <2>3, <3>1 DEF SetWa, RestTyped
    <3> QED
      BY <1>i, <2>1, <2>3, <3>1, <3>2, <3>3 DEF Settled
  <2> QED
    BY <1>13, <2>2, <2>3 DEF ReturnCode
<1>14. ASSUME NEW o \in Request, GiveUp(o) PROVE WaInv'
  <2>1. PICK w \in Session : Who(o) = w /\ w \in Person
    BY <1>14 DEF GiveUp, WhoInv, WhoOK, Phoned, Who
  <2>2. /\ ob[o].pc = "giveup" /\ UNCHANGED crossed /\ ob' = [ob EXCEPT ![o] = ObIdle]
        /\ regen' = [regen EXCEPT ![w] = "nocode"]
        /\ Saved(w) => SetWa(w, "failed")
        /\ ~Saved(w) => UNCHANGED user
    BY <1>14, <2>1 DEF GiveUp
  <2>3. regen'[w] = "nocode" /\ \A u \in Session : u # w => regen'[u] = regen[u]
    BY <1>a, <2>2 DEF RestTyped
  <2>4. SetWa(w, "failed") => user'[w].wa = "failed"
    BY <1>a, <2>1 DEF SetWa, RestTyped
  <2> QED
    BY <1>i, <2>1, <2>2, <2>3, <2>4 DEF Settled
<1>15. ASSUME NEW o \in Slot, Call(o) PROVE WaInv'
  BY <1>15, <1>a, <1>c, WaFollow DEF Call
<1>16. ASSUME NEW u \in Person, RemoveUser(u) PROVE WaInv'
  BY <1>16, <1>a, <1>c, WaSame DEF RemoveUser, RestTyped
<1>17. ASSUME Elsewhere PROVE WaInv'
  BY <1>17, <1>a, <1>c, WaSame DEF Elsewhere, obVars, RestTyped
<1>18. ASSUME ProcessDies PROVE WaInv'
  <2>1. /\ ob' = [o \in Request |-> ObIdle] /\ UNCHANGED <<user, regen, crossed>>
        /\ crashes' # 0
    BY <1>18, <1>b DEF ProcessDies, Crash
  <2>2. \A o \in Request : ob'[o] = ObIdle
    BY <2>1
  <2>3. AloneInv'
    BY <2>2, IdleIsTyped, PersonIsNotNone DEF AloneInv, Works
  <2>4. StoredInv'
    BY <2>1, <2>2, IdleIsTyped DEF WaInv, StoredInv, Past
  <2> QED
    BY <2>1, <2>3, <2>4 DEF WaInv, StatusInv
<1>19. ASSUME UNCHANGED allVars PROVE WaInv'
  BY <1>19, <1>a, <1>c, WaSame DEF allVars, obVars, RestTyped
<1>20. ASSUME NEW o \in Request, Onboard(o) PROVE WaInv'
  BY <1>3, <1>4, <1>5, <1>6, <1>7, <1>8, <1>9, <1>10, <1>11, <1>12, <1>13, <1>14, <1>20
     DEF Onboard
<1> QED
  BY <1>1, <1>2, <1>15, <1>16, <1>17, <1>18, <1>19, <1>20 DEF ObNext

LEMMA WaInit == ObInit => WaInv
<1> SUFFICES ASSUME ObInit PROVE WaInv
  OBVIOUS
<1>1. \A o \in Request : ob[o] = ObIdle
  BY DEF ObInit
<1>2. \A u \in Person : user[u].state = "absent" /\ user[u].wa = "disconnected"
  BY DEF ObInit
<1>3. Session \subseteq Person /\ \A u \in Session : regen[u] = "never"
  BY DEF ObInit, Person
<1> QED
  BY <1>1, <1>2, <1>3, IdleIsTyped, PersonIsNotNone
     DEF WaInv, AloneInv, Works, StoredInv, Past, StatusInv, StatusOK, Saved

(* The status of a user is FAILED exactly when the last request for a code found none or,
   as a regeneration, met an error, and an invitation that ended at an error of
   createSession left it as it was: for any number of requests, bulk or not, on the
   persons no two of them share, and whatever the clients do. *)
THEOREM StatusTellsOutcome == ObSpec => []FailedMeansNoCode
<1>1. ObTypeOK /\ WaInv => FailedMeansNoCode
  <2> SUFFICES ASSUME WaInv, crashes = 0, NEW u \in Session, Saved(u), u \notin crossed,
                      Busy({u}) = {}
               PROVE  Settled(u)
    BY DEF FailedMeansNoCode, Settled
  <2>1. \A o \in Request : ob[o].who # u
    BY DEF Busy
  <2>2. StatusOK(u)
    BY DEF WaInv, StatusInv
  <2> QED
    BY <2>1, <2>2 DEF StatusOK
<1>2. ObInit => AnswerInv
  BY AnswerFresh DEF ObInit, AnswerInv, InviteReplyTruthful
<1> QED
  BY <1>1, <1>2, WaInit, ObTypeInit, ObTypeStep, AnswerStep, WaStep, PTL DEF ObSpec

-----------------------------------------------------------------------------
(* The code of a regeneration *)

(* A request works in the session service exactly while its call runs, and for the
   person it is about. *)
LinkOK(r, x) ==
  /\ x # Idle => r.pc \in {"create", "close", "reopen"} /\ x.sess = r.who
  /\ r.pc = "close" => x.pc \in {"closing", "mark"}

LinkInv == \A o \in Request : LinkOK(ob[o], op[o])

(* The session service has the sessions of the persons nobody has crossed on to one
   request at a time. *)
UncrossedInv ==
  dbFaults = 0 => HandlerInv /\ \A u \in Session \ crossed : SoleInv(u)

(* c is dead and nothing it emitted is still on the way. *)
Silent(c) == life[c] \notin Alive /\ \A h \in handlers : h.client # c

(* Once the old session is closed, its clients are silent and its code is gone. *)
FreshOK(r) ==
  /\ \A c \in r.before : owner[c] = r.who
  /\ dbFaults = 0 /\ r.who \in Session \ crossed /\ r.pc # "close" =>
       /\ \A c \in r.before : Silent(c)
       /\ qr[r.who] \notin r.before
       /\ r.pc = "confirm" => r.code \notin r.before

FreshInv == \A o \in Request : FreshOK(ob[o])

RequestsApart == \A u \in Session \ crossed : Serial(u)

LEMMA LinkedApart == LinkInv /\ AloneInv /\ StartupInv => RequestsApart
<1> SUFFICES ASSUME LinkInv, AloneInv, StartupInv, NEW u \in Session \ crossed,
                    NEW p \in Slot, NEW q \in Slot, op[p].sess = u, op[q].sess = u
             PROVE  p = q
  BY DEF RequestsApart, Serial
<1>1. op[p] # Idle /\ op[q] # Idle
  BY SessionsAssumption DEF Idle
<1>2. CASE p \in Request /\ q \in Request
  BY <1>1, <1>2 DEF LinkInv, LinkOK, AloneInv, Works, Person
<1>3. CASE p = Boot \/ q = Boot
  BY <1>1, <1>3 DEF StartupInv, Slot
<1> QED
  BY <1>2, <1>3 DEF Slot

LEMMA ServiceBindings ==
  TypeOK /\ WhoInv /\ BindingInv /\ StartupInv /\ [ObNext]_allVars
    => BindingInv' /\ StartupInv'
<1> SUFFICES ASSUME TypeOK, WhoInv, BindingInv, StartupInv, [ObNext]_allVars
             PROVE  BindingInv' /\ StartupInv'
  OBVIOUS
<1>1. CASE [Next]_vars
  BY <1>1, BindingStep, StartupStep
<1>2. CASE ReadFails
  BY <1>2 DEF ReadFails, BindingInv, StartupInv, StartupListStaysFresh, procVars, docVars,
              libVars
<1> QED
  BY <1>1, <1>2, ServiceStep

LEMMA DbFaultsCount ==
  ASSUME [Next]_vars
  PROVE  dbFaults' = dbFaults \/ dbFaults' = dbFaults + 1
<1>1. ASSUME NEW o \in Slot, Operate(o) PROVE dbFaults' = dbFaults
  BY <1>1, Zenon DEF Operate, FindSession, InsertSession, TouchSession, InitializeClient,
     ClientInitialized, ClientInitFails, MarkInitFailed, CloseClient, MarkDisconnected, budgets
<1>2. ASSUME NEW c \in Client, Library(c) \/ Handle(c) PROVE dbFaults' = dbFaults
  BY <1>2, Zenon DEF Library, EmitQR, EmitAuthenticated, EmitReady, EmitDisconnected,
     EmitAuthFailure, Emit, Handle, HandleQRCode, HandleAuthenticated, HandleReady,
     HandleAuthFailure, HandleDisconnected, DropClient, HandleFailed, budgets
<1> QED
  BY <1>1, <1>2, Zenon DEF Next, OperationDbError, HandlerDbError, StartCreateSession,
     StartDisconnectSession, ReconnectNext, Listen, Restart, Crash, vars, budgets

(* A client belongs to one session for good. *)
LEMMA OwnerKept ==
  ASSUME TypeOK, BindingInv, [Next]_vars, NEW c \in Client, owner[c] # None
  PROVE  owner'[c] = owner[c]
<1>1. ASSUME NEW o \in Slot, NEW d \in Client, Launch(o, d) PROVE owner'[c] = owner[c]
  <2>1. d # c
    BY <1>1 DEF Launch, BindingInv
  <2> QED
    BY <1>1, <2>1 DEF Launch, TypeOK
<1>2. ASSUME NEW o \in Slot, Operate(o)
      PROVE  UNCHANGED owner \/ \E d \in Client : Launch(o, d)
  BY <1>2, Zenon DEF Operate, FindSession, InsertSession, TouchSession, InitializeClient,
     ClientInitialized, ClientInitFails, MarkInitFailed, CloseClient, MarkDisconnected, libVars
<1>3. ASSUME NEW d \in Client, Library(d) \/ Handle(d) PROVE UNCHANGED owner
  BY <1>3, Zenon DEF Library, EmitQR, EmitAuthenticated, EmitReady, EmitDisconnected,
     EmitAuthFailure, Emit, Handle, HandleQRCode, HandleAuthenticated, HandleReady,
     HandleAuthFailure, HandleDisconnected, DropClient, HandleFailed, libVars
<1>4. \/ UNCHANGED owner
      \/ \E o \in Slot : Operate(o)
      \/ \E d \in Client : Library(d) \/ Handle(d)
  BY Zenon DEF Next, OperationDbError, HandlerDbError, StartCreateSession,
     StartDisconnectSession, ReconnectNext, Listen, Restart, Crash, vars, libVars
<1> QED
  BY <1>1, <1>2, <1>3, <1>4

(* Whoever has a handler that was not there is alive or had another. *)
LEMMA HandlersMove ==
  ASSUME TypeOK, [Next]_vars, NEW h \in handlers', h \notin handlers
  PROVE  life[h.client] \in Alive \/ \E g \in handlers : g.client = h.client
<1>a. \A l : l \in Alive <=> l \in {"running", "authenticated", "ready"}
  BY DEF Alive
<1>1. ASSUME NEW d \in Client, Library(d) PROVE life[h.client] \in Alive
  <2>1. PICK kind, lives : Emit(d, kind, lives) /\ life[d] \in Alive
    BY <1>1, <1>a
       DEF Library, EmitQR, EmitAuthenticated, EmitReady, EmitDisconnected, EmitAuthFailure
  <2> QED
    BY <2>1 DEF Emit
<1>2. ASSUME NEW kind, NEW d, NEW next, InFlight(kind, d), Continue(kind, d, next)
      PROVE  \E g \in handlers : g.client = h.client
  BY <1>2 DEF InFlight, Continue
<1>3. ASSUME NEW kind, NEW d, Finish(kind, d) PROVE FALSE
  BY <1>3 DEF Finish
<1>4. ASSUME NEW d \in Client, Handle(d) \/ HandlerDbError(d)
      PROVE  \E g \in handlers : g.client = h.client
  <2>1. \/ \E kind : Finish(kind, d)
        \/ \E kind, next : InFlight(kind, d) /\ Continue(kind, d, next)
    BY <1>4, Zenon DEF Handle, HandleQRCode, HandleAuthenticated, HandleReady,
       HandleAuthFailure, HandleDisconnected, DropClient, HandleFailed, HandlerDbError
  <2> QED
    BY <1>2, <1>3, <2>1
<1>5. \A o \in Slot : Operate(o) => UNCHANGED handlers
  BY Zenon DEF Operate, FindSession, InsertSession, TouchSession, InitializeClient,
     ClientInitialized, ClientInitFails, MarkInitFailed, CloseClient, MarkDisconnected
<1>6. \/ UNCHANGED handlers \/ handlers' = {}
      \/ \E o \in Slot : Operate(o)
      \/ \E d \in Client : Library(d) \/ Handle(d) \/ HandlerDbError(d)
  BY Zenon DEF Next, OperationDbError, StartCreateSession, StartDisconnectSession,
     ReconnectNext, Listen, Restart, Crash, vars
<1> QED
  BY <1>1, <1>4, <1>5, <1>6

LEMMA SilentKept ==
  ASSUME TypeOK, BindingInv, [Next]_vars, NEW c \in Client, owner[c] # None, Silent(c)
  PROVE  Silent(c)'
<1>1. life'[c] \notin Alive
  BY DeadStaysDead DEF BindingInv, Silent
<1>2. ASSUME NEW h \in handlers', h.client = c PROVE FALSE
  <2>1. CASE h \in handlers
    BY <1>2, <2>1 DEF Silent
  <2>2. CASE h \notin handlers
    BY <1>2, <2>2, HandlersMove DEF Silent
  <2> QED
    BY <2>1, <2>2
<1> QED
  BY <1>1, <1>2 DEF Silent

(* A code comes from a handler in flight. *)
LEMMA CodeStep ==
  ASSUME TypeOK, [Next]_vars, NEW s \in Session
  PROVE  \/ qr'[s] = qr[s] \/ qr'[s] = None
         \/ \E h \in handlers : qr'[s] = h.client
<1>1. ASSUME NEW t, NEW c, SetQR(t, c) PROVE qr'[s] = qr[s] \/ qr'[s] = c
  BY <1>1 DEF SetQR, TypeOK
<1>2. ASSUME NEW d \in Client, Handle(d)
      PROVE  \/ UNCHANGED qr \/ SetQR(owner[d], None)
             \/ InFlight("qr", d) /\ SetQR(owner[d], d)
  BY <1>2, Zenon DEF Handle, HandleQRCode, HandleAuthenticated, HandleReady,
     HandleAuthFailure, HandleDisconnected, DropClient, HandleFailed, docVars
<1>3. \A d : InFlight("qr", d) => \E h \in handlers : h.client = d
  BY DEF InFlight
<1>4. ASSUME NEW o \in Slot, Operate(o) PROVE UNCHANGED qr \/ SetQR(op[o].sess, None)
  BY <1>4, Zenon DEF Operate, FindSession, InsertSession, TouchSession, InitializeClient,
     ClientInitialized, ClientInitFails, MarkInitFailed, CloseClient, MarkDisconnected, docVars
<1>5. \A d \in Client : Library(d) => UNCHANGED qr
  BY Zenon DEF Library, EmitQR, EmitAuthenticated, EmitReady, EmitDisconnected,
     EmitAuthFailure, Emit, docVars
<1>6. \/ UNCHANGED qr
      \/ \E o \in Slot : Operate(o)
      \/ \E d \in Client : Library(d) \/ Handle(d)
  BY Zenon DEF Next, OperationDbError, HandlerDbError, StartCreateSession,
     StartDisconnectSession, ReconnectNext, Listen, Restart, Crash, vars, docVars
<1>7. ASSUME NEW d \in Client, Handle(d)
      PROVE  \/ qr'[s] = qr[s] \/ qr'[s] = None
             \/ \E h \in handlers : qr'[s] = h.client
  <2>1. CASE InFlight("qr", d) /\ SetQR(owner[d], d)
    BY <1>1, <1>3, <2>1
  <2> QED
    BY <1>1, <1>2, <1>7, <2>1
<1> QED
  BY <1>1, <1>4, <1>5, <1>6, <1>7

(* What a step does to one request, from r to z, and to its slot in the session
   service, from x to y: it waits, starts anew or ends, goes on, has the old session
   closed, or goes on when that is done. *)
Waits(r, z, x, y) ==
  z = r /\ \/ y = x
           \/ x # Idle /\ y.sess = x.sess /\ (r.pc = "close" => y.pc = "mark")
Starts(z, y) == y = Idle /\ z.before = {} /\ z.pc # "close"
Keeps(r, z)  == z.who = r.who /\ z.before = r.before
GoesOn(r, z, y) ==
  /\ Keeps(r, z) /\ r.pc # "close" /\ z.pc # "close"
  /\ z.pc = "confirm" => z.code = qr[r.who]
  /\ y = Idle \/ (z.pc \in {"create", "reopen"} /\ y.sess = r.who)
Closes(r, z, y) ==
  /\ z.who = r.who /\ z.before = {c \in Client : owner[c] = r.who} /\ z.pc = "close"
  /\ y.pc \in {"closing", "mark"} /\ y.sess = r.who
  /\ UNCHANGED owner
Closed(o, r, z, y) ==
  /\ Keeps(r, z) /\ r.pc = "close" /\ z.pc = "recall" /\ y = Idle
  /\ MarkDisconnected(o) \/ dbFaults' # dbFaults
Shape(o, r, z, x, y) ==
  Waits(r, z, x, y) \/ Starts(z, y) \/ GoesOn(r, z, y) \/ Closes(r, z, y) \/ Closed(o, r, z, y)

LEMMA CallShape ==
  ASSUME TypeOK, ob \in [Request -> ObRecord], LinkInv, NEW p \in Slot, Call(p),
         NEW o \in Request, NEW r, NEW z, NEW x, NEW y,
         ob[o] = r, ob'[o] = z, op[o] = x, op'[o] = y
  PROVE  Shape(o, r, z, x, y)
<1>a. r \in ObRecord /\ LinkOK(r, x) /\ o \in Slot /\ dbFaults \in Nat
  BY DEF LinkInv, Slot, TypeOK
<1>b. z = IF x # Idle /\ y = Idle THEN Resumed(o) ELSE r
  BY DEF Call, Follow, Returns
<1>c. Operate(p) \/ OperationDbError(p)
  BY DEF Call
<1>d. Idle.pc = "idle"
  BY DEF Idle
<1>e. /\ op'[p].sess = op[p].sess \/ op'[p] = Idle
      /\ \A q \in Slot \ {p} : op'[q] = op[q]
  <2>1. CASE OperationDbError(p)
    BY <2>1 DEF OperationDbError, Goto, Return, TypeOK
  <2> QED
    BY <1>c, <2>1, OperateSlot
<1>1. CASE p # o
  BY <1>1, <1>a, <1>b, <1>e DEF Shape, Waits
<1>2. CASE p = o
  <2>1. x # Idle
    BY <1>2, <1>c, <1>d DEF Operate, OperationDbError, FindSession, InsertSession,
       TouchSession, InitializeClient, ClientInitialized, ClientInitFails, MarkInitFailed,
       CloseClient, MarkDisconnected
  <2>2. r.pc \in {"create", "close", "reopen"}
    BY <1>a, <2>1 DEF LinkOK
  <2>3. ASSUME r.pc = "close"
        PROVE  y.pc = "mark" \/ (y = Idle /\ (MarkDisconnected(o) \/ dbFaults' # dbFaults))
    <3>1. x.pc \in {"closing", "mark"}
      BY <1>a, <2>3 DEF LinkOK
    <3>2. CASE Operate(o)
      <4>1. CloseClient(o) \/ MarkDisconnected(o)
        BY <3>1, <3>2 DEF Operate, FindSession, InsertSession, TouchSession,
           InitializeClient, ClientInitialized, ClientInitFails, MarkInitFailed
      <4> QED
        BY <1>a, <4>1 DEF CloseClient, MarkDisconnected, Goto, Return, TypeOK
    <3>3. CASE OperationDbError(o)
      BY <1>a, <3>1, <3>3 DEF OperationDbError, Goto, Return, TypeOK
    <3> QED
      BY <1>2, <1>c, <3>2, <3>3
  <2>4. CASE y # Idle
    BY <1>2, <1>b, <1>d, <1>e, <2>1, <2>3, <2>4 DEF Shape, Waits
  <2>5. CASE y = Idle
    <3>1. z = Resumed(o)
      BY <1>b, <2>1, <2>5
    <3>2. \/ r.pc = "create" /\ \E l \in {"done", "code"} : z = [r EXCEPT !.pc = l]
          \/ r.pc = "close" /\ z = [r EXCEPT !.pc = "recall"]
          \/ r.pc = "reopen" /\ \E l \in {"giveup", "connecting"} : z = [r EXCEPT !.pc = l]
      BY <1>a, <2>2, <3>1, ResumedCases
    <3>3. PICK l \in {"done", "code", "recall", "giveup", "connecting"} :
            /\ z = [r EXCEPT !.pc = l]
            /\ r.pc = "close" => l = "recall"
      BY <3>2
    <3>4. z.pc = l /\ z.who = r.who /\ z.before = r.before
      BY <1>a, <3>3 DEF ObRecord
    <3>5. CASE r.pc = "close"
      BY <1>d, <2>3, <2>5, <3>3, <3>4, <3>5 DEF Shape, Closed, Keeps
    <3>6. CASE r.pc # "close"
      BY <2>5, <3>4, <3>6 DEF Shape, GoesOn, Keeps
    <3> QED
      BY <3>5, <3>6
  <2> QED
    BY <2>4, <2>5
<1> QED
  BY <1>1, <1>2

(* Request p goes from its record to w, the others stay. *)
Moved(p, w) == ob'[p] = w /\ \A q \in Request : q # p => ob'[q] = ob[q]

(* A request moves that has no call running. *)
LEMMA QuietShape ==
  ASSUME ob \in [Request -> ObRecord], LinkInv, NEW p \in Request,
         ob[p].pc \notin {"create", "close", "reopen"}, UNCHANGED op,
         NEW w, Moved(p, w), w.pc # "close",
         w.before = {} \/ Keeps(ob[p], w),
         w.pc = "confirm" => w.code = qr[ob[p].who],
         NEW o \in Request, NEW r, NEW z, NEW x, NEW y,
         ob[o] = r, ob'[o] = z, op[o] = x, op'[o] = y
  PROVE  Shape(o, r, z, x, y)
<1>1. CASE p # o
  BY <1>1 DEF Moved, Shape, Waits
<1>2. CASE p = o
  <2>1. z = w /\ x = Idle /\ y = Idle
    BY <1>2 DEF Moved, LinkInv, LinkOK
  <2> QED
    BY <1>2, <2>1 DEF Shape, Starts, GoesOn
<1> QED
  BY <1>1, <1>2

LEMMA OnboardShape ==
  ASSUME TypeOK, ob \in [Request -> ObRecord], WhoInv, LinkInv,
         NEW p \in Request, Onboard(p),
         NEW o \in Request, NEW r, NEW z, NEW x, NEW y,
         ob[o] = r, ob'[o] = z, op[o] = x, op'[o] = y
  PROVE  Shape(o, r, z, x, y)
<1>a. ob[p] \in ObRecord /\ p \in Slot
  BY DEF Slot
<1>l. ASSUME ob[p].pc \notin {"create", "close", "reopen"}, UNCHANGED op,
             NEW l \in ObLabel \ {"close", "confirm"}, To(p, l)
      PROVE  Shape(o, r, z, x, y)
  <2> DEFINE w == [ob[p] EXCEPT !.pc = l]
  <2>2. Moved(p, w)
    BY <1>l DEF To, Moved
  <2>3. w.pc = l /\ Keeps(ob[p], w)
    BY <1>a DEF ObRecord, Keeps
  <2> HIDE DEF w
  <2> QED
    BY <1>l, <2>2, <2>3, QuietShape
<1>f. ASSUME ob[p].pc \notin {"create", "close", "reopen"}, UNCHANGED op,
             ob' = [ob EXCEPT ![p].pc = "done", ![p].ok = FALSE]
      PROVE  Shape(o, r, z, x, y)
  <2> DEFINE w == [ob[p] EXCEPT !.pc = "done", !.ok = FALSE]
  <2>2. Moved(p, w)
    BY <1>f DEF Moved
  <2>3. w.pc = "done" /\ Keeps(ob[p], w)
    BY <1>a DEF ObRecord, Keeps
  <2>4. ob[p].pc \notin {"create", "close", "reopen"} /\ UNCHANGED op
    BY <1>f
  <2> HIDE DEF w
  <2> QED
    BY <2>2, <2>3, <2>4, QuietShape
<1>i. ASSUME ob[p].pc \notin {"create", "close", "reopen"}, UNCHANGED op,
             ob' = [ob EXCEPT ![p] = ObIdle]
      PROVE  Shape(o, r, z, x, y)
  <2>1. Moved(p, ObIdle)
    BY <1>i DEF Moved
  <2> QED
    BY <1>i, <2>1, IdleIsTyped, QuietShape
<1> USE DEF vars
<1>1. CASE FindInvitee(p)
  BY <1>1, <1>l, <1>f DEF FindInvitee, ObLabel
<1>2. CASE SaveInvitee(p)
  <2>1. ob[p].pc = "save" /\ UNCHANGED op
    BY <1>2 DEF SaveInvitee
  <2>2. ASSUME NEW l \in {"call", "welcome"}, ob' = [ob EXCEPT ![p].pc = l, ![p].saved = TRUE]
        PROVE  Shape(o, r, z, x, y)
    <3> DEFINE w == [ob[p] EXCEPT !.pc = l, !.saved = TRUE]
    <3>2. Moved(p, w)
      BY <2>2 DEF Moved
    <3>3. w.pc = l /\ Keeps(ob[p], w)
      BY <1>a DEF ObRecord, Keeps
    <3> HIDE DEF w
    <3> QED
      BY <2>1, <3>2, <3>3, QuietShape
  <2>3. \/ \E l \in {"call", "welcome"} : ob' = [ob EXCEPT ![p].pc = l, ![p].saved = TRUE]
        \/ ob' = [ob EXCEPT ![p].pc = "done", ![p].ok = FALSE]
    BY <1>2 DEF SaveInvitee
  <2> QED
    BY <1>f, <2>1, <2>2, <2>3
<1>3. CASE CallCreateSession(p)
  <2>1. PICK l \in {"create", "reopen"} : To(p, l)
    BY <1>3 DEF CallCreateSession
  <2>2. ob[p].pc \in {"call", "recall"}
    BY <1>3 DEF CallCreateSession
  <2>3. op' = [op EXCEPT ![p] = [pc |-> "find", sess |-> ob[p].who, client |-> None]]
    BY <1>3 DEF CallCreateSession, StartCreateSession, Who
  <2>4. CASE p # o
    BY <2>1, <2>3, <2>4 DEF To, Shape, Waits
  <2>5. CASE p = o
    <3>1. y.sess = r.who
      BY <1>a, <2>3, <2>5 DEF TypeOK
    <3>2. z = [r EXCEPT !.pc = l]
      BY <2>1, <2>5 DEF To
    <3>3. z.pc = l /\ Keeps(r, z)
      BY <1>a, <2>5, <3>2 DEF ObRecord, Keeps
    <3> QED
      BY <2>2, <2>5, <3>1, <3>3 DEF Shape, GoesOn
  <2> QED
    BY <2>4, <2>5
<1>4. CASE ReadCode(p)
  <2>1. ob[p].pc = "code" /\ UNCHANGED op
    BY <1>4 DEF ReadCode
  <2>2. ASSUME NEW l \in {"mail", "confirm"},
               ob' = [ob EXCEPT ![p].code = GetQRCode(p), ![p].pc = l]
        PROVE  Shape(o, r, z, x, y)
    <3> DEFINE w == [ob[p] EXCEPT !.code = GetQRCode(p), !.pc = l]
    <3>2. Moved(p, w)
      BY <2>2 DEF Moved
    <3>3. w.pc = l /\ w.code = qr[ob[p].who] /\ Keeps(ob[p], w)
      BY <1>a DEF ObRecord, Keeps, GetQRCode, Who
    <3> HIDE DEF w
    <3> QED
      BY <2>1, <3>2, <3>3, QuietShape
  <2>3. \/ \E l \in {"mail", "confirm"} :
             ob' = [ob EXCEPT ![p].code = GetQRCode(p), ![p].pc = l]
        \/ \E l \in {"fail", "done", "giveup"} : To(p, l)
    BY <1>4 DEF ReadCode
  <2> QED
    BY <1>l, <2>1, <2>2, <2>3 DEF ObLabel
<1>5. CASE MarkUserFailed(p) \/ MailInvitation(p) \/ MarkConnecting(p)
  BY <1>5, <1>l DEF MarkUserFailed, MailInvitation, MarkConnecting, ObLabel
<1>6. CASE MailWelcome(p)
  BY <1>6, <1>l, <1>f DEF MailWelcome, SendToDLQ, ObLabel
<1>7. CASE NextInvitee(p)
  <2>1. ob[p].pc = "done" /\ UNCHANGED op
    BY <1>7 DEF NextInvitee
  <2>2. ASSUME NEW u \in ob[p].rest,
               ob' = [ob EXCEPT ![p] = [ObIdle EXCEPT !.pc = "find", !.who = u,
                                                      !.rest = ob[p].rest \ {u}]]
        PROVE  Shape(o, r, z, x, y)
    <3> DEFINE w == [ObIdle EXCEPT !.pc = "find", !.who = u, !.rest = ob[p].rest \ {u}]
    <3>2. w.pc = "find" /\ w.before = {}
      BY DEF ObIdle
    <3>3. Moved(p, w)
      BY <2>2 DEF Moved
    <3> HIDE DEF w
    <3> QED
      BY <2>1, <3>2, <3>3, QuietShape
  <2> QED
    BY <1>7, <1>i, <2>1, <2>2 DEF NextInvitee
<1>8. CASE LoadUser(p)
  <2>1. ob[p].pc = "load"
    BY <1>8 DEF LoadUser
  <2>2. CASE ob' = [ob EXCEPT ![p] = ObIdle] /\ UNCHANGED vars
    BY <1>i, <2>1, <2>2
  <2>3. CASE /\ StartDisconnectSession(p, Who(p))
             /\ ob' = [ob EXCEPT ![p].pc = "close",
                                 ![p].before = {c \in Client : owner[c] = Who(p)}]
    <3>1. PICK v : /\ op' = [op EXCEPT ![p] = v] /\ v.sess = ob[p].who
                   /\ v.pc \in {"closing", "mark"}
      <4>1. PICK v : v = [pc |-> IF clients[Who(p)] = None THEN "mark" ELSE "closing",
                          sess |-> Who(p), client |-> clients[Who(p)]]
        OBVIOUS
      <4>2. v.sess = ob[p].who /\ v.pc \in {"closing", "mark"}
        BY <4>1 DEF Who
      <4>3. op' = [op EXCEPT ![p] = v]
        BY <2>3, <4>1 DEF StartDisconnectSession
      <4> QED
        BY <4>2, <4>3
    <3>2. UNCHANGED owner
      BY <2>3 DEF StartDisconnectSession, libVars
    <3> DEFINE w == [ob[p] EXCEPT !.pc = "close",
                                !.before = {c \in Client : owner[c] = Who(p)}]
    <3>4. Moved(p, w)
      BY <2>3 DEF Moved
    <3>5. /\ w.pc = "close" /\ w.who = ob[p].who
          /\ w.before = {c \in Client : owner[c] = ob[p].who}
      BY <1>a DEF ObRecord, Who
    <3> HIDE DEF w
    <3>6. CASE p # o
      BY <3>1, <3>4, <3>6 DEF Moved, Shape, Waits
    <3>7. CASE p = o
      <4>1. z = w /\ y = v
        BY <1>a, <3>1, <3>4, <3>7 DEF Moved, TypeOK
      <4> QED
        BY <3>1, <3>2, <3>5, <3>7, <4>1 DEF Shape, Closes
    <3> QED
      BY <3>6, <3>7
  <2> QED
    BY <1>8, <2>2, <2>3 DEF LoadUser
<1>9. CASE ReturnCode(p)
  BY <1>9, <1>l, <1>i DEF ReturnCode, ObLabel
<1>10. CASE GiveUp(p)
  BY <1>10, <1>i DEF GiveUp
<1> QED
  BY <1>1, <1>2, <1>3, <1>4, <1>5, <1>6, <1>7, <1>8, <1>9, <1>10 DEF Onboard

LEMMA StepShape ==
  ASSUME TypeOK, ob \in [Request -> ObRecord], WhoInv, LinkInv, [ObNext]_allVars,
         NEW o \in Request, NEW r, NEW z, NEW x, NEW y,
         ob[o] = r, ob'[o] = z, op[o] = x, op'[o] = y
  PROVE  Shape(o, r, z, x, y)
<1>1. ASSUME NEW p \in Request, NEW U \in SUBSET Person, StartInvite(p, U)
      PROVE  Shape(o, r, z, x, y)
  <2>1. PICK u \in U :
          Begin(p, [ObIdle EXCEPT !.pc = "find", !.who = u, !.rest = U \ {u}], U)
    BY <1>1 DEF StartInvite
  <2> DEFINE w == [ObIdle EXCEPT !.pc = "find", !.who = u, !.rest = U \ {u}]
  <2>3. w.pc = "find" /\ w.before = {}
    BY DEF ObIdle
  <2>4. Moved(p, w) /\ ob[p].pc = "idle" /\ UNCHANGED op
    BY <2>1, IdleIsTyped DEF Begin, vars, Moved
  <2> HIDE DEF w
  <2> QED
    BY <2>3, <2>4, QuietShape
<1>2. ASSUME NEW p \in Request, NEW u \in Session, StartRegenerate(p, u)
      PROVE  Shape(o, r, z, x, y)
  <2> DEFINE w == [ObIdle EXCEPT !.pc = "load", !.who = u]
  <2>2. w.pc = "load" /\ w.before = {}
    BY DEF ObIdle
  <2>3. Moved(p, w) /\ ob[p].pc = "idle" /\ UNCHANGED op
    BY <1>2, IdleIsTyped DEF StartRegenerate, Begin, vars, Moved
  <2> HIDE DEF w
  <2> QED
    BY <2>2, <2>3, QuietShape
<1>3. CASE Elsewhere
  <2>1. UNCHANGED ob
    BY <1>3 DEF Elsewhere, obVars
  <2>2. op'[o] = op[o]
    <3>1. ASSUME NEW s \in Session, ReconnectNext(s) PROVE op'[o] = op[o]
      BY <3>1, SessionsAssumption DEF ReconnectNext, TypeOK, Slot
    <3>2. UNCHANGED op \/ \E s \in Session : ReconnectNext(s)
      BY <1>3, Zenon DEF Elsewhere, Library, EmitQR, EmitAuthenticated, EmitReady,
         EmitDisconnected, EmitAuthFailure, Emit, Handle, HandleQRCode,
         HandleAuthenticated, HandleReady, HandleAuthFailure, HandleDisconnected,
         DropClient, HandleFailed, HandlerDbError, Listen, Restart
    <3> QED
      BY <3>1, <3>2
  <2> QED
    BY <2>1, <2>2 DEF Shape, Waits
<1>4. CASE ProcessDies
  <2>1. z = ObIdle /\ y = Idle
    BY <1>4 DEF ProcessDies, Crash, Slot
  <2> QED
    BY <2>1, IdleIsTyped DEF Shape, Starts
<1>5. CASE UNCHANGED allVars \/ \E u \in Person : RemoveUser(u)
  BY <1>5 DEF allVars, obVars, vars, RemoveUser, Shape, Waits
<1> QED
  BY <1>1, <1>2, <1>3, <1>4, <1>5, CallShape, OnboardShape DEF ObNext

LEMMA LinkStep ==
  ASSUME TypeOK, ObTypeOK, WhoInv, LinkInv, [ObNext]_allVars
  PROVE  LinkInv'
<1> SUFFICES ASSUME NEW o \in Request PROVE LinkOK(ob'[o], op'[o])
  BY DEF LinkInv
<1>1. PICK r, z, x, y : ob[o] = r /\ ob'[o] = z /\ op[o] = x /\ op'[o] = y
  OBVIOUS
<1>2. Shape(o, r, z, x, y)
  BY <1>1, ObTypeParts, StepShape
<1>3. LinkOK(r, x)
  BY <1>1 DEF LinkInv
<1>4. CASE Waits(r, z, x, y)
  BY <1>1, <1>3, <1>4 DEF Waits, LinkOK
<1>5. CASE Starts(z, y) \/ Closed(o, r, z, y)
  BY <1>1, <1>5 DEF Starts, Closed, LinkOK
<1>6. CASE GoesOn(r, z, y)
  BY <1>1, <1>6 DEF GoesOn, Keeps, LinkOK
<1>7. CASE Closes(r, z, y)
  BY <1>1, <1>7 DEF Closes, LinkOK
<1> QED
  BY <1>2, <1>4, <1>5, <1>6, <1>7 DEF Shape

LEMMA CrossedGrows == [ObNext]_allVars => crossed \subseteq crossed'
  BY DEF ObNext, StartInvite, StartRegenerate, Begin, Onboard, FindInvitee, SaveInvitee,
     CallCreateSession, ReadCode, MarkUserFailed, MailInvitation, MailWelcome, NextInvitee,
     LoadUser, MarkConnecting, ReturnCode, GiveUp, Call, Follow, RemoveUser, Elsewhere,
     ProcessDies, allVars, obVars

LEMMA NoNewFault ==
  ASSUME TypeOK, WhoInv, [ObNext]_allVars, dbFaults' = 0
  PROVE  dbFaults = 0 /\ [Next]_vars
<1>1. dbFaults \in Nat
  BY DEF TypeOK
<1>2. ~ReadFails
  BY <1>1 DEF ReadFails
<1>3. [Next]_vars
  BY <1>2, ServiceStep
<1> QED
  BY <1>1, <1>3, DbFaultsCount

LEMMA UncrossedStep ==
  ASSUME TypeOK, WhoInv, BindingInv, NoStray, RequestsApart, RequestsApart', UncrossedInv,
         [ObNext]_allVars
  PROVE  UncrossedInv'
<1> SUFFICES ASSUME dbFaults' = 0
             PROVE  HandlerInv' /\ \A u \in Session \ crossed' : SoleInv(u)'
  BY DEF UncrossedInv
<1>1. dbFaults = 0 /\ [Next]_vars /\ crossed \subseteq crossed'
  BY NoNewFault, CrossedGrows
<1>2. HandlerInv'
  BY <1>1, HandlerStep DEF UncrossedInv
<1>3. ASSUME NEW u \in Session \ crossed' PROVE SoleInv(u)'
  <2>1. Serial(u) /\ Serial(u)' /\ SoleInv(u) /\ HandlerInv
    BY <1>1, <1>3 DEF RequestsApart, UncrossedInv
  <2> QED
    BY <1>1, <2>1, SoleStep
<1> QED
  BY <1>2, <1>3

(* What is silent stays silent, and what is gone stays gone. *)
LEMMA FreshKept ==
  ASSUME TypeOK, WhoInv, BindingInv, [ObNext]_allVars,
         NEW r \in ObRecord, WhoOK(r), FreshOK(r), NEW z, Keeps(r, z),
         z.pc # "close" => r.pc # "close",
         z.pc = "confirm" => z.code = qr[r.who] \/ (r.pc = "confirm" /\ z.code = r.code)
  PROVE  FreshOK(z)'
<1>1. ASSUME NEW c \in r.before PROVE c \in Client /\ owner[c] = r.who /\ owner[c] # None
  <2>1. r.pc # "idle"
    BY <1>1, IdleIsTyped DEF WhoOK
  <2> QED
    BY <1>1, <2>1, PersonIsNotNone DEF WhoOK, FreshOK, ObRecord
<1>2. ASSUME NEW c \in r.before PROVE owner'[c] = r.who
  <2>1. CASE [Next]_vars
    BY <1>1, <2>1, OwnerKept
  <2>2. CASE ReadFails
    BY <1>1, <2>2 DEF ReadFails, libVars
  <2> QED
    BY <2>1, <2>2, ServiceStep
<1>3. ASSUME dbFaults' = 0, r.who \in Session \ crossed', z.pc # "close"
      PROVE  /\ \A c \in r.before : Silent(c)'
             /\ qr'[r.who] \notin r.before
             /\ z.pc = "confirm" => z.code \notin r.before
  <2>1. dbFaults = 0 /\ [Next]_vars /\ r.who \in Session \ crossed /\ r.pc # "close"
    BY <1>3, NoNewFault, CrossedGrows
  <2>2. /\ \A c \in r.before : Silent(c)
        /\ qr[r.who] \notin r.before
        /\ r.pc = "confirm" => r.code \notin r.before
    BY <2>1 DEF FreshOK
  <2>3. \A c \in r.before : Silent(c)'
    BY <1>1, <2>1, <2>2, SilentKept
  <2>4. \/ qr'[r.who] = qr[r.who] \/ qr'[r.who] = None
        \/ \E h \in handlers : qr'[r.who] = h.client
    BY <2>1, CodeStep
  <2>5. None \notin r.before
    BY <1>1, SessionsAssumption
  <2>6. \A h \in handlers : h.client \notin r.before
    BY <2>2 DEF Silent
  <2> QED
    BY <2>2, <2>3, <2>4, <2>5, <2>6
<1> QED
  BY <1>2, <1>3 DEF FreshOK, Keeps

(* When the old session has been closed, its clients are silent and the document
   has no code. *)
LEMMA ClosedIsFresh ==
  ASSUME TypeOK, WhoInv, BindingInv, NoStray, UncrossedInv, [ObNext]_allVars,
         NEW o \in Request, NEW r \in ObRecord, NEW x, NEW z, NEW y,
         op[o] = x, LinkOK(r, x), WhoOK(r), FreshOK(r), Closed(o, r, z, y)
  PROVE  FreshOK(z)'
<1>a. r.pc = "close" /\ z.who = r.who /\ z.before = r.before /\ z.pc = "recall"
  BY DEF Closed, Keeps
<1>b. r.who \in Session /\ None \notin Session \cup Client /\ o \in Slot
  BY <1>a, SessionsAssumption DEF WhoOK, Phoned, Slot
<1>c. x.sess = r.who
  BY <1>a DEF LinkOK, Idle
<1>1. ASSUME NEW c \in r.before PROVE c \in Client /\ owner[c] = r.who
  BY <1>1 DEF FreshOK, ObRecord
<1>2. ASSUME NEW c \in r.before PROVE owner'[c] = r.who
  <2>1. CASE [Next]_vars
    BY <1>1, <1>b, <2>1, OwnerKept
  <2>2. CASE ReadFails
    BY <1>1, <2>2 DEF ReadFails, libVars
  <2> QED
    BY <2>1, <2>2, ServiceStep
<1>3. ASSUME dbFaults' = 0, r.who \in Session \ crossed'
      PROVE  /\ \A c \in r.before : Silent(c)'
             /\ qr'[r.who] \notin r.before
  <2>1. dbFaults = 0 /\ r.who \in Session \ crossed
    BY <1>3, NoNewFault, CrossedGrows
  <2>2. MarkDisconnected(o)
    BY <1>3, <2>1 DEF Closed
  <2>3. View(r.who, x, o)
    BY <1>b, <1>c, <2>1 DEF UncrossedInv, SoleInv
  <2>4. clients[r.who] = None /\ \A h \in handlers : h.client # x.client
    BY <2>2, <2>3 DEF View, MarkDisconnected, Prompt, NoStray
  <2>5. ASSUME NEW c \in r.before PROVE Silent(c)
    <3>1. ClientOK(r.who, c, x)
      BY <1>1, <2>3 DEF View
    <3> QED
      BY <1>1, <1>b, <2>4, <3>1 DEF ClientOK, Silent
  <2>6. UNCHANGED <<life, handlers>>
    BY <2>2 DEF MarkDisconnected, libVars
  <2>7. qr'[r.who] = None
    BY <1>b, <1>c, <2>2 DEF MarkDisconnected, SetQR, TypeOK
  <2> QED
    BY <1>1, <1>b, <2>5, <2>6, <2>7 DEF Silent
<1> QED
  BY <1>2, <1>3, <1>a DEF FreshOK

LEMMA FreshStep ==
  ASSUME TypeOK, ObTypeOK, WhoInv, BindingInv, NoStray, LinkInv, UncrossedInv, FreshInv,
         [ObNext]_allVars
  PROVE  FreshInv'
<1> SUFFICES ASSUME NEW o \in Request PROVE \A z : z = ob'[o] => FreshOK(z)'
  BY DEF FreshInv, FreshOK
<1>1. PICK r, z, x, y : ob[o] = r /\ ob'[o] = z /\ op[o] = x /\ op'[o] = y
  OBVIOUS
<1>2. Shape(o, r, z, x, y)
  BY <1>1, ObTypeParts, StepShape
<1>3. r \in ObRecord /\ WhoOK(r) /\ LinkOK(r, x) /\ FreshOK(r)
  BY <1>1, ObTypeParts DEF WhoInv, LinkInv, FreshInv
<1>4. ASSUME Waits(r, z, x, y) PROVE FreshOK(z)'
  BY <1>3, <1>4, FreshKept DEF Waits, Keeps
<1>5. ASSUME Starts(z, y) PROVE FreshOK(z)'
  BY <1>5 DEF Starts, FreshOK
<1>6. ASSUME GoesOn(r, z, y) PROVE FreshOK(z)'
  BY <1>3, <1>6, FreshKept DEF GoesOn
<1>7. ASSUME Closes(r, z, y) PROVE FreshOK(z)'
  BY <1>7 DEF Closes, FreshOK
<1>8. ASSUME Closed(o, r, z, y) PROVE FreshOK(z)'
  BY <1>1, <1>3, <1>8, ClosedIsFresh
<1>9. FreshOK(z)'
  BY <1>2, <1>4, <1>5, <1>6, <1>7, <1>8 DEF Shape
<1> QED
  BY <1>1, <1>9

LEMMA FreshInit ==
  ObInit => /\ BindingInv /\ StartupInv /\ AnswerInv /\ WaInv
            /\ LinkInv /\ UncrossedInv /\ FreshInv
<1> SUFFICES ASSUME ObInit
             PROVE  /\ BindingInv /\ StartupInv /\ AnswerInv /\ WaInv
                    /\ LinkInv /\ UncrossedInv /\ FreshInv
  OBVIOUS
<1>1. Init /\ \A o \in Request : ob[o] = ObIdle /\ op[o] = Idle
  BY DEF ObInit, Init, Slot
<1>2. BindingInv /\ StartupInv /\ SerialInv
  BY <1>1, BindingInit, StartupInit, SerialInit
<1>3. AnswerInv /\ WaInv
  BY AnswerFresh, WaInit DEF ObInit, AnswerInv, InviteReplyTruthful
<1>4. LinkInv /\ FreshInv
  BY <1>1, IdleIsTyped DEF LinkInv, LinkOK, FreshInv, FreshOK
<1> QED
  BY <1>2, <1>3, <1>4 DEF UncrossedInv, SerialInv

(* As long as nothing leaves a client outside the map, a regenerated code is not one
   of a client the session had before the old session was closed: for any number of
   requests, on the persons no two of them share, and any events, crashes and restarts
   in between. *)
THEOREM CodeIsFresh == ObSpec /\ []NoStray => []RegeneratedCodeIsFresh
<1> DEFINE Service == TypeOK /\ ObTypeOK /\ WhoInv /\ BindingInv /\ StartupInv
                      /\ AnswerInv /\ WaInv /\ LinkInv
<1>1. ObInit => Service /\ UncrossedInv /\ FreshInv
  BY ObTypeInit, FreshInit
<1>2. Service /\ [ObNext]_allVars => Service'
  BY ObTypeStep, ServiceBindings, AnswerStep, WaStep, LinkStep
<1>3. Service => RequestsApart
  BY LinkedApart DEF WaInv
<1>4. Service /\ RequestsApart /\ RequestsApart' /\ NoStray /\ UncrossedInv
        /\ [ObNext]_allVars => UncrossedInv'
  BY UncrossedStep
<1>5. Service /\ NoStray /\ UncrossedInv /\ FreshInv /\ [ObNext]_allVars => FreshInv'
  BY FreshStep
<1>6. Service /\ FreshInv => RegeneratedCodeIsFresh
  <2> SUFFICES ASSUME WhoInv, FreshInv, dbFaults = 0, NEW o \in Request,
                      ob[o].pc = "confirm", ob[o].who \notin crossed
               PROVE  ob[o].code \notin ob[o].before
    BY DEF RegeneratedCodeIsFresh, Who
  <2>1. ob[o].who \in Session
    BY DEF WhoInv, WhoOK, Phoned
  <2> QED
    BY <2>1 DEF FreshInv, FreshOK
<1> HIDE DEF Service
<1> QED
  BY <1>1, <1>2, <1>3, <1>4, <1>5, <1>6, PTL DEF ObSpec
=============================================================================
