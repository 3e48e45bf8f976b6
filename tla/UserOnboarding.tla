---------------------------- MODULE UserOnboarding -----------------------------
(***************************************************************************)
(* How UsersService brings a person to a WhatsApp session: inviteUser,     *)
(* bulkInviteUsers and regenerateQRCode, composed with the session service *)
(* whose createSession, disconnectSession and getQRCode they call.  A      *)
(* request keeps its slot in both modules: while the call runs, op[o]      *)
(* moves; when it returns, ob[o] goes on.                                  *)
(*                                                                         *)
(* The session id is made of the phone number, so a user with a phone is   *)
(* identified with the session.  Whatever sendToDLQ is asked to store is   *)
(* refused by validation (retryDelay is required and never set): it throws. *)
(***************************************************************************)
EXTENDS WhatsAppSessions

CONSTANTS
  Admin,         \* invited tenant administrators without a phone
  MaxInvites,    \* bound: users of one bulk invitation
  MaxRequests,   \* bound: requests in all
  MaxMailFaults  \* bound: mails that cannot be sent

ASSUME OnboardingAssumption ==
  /\ Admin \cap Session = {} /\ None \notin Admin
  /\ MaxInvites \in Nat /\ MaxRequests \in Nat /\ MaxMailFaults \in Nat

VARIABLES
  user,       \* user[u]: the user document
  ob,         \* program counter and locals of each request
  replies,    \* history: what invitations answered, and whether they saved
  regen,      \* history: regen[u]: how the last request for a code ended:
              \* with one, without one, or at an error before it was looked for
  crossed,    \* history: users two requests have worked on at one time
  requests, mailFaults

obVars  == <<user, ob, replies, regen, crossed, requests, mailFaults>>
allVars == <<vars, obVars>>

Person  == Session \cup Admin
ObLabel == {"idle", "find", "save", "call", "create", "code", "mail", "fail",
            "notice", "welcome", "done", "load", "close", "recall", "reopen",
            "connecting", "confirm", "giveup"}
ObIdle  == [pc |-> "idle", who |-> None, code |-> None, saved |-> FALSE,
            ok |-> TRUE, before |-> {}, rest |-> {}]

ObTypeOK ==
  /\ user \in [Person -> [state : {"absent", "saved", "removed"},
                          wa : {"disconnected", "connecting", "failed"}]]
  /\ ob \in [Request -> [pc : ObLabel, who : Person \cup {None},
                         code : Client \cup {None}, saved : BOOLEAN, ok : BOOLEAN,
                         before : SUBSET Client, rest : SUBSET Person]]
  /\ replies \subseteq [who : Person, ok : BOOLEAN, saved : BOOLEAN]
  /\ regen \in [Session -> {"never", "code", "nocode", "rejected"}]
  /\ crossed \subseteq Person
  /\ requests \in Nat /\ mailFaults \in Nat

ObInit ==
  /\ Init
  /\ user = [u \in Person |-> [state |-> "absent", wa |-> "disconnected"]]
  /\ ob = [o \in Request |-> ObIdle]
  /\ replies = {}
  /\ regen = [u \in Session |-> "never"]
  /\ crossed = {}
  /\ requests = 0
  /\ mailFaults = 0

-----------------------------------------------------------------------------
To(o, label) == ob' = [ob EXCEPT ![o].pc = label]
Who(o)       == ob[o].who
Saved(u)     == user[u].state = "saved"
SetWa(u, wa) == user' = [user EXCEPT ![u].wa = wa]
Busy(U)      == {u \in U : \E q \in Request : ob[q].who = u \/ u \in ob[q].rest}

Begin(o, rec, U) ==
  /\ proc = "listening"
  /\ ob[o] = ObIdle /\ op[o] = Idle
  /\ requests < MaxRequests
  /\ requests' = requests + 1
  /\ ob' = [ob EXCEPT ![o] = rec]
  /\ crossed' = crossed \cup Busy(U)
  /\ UNCHANGED <<vars, user, replies, regen, mailFaults>>

(* inviteUser for one person, bulkInviteUsers for several. *)
StartInvite(o, U) ==
  /\ U # {} /\ Cardinality(U) <= MaxInvites
  /\ \E u \in U :
       Begin(o, [ObIdle EXCEPT !.pc = "find", !.who = u, !.rest = U \ {u}], U)

FindInvitee(o) ==
  /\ ob[o].pc = "find"
  /\ \/ user[Who(o)].state = "absent" /\ To(o, "save")
     \/ /\ user[Who(o)].state # "absent"
        /\ ob' = [ob EXCEPT ![o].pc = "done", ![o].ok = FALSE]
  /\ UNCHANGED <<vars, user, replies, regen, crossed, requests, mailFaults>>

(* The document is stored before anything else happens; a second one with the
   same address is refused by the unique index. *)
SaveInvitee(o) ==
  /\ ob[o].pc = "save"
  /\ \/ /\ user[Who(o)].state = "absent"
        /\ user' = [user EXCEPT ![Who(o)].state = "saved"]
        /\ ob' = [ob EXCEPT ![o].pc = IF Who(o) \in Session THEN "call"
                                                            ELSE "welcome",
                            ![o].saved = TRUE]
     \/ /\ user[Who(o)].state # "absent"
        /\ ob' = [ob EXCEPT ![o].pc = "done", ![o].ok = FALSE]
        /\ UNCHANGED user
  /\ UNCHANGED <<vars, replies, regen, crossed, requests, mailFaults>>

CallCreateSession(o) ==
  /\ \/ ob[o].pc = "call" /\ To(o, "create")
     \/ ob[o].pc = "recall" /\ To(o, "reopen")
  /\ StartCreateSession(o, Who(o))
  /\ UNCHANGED <<user, replies, regen, crossed, requests, mailFaults>>

-----------------------------------------------------------------------------
(* The session service goes on, and a call that returns resumes its request *)

(* createSession rejects in these labels; disconnectSession always resolves. *)
Rejects(o) == op[o].pc \in {"find", "insert", "touch", "fail2"}

(* Broken variant: an error of createSession reaches the caller. *)
ResumedThrows(o) ==
  CASE ob[o].pc = "create" -> [ob[o] EXCEPT !.pc = IF Rejects(o) THEN "done"
                                                                 ELSE "code",
                                            !.ok = ~Rejects(o)]
    [] ob[o].pc = "close"  -> [ob[o] EXCEPT !.pc = "recall"]
    [] ob[o].pc = "reopen" -> [ob[o] EXCEPT !.pc = IF Rejects(o) THEN "giveup"
                                                                 ELSE "connecting"]
    [] OTHER -> ob[o]

(* "Don't fail user creation if WhatsApp/email fails" *)
Resumed(o) ==
  CASE ob[o].pc = "create" -> [ob[o] EXCEPT !.pc = IF Rejects(o) THEN "done"
                                                                 ELSE "code"]
    [] ob[o].pc = "close"  -> [ob[o] EXCEPT !.pc = "recall"]
    [] ob[o].pc = "reopen" -> [ob[o] EXCEPT !.pc = IF Rejects(o) THEN "giveup"
                                                                 ELSE "connecting"]
    [] OTHER -> ob[o]

Returns(o) == op[o] # Idle /\ op'[o] = Idle

(* An invitation whose createSession rejects goes on to its answer: no code is
   read, no FAILED is written and no mail is sent. *)
Follow ==
  /\ ob' = [o \in Request |-> IF Returns(o) THEN Resumed(o) ELSE ob[o]]
  /\ regen' = [u \in Session |->
       IF \E o \in Request : /\ Returns(o) /\ Rejects(o)
                             /\ ob[o].pc = "create" /\ Who(o) = u
       THEN "rejected" ELSE regen[u]]
  /\ UNCHANGED <<user, replies, crossed, requests, mailFaults>>

Call(o) == (Operate(o) \/ OperationDbError(o)) /\ Follow

Elsewhere ==
  /\ \/ \E c \in Client : Library(c) \/ Handle(c) \/ HandlerDbError(c)
     \/ \E s \in Session : ReconnectNext(s)
     \/ Listen \/ Restart
  /\ UNCHANGED obVars

ProcessDies ==
  /\ Crash
  /\ ob' = [o \in Request |-> ObIdle]
  /\ UNCHANGED <<user, replies, regen, crossed, requests, mailFaults>>

-----------------------------------------------------------------------------
(* After createSession: the code, and the mail *)

(* getQRCode: the code of the session document, whichever client's it is. *)
GetQRCode(o) == qr[Who(o)]

(* A fault of the database ends in sendToDLQ, which throws. *)
ReadCode(o) ==
  /\ ob[o].pc = "code"
  /\ \/ /\ GetQRCode(o) # None
        /\ ob' = [ob EXCEPT ![o].code = GetQRCode(o),
                    ![o].pc = IF ob[o].saved THEN "mail" ELSE "confirm"]
        /\ UNCHANGED <<dbFaults, regen>>
     \/ /\ GetQRCode(o) = None
        /\ To(o, IF ob[o].saved THEN "fail" ELSE "giveup")
        /\ UNCHANGED <<dbFaults, regen>>
     \/ /\ dbFaults < MaxDbFaults
        /\ dbFaults' = dbFaults + 1
        /\ \/ ob[o].saved /\ To(o, "done")
              /\ regen' = [regen EXCEPT ![Who(o)] = "rejected"]
           \/ ~ob[o].saved /\ To(o, "giveup") /\ UNCHANGED regen
  /\ UNCHANGED <<procVars, clients, docVars, op, libVars, handlers, crashes, user,
                 replies, crossed, requests, mailFaults>>

(* updateWhatsAppConnectionStatus(FAILED); findOne throws for a removed user. *)
MarkUserFailed(o) ==
  /\ ob[o].pc = "fail"
  /\ \/ Saved(Who(o)) /\ SetWa(Who(o), "failed") /\ To(o, "notice")
     \/ ~Saved(Who(o)) /\ UNCHANGED user /\ To(o, "done")
  /\ regen' = [regen EXCEPT ![Who(o)] = "nocode"]
  /\ UNCHANGED <<vars, replies, crossed, requests, mailFaults>>

(* EmailService logs what goes wrong and throws it on. *)
MailFails == mailFaults < MaxMailFaults /\ mailFaults' = mailFaults + 1

(* sendInvitationEmailWithQR, sendInvitationEmail: their errors are logged. *)
MailInvitation(o) ==
  /\ \/ ob[o].pc = "mail" /\ regen' = [regen EXCEPT ![Who(o)] = "code"]
     \/ ob[o].pc = "notice" /\ UNCHANGED regen
  /\ UNCHANGED mailFaults \/ MailFails
  /\ To(o, "done")
  /\ UNCHANGED <<vars, user, replies, crossed, requests>>

(* The record of the DLQ is refused, and inviteUser does not catch that. *)
SendToDLQ(o) == ob' = [ob EXCEPT ![o].pc = "done", ![o].ok = FALSE]

(* A failed mail to an administrator goes to the DLQ, which throws: the
   invitation rejects although the user is stored. *)
MailWelcome(o) ==
  /\ ob[o].pc = "welcome"
  /\ \/ To(o, "done") /\ UNCHANGED mailFaults
     \/ MailFails /\ SendToDLQ(o)
  /\ UNCHANGED <<vars, user, replies, regen, crossed, requests>>

(* The loop of bulkInviteUsers counts and goes on. *)
NextInvitee(o) ==
  /\ ob[o].pc = "done"
  /\ replies' = replies \cup {[who |-> Who(o), ok |-> ob[o].ok,
                               saved |-> ob[o].saved]}
  /\ \/ \E u \in ob[o].rest :
          ob' = [ob EXCEPT ![o] = [ObIdle EXCEPT !.pc = "find", !.who = u,
                                                 !.rest = ob[o].rest \ {u}]]
     \/ ob[o].rest = {} /\ ob' = [ob EXCEPT ![o] = ObIdle]
  /\ UNCHANGED <<vars, user, regen, crossed, requests, mailFaults>>

-----------------------------------------------------------------------------
(* regenerateQRCode *)

StartRegenerate(o, u) ==
  Begin(o, [ObIdle EXCEPT !.pc = "load", !.who = u], {u})

(* Broken variant: the old session is not closed first. *)
LoadUserOnly(o) ==
  /\ ob[o].pc = "load"
  /\ \/ /\ Saved(Who(o))
        /\ ob' = [ob EXCEPT ![o].pc = "recall",
                            ![o].before = {c \in Client : owner[c] = Who(o)}]
     \/ /\ ~Saved(Who(o))
        /\ ob' = [ob EXCEPT ![o] = ObIdle]
  /\ UNCHANGED <<vars, user, replies, regen, crossed, requests, mailFaults>>

(* before: the clients the session has had when the old one is closed. *)
LoadUser(o) ==
  /\ ob[o].pc = "load"
  /\ \/ /\ Saved(Who(o))
        /\ StartDisconnectSession(o, Who(o))
        /\ ob' = [ob EXCEPT ![o].pc = "close",
                            ![o].before = {c \in Client : owner[c] = Who(o)}]
     \/ /\ ~Saved(Who(o))
        /\ ob' = [ob EXCEPT ![o] = ObIdle]
        /\ UNCHANGED vars
  /\ UNCHANGED <<user, replies, regen, crossed, requests, mailFaults>>

MarkConnecting(o) ==
  /\ ob[o].pc = "connecting"
  /\ \/ Saved(Who(o)) /\ SetWa(Who(o), "connecting") /\ To(o, "code")
     \/ ~Saved(Who(o)) /\ UNCHANGED user /\ To(o, "giveup")
  /\ UNCHANGED <<vars, replies, regen, crossed, requests, mailFaults>>

ReturnCode(o) ==
  /\ ob[o].pc = "confirm"
  /\ \/ /\ Saved(Who(o))
        /\ SetWa(Who(o), "connecting")
        /\ regen' = [regen EXCEPT ![Who(o)] = "code"]
        /\ ob' = [ob EXCEPT ![o] = ObIdle]
     \/ ~Saved(Who(o)) /\ To(o, "giveup") /\ UNCHANGED <<user, regen>>
  /\ UNCHANGED <<vars, replies, crossed, requests, mailFaults>>

(* Broken variant: a failed regeneration leaves the user CONNECTING. *)
GiveUpSilently(o) ==
  /\ ob[o].pc = "giveup"
  /\ regen' = [regen EXCEPT ![Who(o)] = "nocode"]
  /\ ob' = [ob EXCEPT ![o] = ObIdle]
  /\ UNCHANGED <<vars, user, replies, crossed, requests, mailFaults>>

(* The catch block writes FAILED (again) and rejects. *)
GiveUp(o) ==
  /\ ob[o].pc = "giveup"
  /\ IF Saved(Who(o)) THEN SetWa(Who(o), "failed") ELSE UNCHANGED user
  /\ regen' = [regen EXCEPT ![Who(o)] = "nocode"]
  /\ ob' = [ob EXCEPT ![o] = ObIdle]
  /\ UNCHANGED <<vars, replies, crossed, requests, mailFaults>>

-----------------------------------------------------------------------------
RemoveUser(u) ==
  /\ Saved(u)
  /\ user' = [user EXCEPT ![u].state = "removed"]
  /\ UNCHANGED <<vars, ob, replies, regen, crossed, requests, mailFaults>>

Onboard(o) ==
  \/ FindInvitee(o) \/ SaveInvitee(o) \/ CallCreateSession(o) \/ ReadCode(o)
  \/ MarkUserFailed(o) \/ MailInvitation(o) \/ MailWelcome(o) \/ NextInvitee(o)
  \/ LoadUser(o) \/ MarkConnecting(o) \/ ReturnCode(o) \/ GiveUp(o)

ObNext ==
  \/ \E o \in Request :
       \/ \E U \in SUBSET Person : StartInvite(o, U)
       \/ \E u \in Session : StartRegenerate(o, u)
       \/ Onboard(o)
  \/ \E o \in Slot : Call(o)
  \/ \E u \in Person : RemoveUser(u)
  \/ Elsewhere
  \/ ProcessDies

ObSpec == ObInit /\ [][ObNext]_allVars

-----------------------------------------------------------------------------
(* "Don't fail user creation if WhatsApp/email fails": an invitation that
   answers with an error has stored nobody, and one that succeeds has, however
   createSession ends and whoever else is invited at the same time.  A mail to
   an administrator that fails is the exception (MailFailureKeepsInvitation). *)
InviteReplyTruthful ==
  \A r \in replies :
    (r.ok = r.saved) \/ (r.who \in Admin /\ mailFaults > 0)

(* "Don't fail user creation if email fails" (inviteUser, for administrators
   too): an invitation that has stored the user does not reject. *)
MailFailureKeepsInvitation ==
  \A r \in replies : r.saved => r.ok

(* A regenerated code is one of a client that was created for the request: the
   code of the client that was just closed is not handed out again. *)
RegeneratedCodeIsFresh ==
  dbFaults = 0 =>
    \A o \in Request :
      ob[o].pc = "confirm" /\ Who(o) \notin crossed =>
        ob[o].code \notin ob[o].before

(* Of users that no two requests worked on: whatsappConnectionStatus is FAILED
   exactly when the last request for a code found none or, as a regeneration,
   met an error.  An invitation that ends at an error of createSession leaves the
   status of a new user, as if no session had been asked for. *)
FailedMeansNoCode ==
  dbFaults = 0 /\ crashes = 0 =>
    \A u \in Session :
      Saved(u) /\ u \notin crossed /\ Busy({u}) = {} =>
        /\ user[u].wa = "failed" <=> regen[u] = "nocode"
        /\ regen[u] = "rejected" => user[u].wa = "disconnected"

(* "Update WhatsApp connection status to FAILED" (inviteUser, of a session that
   gave no code): a user whose last request ended without a code is FAILED,
   whatever the reason. *)
NoCodeMeansFailed ==
  \A u \in Session :
    /\ Saved(u) /\ u \notin crossed /\ Busy({u}) = {}
    /\ regen[u] \in {"nocode", "rejected"}
    => user[u].wa = "failed"
=============================================================================
