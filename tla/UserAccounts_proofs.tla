-------------------------- MODULE UserAccounts_proofs --------------------------
(***************************************************************************)
(* Theorems about UserAccounts, for any sets of accounts, addresses and    *)
(* requests and any bounds.                                                *)
(***************************************************************************)
EXTENDS UserAccounts, TLAPS

OpType == [pc : Label, user : User \cup {None}, email : Email \cup {None},
           phone : Phone \cup {None}, stale : Email \cup {None}, token : Token]

LEMMA IdleType == Idle \in OpType
  BY DEF Idle, OpType, Label, Token

LEMMA ReturnType ==
  ASSUME op \in [Request -> OpType], NEW o \in Request, Return(o)
  PROVE  op' \in [Request -> OpType]
  BY IdleType DEF Return

LEMMA GotoType ==
  ASSUME op \in [Request -> OpType], NEW o \in Request, NEW l \in Label, Goto(o, l)
  PROVE  op' \in [Request -> OpType]
<1>1. [op[o] EXCEPT !.pc = l] \in OpType
  BY DEF OpType
<1> QED
  BY <1>1 DEF Goto

(* A request goes on with a token of its own. *)
LEMMA IssueType ==
  ASSUME op \in [Request -> OpType], NEW o \in Request, NEW l \in Label,
         NEW t \in Token, op' = [op EXCEPT ![o].pc = l, ![o].token = t]
  PROVE  /\ op' \in [Request -> OpType]
         /\ op'[o].pc = l /\ op'[o].token = t /\ op'[o].email = op[o].email
<1> DEFINE r == [op[o] EXCEPT !.pc = l, !.token = t]
<1>1. r \in OpType /\ r.pc = l /\ r.token = t /\ r.email = op[o].email
  BY DEF OpType
<1>2. op' = [op EXCEPT ![o] = r]
  OBVIOUS
<1> HIDE DEF r
<1> QED
  BY <1>1, <1>2

LEMMA IssueToType ==
  ASSUME op \in [Request -> OpType], NEW o \in Request, NEW l \in Label,
         NEW t \in Token, NEW e \in Email,
         op' = [op EXCEPT ![o].pc = l, ![o].token = t, ![o].email = e]
  PROVE  /\ op' \in [Request -> OpType]
         /\ op'[o].pc = l /\ op'[o].token = t /\ op'[o].email = e
<1> DEFINE r == [op[o] EXCEPT !.pc = l, !.token = t, !.email = e]
<1>1. r \in OpType /\ r.pc = l /\ r.token = t /\ r.email = e
  BY DEF OpType
<1>2. op' = [op EXCEPT ![o] = r]
  OBVIOUS
<1> HIDE DEF r
<1>3. op'[o] = r
  BY <1>2
<1>4. op' \in [Request -> OpType]
  BY <1>1, <1>2
<1> QED
  BY <1>1, <1>3, <1>4

(* The labels at which the e-mail address of a request is set. *)
WithEmail == {"find", "insert", "compare", "mail", "vcompare", "vwrite", "rwrite",
              "rmail", "fsave", "fmail"}

Assigned ==
  \A o \in Request :
    /\ op[o].pc = "idle" => op[o].user = None
    /\ op[o].pc # "idle" => op[o].user \in User
    /\ op[o].pc \in WithEmail => op[o].email \in Email

(* An account has an address. *)
Named == \A u \in User : users[u].state # "absent" => users[u].email \in Email

TypeInv == TypeOK /\ Assigned /\ Named

(* How a step changes a request. *)
LEMMA StepShape ==
  ASSUME op \in [Request -> OpType], NEW o \in Request, Step(o)
  PROVE  /\ op[o].pc # "idle"
         /\ \A q \in Request \ {o} : op'[q] = op[q]
         /\ op'[o] = Idle \/ (op'[o].user = op[o].user /\ op'[o].pc # "idle")
<1>1. op[o] \in OpType
  OBVIOUS
<1>2. CASE FindExistingUser(o) \/ InsertUser(o) \/ RemoveUser(o)
  BY <1>1, <1>2 DEF FindExistingUser, InsertUser, RemoveUser, Goto, Return, OpType
<1>3. CASE LoadForUpdate(o)
  BY <1>1, <1>3 DEF LoadForUpdate, Return, OpType
<1>4. CASE CompareEmail(o)
  BY <1>1, <1>4 DEF CompareEmail, Return, OpType
<1>5. CASE WriteUpdate(o)
  BY <1>1, <1>5 DEF WriteUpdate, Goto, Return, OpType
<1>6. CASE MailVerification(o) \/ MailResent(o) \/ MailReset(o)
  BY <1>1, <1>6 DEF MailVerification, MailResent, MailReset, Send, Return, OpType
<1>7. CASE LoadForVerify(o) \/ ComparePending(o) \/ WriteVerified(o)
  BY <1>1, <1>7 DEF LoadForVerify, ComparePending, WriteVerified, Goto, Return, OpType
<1>8. CASE LoadForResend(o) \/ RenewToken(o)
  BY <1>1, <1>8 DEF LoadForResend, RenewToken, Goto, Return, OpType
<1>9. CASE LoadForForgot(o) \/ SaveResetToken(o)
  BY <1>1, <1>9 DEF LoadForForgot, SaveResetToken, Goto, Return, OpType
<1>10. CASE MatchResetToken(o) \/ SavePassword(o)
  BY <1>1, <1>10 DEF MatchResetToken, SavePassword, Goto, Return, OpType
<1> QED
  BY <1>2, <1>3, <1>4, <1>5, <1>6, <1>7, <1>8, <1>9, <1>10 DEF Step

LEMMA BeginShape ==
  ASSUME op \in [Request -> OpType], NEW o \in Request, NEW l \in Label \ {"idle"},
         NEW u \in User, NEW e \in Email \cup {None}, NEW p \in Phone \cup {None},
         NEW t \in Token, Begin(o, l, u, e, p, t)
  PROVE  /\ op' \in [Request -> OpType]
         /\ op[o].pc = "idle"
         /\ \A q \in Request \ {o} : op'[q] = op[q]
         /\ op'[o].pc = l /\ op'[o].user = u /\ op'[o].email = e /\ op'[o].token = t
<1> DEFINE r == [pc |-> l, user |-> u, email |-> e, phone |-> p, stale |-> None,
                 token |-> t]
<1>1. r \in OpType
  BY DEF OpType
<1>2. r.pc = l /\ r.user = u /\ r.email = e /\ r.token = t
  OBVIOUS
<1>3. op' = [op EXCEPT ![o] = r] /\ op[o].pc = "idle"
  BY DEF Begin
<1> HIDE DEF r
<1> QED
  BY <1>1, <1>2, <1>3

(* A request begins in one of nine ways. *)
LEMMA Starts ==
  ASSUME TypeInv, NEW o \in Request, Start(o)
  PROVE  \E l \in {"find", "load", "delete", "rload", "fload", "vload", "reset"},
            u \in User, e \in Email \cup {None}, p \in Phone \cup {None}, t \in Token :
           /\ Begin(o, l, u, e, p, t)
           /\ l = "find" => e \in Email
           /\ l \notin {"vload", "reset"} => t = 0
           /\ l = "vload" => \E m \in mails : /\ m.kind = "verify"
                                              /\ m.user = u /\ m.token = t
           /\ l = "reset" => \E m \in mails : /\ m.kind = "reset"
                                              /\ m.user = u /\ m.token = t
<1>1. 0 \in Token
  BY DEF Token
<1>2. CASE \E u \in User \ Founder, e \in Email, p \in Phone \cup {None} :
             StartCreate(o, u, e, p) \/ StartRegister(o, u, e, p)
  BY <1>1, <1>2 DEF StartCreate, StartRegister
<1>3. CASE \E u \in User, e \in Email \cup {None}, p \in Phone \cup {None} :
             StartUpdate(o, u, e, p)
  BY <1>1, <1>3 DEF StartUpdate
<1>4. CASE \E u \in User : StartRemove(o, u)
  BY <1>1, <1>4 DEF StartRemove
<1>5. CASE \E u \in User : StartResend(o, u)
  BY <1>1, <1>5 DEF StartResend
<1>6. CASE \E u \in User : StartForgot(o, u)
  BY <1>1, <1>6 DEF StartForgot
<1>7. ASSUME NEW m \in mails, StartVerify(o, m) \/ StartReset(o, m)
      PROVE  /\ m.user \in User /\ m.token \in Token
             /\ \/ m.kind = "verify" /\ Begin(o, "vload", m.user, None, None, m.token)
                \/ m.kind = "reset" /\ Begin(o, "reset", m.user, None, None, m.token)
  BY <1>7 DEF StartVerify, StartReset, TypeInv, TypeOK, Mail
<1>8. CASE \E m \in mails : StartVerify(o, m) \/ StartReset(o, m)
  BY <1>7, <1>8
<1> QED
  BY <1>2, <1>3, <1>4, <1>5, <1>6, <1>8 DEF Start

-----------------------------------------------------------------------------
(* Documents: what is written to one is a document. *)
LEMMA UserWritten ==
  ASSUME TypeInv, NEW u \in User, NEW d \in UserDoc,
         d.state # "absent" => d.email \in Email, users' = [users EXCEPT ![u] = d]
  PROVE  users' \in [User -> UserDoc] /\ Named'
  BY DEF TypeInv, TypeOK, Named

LEMMA UsersStep ==
  ASSUME TypeInv, [Next]_vars
  PROVE  users' \in [User -> UserDoc] /\ Named'
<1>a. /\ users \in [User -> UserDoc] /\ \A u \in User : users[u] \in UserDoc
      /\ op \in [Request -> OpType] /\ \A q \in Request : op[q] \in OpType
  BY DEF TypeInv, TypeOK, OpType
<1>b. \A q \in Request : /\ op[q].pc # "idle" => op[q].user \in User
                         /\ op[q].pc \in WithEmail => op[q].email \in Email
  BY DEF TypeInv, Assigned
<1>c. \A u \in User : users[u].state # "absent" => users[u].email \in Email
  BY DEF TypeInv, Named
<1>1. CASE users' = users
  BY <1>1, <1>a DEF TypeInv, Named
<1>2. ASSUME NEW o \in Request, InsertUser(o)
      PROVE  users' \in [User -> UserDoc] /\ Named'
  <2>1. Me(o) \in User /\ op[o].email \in Email /\ op[o] \in OpType
    BY <1>2, <1>a, <1>b DEF InsertUser, Me, WithEmail
  <2> DEFINE d == [NoUser EXCEPT !.state = "active", !.email = op[o].email,
                                 !.phone = op[o].phone]
  <2>2. d \in UserDoc /\ d.email \in Email
    BY <2>1 DEF NoUser, UserDoc, State, Token, OpType
  <2>3. users' = users \/ users' = [users EXCEPT ![Me(o)] = d]
    BY <1>2 DEF InsertUser
  <2> HIDE DEF d
  <2> QED
    BY <1>1, <2>1, <2>2, <2>3, UserWritten
<1>3. ASSUME NEW o \in Request, WriteUpdate(o)
      PROVE  users' \in [User -> UserDoc] /\ Named'
  <2>1. Me(o) \in User /\ op[o] \in OpType /\ users[Me(o)] \in UserDoc
    BY <1>3, <1>a, <1>b DEF WriteUpdate, Me
  <2>2. Updated(o) \in UserDoc
    <3> DEFINE ph == IF op[o].phone = None THEN users[Me(o)].phone ELSE op[o].phone
               em == IF NewEmail(o) \/ op[o].email = None THEN users[Me(o)].email
                     ELSE op[o].email
               pe == IF NewEmail(o) THEN op[o].email ELSE users[Me(o)].pending
               vt == IF NewEmail(o) THEN op[o].token ELSE users[Me(o)].vtoken
               vf == users[Me(o)].vfresh \/ NewEmail(o)
    <3>1. /\ ph \in Phone \cup {None} /\ em \in Email \cup {None}
          /\ pe \in Email \cup {None} /\ vt \in Token /\ vf \in BOOLEAN
      BY <2>1 DEF UserDoc, OpType
    <3>2. Updated(o) = [users[Me(o)] EXCEPT !.phone = ph, !.email = em, !.pending = pe,
                                            !.vtoken = vt, !.vfresh = vf]
      BY <2>1 DEF Updated, UserDoc
    <3> HIDE DEF ph, em, pe, vt, vf
    <3> QED
      BY <2>1, <3>1, <3>2 DEF UserDoc
  <2>3. Updated(o).state # "absent" => Updated(o).email \in Email
    BY <2>1, <1>c DEF Updated, NewEmail, UserDoc, OpType
  <2>4. users' = users \/ users' = [users EXCEPT ![Me(o)] = Updated(o)]
    BY <1>3 DEF WriteUpdate
  <2> QED
    BY <1>1, <2>1, <2>2, <2>3, <2>4, UserWritten
<1>4. ASSUME NEW o \in Request, RemoveUser(o)
      PROVE  users' \in [User -> UserDoc] /\ Named'
  <2>1. Me(o) \in User /\ users[Me(o)] \in UserDoc
    BY <1>4, <1>a, <1>b DEF RemoveUser, Me
  <2> DEFINE d == [users[Me(o)] EXCEPT !.state = "removed"]
  <2>2. d \in UserDoc /\ d.email = users[Me(o)].email
    BY <2>1 DEF UserDoc, State
  <2>3. \/ users' = users
        \/ users' = [users EXCEPT ![Me(o)] = d] /\ users[Me(o)].state = "active"
    BY <1>4 DEF RemoveUser, FindOne, Active
  <2> HIDE DEF d
  <2> QED
    BY <1>1, <2>1, <2>2, <2>3, <1>c, UserWritten
<1>5. ASSUME NEW o \in Request, WriteVerified(o)
      PROVE  users' \in [User -> UserDoc] /\ Named'
  <2>1. Me(o) \in User /\ op[o].email \in Email /\ users[Me(o)] \in UserDoc
    BY <1>5, <1>a, <1>b DEF WriteVerified, Me, WithEmail
  <2>2. Verified(o) \in UserDoc /\ Verified(o).email \in Email
    BY <2>1 DEF Verified, UserDoc, Token
  <2>3. users' = users \/ users' = [users EXCEPT ![Me(o)] = Verified(o)]
    BY <1>5 DEF WriteVerified
  <2> QED
    BY <1>1, <2>1, <2>2, <2>3, UserWritten
<1>6. ASSUME NEW o \in Request, RenewToken(o) \/ SaveResetToken(o)
      PROVE  users' \in [User -> UserDoc] /\ Named'
  <2>1. Me(o) \in User /\ users[Me(o)] \in UserDoc /\ op[o].token \in Token
    BY <1>6, <1>a, <1>b DEF RenewToken, SaveResetToken, Me, OpType
  <2> DEFINE d == [users[Me(o)] EXCEPT !.vtoken = op[o].token, !.vfresh = TRUE]
             e == [users[Me(o)] EXCEPT !.rtoken = op[o].token, !.rfresh = TRUE]
  <2>2. /\ d \in UserDoc /\ d.email = users[Me(o)].email /\ d.state = users[Me(o)].state
        /\ e \in UserDoc /\ e.email = users[Me(o)].email /\ e.state = users[Me(o)].state
    BY <2>1 DEF UserDoc
  <2>3. \/ users' = [users EXCEPT ![Me(o)] = d]
        \/ users' = [users EXCEPT ![Me(o)] = e]
    BY <1>6, <2>1 DEF RenewToken, SaveResetToken
  <2> HIDE DEF d, e
  <2> QED
    BY <2>1, <2>2, <2>3, <1>c, UserWritten
<1>7. ASSUME NEW o \in Request, SavePassword(o)
      PROVE  users' \in [User -> UserDoc] /\ Named'
  <2>1. Me(o) \in User /\ users[Me(o)] \in UserDoc
    BY <1>7, <1>a, <1>b DEF SavePassword, Me
  <2> DEFINE d == ResetDone(users[Me(o)])
  <2>2. d \in UserDoc /\ d.email = users[Me(o)].email /\ d.state = users[Me(o)].state
    BY <2>1 DEF ResetDone, UserDoc, Token
  <2>3. users' = [users EXCEPT ![Me(o)] = d]
    BY <1>7, <2>1, <1>a DEF SavePassword
  <2> HIDE DEF d
  <2> QED
    BY <2>1, <2>2, <2>3, <1>c, UserWritten
<1>8. ASSUME NEW u \in User, Expire(u)
      PROVE  users' \in [User -> UserDoc] /\ Named'
  <2> DEFINE d == [users[u] EXCEPT !.rfresh = FALSE]
             e == [users[u] EXCEPT !.rfresh = FALSE, !.vfresh = FALSE]
  <2>1. users[u] \in UserDoc
    BY <1>a
  <2>2. /\ d \in UserDoc /\ d.email = users[u].email /\ d.state = users[u].state
        /\ e \in UserDoc /\ e.email = users[u].email /\ e.state = users[u].state
    BY <2>1 DEF UserDoc
  <2>3. users' = [users EXCEPT ![u] = d] \/ users' = [users EXCEPT ![u] = e]
    BY <1>8, <1>a DEF Expire
  <2> HIDE DEF d, e
  <2> QED
    BY <2>2, <2>3, <1>c, UserWritten
<1>9. ASSUME NEW o \in Request, Start(o) PROVE users' = users
  BY <1>9 DEF Start, StartCreate, StartRegister, StartUpdate, StartRemove, StartResend,
              StartForgot, StartVerify, StartReset, Begin
<1>10. ASSUME NEW o \in Request, Step(o)
       PROVE  \/ users' = users
              \/ InsertUser(o) \/ WriteUpdate(o) \/ RemoveUser(o) \/ WriteVerified(o)
              \/ RenewToken(o) \/ SaveResetToken(o) \/ SavePassword(o)
  BY <1>10 DEF Step, FindExistingUser, LoadForUpdate, CompareEmail, MailVerification,
               LoadForVerify, ComparePending, LoadForResend, MailResent, LoadForForgot,
               MailReset, MatchResetToken, Send
<1> QED
  BY <1>1, <1>2, <1>3, <1>4, <1>5, <1>6, <1>7, <1>8, <1>9, <1>10 DEF Next, vars

-----------------------------------------------------------------------------
(* Requests: they stay well typed, and keep their account. *)
LEMMA OpStep ==
  ASSUME TypeInv, [Next]_vars
  PROVE  op' \in [Request -> OpType] /\ Assigned' /\ issued' \in Token
<1>a. /\ op \in [Request -> OpType] /\ \A q \in Request : op[q] \in OpType
      /\ \A u \in User : users[u] \in UserDoc
      /\ issued \in Nat
  BY DEF TypeInv, TypeOK, OpType, Token
<1>b. /\ Idle.pc = "idle" /\ Idle.user = None /\ "idle" \notin WithEmail
  BY DEF Idle, WithEmail
<1>c. /\ issued + 1 \in Token /\ issued + 1 \in Nat
      /\ "write" \in Label /\ "rwrite" \in Label /\ "fsave" \in Label
  BY <1>a DEF Token, Label
<1>1. ASSUME NEW o \in Request, Start(o)
      PROVE  op' \in [Request -> OpType] /\ Assigned'
  <2>1. PICK l \in {"find", "load", "delete", "rload", "fload", "vload", "reset"},
            u \in User, e \in Email \cup {None}, p \in Phone \cup {None}, t \in Token :
           Begin(o, l, u, e, p, t) /\ (l = "find" => e \in Email)
    BY <1>1, Starts
  <2>2. l \in Label \ {"idle"} /\ (l \in WithEmail => l = "find")
    BY DEF Label, WithEmail
  <2>3. /\ op' \in [Request -> OpType]
        /\ \A q \in Request \ {o} : op'[q] = op[q]
        /\ op'[o].pc = l /\ op'[o].user = u /\ op'[o].email = e
    BY <2>1, <2>2, <1>a, BeginShape
  <2> QED
    BY <2>1, <2>2, <2>3 DEF TypeInv, Assigned
<1>2. ASSUME NEW o \in Request, Step(o)
      PROVE  /\ op' \in [Request -> OpType] /\ issued' \in Nat
             /\ op'[o].pc \in WithEmail => op'[o].email \in Email
  <2>1. op[o] \in OpType /\ (op[o].pc # "idle" => op[o].user \in User)
        /\ (op[o].pc \in WithEmail => op[o].email \in Email)
    BY <1>a DEF TypeInv, Assigned
  <2>2. ASSUME NEW l \in Label, Goto(o, l),
               l \in WithEmail => op[o].email \in Email
        PROVE  /\ op' \in [Request -> OpType]
               /\ op'[o].pc \in WithEmail => op'[o].email \in Email
    BY <2>2, <1>a, GotoType DEF Goto, OpType
  <2>3. ASSUME Return(o)
        PROVE  /\ op' \in [Request -> OpType]
               /\ op'[o].pc \in WithEmail => op'[o].email \in Email
    BY <2>3, <1>a, <1>b, ReturnType DEF Return
  <2>4. CASE FindExistingUser(o)
    BY <2>4, <2>1, <2>2, <2>3, <1>a DEF FindExistingUser, Label, WithEmail
  <2>5. CASE InsertUser(o) \/ RemoveUser(o) \/ WriteVerified(o) \/ SavePassword(o)
    BY <2>5, <2>3, <1>a DEF InsertUser, RemoveUser, WriteVerified, SavePassword
  <2>6. CASE LoadForUpdate(o)
    <3>1. CASE Return(o)
      BY <2>6, <3>1, <2>3, <1>a DEF LoadForUpdate
    <3>2. CASE op' = [op EXCEPT ![o].stale = users[Me(o)].email,
                   ![o].pc = IF op[o].email \in {None, users[Me(o)].email}
                             THEN "write" ELSE "compare"]
      <4>1. users[Me(o)] \in UserDoc /\ issued' = issued
        BY <2>6, <2>1, <1>a DEF LoadForUpdate, Me
      <4> DEFINE l == IF op[o].email \in {None, users[Me(o)].email}
                      THEN "write" ELSE "compare"
                 r == [op[o] EXCEPT !.stale = users[Me(o)].email, !.pc = l]
      <4>2. l \in {"write", "compare"} /\ (l = "compare" => op[o].email # None)
        OBVIOUS
      <4> HIDE DEF l
      <4>3. r \in OpType /\ r.pc = l /\ r.email = op[o].email
        BY <4>1, <4>2, <2>1 DEF OpType, UserDoc, Label
      <4>4. op' = [op EXCEPT ![o] = r]
        BY <3>2, <1>a DEF l
      <4> HIDE DEF r
      <4>5. op' \in [Request -> OpType] /\ op'[o] = r
        BY <4>3, <4>4, <1>a
      <4> QED
        BY <4>1, <4>2, <4>3, <4>5, <2>1, <1>a DEF WithEmail, OpType
    <3> QED
      BY <2>6, <3>1, <3>2 DEF LoadForUpdate
  <2>7. CASE CompareEmail(o)
    <3>1. CASE Return(o) /\ UNCHANGED issued
      BY <3>1, <2>3, <1>a
    <3>2. CASE /\ issued' = issued + 1
               /\ op' = [op EXCEPT ![o].pc = "write", ![o].token = issued + 1]
      <4> DEFINE n == issued + 1
      <4>1. op' = [op EXCEPT ![o].pc = "write", ![o].token = n]
            /\ n \in Token /\ issued' = n /\ n \in Nat
        BY <3>2, <1>c
      <4>2. "write" \notin WithEmail
        BY DEF WithEmail
      <4> HIDE DEF n
      <4> QED
        BY <4>1, <4>2, <1>a, <1>c, IssueType
    <3> QED
      BY <2>7, <3>1, <3>2 DEF CompareEmail
  <2>8. CASE WriteUpdate(o)
    <3>1. NewEmail(o) => op[o].email \in Email
      BY <2>1 DEF NewEmail, OpType
    <3> QED
      BY <2>8, <3>1, <2>2, <2>3, <1>a DEF WriteUpdate, Label
  <2>9. CASE MailVerification(o) \/ MailResent(o) \/ MailReset(o)
    BY <2>9, <2>3, <1>a DEF MailVerification, MailResent, MailReset, Send
  <2>10. CASE LoadForVerify(o)
    <3>1. op[o].pc = "vload" /\ users[Me(o)] \in UserDoc
      BY <2>10, <2>1, <1>a DEF LoadForVerify, Me
    <3>2. users[Me(o)].pending # None => users[Me(o)].pending \in Email
      BY <3>1 DEF UserDoc
    <3>3. users[Me(o)].pending # None =>
            [op[o] EXCEPT !.pc = "vcompare", !.email = users[Me(o)].pending] \in OpType
      BY <3>2, <2>1 DEF OpType, Label
    <3> QED
      BY <2>10, <3>2, <3>3, <2>3, <1>a DEF LoadForVerify, OpType
  <2>11. CASE ComparePending(o) \/ MatchResetToken(o)
    BY <2>11, <2>1, <2>2, <2>3, <1>a
       DEF ComparePending, MatchResetToken, Label, WithEmail
  <2>12. CASE LoadForResend(o)
    <3>1. op[o].pc = "rload" /\ users[Me(o)] \in UserDoc
      BY <2>12, <2>1, <1>a DEF LoadForResend, Me
    <3>2. users[Me(o)].pending # None => users[Me(o)].pending \in Email
      BY <3>1 DEF UserDoc
    <3>3. CASE Return(o) /\ UNCHANGED issued
      BY <3>3, <2>3, <1>a
    <3>4. CASE /\ users[Me(o)].pending \in Email /\ issued' = issued + 1
               /\ op' = [op EXCEPT ![o].pc = "rwrite", ![o].token = issued + 1,
                                   ![o].email = users[Me(o)].pending]
      <4> DEFINE n == issued + 1
                 e == users[Me(o)].pending
      <4>1. op' = [op EXCEPT ![o].pc = "rwrite", ![o].token = n, ![o].email = e]
            /\ n \in Token /\ issued' = n /\ n \in Nat /\ e \in Email
        BY <3>4, <1>c
      <4> HIDE DEF n, e
      <4>2. op' \in [Request -> OpType] /\ op'[o].email = e
        BY <4>1, <1>a, <1>c, IssueToType
      <4> QED
        BY <4>1, <4>2
    <3> QED
      BY <2>12, <3>2, <3>3, <3>4 DEF LoadForResend
  <2>13. CASE RenewToken(o) \/ SaveResetToken(o)
    BY <2>13, <2>1, <2>2, <1>a DEF RenewToken, SaveResetToken, Label, WithEmail
  <2>14. CASE LoadForForgot(o)
    <3>1. op[o].pc = "fload" /\ Me(o) \in User
      BY <2>14, <2>1 DEF LoadForForgot, Me
    <3>2. Active(Me(o)) => users[Me(o)].email \in Email
      BY <3>1 DEF Active, TypeInv, Named
    <3>3. CASE Return(o) /\ UNCHANGED issued
      BY <3>3, <2>3, <1>a
    <3>4. CASE /\ users[Me(o)].email \in Email /\ issued' = issued + 1
               /\ op' = [op EXCEPT ![o].pc = "fsave", ![o].token = issued + 1,
                                   ![o].email = users[Me(o)].email]
      <4> DEFINE n == issued + 1
                 e == users[Me(o)].email
      <4>1. op' = [op EXCEPT ![o].pc = "fsave", ![o].token = n, ![o].email = e]
            /\ n \in Token /\ issued' = n /\ n \in Nat /\ e \in Email
        BY <3>4, <1>c
      <4> HIDE DEF n, e
      <4>2. op' \in [Request -> OpType] /\ op'[o].email = e
        BY <4>1, <1>a, <1>c, IssueToType
      <4> QED
        BY <4>1, <4>2
    <3> QED
      BY <2>14, <3>2, <3>3, <3>4 DEF LoadForForgot
  <2> QED
    BY <1>2, <2>4, <2>5, <2>6, <2>7, <2>8, <2>9, <2>10, <2>11, <2>12, <2>13, <2>14
       DEF Step
<1>3. ASSUME NEW o \in Request, Step(o) PROVE Assigned'
  <2>1. /\ op[o].pc # "idle"
        /\ \A q \in Request \ {o} : op'[q] = op[q]
        /\ op'[o] = Idle \/ (op'[o].user = op[o].user /\ op'[o].pc # "idle")
    BY <1>3, <1>a, StepShape
  <2>2. op'[o].pc \in WithEmail => op'[o].email \in Email
    BY <1>2, <1>3
  <2>3. /\ op'[o].pc = "idle" => op'[o].user = None
        /\ op'[o].pc # "idle" => op'[o].user \in User
    BY <2>1, <1>b DEF TypeInv, Assigned
  <2> SUFFICES ASSUME NEW q \in Request
               PROVE  /\ op'[q].pc = "idle" => op'[q].user = None
                      /\ op'[q].pc # "idle" => op'[q].user \in User
                      /\ op'[q].pc \in WithEmail => op'[q].email \in Email
    BY DEF Assigned
  <2>4. CASE q = o
    BY <2>2, <2>3, <2>4
  <2>5. CASE q # o
    BY <2>1, <2>5 DEF TypeInv, Assigned
  <2> QED
    BY <2>4, <2>5
<1>4. ASSUME UNCHANGED op PROVE op' \in [Request -> OpType] /\ Assigned'
  BY <1>4, <1>a DEF TypeInv, Assigned
<1>5. ASSUME NEW o \in Request, Start(o) PROVE issued' = issued
  BY <1>5 DEF Start, StartCreate, StartRegister, StartUpdate, StartRemove, StartResend,
              StartForgot, StartVerify, StartReset, Begin
<1> QED
  BY <1>1, <1>2, <1>3, <1>4, <1>5, <1>a DEF Next, Expire, vars, Token

LEMMA OthersStep ==
  ASSUME TypeInv, [Next]_vars
  PROVE  /\ mails' \subseteq Mail
         /\ used' \subseteq Token /\ reused' \subseteq used'
         /\ overlapped' \subseteq User
         /\ requests' \in 0..MaxRequests
         /\ faults' \in Nat
<1>a. /\ op \in [Request -> OpType] /\ \A q \in Request : op[q] \in OpType
      /\ mails \subseteq Mail /\ used \subseteq Token /\ reused \subseteq used
      /\ overlapped \subseteq User /\ requests \in 0..MaxRequests /\ faults \in Nat
      /\ MaxRequests \in Nat
  BY AccountsAssumption DEF TypeInv, TypeOK, OpType
<1>1. ASSUME NEW o \in Request, Start(o)
      PROVE  /\ UNCHANGED <<mails, used, reused, faults>>
             /\ overlapped' \subseteq User /\ requests' \in 0..MaxRequests
  <2>1. PICK l \in {"find", "load", "delete", "rload", "fload", "vload", "reset"},
            u \in User, e \in Email \cup {None}, p \in Phone \cup {None}, t \in Token :
           Begin(o, l, u, e, p, t)
    BY <1>1, Starts
  <2>2. requests' \in 0..MaxRequests
    BY <2>1, <1>a DEF Begin
  <2> QED
    BY <2>1, <2>2, <1>a DEF Begin
<1>2. ASSUME NEW o \in Request, Step(o)
      PROVE  UNCHANGED <<overlapped, requests>>
  BY <1>2 DEF Step, FindExistingUser, InsertUser, LoadForUpdate, CompareEmail,
              WriteUpdate, MailVerification, RemoveUser, LoadForVerify, ComparePending,
              WriteVerified, LoadForResend, RenewToken, MailResent, LoadForForgot,
              SaveResetToken, MailReset, MatchResetToken, SavePassword, Send
<1>3. ASSUME NEW o \in Request, Step(o)
      PROVE  mails' \subseteq Mail /\ faults' \in Nat
  <2>1. CASE MailVerification(o) \/ MailResent(o) \/ MailReset(o)
    <3>1. op[o].pc \in {"mail", "rmail", "fmail"}
      BY <2>1 DEF MailVerification, MailResent, MailReset
    <3>2. Me(o) \in User /\ op[o].email \in Email /\ op[o].token \in Token
      BY <3>1, <1>a DEF TypeInv, Assigned, WithEmail, Me, OpType
    <3>3. \A k \in {"verify", "reset"} :
            [kind |-> k, user |-> Me(o), to |-> op[o].email, token |-> op[o].token]
              \in Mail
      BY <3>2 DEF Mail
    <3>4. faults' \in Nat
      BY <2>1, <1>a DEF MailVerification, MailResent, MailReset, Send
    <3>5. mails' = mails \/ \E k \in {"verify", "reset"} :
            mails' = mails \cup {[kind |-> k, user |-> Me(o), to |-> op[o].email,
                                  token |-> op[o].token]}
      BY <2>1 DEF MailVerification, MailResent, MailReset, Send
    <3> QED
      BY <3>3, <3>4, <3>5, <1>a
  <2>2. CASE ~(MailVerification(o) \/ MailResent(o) \/ MailReset(o))
    BY <1>3, <2>2, <1>a
       DEF Step, FindExistingUser, InsertUser, LoadForUpdate, CompareEmail,
           WriteUpdate, RemoveUser, LoadForVerify, ComparePending, WriteVerified,
           LoadForResend, RenewToken, LoadForForgot, SaveResetToken,
           MatchResetToken, SavePassword
  <2> QED
    BY <2>1, <2>2
<1>4. ASSUME NEW o \in Request, Step(o)
      PROVE  used' \subseteq Token /\ reused' \subseteq used'
  <2>1. CASE WriteVerified(o) \/ SavePassword(o)
    <3>1. op[o].token \in Token
      BY <1>a DEF OpType
    <3>2. UNCHANGED <<used, reused>> \/ Use(op[o].token)
      BY <2>1 DEF WriteVerified, SavePassword
    <3> QED
      BY <3>1, <3>2, <1>a DEF Use
  <2>2. CASE ~(WriteVerified(o) \/ SavePassword(o))
    BY <1>4, <2>2, <1>a
       DEF Step, FindExistingUser, InsertUser, LoadForUpdate, CompareEmail,
           WriteUpdate, MailVerification, RemoveUser, LoadForVerify, ComparePending,
           LoadForResend, RenewToken, MailResent, LoadForForgot, SaveResetToken,
           MailReset, MatchResetToken, Send
  <2> QED
    BY <2>1, <2>2
<1>5. ASSUME (\E u \in User : Expire(u)) \/ UNCHANGED vars
      PROVE  UNCHANGED <<mails, used, reused, overlapped, requests, faults>>
  BY <1>5 DEF Expire, vars
<1> QED
  BY <1>1, <1>2, <1>3, <1>4, <1>5, <1>a DEF Next

LEMMA TypeInit == Init => TypeInv
<1> SUFFICES ASSUME Init PROVE TypeInv
  OBVIOUS
<1>1. NoUser \in UserDoc /\ NoUser.state = "absent"
  BY DEF NoUser, UserDoc, State, Token
<1>2. \A e \in Email :
        /\ [NoUser EXCEPT !.state = "active", !.email = e] \in UserDoc
        /\ [NoUser EXCEPT !.state = "active", !.email = e].email = e
  BY DEF NoUser, UserDoc, State, Token
<1>3. \A u \in User :
        users[u] \in UserDoc /\ (users[u].state # "absent" => users[u].email \in Email)
  BY <1>1, <1>2, AccountsAssumption DEF Init
<1>4. users \in [User -> UserDoc] /\ Named
  BY <1>3 DEF Init, Named
<1>5. op \in [Request -> OpType]
  BY IdleType DEF Init
<1>6. Assigned
  <2>1. \A o \in Request : op[o].pc = "idle" /\ op[o].user = None
    BY DEF Init, Idle
  <2>2. "idle" \notin WithEmail
    BY DEF WithEmail
  <2> QED
    BY <2>1, <2>2 DEF Assigned
<1>7. requests \in 0..MaxRequests
  <2>1. requests = 0
    BY DEF Init
  <2>2. MaxRequests \in Nat
    BY AccountsAssumption
  <2> QED
    BY <2>1, <2>2
<1>9. issued \in Token /\ faults \in Nat
  BY DEF Init, Token
<1>8. mails \subseteq Mail /\ used \subseteq Token /\ reused \subseteq used
      /\ overlapped \subseteq User
  BY DEF Init
<1> QED
  BY <1>4, <1>5, <1>6, <1>7, <1>8, <1>9 DEF TypeInv, TypeOK, OpType

LEMMA TypeStep == TypeInv /\ [Next]_vars => TypeInv'
  BY UsersStep, OpStep, OthersStep DEF TypeInv, TypeOK, OpType

(* Every reachable state is well typed: among the rest, an account has an address,
   and so has every mail that carries a token. *)
THEOREM TypeCorrect == Spec => []TypeOK
<1>1. TypeInv => TypeOK
  BY DEF TypeInv
<1> QED
  BY TypeInit, TypeStep, <1>1, PTL DEF Spec

-----------------------------------------------------------------------------
(* TokenUsedOnce: where a token can be between its making and its use. *)

Storing   == {"write", "rwrite", "fsave"}
Mailing   == {"mail", "rmail", "fmail"}
Verifying == {"vload", "vcompare", "vwrite"}
Resetting == {"reset", "rsave"}

Old == 0..issued

(* No token is one that has not been issued yet. *)
Bounded ==
  /\ \A u \in User : users[u].vtoken \in Old /\ users[u].rtoken \in Old
  /\ \A m \in mails : m.token \in Old /\ m.token # 0
  /\ \A o \in Request : op[o].token \in Old

(* A token is mailed for one purpose, and one that was used was mailed. *)
OneMail ==
  /\ \A m, n \in mails : m.token = n.token => m.user = n.user /\ m.kind = n.kind
  /\ \A t \in used : \E m \in mails : m.token = t

(* Who comes with a token has it from a mail. *)
FromMailAt(o) ==
  /\ op[o].pc \in Verifying =>
       \E m \in mails : /\ m.kind = "verify" /\ m.user = op[o].user
                        /\ m.token = op[o].token
  /\ op[o].pc \in Resetting =>
       \E m \in mails : /\ m.kind = "reset" /\ m.user = op[o].user
                        /\ m.token = op[o].token

FromMail == \A o \in Request : FromMailAt(o)

(* A token that is yet to be mailed is known to its request only, and to the
   document once it is stored there. *)
FreshAt(o) ==
  /\ op[o].pc = "load" => op[o].token = 0
  /\ op[o].pc = "write" /\ NewEmail(o) => op[o].token # 0
  /\ op[o].pc \in {"rwrite", "fsave"} \cup Mailing => op[o].token # 0
  /\ op[o].pc \in Storing \cup Mailing /\ op[o].token # 0 =>
       /\ \A m \in mails : m.token # op[o].token
       /\ \A q \in Request \ {o} : op[q].token # op[o].token
  /\ op[o].pc \in Storing /\ op[o].token # 0 =>
       \A u \in User : /\ users[u].vtoken # op[o].token
                       /\ users[u].rtoken # op[o].token

Fresh == \A o \in Request : FreshAt(o)

(* A stored token was or will be mailed for that purpose only, and is unused. *)
Owned ==
  \A u \in User :
    /\ users[u].vtoken # 0 =>
         /\ users[u].vtoken \notin used
         /\ \A m \in mails : m.token = users[u].vtoken =>
              m.user = u /\ m.kind = "verify"
         /\ \A o \in Request :
              op[o].pc \in Mailing /\ op[o].token = users[u].vtoken =>
                op[o].user = u /\ op[o].pc # "fmail"
    /\ users[u].rtoken # 0 =>
         /\ users[u].rtoken \notin used
         /\ \A m \in mails : m.token = users[u].rtoken =>
              m.user = u /\ m.kind = "reset"
         /\ \A o \in Request :
              op[o].pc \in Mailing /\ op[o].token = users[u].rtoken =>
                op[o].user = u /\ op[o].pc = "fmail"

(* The only request on an account has read what the document still says. *)
CurrentAt(o) ==
  op[o].user \notin overlapped =>
  /\ op[o].pc \in {"vcompare", "vwrite"} =>
       users[op[o].user].vtoken = op[o].token
  /\ op[o].pc = "rsave" => users[op[o].user].rtoken = op[o].token

Current == \A o \in Request : CurrentAt(o)

Alone ==
  \A o, q \in Request :
    o # q /\ op[o].user = op[q].user /\ op[o].user # None => op[o].user \in overlapped

TokenInv ==
  /\ Bounded /\ OneMail /\ FromMail /\ Fresh /\ Owned /\ Current /\ Alone
  /\ TokenUsedOnce

(* What the steps do to tokens, by kind of step. *)
SameTokens(u) ==
  users'[u].vtoken = users[u].vtoken /\ users'[u].rtoken = users[u].rtoken

Goes(o, from, to) ==
  /\ op[o].pc \in from /\ op'[o].pc \in to
  /\ op'[o].user = op[o].user /\ op'[o].token = op[o].token

Ends(o) ==
  /\ op'[o] = Idle
  /\ UNCHANGED <<mails, used, reused, issued>>
  /\ \A u \in User :
       /\ users'[u].vtoken \in {0, users[u].vtoken}
       /\ users'[u].rtoken \in {0, users[u].rtoken}
       /\ u # op[o].user => SameTokens(u)

Advances(o) ==
  /\ UNCHANGED <<mails, used, reused, issued>>
  /\ \A u \in User : SameTokens(u)
  /\ \/ Goes(o, {"find", "load", "compare"}, {"insert", "compare"})
     \/ Goes(o, {"load"}, {"write"}) /\ ~NewEmail(o)'
     \/ Goes(o, {"vload"}, {"vcompare"}) /\ users[op[o].user].vtoken = op[o].token
     \/ Goes(o, {"vcompare"}, {"vwrite"})
     \/ Goes(o, {"reset"}, {"rsave"}) /\ users[op[o].user].rtoken = op[o].token

Issues(o) ==
  /\ UNCHANGED <<mails, used, reused>>
  /\ \A u \in User : SameTokens(u)
  /\ issued' = issued + 1 /\ op'[o].token = issued + 1
  /\ op'[o].user = op[o].user /\ op'[o].pc \in Storing

Stores(o) ==
  /\ UNCHANGED <<mails, used, reused, issued>>
  /\ \A u \in User : u # op[o].user => SameTokens(u)
  /\ \/ /\ Goes(o, {"write", "rwrite"}, {"mail", "rmail"})
        /\ op[o].pc = "write" => NewEmail(o)
        /\ users'[op[o].user].vtoken = op[o].token
        /\ users'[op[o].user].rtoken = users[op[o].user].rtoken
     \/ /\ Goes(o, {"fsave"}, {"fmail"})
        /\ users'[op[o].user].rtoken = op[o].token
        /\ users'[op[o].user].vtoken = users[op[o].user].vtoken

Mails(o) ==
  /\ UNCHANGED <<users, used, reused, issued>>
  /\ op[o].pc \in Mailing /\ op'[o] = Idle
  /\ \E m : /\ mails' = mails \cup {m}
            /\ m.user = op[o].user /\ m.token = op[o].token
            /\ m.kind = IF op[o].pc = "fmail" THEN "reset" ELSE "verify"

Uses(o) ==
  /\ UNCHANGED <<mails, issued>>
  /\ Use(op[o].token) /\ op'[o] = Idle
  /\ \A u \in User : u # op[o].user => SameTokens(u)
  /\ \/ /\ op[o].pc = "vwrite"
        /\ users'[op[o].user].vtoken = 0
        /\ users'[op[o].user].rtoken = users[op[o].user].rtoken
     \/ /\ op[o].pc = "rsave"
        /\ users'[op[o].user].rtoken = 0
        /\ users'[op[o].user].vtoken = users[op[o].user].vtoken

LEMMA StepKinds ==
  ASSUME TypeInv, NEW o \in Request, Step(o)
  PROVE  \/ Ends(o) \/ Advances(o) \/ Issues(o) \/ Stores(o) \/ Mails(o) \/ Uses(o)
<1>a. /\ op \in [Request -> OpType] /\ op[o] \in OpType
      /\ users \in [User -> UserDoc] /\ \A u \in User : users[u] \in UserDoc
  BY DEF TypeInv, TypeOK, OpType
<1>b. op[o].pc # "idle" => op[o].user \in User
  BY DEF TypeInv, Assigned
<1>c. users' = users => \A u \in User : SameTokens(u)
  BY DEF SameTokens
<1>d. ASSUME NEW d, Me(o) \in User, users' = [users EXCEPT ![Me(o)] = d]
      PROVE  /\ \A u \in User : u # op[o].user => SameTokens(u)
             /\ users'[op[o].user] = d
  BY <1>d, <1>a DEF SameTokens, Me
<1>1. CASE FindExistingUser(o)
  BY <1>1, <1>a, <1>c
     DEF FindExistingUser, Goto, Return, Ends, Advances, Goes, OpType, SameTokens
<1>2. CASE InsertUser(o)
  <2> DEFINE d == [NoUser EXCEPT !.state = "active", !.email = op[o].email,
                                 !.phone = op[o].phone]
  <2>1. d.vtoken = 0 /\ d.rtoken = 0
    BY DEF NoUser
  <2>2. users' = users \/ users' = [users EXCEPT ![Me(o)] = d]
    BY <1>2 DEF InsertUser
  <2> HIDE DEF d
  <2>3. Me(o) \in User
    BY <1>2, <1>b DEF InsertUser, Me
  <2>4. op'[o] = Idle /\ UNCHANGED <<mails, used, reused, issued>>
    BY <1>2, <1>a DEF InsertUser, Return
  <2> QED
    BY <2>1, <2>2, <2>3, <2>4, <1>c, <1>d DEF Ends, SameTokens
<1>3. CASE LoadForUpdate(o)
  BY <1>3, <1>a, <1>c
     DEF LoadForUpdate, Return, Ends, Advances, Goes, NewEmail, OpType, SameTokens
<1>4. CASE CompareEmail(o)
  <2> DEFINE n == issued + 1
  <2>1. \/ op'[o] = Idle /\ issued' = issued
        \/ /\ issued' = n /\ op'[o].token = n /\ op'[o].user = op[o].user
           /\ op'[o].pc = "write"
    <3> HIDE DEF n
    <3>1. \/ op' = [op EXCEPT ![o] = Idle] /\ issued' = issued
          \/ issued' = n /\ op' = [op EXCEPT ![o].pc = "write", ![o].token = n]
      BY <1>4 DEF CompareEmail, Return, n
    <3> QED
      BY <3>1, <1>a DEF OpType
  <2>2. UNCHANGED <<users, mails, used, reused>>
    BY <1>4 DEF CompareEmail
  <2> QED
    BY <2>1, <2>2, <1>c DEF Ends, Issues, Storing, SameTokens
<1>5. CASE WriteUpdate(o)
  <2>1. Me(o) \in User /\ users[Me(o)] \in UserDoc
    BY <1>5, <1>a, <1>b DEF WriteUpdate, Me
  <2>2. /\ Updated(o).rtoken = users[Me(o)].rtoken
        /\ Updated(o).vtoken = IF NewEmail(o) THEN op[o].token
                               ELSE users[Me(o)].vtoken
    BY <2>1 DEF Updated, UserDoc
  <2>3. /\ op[o].pc = "write" /\ UNCHANGED <<mails, used, reused, issued>>
        /\ \/ users' = users /\ op'[o] = Idle
           \/ users' = [users EXCEPT ![Me(o)] = Updated(o)] /\ ~NewEmail(o)
              /\ op'[o] = Idle
           \/ users' = [users EXCEPT ![Me(o)] = Updated(o)] /\ NewEmail(o)
              /\ op'[o].pc = "mail" /\ op'[o].user = op[o].user
              /\ op'[o].token = op[o].token
    BY <1>5, <1>a DEF WriteUpdate, Goto, Return, OpType
  <2> HIDE DEF Updated
  <2> QED
    BY <2>1, <2>2, <2>3, <1>c, <1>d DEF Ends, Stores, Goes, SameTokens, Me
<1>6. CASE MailVerification(o) \/ MailResent(o) \/ MailReset(o)
  <2> DEFINE k == IF op[o].pc = "fmail" THEN "reset" ELSE "verify"
             m == [kind |-> k, user |-> Me(o), to |-> op[o].email,
                   token |-> op[o].token]
  <2>1. m.user = op[o].user /\ m.token = op[o].token /\ m.kind = k
    BY DEF Me
  <2>2. /\ UNCHANGED <<users, used, reused, issued>>
        /\ op[o].pc \in Mailing /\ op'[o] = Idle
        /\ mails' = mails \/ mails' = mails \cup {m}
    BY <1>6, <1>a
       DEF MailVerification, MailResent, MailReset, Send, Return, Mailing
  <2> HIDE DEF m
  <2> QED
    BY <2>1, <2>2, <1>c DEF Mails, Ends, SameTokens
<1>7. CASE RemoveUser(o)
  <2>1. Me(o) \in User /\ users[Me(o)] \in UserDoc
    BY <1>7, <1>a, <1>b DEF RemoveUser, Me
  <2> DEFINE d == [users[Me(o)] EXCEPT !.state = "removed"]
  <2>2. d.vtoken = users[Me(o)].vtoken /\ d.rtoken = users[Me(o)].rtoken
    BY <2>1 DEF UserDoc
  <2>3. users' = users \/ users' = [users EXCEPT ![Me(o)] = d]
    BY <1>7, <1>a DEF RemoveUser
  <2> HIDE DEF d
  <2>4. op'[o] = Idle /\ UNCHANGED <<mails, used, reused, issued>>
    BY <1>7, <1>a DEF RemoveUser, Return
  <2> QED
    BY <2>1, <2>2, <2>3, <2>4, <1>c, <1>d DEF Ends, SameTokens, Me
<1>8. CASE LoadForVerify(o) \/ ComparePending(o)
  BY <1>8, <1>a, <1>c
     DEF LoadForVerify, ComparePending, Goto, Return, Ends, Advances, Goes, OpType,
         SameTokens, Me
<1>9. CASE WriteVerified(o)
  <2>1. Me(o) \in User /\ users[Me(o)] \in UserDoc
    BY <1>9, <1>a, <1>b DEF WriteVerified, Me
  <2>2. Verified(o).vtoken = 0 /\ Verified(o).rtoken = users[Me(o)].rtoken
    BY <2>1 DEF Verified, UserDoc
  <2>3. /\ op[o].pc = "vwrite" /\ op'[o] = Idle /\ UNCHANGED <<mails, issued>>
        /\ \/ UNCHANGED <<users, used, reused>>
           \/ users' = [users EXCEPT ![Me(o)] = Verified(o)] /\ Use(op[o].token)
    BY <1>9, <1>a DEF WriteVerified, Return
  <2> QED
    BY <2>1, <2>2, <2>3, <1>c, <1>d DEF Ends, Uses, SameTokens, Me
<1>10. CASE LoadForResend(o) \/ LoadForForgot(o)
  <2> DEFINE n == issued + 1
  <2>1. \/ op'[o] = Idle /\ issued' = issued
        \/ /\ issued' = n /\ op'[o].token = n /\ op'[o].user = op[o].user
           /\ op'[o].pc \in {"rwrite", "fsave"}
    <3> HIDE DEF n
    <3>1. \/ op' = [op EXCEPT ![o] = Idle] /\ issued' = issued
          \/ issued' = n /\ \E e, l : /\ l \in {"rwrite", "fsave"}
                                      /\ op' = [op EXCEPT ![o].pc = l, ![o].token = n,
                                                          ![o].email = e]
      BY <1>10 DEF LoadForResend, LoadForForgot, Return, n
    <3>2. ASSUME NEW e, NEW l,
                 op' = [op EXCEPT ![o].pc = l, ![o].token = n, ![o].email = e]
          PROVE  op'[o].token = n /\ op'[o].user = op[o].user /\ op'[o].pc = l
      BY <3>2, <1>a DEF OpType
    <3>3. op' = [op EXCEPT ![o] = Idle] => op'[o] = Idle
      BY <1>a
    <3> QED
      BY <3>1, <3>2, <3>3
  <2>2. UNCHANGED <<users, mails, used, reused>>
    BY <1>10 DEF LoadForResend, LoadForForgot
  <2> QED
    BY <2>1, <2>2, <1>c DEF Ends, Issues, Storing, SameTokens
<1>11. CASE RenewToken(o) \/ SaveResetToken(o)
  <2>1. Me(o) \in User /\ users[Me(o)] \in UserDoc
    BY <1>11, <1>a, <1>b DEF RenewToken, SaveResetToken, Me
  <2> DEFINE d == [users[Me(o)] EXCEPT !.vtoken = op[o].token, !.vfresh = TRUE]
             e == [users[Me(o)] EXCEPT !.rtoken = op[o].token, !.rfresh = TRUE]
  <2>2. /\ d.vtoken = op[o].token /\ d.rtoken = users[Me(o)].rtoken
        /\ e.rtoken = op[o].token /\ e.vtoken = users[Me(o)].vtoken
    BY <2>1 DEF UserDoc
  <2>3. /\ UNCHANGED <<mails, used, reused, issued>>
        /\ \/ Goes(o, {"write", "rwrite"}, {"mail", "rmail"}) /\ op[o].pc = "rwrite"
              /\ users' = [users EXCEPT ![Me(o)] = d]
           \/ Goes(o, {"fsave"}, {"fmail"}) /\ users' = [users EXCEPT ![Me(o)] = e]
    <3>1. CASE RenewToken(o)
      <4>1. users' = [users EXCEPT ![Me(o)] = d]
        BY <3>1, <2>1, <1>a DEF RenewToken
      <4>2. Goes(o, {"write", "rwrite"}, {"mail", "rmail"})
        BY <3>1, <1>a DEF RenewToken, Goto, Goes, OpType
      <4> QED
        BY <3>1, <4>1, <4>2 DEF RenewToken
    <3>2. CASE SaveResetToken(o)
      <4>1. users' = [users EXCEPT ![Me(o)] = e]
        BY <3>2, <2>1, <1>a DEF SaveResetToken
      <4>2. Goes(o, {"fsave"}, {"fmail"})
        BY <3>2, <1>a DEF SaveResetToken, Goto, Goes, OpType
      <4> QED
        BY <3>2, <4>1, <4>2 DEF SaveResetToken
    <3> QED
      BY <1>11, <3>1, <3>2
  <2> HIDE DEF d, e
  <2>4. Me(o) = op[o].user /\ op[o].pc \in {"rwrite", "fsave"}
    BY <2>3 DEF Me, Goes
  <2>5. /\ \A u \in User : u # op[o].user => SameTokens(u)
        /\ users'[op[o].user] = d \/ users'[op[o].user] = e
    BY <2>1, <2>3, <1>d
  <2>6. CASE users' = [users EXCEPT ![Me(o)] = d] /\ op[o].pc = "rwrite"
    BY <2>1, <2>2, <2>3, <2>4, <2>6, <1>d DEF Stores, Goes
  <2>7. CASE users' = [users EXCEPT ![Me(o)] = e] /\ op[o].pc = "fsave"
    BY <2>1, <2>2, <2>3, <2>4, <2>7, <1>d DEF Stores, Goes
  <2> QED
    BY <2>3, <2>6, <2>7 DEF Goes
<1>12. CASE MatchResetToken(o)
  BY <1>12, <1>a, <1>c
     DEF MatchResetToken, Goto, Return, Ends, Advances, Goes, OpType, SameTokens, Me
<1>13. CASE SavePassword(o)
  <2>1. Me(o) \in User /\ users[Me(o)] \in UserDoc
    BY <1>13, <1>a, <1>b DEF SavePassword, Me
  <2> DEFINE d == ResetDone(users[Me(o)])
  <2>2. d.rtoken = 0 /\ d.vtoken = users[Me(o)].vtoken
    BY <2>1 DEF ResetDone, UserDoc
  <2>3. users' = [users EXCEPT ![Me(o)] = d]
    BY <1>13, <2>1, <1>a DEF SavePassword
  <2> HIDE DEF d
  <2>4. /\ op[o].pc = "rsave" /\ op'[o] = Idle /\ UNCHANGED <<mails, issued>>
        /\ Use(op[o].token)
    BY <1>13, <1>a DEF SavePassword, Return
  <2> QED
    BY <2>1, <2>2, <2>3, <2>4, <1>d DEF Uses, Me
<1> QED
  BY <1>1, <1>2, <1>3, <1>4, <1>5, <1>6, <1>7, <1>8, <1>9, <1>10, <1>11, <1>12, <1>13
     DEF Step

(* The labels a request may have without being about to store or mail. *)
LEMMA Labels ==
  /\ Idle.pc = "idle" /\ Idle.user = None /\ Idle.token = 0
  /\ \A l \in {"idle", "find", "insert", "load", "compare", "delete", "rload", "fload"} :
       l \notin Storing \cup Mailing \cup Verifying \cup Resetting
  /\ \A l \in Verifying \cup Resetting : l \notin Storing \cup Mailing /\ l # "load"
  /\ Verifying \cap Resetting = {} /\ Storing \cap Mailing = {}
  BY DEF Idle, Storing, Mailing, Verifying, Resetting

LEMMA ZeroOld == TypeInv => 0 \in Old
  BY DEF TypeInv, TypeOK, Token, Old

(* The other requests, and the accounts seen overlapping, stay as they are. *)
OthersKept(o) ==
  /\ op[o].user \in User /\ overlapped' = overlapped
  /\ \A q \in Request \ {o} : op'[q] = op[q]

LEMMA EndsKeeps ==
  ASSUME TypeInv, TokenInv, NEW o \in Request, OthersKept(o), Ends(o)
  PROVE  TokenInv'
<1>a. /\ op'[o].pc = "idle" /\ op'[o].user = None /\ op'[o].token = 0
      /\ \A q \in Request \ {o} : op'[q] = op[q]
      /\ mails' = mails /\ used' = used /\ reused' = reused /\ issued' = issued
      /\ Old' = Old /\ overlapped' = overlapped
  BY Labels DEF Ends, OthersKept, Old
<1>b. \A u \in User : /\ users'[u].vtoken \in {0, users[u].vtoken}
                      /\ users'[u].rtoken \in {0, users[u].rtoken}
                      /\ u # op[o].user => SameTokens(u)
  BY DEF Ends
<1>c. \A q \in Request \ {o} :
        op[q].user \in User /\ op[q].user \notin overlapped => op[q].user # op[o].user
  BY AccountsAssumption DEF TokenInv, Alone, OthersKept
<1>1. Bounded'
  BY <1>a, <1>b, ZeroOld DEF TokenInv, Bounded
<1>2. OneMail'
  BY <1>a DEF TokenInv, OneMail
<1>3. FromMail'
  BY <1>a DEF TokenInv, FromMail, FromMailAt, Verifying, Resetting
<1>4. Fresh'
  <2> SUFFICES ASSUME NEW q \in Request PROVE FreshAt(q)'
    BY DEF Fresh
  <2>1. CASE q = o
    BY <2>1, <1>a DEF FreshAt, Storing, Mailing
  <2>2. CASE q # o
    BY <2>2, <1>a, <1>b DEF TokenInv, Fresh, FreshAt, NewEmail
  <2> QED
    BY <2>1, <2>2
<1>5. Owned'
  BY <1>a, <1>b DEF TokenInv, Owned, Mailing
<1>6. Current'
  <2> SUFFICES ASSUME NEW q \in Request PROVE CurrentAt(q)'
    BY DEF Current
  <2>1. CASE q = o
    BY <2>1, <1>a DEF CurrentAt
  <2>2. CASE q # o /\ op[q].user \in User
    BY <2>2, <1>a, <1>b, <1>c DEF TokenInv, Current, CurrentAt, SameTokens
  <2>3. CASE op[q].user \notin User
    BY <2>1, <2>3, <1>a DEF CurrentAt, TypeInv, Assigned
  <2> QED
    BY <2>1, <2>2, <2>3
<1>7. Alone'
  BY <1>a DEF TokenInv, Alone
<1>8. TokenUsedOnce'
  BY <1>a DEF TokenInv, TokenUsedOnce
<1> QED
  BY <1>1, <1>2, <1>3, <1>4, <1>5, <1>6, <1>7, <1>8 DEF TokenInv

LEMMA AdvancesKeeps ==
  ASSUME TypeInv, TokenInv, NEW o \in Request, OthersKept(o), Advances(o)
  PROVE  TokenInv'
<1>a. /\ \A q \in Request \ {o} : op'[q] = op[q]
      /\ mails' = mails /\ used' = used /\ reused' = reused /\ issued' = issued
      /\ Old' = Old /\ overlapped' = overlapped
      /\ op'[o].user = op[o].user /\ op'[o].token = op[o].token
  BY DEF Advances, Goes, OthersKept, Old
<1>b. \A u \in User : /\ users'[u].vtoken = users[u].vtoken
                      /\ users'[u].rtoken = users[u].rtoken
  BY DEF Advances, SameTokens
<1>c. /\ op'[o].pc \in {"insert", "compare", "write", "vcompare", "vwrite", "rsave"}
      /\ op'[o].pc = "write" => ~NewEmail(o)' /\ op'[o].token = 0
      /\ op'[o].pc \in {"vcompare", "vwrite"} => op[o].pc \in {"vload", "vcompare"}
      /\ op'[o].pc = "rsave" => op[o].pc = "reset"
  BY DEF Advances, Goes, TokenInv, Fresh, FreshAt
<1>d. /\ op'[o].pc \notin Mailing
      /\ op'[o].pc \in Storing => op'[o].pc = "write"
      /\ op'[o].pc \in Verifying => op[o].pc \in Verifying
      /\ op'[o].pc \in Resetting => op[o].pc \in Resetting
  BY <1>c DEF Storing, Mailing, Verifying, Resetting
<1>1. Bounded'
  BY <1>a, <1>b DEF TokenInv, Bounded
<1>2. OneMail'
  BY <1>a DEF TokenInv, OneMail
<1>3. FromMail'
  <2> SUFFICES ASSUME NEW q \in Request PROVE FromMailAt(q)'
    BY DEF FromMail
  <2>1. CASE q = o
    BY <2>1, <1>a, <1>d DEF TokenInv, FromMail, FromMailAt
  <2>2. CASE q # o
    BY <2>2, <1>a DEF TokenInv, FromMail, FromMailAt
  <2> QED
    BY <2>1, <2>2
<1>4. Fresh'
  <2> SUFFICES ASSUME NEW q \in Request PROVE FreshAt(q)'
    BY DEF Fresh
  <2>1. CASE q = o
    BY <2>1, <1>a, <1>c, <1>d DEF FreshAt
  <2>2. CASE q # o
    <3>1. \A p \in Request : op'[p].token = op[p].token
      BY <1>a
    <3> QED
      BY <2>2, <3>1, <1>a, <1>b DEF TokenInv, Fresh, FreshAt, NewEmail
  <2> QED
    BY <2>1, <2>2
<1>5. Owned'
  <2>1. \A q \in Request : op'[q].pc \in Mailing => q # o
    BY <1>d
  <2> QED
    BY <2>1, <1>a, <1>b DEF TokenInv, Owned
<1>6. Current'
  <2> SUFFICES ASSUME NEW q \in Request PROVE CurrentAt(q)'
    BY DEF Current
  <2>1. CASE q = o
    <3>1. op[o].user \in User
      BY DEF OthersKept
    <3>2. /\ op'[o].pc = "vcompare" => users[op[o].user].vtoken = op[o].token
          /\ op'[o].pc = "rsave" => users[op[o].user].rtoken = op[o].token
          /\ op'[o].pc = "vwrite" => op[o].pc = "vcompare"
      BY DEF Advances, Goes
    <3> QED
      BY <2>1, <3>1, <3>2, <1>a, <1>b DEF TokenInv, Current, CurrentAt
  <2>2. CASE q # o /\ op[q].user \in User
    BY <2>2, <1>a, <1>b DEF TokenInv, Current, CurrentAt
  <2>3. CASE q # o /\ op[q].user \notin User
    BY <2>3, <1>a DEF CurrentAt, TypeInv, Assigned
  <2> QED
    BY <2>1, <2>2, <2>3
<1>7. Alone'
  <2>1. \A q \in Request : op'[q].user = op[q].user
    BY <1>a
  <2> QED
    BY <2>1, <1>a DEF TokenInv, Alone
<1>8. TokenUsedOnce'
  BY <1>a DEF TokenInv, TokenUsedOnce
<1> QED
  BY <1>1, <1>2, <1>3, <1>4, <1>5, <1>6, <1>7, <1>8 DEF TokenInv

LEMMA IssuesKeeps ==
  ASSUME TypeInv, TokenInv, NEW o \in Request, OthersKept(o), Issues(o)
  PROVE  TokenInv'
<1> DEFINE t == issued + 1
<1>t. /\ t \notin Old /\ t # 0 /\ t \in Old' /\ Old \subseteq Old'
  BY DEF Issues, Old, TypeInv, TypeOK, Token
<1>a. /\ \A q \in Request \ {o} : op'[q] = op[q]
      /\ mails' = mails /\ used' = used /\ reused' = reused
      /\ overlapped' = overlapped
      /\ op'[o].user = op[o].user /\ op'[o].token = t /\ op'[o].pc \in Storing
  BY DEF Issues, OthersKept
<1> HIDE DEF t
<1>b. \A u \in User : /\ users'[u].vtoken = users[u].vtoken
                      /\ users'[u].rtoken = users[u].rtoken
  BY DEF Issues, SameTokens
<1>d. /\ op'[o].pc \notin Mailing \cup Verifying \cup Resetting /\ op'[o].pc # "load"
      /\ op'[o].pc \notin {"vcompare", "vwrite", "rsave"}
  BY <1>a DEF Storing, Mailing, Verifying, Resetting
<1>1. Bounded'
  BY <1>a, <1>b, <1>t DEF TokenInv, Bounded
<1>2. OneMail'
  BY <1>a DEF TokenInv, OneMail
<1>3. FromMail'
  BY <1>a, <1>d DEF TokenInv, FromMail, FromMailAt
<1>4. Fresh'
  <2> SUFFICES ASSUME NEW q \in Request PROVE FreshAt(q)'
    BY DEF Fresh
  <2>1. CASE q = o
    BY <2>1, <1>a, <1>b, <1>d, <1>t DEF FreshAt, TokenInv, Bounded
  <2>2. CASE q # o
    <3>1. op[q].token # t
      BY <1>t DEF TokenInv, Bounded
    <3> QED
      BY <2>2, <3>1, <1>a, <1>b DEF TokenInv, Fresh, FreshAt, NewEmail
  <2> QED
    BY <2>1, <2>2
<1>5. Owned'
  <2>1. \A q \in Request : op'[q].pc \in Mailing => q # o
    BY <1>d
  <2> QED
    BY <2>1, <1>a, <1>b DEF TokenInv, Owned
<1>6. Current'
  <2> SUFFICES ASSUME NEW q \in Request PROVE CurrentAt(q)'
    BY DEF Current
  <2>1. CASE q = o
    BY <2>1, <1>d DEF CurrentAt
  <2>2. CASE q # o /\ op[q].user \in User
    BY <2>2, <1>a, <1>b DEF TokenInv, Current, CurrentAt
  <2>3. CASE q # o /\ op[q].user \notin User
    BY <2>3, <1>a DEF CurrentAt, TypeInv, Assigned
  <2> QED
    BY <2>1, <2>2, <2>3
<1>7. Alone'
  <2>1. \A q \in Request : op'[q].user = op[q].user
    BY <1>a
  <2> QED
    BY <2>1, <1>a DEF TokenInv, Alone
<1>8. TokenUsedOnce'
  BY <1>a DEF TokenInv, TokenUsedOnce
<1> QED
  BY <1>1, <1>2, <1>3, <1>4, <1>5, <1>6, <1>7, <1>8 DEF TokenInv

LEMMA StoresKeeps ==
  ASSUME TypeInv, TokenInv, NEW o \in Request, OthersKept(o), Stores(o)
  PROVE  TokenInv'
<1> DEFINE t == op[o].token
           u == op[o].user
<1>a. /\ \A q \in Request \ {o} : op'[q] = op[q]
      /\ mails' = mails /\ used' = used /\ reused' = reused /\ issued' = issued
      /\ Old' = Old /\ overlapped' = overlapped
      /\ op'[o].user = u /\ op'[o].token = t /\ op'[o].pc \in Mailing
      /\ op[o].pc \in Storing /\ u \in User
  BY DEF Stores, Goes, OthersKept, Old, Storing, Mailing
<1>b. /\ \A v \in User : v # u => /\ users'[v].vtoken = users[v].vtoken
                                 /\ users'[v].rtoken = users[v].rtoken
      /\ \/ /\ users'[u].vtoken = t /\ users'[u].rtoken = users[u].rtoken
            /\ op'[o].pc # "fmail"
         \/ /\ users'[u].rtoken = t /\ users'[u].vtoken = users[u].vtoken
            /\ op'[o].pc = "fmail"
  BY DEF Stores, Goes, SameTokens
<1>c. \A q \in Request \ {o} :
        op[q].user \in User /\ op[q].user \notin overlapped => op[q].user # u
  BY AccountsAssumption DEF TokenInv, Alone, OthersKept
<1>d. /\ op'[o].pc \notin Storing \cup Verifying \cup Resetting
      /\ op'[o].pc \notin {"load", "vcompare", "vwrite", "rsave"}
  BY <1>a DEF Storing, Mailing, Verifying, Resetting
<1>e. t # 0
  BY DEF Stores, Goes, TokenInv, Fresh, FreshAt
<1>f. /\ \A m \in mails : m.token # t
      /\ \A q \in Request \ {o} : op[q].token # t
      /\ \A v \in User : users[v].vtoken # t /\ users[v].rtoken # t
      /\ t \in Old
  BY <1>a, <1>e DEF TokenInv, Fresh, FreshAt, Bounded
<1>g. t \notin used
  BY <1>f DEF TokenInv, OneMail
<1> HIDE DEF t, u
<1>1. Bounded'
  BY <1>a, <1>b, <1>f DEF TokenInv, Bounded
<1>2. OneMail'
  BY <1>a DEF TokenInv, OneMail
<1>3. FromMail'
  BY <1>a, <1>d DEF TokenInv, FromMail, FromMailAt
<1>4. Fresh'
  <2> SUFFICES ASSUME NEW q \in Request PROVE FreshAt(q)'
    BY DEF Fresh
  <2>1. CASE q = o
    BY <2>1, <1>a, <1>d, <1>e, <1>f DEF FreshAt, Storing
  <2>2. CASE q # o
    <3>1. \A v \in User : /\ users'[v].vtoken \in {t, users[v].vtoken}
                          /\ users'[v].rtoken \in {t, users[v].rtoken}
      BY <1>b
    <3>2. op[q].token # t
      BY <2>2, <1>f
    <3> QED
      BY <2>2, <3>1, <3>2, <1>a DEF TokenInv, Fresh, FreshAt, NewEmail
  <2> QED
    BY <2>1, <2>2
<1>5. Owned'
  <2>1. ASSUME NEW q \in Request, op'[q].pc \in Mailing, op'[q].token # t
        PROVE  op[q].pc \in Mailing /\ op'[q] = op[q]
    BY <2>1, <1>a
  <2>2. ASSUME NEW q \in Request, op'[q].token = t PROVE q = o
    BY <2>2, <1>a, <1>f
  <2> QED
    BY <2>1, <2>2, <1>a, <1>b, <1>f, <1>g DEF TokenInv, Owned
<1>6. Current'
  <2> SUFFICES ASSUME NEW q \in Request PROVE CurrentAt(q)'
    BY DEF Current
  <2>1. CASE q = o
    BY <2>1, <1>d DEF CurrentAt
  <2>2. CASE q # o /\ op[q].user \in User
    BY <2>2, <1>a, <1>b, <1>c DEF TokenInv, Current, CurrentAt
  <2>3. CASE q # o /\ op[q].user \notin User
    BY <2>3, <1>a DEF CurrentAt, TypeInv, Assigned
  <2> QED
    BY <2>1, <2>2, <2>3
<1>7. Alone'
  <2>1. \A q \in Request : op'[q].user = op[q].user
    BY <1>a DEF u
  <2> QED
    BY <2>1, <1>a DEF TokenInv, Alone
<1>8. TokenUsedOnce'
  BY <1>a DEF TokenInv, TokenUsedOnce
<1> QED
  BY <1>1, <1>2, <1>3, <1>4, <1>5, <1>6, <1>7, <1>8 DEF TokenInv

LEMMA MailsKeeps ==
  ASSUME TypeInv, TokenInv, NEW o \in Request, OthersKept(o), Mails(o)
  PROVE  TokenInv'
<1> DEFINE t == op[o].token
           u == op[o].user
<1>1. PICK m : /\ mails' = mails \cup {m} /\ m.user = u /\ m.token = t
               /\ m.kind = IF op[o].pc = "fmail" THEN "reset" ELSE "verify"
  BY DEF Mails
<1>a. /\ \A q \in Request \ {o} : op'[q] = op[q]
      /\ users' = users /\ used' = used /\ reused' = reused /\ issued' = issued
      /\ Old' = Old /\ overlapped' = overlapped
      /\ op[o].pc \in Mailing
      /\ op'[o].pc = "idle" /\ op'[o].user = None /\ op'[o].token = 0
  BY Labels DEF Mails, OthersKept, Old
<1>e. /\ t # 0 /\ t \in Old
      /\ \A n \in mails : n.token # t
      /\ \A q \in Request \ {o} : op[q].token # t
  BY <1>a DEF TokenInv, Fresh, FreshAt, Bounded
<1>g. t \notin used
  BY <1>e DEF TokenInv, OneMail
<1>h. "idle" \notin Storing \cup Mailing \cup Verifying \cup Resetting
  BY DEF Storing, Mailing, Verifying, Resetting
<1> HIDE DEF t, u
<1>2. Bounded'
  BY <1>1, <1>a, <1>e, ZeroOld DEF TokenInv, Bounded, t
<1>3. OneMail'
  BY <1>1, <1>a, <1>e DEF TokenInv, OneMail
<1>4. FromMail'
  <2> SUFFICES ASSUME NEW q \in Request PROVE FromMailAt(q)'
    BY DEF FromMail
  <2>1. CASE q = o
    BY <2>1, <1>a, <1>h DEF FromMailAt
  <2>2. CASE q # o
    BY <2>2, <1>1, <1>a DEF TokenInv, FromMail, FromMailAt
  <2> QED
    BY <2>1, <2>2
<1>5. Fresh'
  <2> SUFFICES ASSUME NEW q \in Request PROVE FreshAt(q)'
    BY DEF Fresh
  <2>1. CASE q = o
    BY <2>1, <1>a, <1>h DEF FreshAt
  <2>2. CASE q # o
    BY <2>2, <1>1, <1>a, <1>e DEF TokenInv, Fresh, FreshAt, NewEmail
  <2> QED
    BY <2>1, <2>2
<1>6. Owned'
  <2>1. \A q \in Request : op'[q].pc \in Mailing => q # o /\ op'[q] = op[q]
    BY <1>a, <1>h
  <2> QED
    BY <2>1, <1>1, <1>a DEF TokenInv, Owned, t, u
<1>7. Current'
  <2> SUFFICES ASSUME NEW q \in Request PROVE CurrentAt(q)'
    BY DEF Current
  <2>1. CASE q = o
    BY <2>1, <1>a DEF CurrentAt
  <2>2. CASE q # o
    BY <2>2, <1>a DEF TokenInv, Current, CurrentAt
  <2> QED
    BY <2>1, <2>2
<1>8. Alone'
  BY <1>a DEF TokenInv, Alone
<1>9. TokenUsedOnce'
  BY <1>1, <1>a, <1>g DEF TokenInv, TokenUsedOnce, TypeInv, TypeOK
<1> QED
  BY <1>2, <1>3, <1>4, <1>5, <1>6, <1>7, <1>8, <1>9 DEF TokenInv

LEMMA UsesKeeps ==
  ASSUME TypeInv, TokenInv, NEW o \in Request, OthersKept(o), Uses(o)
  PROVE  TokenInv'
<1> DEFINE t == op[o].token
           u == op[o].user
<1>a. /\ \A q \in Request \ {o} : op'[q] = op[q]
      /\ mails' = mails /\ issued' = issued
      /\ used' = used \cup {t} /\ reused' = reused \cup (used \cap {t})
      /\ Old' = Old /\ overlapped' = overlapped /\ u \in User
      /\ op'[o].pc = "idle" /\ op'[o].user = None /\ op'[o].token = 0
  BY Labels DEF Uses, Use, OthersKept, Old
<1>b. /\ \A v \in User : v # u => /\ users'[v].vtoken = users[v].vtoken
                                 /\ users'[v].rtoken = users[v].rtoken
      /\ \/ /\ op[o].pc = "vwrite" /\ users'[u].vtoken = 0
            /\ users'[u].rtoken = users[u].rtoken
         \/ /\ op[o].pc = "rsave" /\ users'[u].rtoken = 0
            /\ users'[u].vtoken = users[u].vtoken
  BY DEF Uses, SameTokens
<1>c. \A q \in Request \ {o} :
        op[q].user \in User /\ op[q].user \notin overlapped => op[q].user # u
  BY AccountsAssumption DEF TokenInv, Alone, OthersKept
<1>1. PICK m \in mails :
        /\ m.user = u /\ m.token = t
        /\ m.kind = IF op[o].pc = "rsave" THEN "reset" ELSE "verify"
  BY <1>b DEF TokenInv, FromMail, FromMailAt, Verifying, Resetting
<1>d. t # 0
  BY <1>1 DEF TokenInv, Bounded
<1>e. u \notin overlapped => t \notin used
  BY <1>b, <1>d, <1>a DEF TokenInv, Current, CurrentAt, Owned
<1>f. \A v \in User : /\ users'[v].vtoken \in {0, users[v].vtoken}
                      /\ users'[v].rtoken \in {0, users[v].rtoken}
  BY <1>b
<1>g. \A v \in User : /\ users'[v].vtoken # 0 => users'[v].vtoken # t
                      /\ users'[v].rtoken # 0 => users'[v].rtoken # t
  BY <1>1, <1>b DEF TokenInv, Owned
<1>h. "idle" \notin Storing \cup Mailing \cup Verifying \cup Resetting
  BY DEF Storing, Mailing, Verifying, Resetting
<1> HIDE DEF t, u
<1>2. Bounded'
  BY <1>a, <1>f, ZeroOld DEF TokenInv, Bounded
<1>3. OneMail'
  BY <1>1, <1>a DEF TokenInv, OneMail
<1>4. FromMail'
  BY <1>a, <1>h DEF TokenInv, FromMail, FromMailAt
<1>5. Fresh'
  <2> SUFFICES ASSUME NEW q \in Request PROVE FreshAt(q)'
    BY DEF Fresh
  <2>1. CASE q = o
    BY <2>1, <1>a, <1>h DEF FreshAt
  <2>2. CASE q # o
    BY <2>2, <1>a, <1>f DEF TokenInv, Fresh, FreshAt, NewEmail
  <2> QED
    BY <2>1, <2>2
<1>6. Owned'
  <2>1. \A q \in Request : op'[q].pc \in Mailing => q # o /\ op'[q] = op[q]
    BY <1>a, <1>h
  <2> QED
    BY <2>1, <1>a, <1>f, <1>g DEF TokenInv, Owned
<1>7. Current'
  <2> SUFFICES ASSUME NEW q \in Request PROVE CurrentAt(q)'
    BY DEF Current
  <2>1. CASE q = o
    BY <2>1, <1>a DEF CurrentAt
  <2>2. CASE q # o /\ op[q].user \in User
    BY <2>2, <1>a, <1>b, <1>c DEF TokenInv, Current, CurrentAt
  <2>3. CASE q # o /\ op[q].user \notin User
    BY <2>3, <1>a DEF CurrentAt, TypeInv, Assigned
  <2> QED
    BY <2>1, <2>2, <2>3
<1>8. Alone'
  BY <1>a DEF TokenInv, Alone
<1>9. TokenUsedOnce'
  <2> SUFFICES ASSUME NEW n \in mails, n.token \in reused \cup (used \cap {t})
               PROVE  n.user \in overlapped
    BY <1>a DEF TokenUsedOnce
  <2>1. CASE n.token \in reused
    BY <2>1 DEF TokenInv, TokenUsedOnce
  <2>2. CASE n.token = t /\ t \in used
    <3>1. n.user = u
      BY <2>2, <1>1 DEF TokenInv, OneMail
    <3> QED
      BY <2>2, <3>1, <1>e
  <2> QED
    BY <2>1, <2>2
<1> QED
  BY <1>2, <1>3, <1>4, <1>5, <1>6, <1>7, <1>8, <1>9 DEF TokenInv

LEMMA StartKeeps ==
  ASSUME TypeInv, TokenInv, NEW o \in Request, Start(o)
  PROVE  TokenInv'
<1>1. PICK l \in {"find", "load", "delete", "rload", "fload", "vload", "reset"},
          u \in User, e \in Email \cup {None}, p \in Phone \cup {None}, t \in Token :
         /\ Begin(o, l, u, e, p, t)
         /\ l = "find" => e \in Email
         /\ l \notin {"vload", "reset"} => t = 0
         /\ l = "vload" => \E m \in mails : /\ m.kind = "verify"
                                            /\ m.user = u /\ m.token = t
         /\ l = "reset" => \E m \in mails : /\ m.kind = "reset"
                                            /\ m.user = u /\ m.token = t
  BY Starts
<1>2. op \in [Request -> OpType] /\ l \in Label \ {"idle"}
  BY DEF TypeInv, TypeOK, OpType, Label
<1>a. /\ \A q \in Request \ {o} : op'[q] = op[q]
      /\ op'[o].pc = l /\ op'[o].user = u /\ op'[o].token = t /\ op[o].pc = "idle"
  BY <1>1, <1>2, BeginShape
<1>b. /\ users' = users /\ mails' = mails /\ issued' = issued
      /\ used' = used /\ reused' = reused /\ Old' = Old
      /\ overlapped \subseteq overlapped'
      /\ \A q \in Request : op[q].user = u => u \in overlapped'
  BY <1>1 DEF Begin, Old
<1>c. /\ l \notin Storing \cup Mailing /\ l \notin {"vcompare", "vwrite", "rsave"}
      /\ l \in Verifying => l = "vload"
      /\ l \in Resetting => l = "reset"
  BY DEF Storing, Mailing, Verifying, Resetting
<1>d. t = 0 \/ \E m \in mails : m.token = t
  BY <1>1
<1>3. Bounded'
  BY <1>a, <1>b, <1>d, ZeroOld DEF TokenInv, Bounded
<1>4. OneMail'
  BY <1>b DEF TokenInv, OneMail
<1>5. FromMail'
  <2> SUFFICES ASSUME NEW q \in Request PROVE FromMailAt(q)'
    BY DEF FromMail
  <2>1. CASE q = o
    BY <2>1, <1>1, <1>a, <1>b, <1>c DEF FromMailAt
  <2>2. CASE q # o
    BY <2>2, <1>a, <1>b DEF TokenInv, FromMail, FromMailAt
  <2> QED
    BY <2>1, <2>2
<1>6. Fresh'
  <2> SUFFICES ASSUME NEW q \in Request PROVE FreshAt(q)'
    BY DEF Fresh
  <2>1. CASE q = o
    <3>1. l = "load" => t = 0
      BY <1>1
    <3> QED
      BY <2>1, <3>1, <1>a, <1>c DEF FreshAt, Storing
  <2>2. CASE q # o
    BY <2>2, <1>a, <1>b, <1>d DEF TokenInv, Fresh, FreshAt, NewEmail
  <2> QED
    BY <2>1, <2>2
<1>7. Owned'
  <2>1. \A q \in Request : op'[q].pc \in Mailing => q # o /\ op'[q] = op[q]
    BY <1>a, <1>c
  <2> QED
    BY <2>1, <1>b DEF TokenInv, Owned
<1>8. Current'
  <2> SUFFICES ASSUME NEW q \in Request PROVE CurrentAt(q)'
    BY DEF Current
  <2>1. CASE q = o
    BY <2>1, <1>a, <1>c DEF CurrentAt
  <2>2. CASE q # o
    BY <2>2, <1>a, <1>b DEF TokenInv, Current, CurrentAt
  <2> QED
    BY <2>1, <2>2
<1>9. Alone'
  <2> SUFFICES ASSUME NEW q \in Request, NEW r \in Request, q # r,
                      op'[q].user = op'[r].user, op'[q].user # None
               PROVE  op'[q].user \in overlapped'
    BY DEF Alone
  <2>1. CASE q = o \/ r = o
    BY <2>1, <1>a, <1>b
  <2>2. CASE q # o /\ r # o
    BY <2>2, <1>a, <1>b DEF TokenInv, Alone
  <2> QED
    BY <2>1, <2>2
<1>10. TokenUsedOnce'
  BY <1>b DEF TokenInv, TokenUsedOnce
<1> QED
  BY <1>3, <1>4, <1>5, <1>6, <1>7, <1>8, <1>9, <1>10 DEF TokenInv

LEMMA StepOthers ==
  ASSUME TypeInv, NEW o \in Request, Step(o)
  PROVE  OthersKept(o)
<1>1. op \in [Request -> OpType]
  BY DEF TypeInv, TypeOK, OpType
<1>2. op[o].pc # "idle" /\ \A q \in Request \ {o} : op'[q] = op[q]
  BY <1>1, StepShape
<1>3. overlapped' = overlapped
  BY DEF Step, FindExistingUser, InsertUser, LoadForUpdate, CompareEmail,
         WriteUpdate, MailVerification, RemoveUser, LoadForVerify, ComparePending,
         WriteVerified, LoadForResend, RenewToken, MailResent, LoadForForgot,
         SaveResetToken, MailReset, MatchResetToken, SavePassword, Send
<1> QED
  BY <1>2, <1>3 DEF OthersKept, TypeInv, Assigned

LEMMA TokenStep == TypeInv /\ TokenInv /\ [Next]_vars => TokenInv'
<1> SUFFICES ASSUME TypeInv, TokenInv, [Next]_vars PROVE TokenInv'
  OBVIOUS
<1>1. ASSUME NEW o \in Request, Step(o) PROVE TokenInv'
  BY <1>1, StepOthers, StepKinds, EndsKeeps, AdvancesKeeps, IssuesKeeps, StoresKeeps,
     MailsKeeps, UsesKeeps
<1>2. ASSUME UNCHANGED <<mails, op, issued, used, reused, overlapped>>,
             \A u \in User : SameTokens(u)
      PROVE  TokenInv'
  <2>1. /\ mails' = mails /\ op' = op /\ used' = used /\ reused' = reused
        /\ overlapped' = overlapped /\ Old' = Old
        /\ \A u \in User : /\ users'[u].vtoken = users[u].vtoken
                            /\ users'[u].rtoken = users[u].rtoken
    BY <1>2 DEF Old, SameTokens
  <2>2. Bounded' /\ OneMail' /\ TokenUsedOnce' /\ Alone'
    BY <2>1 DEF TokenInv, Bounded, OneMail, TokenUsedOnce, Alone
  <2>3. FromMail' /\ Owned'
    BY <2>1 DEF TokenInv, FromMail, FromMailAt, Owned
  <2>4. Fresh'
    BY <2>1 DEF TokenInv, Fresh, FreshAt, NewEmail
  <2>5. Current'
    <3> SUFFICES ASSUME NEW q \in Request PROVE CurrentAt(q)'
      BY DEF Current
    <3>1. CASE op[q].user \in User
      BY <2>1, <3>1 DEF TokenInv, Current, CurrentAt
    <3>2. CASE op[q].user \notin User
      BY <2>1, <3>2 DEF CurrentAt, TypeInv, Assigned
    <3> QED
      BY <3>1, <3>2
  <2> QED
    BY <2>2, <2>3, <2>4, <2>5 DEF TokenInv
<1>3. ASSUME NEW u \in User, Expire(u) PROVE TokenInv'
  <2>1. users[u] \in UserDoc /\ users \in [User -> UserDoc]
    BY DEF TypeInv, TypeOK
  <2> DEFINE d == [users[u] EXCEPT !.rfresh = FALSE]
             e == [users[u] EXCEPT !.rfresh = FALSE, !.vfresh = FALSE]
  <2>2. /\ d.vtoken = users[u].vtoken /\ d.rtoken = users[u].rtoken
        /\ e.vtoken = users[u].vtoken /\ e.rtoken = users[u].rtoken
    BY <2>1 DEF UserDoc
  <2>3. users' = [users EXCEPT ![u] = d] \/ users' = [users EXCEPT ![u] = e]
    BY <1>3, <2>1 DEF Expire
  <2> HIDE DEF d, e
  <2>4. \A v \in User : SameTokens(v)
    BY <2>1, <2>2, <2>3 DEF SameTokens
  <2> QED
    BY <1>2, <1>3, <2>4 DEF Expire
<1>4. ASSUME UNCHANGED vars PROVE TokenInv'
  BY <1>2, <1>4 DEF vars, SameTokens
<1> QED
  BY <1>1, <1>3, <1>4, StartKeeps DEF Next

LEMMA TokenInit == Init => TokenInv
<1> SUFFICES ASSUME Init PROVE TokenInv
  OBVIOUS
<1>1. /\ mails = {} /\ used = {} /\ reused = {} /\ issued = 0 /\ overlapped = {}
      /\ \A o \in Request : /\ op[o].pc = "idle" /\ op[o].user = None
                             /\ op[o].token = 0
      /\ \A u \in User : users[u].vtoken = 0 /\ users[u].rtoken = 0
  BY DEF Init, Idle, NoUser
<1>2. 0 \in Old
  BY <1>1 DEF Old
<1>3. "idle" \notin Storing \cup Mailing \cup Verifying \cup Resetting
  BY DEF Storing, Mailing, Verifying, Resetting
<1>4. Bounded /\ OneMail /\ Owned /\ Alone /\ TokenUsedOnce
  BY <1>1, <1>2, <1>3 DEF Bounded, OneMail, Owned, Alone, TokenUsedOnce
<1>5. FromMail /\ Fresh /\ Current
  BY <1>1, <1>3 DEF FromMail, FromMailAt, Fresh, FreshAt, Current, CurrentAt
<1> QED
  BY <1>4, <1>5 DEF TokenInv

(* A link from a mail changes its account once, whatever the other requests do on
   other accounts: a second use needs a request that overlaps on the same one. *)
THEOREM TokensUsedOnce == Spec => []TokenUsedOnce
<1>1. TokenInv => TokenUsedOnce
  BY DEF TokenInv
<1> QED
  BY TypeInit, TypeStep, TokenInit, TokenStep, <1>1, PTL DEF Spec

-----------------------------------------------------------------------------
(* EmailChangeIsProven and LinkStaysValid: what a request has read, as long as it
   is alone on its account, and what the mails still say. *)

(* A document is made by the one request that has its id, and nothing is mailed
   or asked of an account that is not there yet. *)
Newcomers ==
  /\ \A u \in User : users[u].state = "absent" => users[u] = NoUser
  /\ \A m \in mails : users[m.user].state # "absent"
  /\ \A o \in Request : op[o].pc \in {"find", "insert"} =>
       /\ users[op[o].user].state = "absent"
       /\ \A q \in Request \ {o} : op[q].user # op[o].user
  /\ \A o \in Request : op[o].pc \notin {"idle", "find", "insert"} =>
       users[op[o].user].state # "absent"

(* How a step changes which accounts exist. *)
Exists(u) == users[u].state # "absent"

LEMMA StepStates ==
  ASSUME TypeInv, Newcomers, NEW o \in Request, Step(o)
  PROVE  /\ \A u \in User : Exists(u) => Exists(u)'
         /\ \A u \in User : ~Exists(u) =>
              \/ users'[u] = users[u]
              \/ op[o].pc = "insert" /\ op[o].user = u /\ op'[o] = Idle /\ Exists(u)'
         /\ op'[o].pc \in {"find", "insert"} =>
              op[o].pc = "find" /\ op'[o].user = op[o].user
         /\ \A m \in mails' : m \in mails \/ (m.user = op[o].user /\ op[o].pc \in Mailing)
<1>a. /\ op \in [Request -> OpType] /\ op[o] \in OpType
      /\ users \in [User -> UserDoc] /\ \A u \in User : users[u] \in UserDoc
  BY DEF TypeInv, TypeOK, OpType
<1>b. op[o].pc # "idle" => op[o].user \in User
  BY DEF TypeInv, Assigned
<1>c. op[o].pc \notin {"idle", "find", "insert"} => Exists(op[o].user)
  BY DEF Newcomers, Exists
<1>d. ASSUME NEW d, Me(o) \in User, op[o].pc \notin {"idle", "find", "insert"},
             \/ users' = users
             \/ users' = [users EXCEPT ![Me(o)] = d] /\ d.state # "absent"
      PROVE  /\ \A u \in User : Exists(u) => Exists(u)'
             /\ \A u \in User : ~Exists(u) => users'[u] = users[u]
  BY <1>d, <1>a, <1>c DEF Exists, Me
<1>e. Idle.pc = "idle"
  BY DEF Idle
<1>1. CASE FindExistingUser(o)
  BY <1>1, <1>a, <1>e DEF FindExistingUser, Goto, Return, OpType, Exists
<1>2. CASE InsertUser(o)
  <2> DEFINE d == [NoUser EXCEPT !.state = "active", !.email = op[o].email,
                                 !.phone = op[o].phone]
  <2>1. d.state = "active"
    BY DEF NoUser
  <2>2. users' = users \/ users' = [users EXCEPT ![Me(o)] = d]
    BY <1>2 DEF InsertUser
  <2> HIDE DEF d
  <2>3. Me(o) \in User /\ op[o].pc = "insert"
    BY <1>2, <1>b DEF InsertUser, Me
  <2>4. op'[o] = Idle /\ mails' = mails
    BY <1>2, <1>a DEF InsertUser, Return
  <2> QED
    BY <2>1, <2>2, <2>3, <2>4, <1>a, <1>e DEF Exists, Me
<1>3. CASE LoadForUpdate(o) \/ CompareEmail(o)
  BY <1>3, <1>a, <1>e DEF LoadForUpdate, CompareEmail, Return, OpType, Exists
<1>4. CASE WriteUpdate(o)
  <2>1. Me(o) \in User /\ users[Me(o)] \in UserDoc /\ op[o].pc = "write"
    BY <1>4, <1>a, <1>b DEF WriteUpdate, Me
  <2>2. Updated(o).state = users[Me(o)].state
    BY <2>1 DEF Updated, UserDoc
  <2>3. /\ mails' = mails
        /\ users' = users \/ users' = [users EXCEPT ![Me(o)] = Updated(o)]
        /\ op'[o] = Idle \/ op'[o].pc = "mail"
    BY <1>4, <1>a DEF WriteUpdate, Goto, Return, OpType
  <2> QED
    BY <2>1, <2>2, <2>3, <1>c, <1>d, <1>e DEF Exists, Me
<1>5. CASE MailVerification(o) \/ MailResent(o) \/ MailReset(o)
  <2>1. users' = users /\ op'[o] = Idle /\ op[o].pc \in Mailing
    BY <1>5, <1>a DEF MailVerification, MailResent, MailReset, Send, Return, Mailing
  <2>2. mails' = mails \/ \E k : mails' = mails \cup
          {[kind |-> k, user |-> Me(o), to |-> op[o].email, token |-> op[o].token]}
    BY <1>5 DEF MailVerification, MailResent, MailReset, Send
  <2> QED
    BY <2>1, <2>2, <1>e DEF Exists, Me
<1>6. CASE RemoveUser(o)
  <2>1. Me(o) \in User /\ users[Me(o)] \in UserDoc /\ op[o].pc = "delete"
    BY <1>6, <1>a, <1>b DEF RemoveUser, Me
  <2> DEFINE d == [users[Me(o)] EXCEPT !.state = "removed"]
  <2>2. d.state = "removed"
    BY <2>1 DEF UserDoc
  <2>3. users' = users \/ users' = [users EXCEPT ![Me(o)] = d]
    BY <1>6, <1>a DEF RemoveUser
  <2> HIDE DEF d
  <2>4. op'[o] = Idle /\ mails' = mails
    BY <1>6, <1>a DEF RemoveUser, Return
  <2> QED
    BY <2>1, <2>2, <2>3, <2>4, <1>d, <1>e
<1>7. CASE LoadForVerify(o) \/ ComparePending(o) \/ MatchResetToken(o)
  BY <1>7, <1>a, <1>e
     DEF LoadForVerify, ComparePending, MatchResetToken, Goto, Return, OpType, Exists
<1>8. CASE WriteVerified(o)
  <2>1. Me(o) \in User /\ users[Me(o)] \in UserDoc /\ op[o].pc = "vwrite"
    BY <1>8, <1>a, <1>b DEF WriteVerified, Me
  <2>2. Verified(o).state = users[Me(o)].state
    BY <2>1 DEF Verified, UserDoc
  <2>3. /\ users' = users \/ users' = [users EXCEPT ![Me(o)] = Verified(o)]
        /\ op'[o] = Idle /\ mails' = mails
    BY <1>8, <1>a DEF WriteVerified, Return
  <2> QED
    BY <2>1, <2>2, <2>3, <1>c, <1>d, <1>e DEF Exists, Me
<1>9. CASE LoadForResend(o) \/ LoadForForgot(o)
  BY <1>9, <1>a, <1>e DEF LoadForResend, LoadForForgot, Return, OpType, Exists
<1>10. CASE RenewToken(o) \/ SaveResetToken(o)
  <2>1. Me(o) \in User /\ users[Me(o)] \in UserDoc /\ op[o].pc \in {"rwrite", "fsave"}
    BY <1>10, <1>a, <1>b DEF RenewToken, SaveResetToken, Me
  <2> DEFINE d == [users[Me(o)] EXCEPT !.vtoken = op[o].token, !.vfresh = TRUE]
             e == [users[Me(o)] EXCEPT !.rtoken = op[o].token, !.rfresh = TRUE]
  <2>2. d.state = users[Me(o)].state /\ e.state = users[Me(o)].state
    BY <2>1 DEF UserDoc
  <2>3. users' = [users EXCEPT ![Me(o)] = d] \/ users' = [users EXCEPT ![Me(o)] = e]
    BY <1>10, <2>1, <1>a DEF RenewToken, SaveResetToken
  <2> HIDE DEF d, e
  <2>4. op'[o].pc \in {"rmail", "fmail"} /\ mails' = mails
    BY <1>10, <1>a DEF RenewToken, SaveResetToken, Goto, OpType
  <2> QED
    BY <2>1, <2>2, <2>3, <2>4, <1>c, <1>d DEF Exists, Me
<1>11. CASE SavePassword(o)
  <2>1. Me(o) \in User /\ users[Me(o)] \in UserDoc /\ op[o].pc = "rsave"
    BY <1>11, <1>a, <1>b DEF SavePassword, Me
  <2> DEFINE d == ResetDone(users[Me(o)])
  <2>2. d.state = users[Me(o)].state
    BY <2>1 DEF ResetDone, UserDoc
  <2>3. users' = [users EXCEPT ![Me(o)] = d] /\ op'[o] = Idle /\ mails' = mails
    BY <1>11, <2>1, <1>a DEF SavePassword, Return
  <2> HIDE DEF d
  <2> QED
    BY <2>1, <2>2, <2>3, <1>c, <1>d, <1>e DEF Exists, Me
<1> QED
  BY <1>1, <1>2, <1>3, <1>4, <1>5, <1>6, <1>7, <1>8, <1>9, <1>10, <1>11 DEF Step

(* A request begins on an account that is there, or makes one that is not. *)
LEMMA StartStates ==
  ASSUME TypeInv, Newcomers, NEW o \in Request, Start(o)
  PROVE  \E l \in {"find", "load", "delete", "rload", "fload", "vload", "reset"},
            u \in User, e \in Email \cup {None}, p \in Phone \cup {None}, t \in Token :
           /\ Begin(o, l, u, e, p, t)
           /\ l = "find" => ~Exists(u) /\ \A q \in Request : op[q].user # u
           /\ l # "find" => Exists(u)
<1>1. 0 \in Token /\ NoUser.state = "absent"
  BY DEF Token, NoUser
<1>2. CASE \E u \in User \ Founder, e \in Email, p \in Phone \cup {None} :
             /\ users[u] = NoUser /\ \A q \in Request : op[q].user # u
             /\ StartCreate(o, u, e, p) \/ StartRegister(o, u, e, p)
  BY <1>1, <1>2 DEF StartCreate, StartRegister, Exists
<1>3. CASE \E u \in User : /\ users[u] # NoUser
                            /\ \/ \E e \in Email \cup {None}, p \in Phone \cup {None} :
                                    StartUpdate(o, u, e, p)
                               \/ StartRemove(o, u) \/ StartResend(o, u)
                               \/ StartForgot(o, u)
  BY <1>1, <1>3 DEF StartUpdate, StartRemove, StartResend, StartForgot, Exists, Newcomers
<1>4. ASSUME NEW m \in mails, StartVerify(o, m) \/ StartReset(o, m)
      PROVE  /\ m.user \in User /\ m.token \in Token /\ Exists(m.user)
             /\ \/ Begin(o, "vload", m.user, None, None, m.token)
                \/ Begin(o, "reset", m.user, None, None, m.token)
  BY <1>4 DEF StartVerify, StartReset, TypeInv, TypeOK, Mail, Exists, Newcomers
<1>5. CASE \E m \in mails : StartVerify(o, m) \/ StartReset(o, m)
  BY <1>4, <1>5
<1> QED
  BY <1>2, <1>3, <1>5 DEF Start

LEMMA NewcomersStep == TypeInv /\ Newcomers /\ [Next]_vars => Newcomers'
<1> SUFFICES ASSUME TypeInv, Newcomers, [Next]_vars PROVE Newcomers'
  OBVIOUS
<1>a. /\ op \in [Request -> OpType] /\ \A m \in mails : m.user \in User
      /\ \A q \in Request : op[q].pc # "idle" => op[q].user \in User
      /\ \A q \in Request : op[q].pc = "idle" => op[q].user = None
      /\ None \notin User
  BY AccountsAssumption DEF TypeInv, TypeOK, OpType, Assigned, Mail
<1>i. Idle.pc = "idle" /\ Idle.user = None
  BY DEF Idle
<1>1. ASSUME NEW o \in Request, Step(o) PROVE Newcomers'
  <2>1. /\ op[o].pc # "idle"
        /\ \A q \in Request \ {o} : op'[q] = op[q]
        /\ op'[o] = Idle \/ (op'[o].user = op[o].user /\ op'[o].pc # "idle")
    BY <1>1, <1>a, StepShape
  <2>2. /\ \A u \in User : Exists(u) => Exists(u)'
        /\ \A u \in User : ~Exists(u) =>
             \/ users'[u] = users[u]
             \/ op[o].pc = "insert" /\ op[o].user = u /\ op'[o] = Idle /\ Exists(u)'
        /\ op'[o].pc \in {"find", "insert"} =>
             op[o].pc = "find" /\ op'[o].user = op[o].user
        /\ \A m \in mails' : m \in mails \/ (m.user = op[o].user /\ op[o].pc \in Mailing)
    BY <1>1, StepStates
  <2>3. \A u \in User : users'[u].state = "absent" => users'[u] = NoUser
    BY <2>2 DEF Newcomers, Exists
  <2>4. \A m \in mails' : users'[m.user].state # "absent"
    <3>1. op[o].pc \in Mailing => Exists(op[o].user) /\ op[o].user \in User
      BY <1>a DEF Newcomers, Exists, Mailing
    <3>2. \A m \in mails : Exists(m.user) /\ m.user \in User
      BY <1>a DEF Newcomers, Exists
    <3> QED
      BY <3>1, <3>2, <2>2 DEF Exists
  <2>5. ASSUME NEW q \in Request, op'[q].pc \in {"find", "insert"}
        PROVE  /\ users'[op'[q].user].state = "absent"
               /\ \A r \in Request \ {q} : op'[r].user # op'[q].user
    <3>1. /\ op[q].pc \in {"find", "insert"} /\ op'[q].user = op[q].user
          /\ op[q].user \in User /\ op'[q] # Idle
      BY <2>1, <2>2, <2>5, <1>a, <1>i
    <3>2. ~Exists(op[q].user) /\ \A r \in Request \ {q} : op[r].user # op[q].user
      BY <3>1 DEF Newcomers, Exists
    <3>3. users'[op[q].user] = users[op[q].user]
      BY <2>2, <3>1, <3>2
    <3>4. \A r \in Request : op'[r].user \in {None, op[r].user}
      BY <2>1, <1>i
    <3> QED
      BY <3>1, <3>2, <3>3, <3>4, <1>a DEF Exists
  <2>6. ASSUME NEW q \in Request, op'[q].pc \notin {"idle", "find", "insert"}
        PROVE  users'[op'[q].user].state # "absent"
    <3>1. CASE q # o
      BY <3>1, <2>1, <2>2, <2>6, <1>a DEF Newcomers, Exists
    <3>2. CASE q = o
      <4>1. op'[o].user = op[o].user /\ op[o].user \in User
        BY <3>2, <2>1, <2>6, <1>a, <1>i
      <4>2. CASE op[o].pc \notin {"find", "insert"}
        BY <4>1, <4>2, <3>2, <2>1, <2>2 DEF Newcomers, Exists
      <4>3. CASE op[o].pc \in {"find", "insert"}
        <5>1. FindExistingUser(o) \/ InsertUser(o)
          BY <1>1, <4>3
             DEF Step, LoadForUpdate, CompareEmail, WriteUpdate, MailVerification,
                 RemoveUser, LoadForVerify, ComparePending, WriteVerified,
                 LoadForResend, RenewToken, MailResent, LoadForForgot,
                 SaveResetToken, MailReset, MatchResetToken, SavePassword
        <5>2. op'[o].pc \in {"idle", "insert"}
          BY <5>1, <1>a, <1>i DEF FindExistingUser, InsertUser, Goto, Return, OpType
        <5> QED
          BY <5>2, <2>6, <3>2
      <4> QED
        BY <4>2, <4>3
    <3> QED
      BY <3>1, <3>2
  <2> QED
    BY <2>3, <2>4, <2>5, <2>6 DEF Newcomers
<1>2. ASSUME NEW o \in Request, Start(o) PROVE Newcomers'
  <2>1. PICK l \in {"find", "load", "delete", "rload", "fload", "vload", "reset"},
            u \in User, e \in Email \cup {None}, p \in Phone \cup {None}, t \in Token :
           /\ Begin(o, l, u, e, p, t)
           /\ l = "find" => ~Exists(u) /\ \A q \in Request : op[q].user # u
           /\ l # "find" => Exists(u)
    BY <1>2, StartStates
  <2>2. l \in Label \ {"idle"}
    BY DEF Label
  <2>3. /\ \A q \in Request \ {o} : op'[q] = op[q]
        /\ op'[o].pc = l /\ op'[o].user = u
    BY <2>1, <2>2, <1>a, BeginShape
  <2>4. users' = users /\ mails' = mails
    BY <2>1 DEF Begin
  <2>5. ASSUME NEW q \in Request, op'[q].pc \in {"find", "insert"}
        PROVE  /\ users[op'[q].user].state = "absent"
               /\ \A r \in Request \ {q} : op'[r].user # op'[q].user
    <3>1. CASE q = o
      BY <3>1, <2>1, <2>3, <2>5 DEF Exists
    <3>2. CASE q # o
      <4>1. /\ ~Exists(op[q].user) /\ op[q].user # u
            /\ \A r \in Request \ {q} : op[r].user # op[q].user
        BY <3>2, <2>1, <2>3, <2>5 DEF Newcomers, Exists
      <4> QED
        BY <4>1, <3>2, <2>3 DEF Exists
    <3> QED
      BY <3>1, <3>2
  <2> QED
    BY <2>1, <2>3, <2>4, <2>5 DEF Newcomers, Exists
<1>3. ASSUME NEW u \in User, Expire(u) PROVE Newcomers'
  <2>1. users[u] \in UserDoc /\ users \in [User -> UserDoc]
    BY DEF TypeInv, TypeOK
  <2> DEFINE d == [users[u] EXCEPT !.rfresh = FALSE]
             e == [users[u] EXCEPT !.rfresh = FALSE, !.vfresh = FALSE]
  <2>2. d.state = users[u].state /\ e.state = users[u].state
    BY <2>1 DEF UserDoc
  <2>3. users' = [users EXCEPT ![u] = d] \/ users' = [users EXCEPT ![u] = e]
    BY <1>3, <2>1 DEF Expire
  <2>4. users[u] # NoUser
    BY <1>3 DEF Expire, NoUser
  <2> HIDE DEF d, e
  <2>5. mails' = mails /\ op' = op
    BY <1>3 DEF Expire
  <2>6. \A v \in User : /\ Exists(v) => Exists(v)'
                        /\ ~Exists(v) => users'[v] = users[v]
    BY <2>1, <2>2, <2>3, <2>4 DEF Exists, Newcomers
  <2> QED
    BY <2>5, <2>6, <1>a DEF Newcomers, Exists
<1>4. ASSUME UNCHANGED vars PROVE Newcomers'
  BY <1>4 DEF vars, Newcomers
<1> QED
  BY <1>1, <1>2, <1>3, <1>4 DEF Next

-----------------------------------------------------------------------------
(* The only request on an account: what it has read is what the document says,
   what it is about to mail is what the document stores, and its token is newer
   than every one that was mailed. *)
ReadAt(o) ==
  op[o].user \notin overlapped =>
  /\ op[o].pc \in {"compare", "write"} => op[o].stale = users[op[o].user].email
  /\ op[o].pc \in {"vcompare", "vwrite", "rwrite"} =>
       op[o].email = users[op[o].user].pending
  /\ op[o].pc \in {"mail", "rmail"} =>
       /\ op[o].email = users[op[o].user].pending
       /\ op[o].token = users[op[o].user].vtoken
  /\ op[o].pc = "fmail" => op[o].token = users[op[o].user].rtoken
  /\ op[o].pc \in Storing \cup Mailing /\ op[o].token # 0 =>
       \A m \in mails : m.user = op[o].user => m.token < op[o].token

(* A mail whose token is stored went to the address that is pending; one whose
   token is not was used, or is older than the stored one, or than another mail. *)
LinkedAt(m) ==
  m.user \notin overlapped =>
  /\ m.kind = "verify" /\ m.token = users[m.user].vtoken => m.to = users[m.user].pending
  /\ \/ m.token \in used
     \/ m.kind = "reset" /\ users[m.user].rtoken >= m.token
     \/ m.kind = "verify" /\ users[m.user].vtoken >= m.token
     \/ \E n \in mails : n.user = m.user /\ n.kind = m.kind /\ n.token > m.token

LinkInv ==
  /\ Newcomers
  /\ \A o \in Request : ReadAt(o)
  /\ \A m \in mails : LinkedAt(m)

(* What the steps do to addresses and tokens, by kind of step. *)
Alike(u) ==
  /\ users'[u].email = users[u].email /\ users'[u].pending = users[u].pending
  /\ SameTokens(u)

AllAlike == \A u \in User : Alike(u)

Quits(o) ==
  /\ op'[o] = Idle /\ UNCHANGED <<mails, used>>
  /\ LET u == op[o].user
     IN  \/ Alike(u)
         \/ /\ op[o].pc = "write" /\ users'[u].email \in {users[u].email, op[o].stale}
            /\ users'[u].pending = users[u].pending /\ SameTokens(u)
         \/ op[o].pc = "insert"

Looks(o) ==
  /\ UNCHANGED <<mails, used>> /\ AllAlike
  /\ op'[o].user = op[o].user /\ op'[o].token = op[o].token
  /\ LET d == users[op[o].user]
     IN  \/ op[o].pc = "find" /\ op'[o].pc = "insert"
         \/ /\ op[o].pc = "load" /\ op'[o].pc \in {"write", "compare"}
            /\ op'[o].stale = d.email
         \/ op[o].pc = "vload" /\ op'[o].pc = "vcompare" /\ op'[o].email = d.pending
         \/ op[o].pc = "vcompare" /\ op'[o].pc = "vwrite" /\ op'[o].email = op[o].email
         \/ op[o].pc = "reset" /\ op'[o].pc = "rsave"

Draws(o) ==
  /\ UNCHANGED <<mails, used>> /\ AllAlike
  /\ op'[o].user = op[o].user /\ op'[o].token = issued + 1
  /\ \/ op[o].pc = "compare" /\ op'[o].pc = "write" /\ op'[o].stale = op[o].stale
     \/ /\ op[o].pc = "rload" /\ op'[o].pc = "rwrite"
        /\ op'[o].email = users[op[o].user].pending
     \/ op[o].pc = "fload" /\ op'[o].pc = "fsave"

Saves(o) ==
  /\ UNCHANGED <<mails, used>>
  /\ op'[o].user = op[o].user /\ op'[o].token = op[o].token
  /\ op'[o].email = op[o].email
  /\ LET u == op[o].user
     IN  /\ users'[u].email = users[u].email
         /\ \/ /\ op[o].pc = "write" /\ op'[o].pc = "mail" /\ NewEmail(o)
               /\ users'[u].pending = op[o].email
               /\ users'[u].vtoken = op[o].token /\ users'[u].rtoken = users[u].rtoken
            \/ /\ op[o].pc = "rwrite" /\ op'[o].pc = "rmail"
               /\ users'[u].pending = users[u].pending
               /\ users'[u].vtoken = op[o].token /\ users'[u].rtoken = users[u].rtoken
            \/ /\ op[o].pc = "fsave" /\ op'[o].pc = "fmail"
               /\ users'[u].pending = users[u].pending
               /\ users'[u].rtoken = op[o].token /\ users'[u].vtoken = users[u].vtoken

Posts(o) ==
  /\ op[o].pc \in Mailing /\ op'[o] = Idle /\ UNCHANGED used /\ AllAlike
  /\ \E m : /\ mails' = mails \cup {m}
            /\ m.user = op[o].user /\ m.token = op[o].token /\ m.to = op[o].email
            /\ m.kind = IF op[o].pc = "fmail" THEN "reset" ELSE "verify"

Spends(o) ==
  /\ op'[o] = Idle /\ UNCHANGED mails /\ used' = used \cup {op[o].token}
  /\ LET u == op[o].user
     IN  \/ /\ op[o].pc = "vwrite" /\ users'[u].email = op[o].email
            /\ users'[u].vtoken = 0 /\ users'[u].rtoken = users[u].rtoken
         \/ /\ op[o].pc = "rsave" /\ users'[u].email = users[u].email
            /\ users'[u].pending = users[u].pending
            /\ users'[u].rtoken = 0 /\ users'[u].vtoken = users[u].vtoken

LEMMA StepForms ==
  ASSUME TypeInv, NEW o \in Request, Step(o)
  PROVE  /\ \A v \in User \ {op[o].user} : Alike(v)
         /\ \/ Quits(o) \/ Looks(o) \/ Draws(o) \/ Saves(o) \/ Posts(o) \/ Spends(o)
<1>a. /\ op \in [Request -> OpType] /\ op[o] \in OpType
      /\ users \in [User -> UserDoc] /\ \A u \in User : users[u] \in UserDoc
  BY DEF TypeInv, TypeOK, OpType
<1>b. op[o].pc # "idle" => op[o].user \in User
  BY DEF TypeInv, Assigned
<1>c. users' = users => AllAlike /\ Alike(op[o].user)
  BY DEF AllAlike, Alike, SameTokens
<1>d. ASSUME NEW d, Me(o) \in User, users' = [users EXCEPT ![Me(o)] = d]
      PROVE  /\ \A v \in User \ {op[o].user} : Alike(v)
             /\ users'[op[o].user] = d
  BY <1>d, <1>a DEF Alike, SameTokens, Me
<1>e. AllAlike => \A v \in User \ {op[o].user} : Alike(v)
  BY DEF AllAlike
<1>1. CASE FindExistingUser(o) \/ MatchResetToken(o) \/ ComparePending(o)
  <2>1. /\ users' = users /\ UNCHANGED <<mails, used>>
        /\ \/ op'[o] = Idle
           \/ /\ op'[o].user = op[o].user /\ op'[o].token = op[o].token
              /\ op'[o].email = op[o].email
              /\ \/ op[o].pc = "find" /\ op'[o].pc = "insert"
                 \/ op[o].pc = "reset" /\ op'[o].pc = "rsave"
                 \/ op[o].pc = "vcompare" /\ op'[o].pc = "vwrite"
    BY <1>1, <1>a
       DEF FindExistingUser, MatchResetToken, ComparePending, Goto, Return, OpType
  <2> QED
    BY <2>1, <1>c, <1>e DEF Quits, Looks
<1>2. CASE InsertUser(o)
  <2>1. Me(o) \in User /\ op[o].pc = "insert"
    BY <1>2, <1>b DEF InsertUser, Me
  <2>2. users' = users \/ \E d : users' = [users EXCEPT ![Me(o)] = d]
    BY <1>2 DEF InsertUser
  <2>3. op'[o] = Idle /\ UNCHANGED <<mails, used>>
    BY <1>2, <1>a DEF InsertUser, Return
  <2> QED
    BY <2>1, <2>2, <2>3, <1>c, <1>d, <1>e DEF Quits
<1>3. CASE LoadForUpdate(o)
  <2>1. /\ users' = users /\ UNCHANGED <<mails, used>>
        /\ \/ op'[o] = Idle
           \/ /\ op'[o].user = op[o].user /\ op'[o].token = op[o].token
              /\ op[o].pc = "load" /\ op'[o].pc \in {"write", "compare"}
              /\ op'[o].stale = users[op[o].user].email
    BY <1>3, <1>a DEF LoadForUpdate, Return, OpType, Me
  <2> QED
    BY <2>1, <1>c, <1>e DEF Quits, Looks
<1>4. CASE CompareEmail(o)
  <2> DEFINE n == issued + 1
  <2>1. \/ op' = [op EXCEPT ![o] = Idle]
        \/ op' = [op EXCEPT ![o].pc = "write", ![o].token = n]
    BY <1>4 DEF CompareEmail, Return
  <2>2. op[o].pc = "compare" /\ users' = users /\ UNCHANGED <<mails, used>>
    BY <1>4 DEF CompareEmail
  <2> HIDE DEF n
  <2>3. \/ op'[o] = Idle
        \/ /\ op'[o].user = op[o].user /\ op'[o].token = n
           /\ op'[o].pc = "write" /\ op'[o].stale = op[o].stale
    BY <2>1, <1>a DEF OpType
  <2> QED
    BY <2>2, <2>3, <1>c, <1>e DEF Quits, Draws, n
<1>5. CASE WriteUpdate(o)
  <2>1. Me(o) \in User /\ users[Me(o)] \in UserDoc
    BY <1>5, <1>a, <1>b DEF WriteUpdate, Me
  <2>2. /\ Updated(o).rtoken = users[Me(o)].rtoken
        /\ NewEmail(o) => /\ Updated(o).vtoken = op[o].token
                          /\ Updated(o).pending = op[o].email
                          /\ Updated(o).email = users[Me(o)].email
        /\ ~NewEmail(o) => /\ Updated(o).vtoken = users[Me(o)].vtoken
                           /\ Updated(o).pending = users[Me(o)].pending
                           /\ Updated(o).email \in {users[Me(o)].email, op[o].stale}
    BY <2>1, <1>a DEF Updated, UserDoc, NewEmail
  <2>3. /\ op[o].pc = "write" /\ UNCHANGED <<mails, used>>
        /\ \/ users' = users /\ op'[o] = Idle
           \/ /\ users' = [users EXCEPT ![Me(o)] = Updated(o)] /\ ~NewEmail(o)
              /\ op'[o] = Idle
           \/ /\ users' = [users EXCEPT ![Me(o)] = Updated(o)] /\ NewEmail(o)
              /\ op'[o].pc = "mail" /\ op'[o].user = op[o].user
              /\ op'[o].token = op[o].token /\ op'[o].email = op[o].email
    BY <1>5, <1>a DEF WriteUpdate, Goto, Return, OpType
  <2> HIDE DEF Updated
  <2>4. CASE users' = users /\ op'[o] = Idle
    BY <2>3, <2>4, <1>c, <1>e DEF Quits
  <2>5. CASE /\ users' = [users EXCEPT ![Me(o)] = Updated(o)] /\ ~NewEmail(o)
             /\ op'[o] = Idle
    BY <2>1, <2>2, <2>3, <2>5, <1>d DEF Quits, SameTokens, Me
  <2>6. CASE /\ users' = [users EXCEPT ![Me(o)] = Updated(o)] /\ NewEmail(o)
             /\ op'[o].pc = "mail" /\ op'[o].user = op[o].user
             /\ op'[o].token = op[o].token /\ op'[o].email = op[o].email
    BY <2>1, <2>2, <2>3, <2>6, <1>d DEF Saves, Me
  <2> QED
    BY <2>3, <2>4, <2>5, <2>6
<1>6. CASE MailVerification(o) \/ MailResent(o) \/ MailReset(o)
  <2> DEFINE k == IF op[o].pc = "fmail" THEN "reset" ELSE "verify"
             m == [kind |-> k, user |-> Me(o), to |-> op[o].email,
                   token |-> op[o].token]
  <2>1. /\ m.user = op[o].user /\ m.token = op[o].token /\ m.kind = k
        /\ m.to = op[o].email
    BY DEF Me
  <2>2. /\ UNCHANGED <<users, used>>
        /\ op[o].pc \in Mailing /\ op'[o] = Idle
        /\ mails' = mails \/ mails' = mails \cup {m}
    BY <1>6, <1>a
       DEF MailVerification, MailResent, MailReset, Send, Return, Mailing
  <2> HIDE DEF m
  <2> QED
    BY <2>1, <2>2, <1>c, <1>e DEF Posts, Quits
<1>7. CASE RemoveUser(o)
  <2>1. Me(o) \in User /\ users[Me(o)] \in UserDoc
    BY <1>7, <1>a, <1>b DEF RemoveUser, Me
  <2> DEFINE d == [users[Me(o)] EXCEPT !.state = "removed"]
  <2>2. /\ d.vtoken = users[Me(o)].vtoken /\ d.rtoken = users[Me(o)].rtoken
        /\ d.email = users[Me(o)].email /\ d.pending = users[Me(o)].pending
    BY <2>1 DEF UserDoc
  <2>3. users' = users \/ users' = [users EXCEPT ![Me(o)] = d]
    BY <1>7, <1>a DEF RemoveUser
  <2> HIDE DEF d
  <2>4. op'[o] = Idle /\ UNCHANGED <<mails, used>>
    BY <1>7, <1>a DEF RemoveUser, Return
  <2>5. CASE users' = users
    BY <2>4, <2>5, <1>c, <1>e DEF Quits
  <2>6. CASE users' = [users EXCEPT ![Me(o)] = d]
    BY <2>1, <2>2, <2>4, <2>6, <1>d DEF Quits, Alike, SameTokens, Me
  <2> QED
    BY <2>3, <2>5, <2>6
<1>8. CASE LoadForVerify(o)
  <2>1. /\ users' = users /\ UNCHANGED <<mails, used>>
        /\ \/ op'[o] = Idle
           \/ /\ op'[o].user = op[o].user /\ op'[o].token = op[o].token
              /\ op[o].pc = "vload" /\ op'[o].pc = "vcompare"
              /\ op'[o].email = users[op[o].user].pending
    BY <1>8, <1>a DEF LoadForVerify, Return, OpType, Me
  <2> QED
    BY <2>1, <1>c, <1>e DEF Quits, Looks
<1>9. CASE WriteVerified(o)
  <2>1. Me(o) \in User /\ users[Me(o)] \in UserDoc
    BY <1>9, <1>a, <1>b DEF WriteVerified, Me
  <2>2. /\ Verified(o).vtoken = 0 /\ Verified(o).rtoken = users[Me(o)].rtoken
        /\ Verified(o).email = op[o].email
    BY <2>1 DEF Verified, UserDoc
  <2>3. /\ op[o].pc = "vwrite" /\ op'[o] = Idle /\ UNCHANGED mails
        /\ \/ UNCHANGED <<users, used>>
           \/ /\ users' = [users EXCEPT ![Me(o)] = Verified(o)]
              /\ used' = used \cup {op[o].token}
    BY <1>9, <1>a DEF WriteVerified, Return, Use
  <2> HIDE DEF Verified
  <2>4. CASE UNCHANGED <<users, used>>
    BY <2>3, <2>4, <1>c, <1>e DEF Quits
  <2>5. CASE /\ users' = [users EXCEPT ![Me(o)] = Verified(o)]
             /\ used' = used \cup {op[o].token}
    BY <2>1, <2>2, <2>3, <2>5, <1>d DEF Spends, Me
  <2> QED
    BY <2>3, <2>4, <2>5
<1>10. CASE LoadForResend(o) \/ LoadForForgot(o)
  <2> DEFINE n == issued + 1
  <2>1. \/ op' = [op EXCEPT ![o] = Idle]
        \/ /\ op[o].pc = "rload"
           /\ op' = [op EXCEPT ![o].pc = "rwrite", ![o].token = n,
                               ![o].email = users[Me(o)].pending]
        \/ /\ op[o].pc = "fload"
           /\ op' = [op EXCEPT ![o].pc = "fsave", ![o].token = n,
                               ![o].email = users[Me(o)].email]
    BY <1>10 DEF LoadForResend, LoadForForgot, Return
  <2>2. users' = users /\ UNCHANGED <<mails, used>>
    BY <1>10 DEF LoadForResend, LoadForForgot
  <2> HIDE DEF n
  <2>3. \/ op'[o] = Idle
        \/ /\ op'[o].user = op[o].user /\ op'[o].token = n
           /\ op[o].pc = "rload" /\ op'[o].pc = "rwrite"
           /\ op'[o].email = users[op[o].user].pending
        \/ /\ op'[o].user = op[o].user /\ op'[o].token = n
           /\ op[o].pc = "fload" /\ op'[o].pc = "fsave"
    BY <2>1, <1>a DEF OpType, Me
  <2> QED
    BY <2>2, <2>3, <1>c, <1>e DEF Quits, Draws, n
<1>11. CASE RenewToken(o) \/ SaveResetToken(o)
  <2>1. Me(o) \in User /\ users[Me(o)] \in UserDoc
    BY <1>11, <1>a, <1>b DEF RenewToken, SaveResetToken, Me
  <2> DEFINE d == [users[Me(o)] EXCEPT !.vtoken = op[o].token, !.vfresh = TRUE]
             e == [users[Me(o)] EXCEPT !.rtoken = op[o].token, !.rfresh = TRUE]
  <2>2. /\ d.vtoken = op[o].token /\ d.rtoken = users[Me(o)].rtoken
        /\ e.rtoken = op[o].token /\ e.vtoken = users[Me(o)].vtoken
        /\ d.email = users[Me(o)].email /\ d.pending = users[Me(o)].pending
        /\ e.email = users[Me(o)].email /\ e.pending = users[Me(o)].pending
    BY <2>1 DEF UserDoc
  <2>3. /\ UNCHANGED <<mails, used>>
        /\ \/ /\ users' = [users EXCEPT ![Me(o)] = d]
              /\ op[o].pc = "rwrite" /\ Goto(o, "rmail")
           \/ /\ users' = [users EXCEPT ![Me(o)] = e]
              /\ op[o].pc = "fsave" /\ Goto(o, "fmail")
    BY <1>11, <2>1, <1>a DEF RenewToken, SaveResetToken
  <2> HIDE DEF d, e
  <2>4. \A l : Goto(o, l) => /\ op'[o].user = op[o].user /\ op'[o].pc = l
                             /\ op'[o].token = op[o].token /\ op'[o].email = op[o].email
    BY <1>a DEF Goto, OpType
  <2>5. CASE /\ users' = [users EXCEPT ![Me(o)] = d]
             /\ op[o].pc = "rwrite" /\ Goto(o, "rmail")
    BY <2>1, <2>2, <2>3, <2>4, <2>5, <1>d DEF Saves, Me
  <2>6. CASE /\ users' = [users EXCEPT ![Me(o)] = e]
             /\ op[o].pc = "fsave" /\ Goto(o, "fmail")
    BY <2>1, <2>2, <2>3, <2>4, <2>6, <1>d DEF Saves, Me
  <2> QED
    BY <2>3, <2>5, <2>6
<1>12. CASE SavePassword(o)
  <2>1. Me(o) \in User /\ users[Me(o)] \in UserDoc
    BY <1>12, <1>a, <1>b DEF SavePassword, Me
  <2> DEFINE d == ResetDone(users[Me(o)])
  <2>2. /\ d.rtoken = 0 /\ d.vtoken = users[Me(o)].vtoken
        /\ d.email = users[Me(o)].email /\ d.pending = users[Me(o)].pending
    BY <2>1 DEF ResetDone, UserDoc
  <2>3. users' = [users EXCEPT ![Me(o)] = d]
    BY <1>12, <2>1, <1>a DEF SavePassword
  <2> HIDE DEF d
  <2>4. /\ op[o].pc = "rsave" /\ op'[o] = Idle /\ UNCHANGED mails
        /\ used' = used \cup {op[o].token}
    BY <1>12, <1>a DEF SavePassword, Return, Use
  <2> QED
    BY <2>1, <2>2, <2>3, <2>4, <1>d DEF Spends, Me
<1> QED
  BY <1>1, <1>2, <1>3, <1>4, <1>5, <1>6, <1>7, <1>8, <1>9, <1>10, <1>11, <1>12 DEF Step

(* Time changes no address and no token. *)
LEMMA ExpireAlike ==
  ASSUME TypeInv, NEW u \in User, Expire(u)
  PROVE  \A v \in User : Alike(v)
<1>1. users[u] \in UserDoc /\ users \in [User -> UserDoc]
  BY DEF TypeInv, TypeOK
<1> DEFINE d == [users[u] EXCEPT !.rfresh = FALSE]
           e == [users[u] EXCEPT !.rfresh = FALSE, !.vfresh = FALSE]
<1>2. /\ d.vtoken = users[u].vtoken /\ d.rtoken = users[u].rtoken
      /\ e.vtoken = users[u].vtoken /\ e.rtoken = users[u].rtoken
      /\ d.email = users[u].email /\ d.pending = users[u].pending
      /\ e.email = users[u].email /\ e.pending = users[u].pending
  BY <1>1 DEF UserDoc
<1>3. users' = [users EXCEPT ![u] = d] \/ users' = [users EXCEPT ![u] = e]
  BY <1>1 DEF Expire
<1> HIDE DEF d, e
<1> QED
  BY <1>1, <1>2, <1>3 DEF Alike, SameTokens

LEMMA TokenNat ==
  ASSUME TypeInv, TokenInv
  PROVE  /\ \A m \in mails : m.token \in Nat /\ m.token # 0 /\ m.user \in User
         /\ \A m \in mails : m.kind \in {"verify", "reset"} /\ m.token <= issued
         /\ \A o \in Request : op[o].token \in Nat
         /\ \A u \in User : users[u].vtoken \in Nat /\ users[u].rtoken \in Nat
         /\ issued \in Nat
  BY DEF TypeInv, TypeOK, Token, TokenInv, Bounded, Old, Mail

(* A step on one account leaves the requests and the mails of the others alone. *)
LEMMA OthersRead ==
  ASSUME TypeInv, TokenInv, LinkInv, NEW o \in Request, OthersKept(o),
         \A v \in User \ {op[o].user} : Alike(v),
         \A m \in mails' : m \in mails \/ m.user = op[o].user,
         NEW q \in Request, q # o
  PROVE  ReadAt(q)'
<1>1. /\ op'[q] = op[q] /\ overlapped' = overlapped /\ ReadAt(q)
      /\ op[o].user \in User
  BY DEF OthersKept, LinkInv
<1>2. CASE op[q].pc = "idle"
  <2>1. "idle" \notin Storing \cup Mailing
    BY DEF Storing, Mailing
  <2> QED
    BY <1>1, <1>2, <2>1 DEF ReadAt
<1>3. CASE op[q].pc # "idle" /\ op[q].user = op[o].user
  <2>1. op[q].user \in overlapped
    BY <1>1, <1>3, AccountsAssumption DEF TokenInv, Alone
  <2> QED
    BY <2>1, <1>1 DEF ReadAt
<1>4. CASE op[q].pc # "idle" /\ op[q].user # op[o].user
  <2>1. op[q].user \in User
    BY <1>4 DEF TypeInv, Assigned
  <2>2. Alike(op[q].user)
    BY <2>1, <1>4
  <2>3. \A m \in mails' : m.user = op[q].user => m \in mails
    BY <1>4
  <2> QED
    BY <1>1, <2>2, <2>3 DEF ReadAt, Alike, SameTokens
<1> QED
  BY <1>2, <1>3, <1>4

LEMMA OthersLinked ==
  ASSUME TypeInv, TokenInv, LinkInv, NEW o \in Request, OthersKept(o),
         \A v \in User \ {op[o].user} : Alike(v),
         mails \subseteq mails', used \subseteq used',
         NEW m \in mails, m.user # op[o].user
  PROVE  LinkedAt(m)'
<1>1. m.user \in User /\ LinkedAt(m) /\ overlapped' = overlapped
  BY TokenNat DEF LinkInv, OthersKept
<1>2. Alike(m.user)
  BY <1>1
<1> QED
  BY <1>1, <1>2 DEF LinkedAt, Alike, SameTokens

Read   == \A q \in Request : ReadAt(q)
Linked == \A m \in mails : LinkedAt(m)

LEMMA QuitsRead ==
  ASSUME TypeInv, TokenInv, LinkInv, NEW o \in Request, OthersKept(o),
         \A v \in User \ {op[o].user} : Alike(v), Quits(o)
  PROVE  Read' /\ Linked'
<1> DEFINE u == op[o].user
<1>1. /\ mails' = mails /\ used' = used /\ overlapped' = overlapped
      /\ op'[o].pc = "idle" /\ u \in User
  BY Labels DEF Quits, OthersKept
<1>2. Read'
  <2>1. "idle" \notin Storing \cup Mailing
    BY DEF Storing, Mailing
  <2>2. ReadAt(o)'
    BY <1>1, <2>1 DEF ReadAt
  <2> QED
    BY <1>1, <2>2, OthersRead DEF Read
<1>3. Linked'
  <2> SUFFICES ASSUME NEW m \in mails PROVE LinkedAt(m)'
    BY <1>1 DEF Linked
  <2>1. CASE m.user # u
    BY <2>1, <1>1, OthersLinked
  <2>2. CASE m.user = u
    <3>1. op[o].pc # "insert" /\ LinkedAt(m)
      BY <2>2 DEF LinkInv, Newcomers
    <3>2. users'[u].pending = users[u].pending /\ SameTokens(u)
      BY <3>1 DEF Quits, Alike
    <3> HIDE DEF u
    <3> QED
      BY <2>2, <3>1, <3>2, <1>1 DEF LinkedAt, SameTokens
  <2> QED
    BY <2>1, <2>2
<1> QED
  BY <1>2, <1>3

LEMMA LooksRead ==
  ASSUME TypeInv, TokenInv, LinkInv, NEW o \in Request, OthersKept(o), Looks(o)
  PROVE  Read' /\ Linked'
<1> DEFINE u == op[o].user
<1>1. /\ mails' = mails /\ used' = used /\ overlapped' = overlapped
      /\ u \in User /\ \A v \in User : Alike(v)
      /\ op'[o].user = u /\ op'[o].token = op[o].token
  BY DEF Looks, OthersKept, AllAlike
<1>2. Read'
  <2>1. ReadAt(o)'
    <3>1. /\ op'[o].pc \in {"insert", "write", "compare", "vcompare", "vwrite", "rsave"}
          /\ op'[o].pc \in {"write", "compare"} =>
               op'[o].stale = users[u].email /\ (op'[o].pc = "write" => op[o].token = 0)
          /\ op'[o].pc = "vcompare" => op'[o].email = users[u].pending
          /\ op'[o].pc = "vwrite" => op[o].pc = "vcompare" /\ op'[o].email = op[o].email
      BY DEF Looks, TokenInv, Fresh, FreshAt
    <3>2. op'[o].pc \in Storing \cup Mailing => op'[o].token = 0
      BY <3>1, <1>1 DEF Storing, Mailing
    <3>3. ReadAt(o) /\ Alike(u)
      BY <1>1 DEF LinkInv
    <3> QED
      BY <3>1, <3>2, <3>3, <1>1 DEF ReadAt, Alike
  <2> QED
    BY <1>1, <2>1, OthersRead DEF Read
<1>3. Linked'
  <2>1. \A m \in mails : m.user \in User /\ LinkedAt(m)
    BY TokenNat DEF LinkInv
  <2> QED
    BY <1>1, <2>1 DEF Linked, LinkedAt, Alike, SameTokens
<1> QED
  BY <1>2, <1>3

LEMMA DrawsRead ==
  ASSUME TypeInv, TokenInv, LinkInv, NEW o \in Request, OthersKept(o), Draws(o)
  PROVE  Read' /\ Linked'
<1> DEFINE u == op[o].user
<1>1. /\ mails' = mails /\ used' = used /\ overlapped' = overlapped
      /\ u \in User /\ \A v \in User : Alike(v)
      /\ op'[o].user = u /\ op'[o].token = issued + 1
  BY DEF Draws, OthersKept, AllAlike
<1>2. Read'
  <2>1. ReadAt(o)'
    <3>1. /\ op'[o].pc \in {"write", "rwrite", "fsave"}
          /\ op'[o].pc = "write" => op[o].pc = "compare" /\ op'[o].stale = op[o].stale
          /\ op'[o].pc = "rwrite" => op'[o].email = users[u].pending
      BY DEF Draws
    <3>2. \A m \in mails : m.token < op'[o].token
      BY <1>1, TokenNat
    <3>3. ReadAt(o) /\ Alike(u)
      BY <1>1 DEF LinkInv
    <3> QED
      BY <3>1, <3>2, <3>3, <1>1 DEF ReadAt, Alike
  <2> QED
    BY <1>1, <2>1, OthersRead DEF Read
<1>3. Linked'
  <2>1. \A m \in mails : m.user \in User /\ LinkedAt(m)
    BY TokenNat DEF LinkInv
  <2> QED
    BY <1>1, <2>1 DEF Linked, LinkedAt, Alike, SameTokens
<1> QED
  BY <1>2, <1>3

LEMMA SavesRead ==
  ASSUME TypeInv, TokenInv, LinkInv, NEW o \in Request, OthersKept(o),
         \A v \in User \ {op[o].user} : Alike(v), Saves(o)
  PROVE  Read' /\ Linked'
<1> DEFINE u == op[o].user
           t == op[o].token
<1>1. /\ mails' = mails /\ used' = used /\ overlapped' = overlapped
      /\ u \in User /\ op'[o].user = u /\ op'[o].token = t
      /\ op'[o].email = op[o].email
  BY DEF Saves, OthersKept
<1>2. /\ ReadAt(o) /\ t # 0 /\ t \in Nat /\ op[o].pc \in Storing
      /\ op'[o].pc \in {"mail", "rmail", "fmail"}
  <2>1. op[o].pc \in {"write", "rwrite", "fsave"} /\ (op[o].pc = "write" => NewEmail(o))
    BY DEF Saves
  <2> QED
    BY <2>1, TokenNat DEF Saves, LinkInv, TokenInv, Fresh, FreshAt, Storing
<1>3. /\ \/ /\ op'[o].pc \in {"mail", "rmail"} /\ users'[u].vtoken = t
            /\ users'[u].rtoken = users[u].rtoken
            /\ u \notin overlapped => users'[u].pending = op[o].email
         \/ /\ op'[o].pc = "fmail" /\ users'[u].rtoken = t
            /\ users'[u].vtoken = users[u].vtoken
            /\ users'[u].pending = users[u].pending
      /\ u \notin overlapped => \A m \in mails : m.user = u => m.token < t
  BY <1>2 DEF Saves, ReadAt
<1> HIDE DEF u, t
<1>4. Read'
  <2>1. ReadAt(o)'
    BY <1>1, <1>2, <1>3 DEF ReadAt
  <2> QED
    BY <1>1, <2>1, OthersRead DEF Read
<1>5. Linked'
  <2> SUFFICES ASSUME NEW m \in mails PROVE LinkedAt(m)'
    BY <1>1 DEF Linked
  <2>1. CASE m.user # u
    BY <2>1, <1>1, OthersLinked DEF u
  <2>2. CASE m.user = u
    <3>1. LinkedAt(m) /\ m.token \in Nat /\ m.kind \in {"verify", "reset"}
      BY TokenNat DEF LinkInv
    <3> SUFFICES ASSUME u \notin overlapped PROVE LinkedAt(m)'
      BY <2>2, <1>1 DEF LinkedAt
    <3>2. m.token < t
      BY <2>2, <1>3
    <3> QED
      BY <2>2, <3>1, <3>2, <1>1, <1>2, <1>3 DEF LinkedAt
  <2> QED
    BY <2>1, <2>2
<1> QED
  BY <1>4, <1>5

LEMMA PostsRead ==
  ASSUME TypeInv, TokenInv, LinkInv, NEW o \in Request, OthersKept(o), Posts(o)
  PROVE  Read' /\ Linked'
<1> DEFINE u == op[o].user
<1>1. PICK m : /\ mails' = mails \cup {m} /\ m.user = u /\ m.token = op[o].token
               /\ m.to = op[o].email
               /\ m.kind = IF op[o].pc = "fmail" THEN "reset" ELSE "verify"
  BY DEF Posts
<1>2. /\ used' = used /\ overlapped' = overlapped
      /\ u \in User /\ \A v \in User : Alike(v)
      /\ op'[o].pc = "idle" /\ op[o].pc \in Mailing
  BY Labels DEF Posts, OthersKept, AllAlike
<1>3. Read'
  <2>1. "idle" \notin Storing \cup Mailing
    BY DEF Storing, Mailing
  <2>2. ReadAt(o)'
    BY <1>2, <2>1 DEF ReadAt
  <2> QED
    BY <1>1, <1>2, <2>2, OthersRead DEF Read
<1>4. Linked'
  <2>1. ASSUME NEW n \in mails PROVE LinkedAt(n)'
    <3>1. n.user \in User /\ LinkedAt(n) /\ mails \subseteq mails'
      BY <1>1, TokenNat DEF LinkInv
    <3>2. Alike(n.user)
      BY <3>1, <1>2
    <3> QED
      BY <3>1, <3>2, <1>2 DEF LinkedAt, Alike, SameTokens
  <2>2. LinkedAt(m)'
    <3>1. ReadAt(o) /\ Alike(u) /\ op[o].token \in Nat
      BY <1>2, TokenNat DEF LinkInv
    <3>2. u \notin overlapped =>
            /\ op[o].pc \in {"mail", "rmail"} => /\ op[o].email = users[u].pending
                                                 /\ op[o].token = users[u].vtoken
            /\ op[o].pc = "fmail" => op[o].token = users[u].rtoken
      BY <3>1 DEF ReadAt
    <3>3. op[o].pc = "fmail" \/ op[o].pc \in {"mail", "rmail"}
      BY <1>2 DEF Mailing
    <3> HIDE DEF u
    <3> QED
      BY <3>1, <3>2, <3>3, <1>1, <1>2 DEF LinkedAt, Alike, SameTokens
  <2> QED
    BY <1>1, <2>1, <2>2 DEF Linked
<1> QED
  BY <1>3, <1>4

LEMMA SpendsRead ==
  ASSUME TypeInv, TokenInv, LinkInv, NEW o \in Request, OthersKept(o),
         \A v \in User \ {op[o].user} : Alike(v), Spends(o)
  PROVE  Read' /\ Linked'
<1> DEFINE u == op[o].user
           t == op[o].token
<1>1. /\ mails' = mails /\ used' = used \cup {t} /\ overlapped' = overlapped
      /\ u \in User /\ op'[o].pc = "idle"
  BY Labels DEF Spends, OthersKept
<1>2. Read'
  <2>1. "idle" \notin Storing \cup Mailing
    BY DEF Storing, Mailing
  <2>2. ReadAt(o)'
    BY <1>1, <2>1 DEF ReadAt
  <2> QED
    BY <1>1, <2>2, OthersRead DEF Read
<1>3. Linked'
  <2> SUFFICES ASSUME NEW m \in mails PROVE LinkedAt(m)'
    BY <1>1 DEF Linked
  <2>1. CASE m.user # u
    BY <2>1, <1>1, OthersLinked
  <2>2. CASE m.user = u
    <3> SUFFICES ASSUME u \notin overlapped PROVE LinkedAt(m)'
      BY <2>2, <1>1 DEF LinkedAt
    <3>1. /\ LinkedAt(m) /\ m.token \in Nat /\ m.kind \in {"verify", "reset"}
          /\ m.token # 0 /\ t \in Nat
          /\ users[u].vtoken \in Nat /\ users[u].rtoken \in Nat
      BY <1>1, TokenNat DEF LinkInv
    <3>2. /\ op[o].pc = "vwrite" => users[u].vtoken = t
          /\ op[o].pc = "rsave" => users[u].rtoken = t
      BY DEF TokenInv, Current, CurrentAt
    <3>3. PICK n \in mails : /\ n.user = u /\ n.token = t
                             /\ n.kind = IF op[o].pc = "vwrite" THEN "verify" ELSE "reset"
      BY DEF Spends, TokenInv, FromMail, FromMailAt, Verifying, Resetting
    <3>4. \/ /\ op[o].pc = "vwrite" /\ users'[u].vtoken = 0
             /\ users'[u].rtoken = users[u].rtoken
          \/ /\ op[o].pc = "rsave" /\ users'[u].pending = users[u].pending
             /\ users'[u].rtoken = 0 /\ users'[u].vtoken = users[u].vtoken
      BY DEF Spends
    <3> HIDE DEF u, t
    <3>5. CASE op[o].pc = "vwrite"
      BY <2>2, <3>1, <3>2, <3>3, <3>4, <3>5, <1>1 DEF LinkedAt
    <3>6. CASE op[o].pc = "rsave"
      BY <2>2, <3>1, <3>2, <3>3, <3>4, <3>6, <1>1 DEF LinkedAt
    <3> QED
      BY <3>4, <3>5, <3>6
  <2> QED
    BY <2>1, <2>2
<1> QED
  BY <1>2, <1>3

LEMMA LinkStep == TypeInv /\ TokenInv /\ LinkInv /\ [Next]_vars => LinkInv'
<1> SUFFICES ASSUME TypeInv, TokenInv, LinkInv, [Next]_vars PROVE Read' /\ Linked'
  BY NewcomersStep DEF LinkInv, Read, Linked
<1>1. ASSUME NEW o \in Request, Step(o) PROVE Read' /\ Linked'
  BY <1>1, StepOthers, StepForms, QuitsRead, LooksRead, DrawsRead, SavesRead,
     PostsRead, SpendsRead
<1>2. ASSUME NEW o \in Request, Start(o) PROVE Read' /\ Linked'
  <2>1. PICK l \in {"find", "load", "delete", "rload", "fload", "vload", "reset"},
            u \in User, e \in Email \cup {None}, p \in Phone \cup {None}, t \in Token :
           Begin(o, l, u, e, p, t)
    BY <1>2, Starts
  <2>2. op \in [Request -> OpType] /\ l \in Label \ {"idle"}
    BY DEF TypeInv, TypeOK, OpType, Label
  <2>3. \A q \in Request \ {o} : op'[q] = op[q]
    BY <2>1, <2>2, BeginShape
  <2>4. op'[o].pc = l
    BY <2>1, <2>2, BeginShape
  <2>5. /\ users' = users /\ mails' = mails /\ used' = used
        /\ overlapped \subseteq overlapped'
    BY <2>1 DEF Begin
  <2>6. ReadAt(o)'
    BY <2>4 DEF ReadAt, Storing, Mailing
  <2>7. \A q \in Request \ {o} : ReadAt(q)'
    BY <2>3, <2>5 DEF LinkInv, ReadAt
  <2>8. Linked'
    BY <2>5 DEF LinkInv, Linked, LinkedAt
  <2> QED
    BY <2>6, <2>7, <2>8 DEF Read
<1>3. ASSUME UNCHANGED <<mails, op, used, overlapped>>, \A u \in User : Alike(u)
      PROVE  Read' /\ Linked'
  <2>1. ASSUME NEW q \in Request PROVE ReadAt(q)'
    <3>1. ReadAt(q) /\ op' = op /\ mails' = mails /\ overlapped' = overlapped
      BY <1>3 DEF LinkInv
    <3>2. CASE op[q].pc = "idle"
      BY <3>1, <3>2 DEF ReadAt, Storing, Mailing
    <3>3. CASE op[q].pc # "idle"
      <4>1. op[q].user \in User
        BY <3>3 DEF TypeInv, Assigned
      <4> QED
        BY <3>1, <4>1, <1>3 DEF ReadAt, Alike, SameTokens
    <3> QED
      BY <3>2, <3>3
  <2>2. Linked'
    BY <1>3, TokenNat DEF LinkInv, Linked, LinkedAt, Alike, SameTokens
  <2> QED
    BY <2>1, <2>2 DEF Read
<1>4. ASSUME NEW u \in User, Expire(u) PROVE Read' /\ Linked'
  BY <1>3, <1>4, ExpireAlike DEF Expire
<1>5. ASSUME UNCHANGED vars PROVE Read' /\ Linked'
  BY <1>3, <1>5 DEF vars, Alike, SameTokens
<1> QED
  BY <1>1, <1>2, <1>4, <1>5 DEF Next

LEMMA LinkInit == Init => LinkInv
<1> SUFFICES ASSUME Init PROVE LinkInv
  OBVIOUS
<1>1. mails = {} /\ \A o \in Request : op[o].pc = "idle"
  BY DEF Init, Idle
<1>2. \A u \in User : users[u].state = "absent" => users[u] = NoUser
  BY DEF Init, NoUser
<1>3. "idle" \notin Storing \cup Mailing
  BY DEF Storing, Mailing
<1> QED
  BY <1>1, <1>2, <1>3 DEF LinkInv, Newcomers, ReadAt

LEMMA LinkAlways == Spec => [](TypeInv /\ TokenInv /\ LinkInv)
  BY TypeInit, TypeStep, TokenInit, TokenStep, LinkInit, LinkStep, PTL DEF Spec

(* No request on an account breaks a link that was mailed for it, as long as the
   requests on that account do not overlap: the link works until it is used, it or
   the account expires, or a newer one takes its place. *)
THEOREM LinksStayValid == Spec => []LinkStaysValid
<1>1. TypeInv /\ TokenInv /\ LinkInv => LinkStaysValid
  <2> SUFFICES ASSUME TypeInv, TokenInv, LinkInv, NEW m \in mails,
                      Active(m.user), m.user \notin overlapped, m.token \notin used,
                      ~\E n \in mails : /\ n.user = m.user /\ n.kind = m.kind
                                        /\ n.token > m.token
               PROVE  \/ Live(m)
                      \/ m.kind = "reset" /\ users[m.user].rtoken > m.token
                      \/ m.kind = "verify" /\ users[m.user].vtoken > m.token
    BY DEF LinkStaysValid
  <2>1. /\ LinkedAt(m) /\ m.token \in Nat
        /\ users[m.user].vtoken \in Nat /\ users[m.user].rtoken \in Nat
    BY TokenNat DEF LinkInv
  <2> QED
    BY <2>1 DEF LinkedAt, Live
<1> QED
  BY LinkAlways, <1>1, PTL

ProvenAt(u) ==
  users[u].state # "absent" /\ users'[u].email # users[u].email =>
    \/ u \in overlapped
    \/ [kind |-> "verify", user |-> u, to |-> users'[u].email,
        token |-> users[u].vtoken] \in mails

LEMMA StepProven ==
  ASSUME TypeInv, TokenInv, LinkInv, NEW o \in Request, Step(o), NEW u \in User
  PROVE  ProvenAt(u)
<1> SUFFICES ASSUME users[u].state # "absent", users'[u].email # users[u].email,
                    u \notin overlapped
             PROVE  [kind |-> "verify", user |-> u, to |-> users'[u].email,
                     token |-> users[u].vtoken] \in mails
  BY DEF ProvenAt
<1>1. /\ \A v \in User \ {op[o].user} : Alike(v)
      /\ \/ Quits(o) \/ Looks(o) \/ Draws(o) \/ Saves(o) \/ Posts(o) \/ Spends(o)
  BY StepForms
<1>2. op[o].user = u /\ ~Alike(u)
  BY <1>1 DEF Alike
<1>3. ReadAt(o) /\ LinkInv
  BY DEF LinkInv
<1>4. ~Quits(o)
  <2>1. op[o].pc # "insert"
    BY <1>2 DEF LinkInv, Newcomers
  <2>2. op[o].pc = "write" => op[o].stale = users[u].email
    BY <1>2, <1>3 DEF ReadAt
  <2> QED
    BY <1>2, <2>1, <2>2 DEF Quits
<1>5. ~Looks(o) /\ ~Draws(o) /\ ~Posts(o) /\ ~Saves(o)
  BY <1>2 DEF Looks, Draws, Posts, Saves, AllAlike
<1>6. op[o].pc = "vwrite" /\ users'[u].email = op[o].email
  BY <1>1, <1>2, <1>4, <1>5 DEF Spends
<1>7. users[u].vtoken = op[o].token /\ op[o].email = users[u].pending
  BY <1>2, <1>3, <1>6 DEF TokenInv, Current, CurrentAt, ReadAt
<1>8. PICK m \in mails : m.kind = "verify" /\ m.user = u /\ m.token = op[o].token
  BY <1>2, <1>6 DEF TokenInv, FromMail, FromMailAt, Verifying
<1>9. m.to = users[u].pending
  BY <1>3, <1>7, <1>8 DEF LinkInv, LinkedAt
<1>10. m = [kind |-> "verify", user |-> u, to |-> users'[u].email,
            token |-> users[u].vtoken]
  BY <1>6, <1>7, <1>8, <1>9 DEF TypeInv, TypeOK, Mail
<1> QED
  BY <1>8, <1>10

(* An account's address changes only to one to which the token it then stores was
   mailed, unless two requests on the account have overlapped. *)
THEOREM EmailChangesProven == Spec => EmailChangeIsProven
<1>1. ASSUME TypeInv, TokenInv, LinkInv, [Next]_vars
      PROVE  \A u \in User : ProvenAt(u)
  <2>1. ASSUME NEW o \in Request, Start(o) PROVE users' = users
    <3>1. PICK l \in {"find", "load", "delete", "rload", "fload", "vload", "reset"},
              u \in User, e \in Email \cup {None}, p \in Phone \cup {None},
              t \in Token : Begin(o, l, u, e, p, t)
      BY <1>1, <2>1, Starts
    <3> QED
      BY <3>1 DEF Begin
  <2>2. ASSUME NEW u \in User, Expire(u) PROVE \A v \in User : Alike(v)
    BY <1>1, <2>2, ExpireAlike
  <2>3. ASSUME NEW o \in Request, Step(o) PROVE \A u \in User : ProvenAt(u)
    BY <1>1, <2>3, StepProven
  <2>4. (\A v \in User : users'[v].email = users[v].email) => \A u \in User : ProvenAt(u)
    BY DEF ProvenAt
  <2> QED
    BY <1>1, <2>1, <2>2, <2>3, <2>4 DEF Next, vars, Alike
<1>2. TypeInv /\ TokenInv /\ LinkInv /\ [Next]_vars =>
        [\A u \in User : users[u].state # "absent" /\ users'[u].email # users[u].email =>
           \/ u \in overlapped
           \/ [kind |-> "verify", user |-> u, to |-> users'[u].email,
               token |-> users[u].vtoken] \in mails]_vars
  BY <1>1 DEF ProvenAt
<1> QED
  BY LinkAlways, <1>2, PTL DEF EmailChangeIsProven, Spec
=============================================================================
