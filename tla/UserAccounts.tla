----------------------------- MODULE UserAccounts ------------------------------
(***************************************************************************)
(* The account half of UsersService with the password reset and the        *)
(* registration of AuthService: the user documents, the tokens that prove  *)
(* an e-mail address or reset a password, and the mails that carry them.   *)
(* Every request reads, awaits and writes back by id, so two requests on   *)
(* one account interleave.  Sign-in, which only reads, and hashing leave   *)
(* no trace and are left out.                                              *)
(*                                                                         *)
(* Tokens are numbered in the order they are generated, which the code     *)
(* draws at random: no two are equal and none is guessed.                  *)
(***************************************************************************)
EXTENDS Naturals, FiniteSets

CONSTANTS
  User,        \* identities of user documents
  Founder,     \* the accounts that exist at first
  Email, Phone,
  FirstEmail,  \* FirstEmail[u]: the address of founder u
  Request,     \* bound: requests served at the same time
  None,        \* no user, no address, no number
  MaxRequests, \* bound: requests in all
  MaxFaults    \* bound: mails that cannot be sent

ASSUME AccountsAssumption ==
  /\ Founder \subseteq User
  /\ FirstEmail \in [Founder -> Email]
  /\ \A u, v \in Founder : FirstEmail[u] = FirstEmail[v] => u = v
  /\ None \notin User \cup Email \cup Phone
  /\ MaxRequests \in Nat /\ MaxFaults \in Nat

VARIABLES
  users,      \* users[u]: the user document
  mails,      \* the mails that were sent
  op,         \* program counter and locals of each request
  issued,     \* tokens generated so far
  used,       \* history: tokens that have changed an account
  reused,     \* history: tokens that have done so again
  overlapped, \* history: accounts two requests have worked on at one time
  requests,   \* requests started so far
  faults      \* mails that could not be sent so far

vars == <<users, mails, op, issued, used, reused, overlapped,
          requests, faults>>

State == {"absent", "active", "removed"}
Token == Nat

(* vtoken, rtoken: emailVerificationToken and resetPasswordToken (which is
   stored hashed), 0 if unset.  vfresh, rfresh: they have not expired. *)
UserDoc == [state : State, email : Email \cup {None}, phone : Phone \cup {None},
            pending : Email \cup {None}, vtoken : Token, vfresh : BOOLEAN,
            rtoken : Token, rfresh : BOOLEAN]
NoUser  == [state |-> "absent", email |-> None, phone |-> None, pending |-> None,
            vtoken |-> 0, vfresh |-> FALSE, rtoken |-> 0, rfresh |-> FALSE]

Mail  == [kind : {"verify", "reset"}, user : User, to : Email, token : Token]
Label == {"idle", "find", "insert", "load", "compare", "write", "mail", "delete",
          "vload", "vcompare", "vwrite", "rload", "rwrite", "rmail",
          "fload", "fsave", "fmail", "reset", "rsave"}
Idle  == [pc |-> "idle", user |-> None, email |-> None, phone |-> None,
          stale |-> None, token |-> 0]

TypeOK ==
  /\ users \in [User -> UserDoc]
  /\ mails \subseteq Mail
  /\ op \in [Request -> [pc : Label, user : User \cup {None},
                         email : Email \cup {None}, phone : Phone \cup {None},
                         stale : Email \cup {None}, token : Token]]
  /\ issued \in Token
  /\ used \subseteq Token /\ reused \subseteq used
  /\ overlapped \subseteq User
  /\ requests \in 0..MaxRequests
  /\ faults \in Nat

Init ==
  /\ users = [u \in User |->
       IF u \in Founder
       THEN [NoUser EXCEPT !.state = "active", !.email = FirstEmail[u]]
       ELSE NoUser]
  /\ mails = {}
  /\ op = [o \in Request |-> Idle]
  /\ issued = 0
  /\ used = {} /\ reused = {}
  /\ overlapped = {}
  /\ requests = 0
  /\ faults = 0

-----------------------------------------------------------------------------
Goto(o, label) == op' = [op EXCEPT ![o].pc = label]
Return(o)      == op' = [op EXCEPT ![o] = Idle]
Active(u)      == users[u].state = "active"
Me(o)          == op[o].user

(* findOne of UsersService; a tenant that does not fit is left out of the query
   the second time. *)
FindOne(u) == Active(u)

(* Some other account has the address: of the active ones, or of all. *)
TakenByActive(e, u) == \E v \in User \ {u} : Active(v) /\ users[v].email = e
Taken(e, u)         == \E v \in User \ {u} : users[v].email = e
PhoneTaken(p, u)    == p # None /\ \E v \in User \ {u} : users[v].phone = p

(* MongoDB stores a document only if no other one has its e-mail address (a unique
   index, which holds for removed users too).  The unique index of phone numbers is
   declared both sparse and partial, which MongoDB refuses: a document with the
   phone number of another one may be stored or not. *)
Admitted(u, e)   == ~Taken(e, u)
Refused(u, e, p) == Taken(e, u) \/ PhoneTaken(p, u)

(* Token t changes its account. *)
Use(t) ==
  /\ used' = used \cup {t}
  /\ reused' = reused \cup (used \cap {t})

(* A request on account u begins. *)
Begin(o, label, u, e, p, t) ==
  /\ op[o].pc = "idle"
  /\ requests < MaxRequests
  /\ requests' = requests + 1
  /\ op' = [op EXCEPT ![o] = [pc |-> label, user |-> u, email |-> e, phone |-> p,
                              stale |-> None, token |-> t]]
  /\ overlapped' = overlapped \cup
       (IF \E q \in Request : op[q].user = u THEN {u} ELSE {})
  /\ UNCHANGED <<users, mails, issued, used, reused, faults>>

(* EmailService tries once; what it throws is logged and thrown on. *)
Send(o, kind, next) ==
  /\ \/ /\ mails' = mails \cup {[kind |-> kind, user |-> Me(o),
                                 to |-> op[o].email, token |-> op[o].token]}
        /\ UNCHANGED faults
     \/ /\ faults < MaxFaults
        /\ faults' = faults + 1
        /\ UNCHANGED mails
  /\ next
  /\ UNCHANGED <<users, issued, used, reused, overlapped, requests>>

-----------------------------------------------------------------------------
(* create, register: a look at all users, then an insert.  The entity is read
   in between; a request that fails there changes nothing. *)

StartCreate(o, u, e, p) == Begin(o, "find", u, e, p, 0)

StartRegister(o, u, e, p) == p # None /\ Begin(o, "find", u, e, p, 0)

FindExistingUser(o) ==
  /\ op[o].pc = "find"
  /\ IF Taken(op[o].email, Me(o)) \/ PhoneTaken(op[o].phone, Me(o))
     THEN Return(o) ELSE Goto(o, "insert")
  /\ UNCHANGED <<users, mails, issued, used, reused, overlapped, requests,
                 faults>>

InsertUser(o) ==
  /\ op[o].pc = "insert"
  /\ \/ /\ Admitted(Me(o), op[o].email)
        /\ users' = [users EXCEPT ![Me(o)] =
                       [NoUser EXCEPT !.state = "active", !.email = op[o].email,
                                      !.phone = op[o].phone]]
     \/ /\ Refused(Me(o), op[o].email, op[o].phone)
        /\ UNCHANGED users
  /\ Return(o)
  /\ UNCHANGED <<mails, issued, used, reused, overlapped, requests, faults>>

-----------------------------------------------------------------------------
(* update: the new address waits for its verification *)

(* The e-mail form field comes with the profile, changed or not. *)
StartUpdate(o, u, e, p) == Begin(o, "load", u, e, p, 0)

(* findOne wants an active user.  stale: user.email as it was read. *)
LoadForUpdate(o) ==
  /\ op[o].pc = "load"
  /\ \/ ~FindOne(Me(o)) /\ Return(o)
     \/ /\ FindOne(Me(o))
        /\ op' = [op EXCEPT ![o].stale = users[Me(o)].email,
                   ![o].pc = IF op[o].email \in {None, users[Me(o)].email}
                             THEN "write" ELSE "compare"]
  /\ UNCHANGED <<users, mails, issued, used, reused, overlapped, requests,
                 faults>>

NewEmail(o) == op[o].email \notin {None, op[o].stale}

CompareEmail(o) ==
  /\ op[o].pc = "compare"
  /\ \/ TakenByActive(op[o].email, Me(o)) /\ Return(o) /\ UNCHANGED issued
     \/ /\ ~TakenByActive(op[o].email, Me(o))
        /\ issued' = issued + 1
        /\ op' = [op EXCEPT ![o].pc = "write", ![o].token = issued + 1]
  /\ UNCHANGED <<users, mails, used, reused, overlapped, requests, faults>>

(* Broken variant: the new address is stored at once. *)
UpdatedAtOnce(o) ==
  [users[Me(o)] EXCEPT
     !.phone = IF op[o].phone = None THEN @ ELSE op[o].phone,
     !.email = IF op[o].email = None THEN @ ELSE op[o].email,
     !.pending = IF NewEmail(o) THEN op[o].email ELSE @,
     !.vtoken = IF NewEmail(o) THEN op[o].token ELSE @,
     !.vfresh = @ \/ NewEmail(o)]

(* updateData: an address that is not new is written as it is. *)
Updated(o) ==
  [users[Me(o)] EXCEPT
     !.phone = IF op[o].phone = None THEN @ ELSE op[o].phone,
     !.email = IF NewEmail(o) \/ op[o].email = None THEN @ ELSE op[o].email,
     !.pending = IF NewEmail(o) THEN op[o].email ELSE @,
     !.vtoken = IF NewEmail(o) THEN op[o].token ELSE @,
     !.vfresh = @ \/ NewEmail(o)]

(* findByIdAndUpdate asks only for the id, and for the unique indexes. *)
WriteUpdate(o) ==
  /\ op[o].pc = "write"
  /\ \/ /\ Admitted(Me(o), Updated(o).email)
        /\ users' = [users EXCEPT ![Me(o)] = Updated(o)]
        /\ IF NewEmail(o) THEN Goto(o, "mail") ELSE Return(o)
     \/ /\ Refused(Me(o), Updated(o).email, Updated(o).phone)
        /\ Return(o)
        /\ UNCHANGED users
  /\ UNCHANGED <<mails, issued, used, reused, overlapped, requests, faults>>

(* "Don't throw error - email update was saved" *)
MailVerification(o) == op[o].pc = "mail" /\ Send(o, "verify", Return(o))

-----------------------------------------------------------------------------
(* remove *)

(* Removing twice is removing once: the look-up and the write are one step. *)
StartRemove(o, u) == Begin(o, "delete", u, None, None, 0)

RemoveUser(o) ==
  /\ op[o].pc = "delete"
  /\ users' = IF FindOne(Me(o)) THEN [users EXCEPT ![Me(o)].state = "removed"]
                               ELSE users
  /\ Return(o)
  /\ UNCHANGED <<mails, issued, used, reused, overlapped, requests, faults>>

-----------------------------------------------------------------------------
(* verifyEmail, with the token of a mail *)

StartVerify(o, m) ==
  m.kind = "verify" /\ Begin(o, "vload", m.user, None, None, m.token)

(* email: user.pendingEmail as it was read. *)
LoadForVerify(o) ==
  /\ op[o].pc = "vload"
  /\ LET d == users[Me(o)]
     IN  \/ /\ d.state = "active" /\ d.vtoken = op[o].token /\ d.vfresh
            /\ d.pending # None
            /\ op' = [op EXCEPT ![o].pc = "vcompare", ![o].email = d.pending]
         \/ /\ \/ d.state # "active" \/ d.vtoken # op[o].token \/ ~d.vfresh
               \/ d.pending = None
            /\ Return(o)
  /\ UNCHANGED <<users, mails, issued, used, reused, overlapped, requests,
                 faults>>

ComparePending(o) ==
  /\ op[o].pc = "vcompare"
  /\ \/ TakenByActive(op[o].email, Me(o)) /\ Return(o)
     \/ ~TakenByActive(op[o].email, Me(o)) /\ Goto(o, "vwrite")
  /\ UNCHANGED <<users, mails, issued, used, reused, overlapped, requests,
                 faults>>

Verified(o) ==
  [users[Me(o)] EXCEPT !.email = op[o].email, !.pending = None, !.vtoken = 0,
                       !.vfresh = FALSE]

WriteVerified(o) ==
  /\ op[o].pc = "vwrite"
  /\ \/ /\ Admitted(Me(o), op[o].email)
        /\ users' = [users EXCEPT ![Me(o)] = Verified(o)]
        /\ Use(op[o].token)
     \/ /\ Refused(Me(o), op[o].email, users[Me(o)].phone)
        /\ UNCHANGED <<users, used, reused>>
  /\ Return(o)
  /\ UNCHANGED <<mails, issued, overlapped, requests, faults>>

-----------------------------------------------------------------------------
(* resendEmailVerification *)

StartResend(o, u) == Begin(o, "rload", u, None, None, 0)

(* The token is not selected by findOne (select: false), so a new one is made
   every time.  email: user.pendingEmail as it was read. *)
LoadForResend(o) ==
  /\ op[o].pc = "rload"
  /\ \/ /\ FindOne(Me(o)) /\ users[Me(o)].pending # None
        /\ issued' = issued + 1
        /\ op' = [op EXCEPT ![o].pc = "rwrite", ![o].token = issued + 1,
                            ![o].email = users[Me(o)].pending]
     \/ /\ ~FindOne(Me(o)) \/ users[Me(o)].pending = None
        /\ Return(o)
        /\ UNCHANGED issued
  /\ UNCHANGED <<users, mails, used, reused, overlapped, requests, faults>>

(* Broken variant: the link is sent, its token is not stored. *)
KeepToken(o) ==
  /\ op[o].pc = "rwrite"
  /\ Goto(o, "rmail")
  /\ UNCHANGED <<users, mails, issued, used, reused, overlapped, requests,
                 faults>>

RenewToken(o) ==
  /\ op[o].pc = "rwrite"
  /\ users' = [users EXCEPT ![Me(o)].vtoken = op[o].token, ![Me(o)].vfresh = TRUE]
  /\ Goto(o, "rmail")
  /\ UNCHANGED <<mails, issued, used, reused, overlapped, requests, faults>>

MailResent(o) == op[o].pc = "rmail" /\ Send(o, "verify", Return(o))

-----------------------------------------------------------------------------
(* forgotPassword, resetPassword *)

StartForgot(o, u) == Begin(o, "fload", u, None, None, 0)

LoadForForgot(o) ==
  /\ op[o].pc = "fload"
  /\ \/ /\ Active(Me(o))
        /\ issued' = issued + 1
        /\ op' = [op EXCEPT ![o].pc = "fsave", ![o].token = issued + 1,
                            ![o].email = users[Me(o)].email]
     \/ ~Active(Me(o)) /\ Return(o) /\ UNCHANGED issued
  /\ UNCHANGED <<users, mails, used, reused, overlapped, requests, faults>>

(* save() writes the two fields that were set. *)
SaveResetToken(o) ==
  /\ op[o].pc = "fsave"
  /\ users' = [users EXCEPT ![Me(o)].rtoken = op[o].token, ![Me(o)].rfresh = TRUE]
  /\ Goto(o, "fmail")
  /\ UNCHANGED <<mails, issued, used, reused, overlapped, requests, faults>>

MailReset(o) == op[o].pc = "fmail" /\ Send(o, "reset", Return(o))

StartReset(o, m) ==
  m.kind = "reset" /\ Begin(o, "reset", m.user, None, None, m.token)

(* All unexpired tokens of active users are compared with the one given. *)
MatchResetToken(o) ==
  /\ op[o].pc = "reset"
  /\ LET d == users[Me(o)]
     IN  \/ /\ d.state = "active" /\ d.rfresh /\ d.rtoken = op[o].token
            /\ Goto(o, "rsave")
         \/ /\ d.state # "active" \/ ~d.rfresh \/ d.rtoken # op[o].token
            /\ Return(o)
  /\ UNCHANGED <<users, mails, issued, used, reused, overlapped, requests,
                 faults>>

(* Broken variant: the token is not cleared. *)
ResetKeepsToken(d) == d

ResetDone(d) == [d EXCEPT !.rtoken = 0, !.rfresh = FALSE]

(* The password is changed and both fields of the token are unset. *)
SavePassword(o) ==
  /\ op[o].pc = "rsave"
  /\ users' = [users EXCEPT ![Me(o)] = ResetDone(@)]
  /\ Use(op[o].token)
  /\ Return(o)
  /\ UNCHANGED <<mails, issued, overlapped, requests, faults>>

-----------------------------------------------------------------------------
(* Time passes: a day for a verification, an hour for a reset. *)
Expire(u) ==
  /\ users[u].vfresh \/ users[u].rfresh
  /\ \/ users' = [users EXCEPT ![u].rfresh = FALSE]
     \/ users' = [users EXCEPT ![u].rfresh = FALSE, ![u].vfresh = FALSE]
  /\ UNCHANGED <<mails, op, issued, used, reused, overlapped, requests, faults>>

(* create and register make a document of their own. *)
Start(o) ==
  \/ \E u \in User \ Founder, e \in Email, p \in Phone \cup {None} :
       /\ users[u] = NoUser
       /\ \A q \in Request : op[q].user # u
       /\ StartCreate(o, u, e, p) \/ StartRegister(o, u, e, p)
  \/ \E u \in User :
       /\ users[u] # NoUser
       /\ \/ \E e \in Email \cup {None}, p \in Phone \cup {None} :
               StartUpdate(o, u, e, p)
          \/ StartRemove(o, u) \/ StartResend(o, u) \/ StartForgot(o, u)
  \/ \E m \in mails : StartVerify(o, m) \/ StartReset(o, m)

Step(o) ==
  \/ FindExistingUser(o) \/ InsertUser(o)
  \/ LoadForUpdate(o) \/ CompareEmail(o) \/ WriteUpdate(o) \/ MailVerification(o)
  \/ RemoveUser(o)
  \/ LoadForVerify(o) \/ ComparePending(o) \/ WriteVerified(o)
  \/ LoadForResend(o) \/ RenewToken(o) \/ MailResent(o)
  \/ LoadForForgot(o) \/ SaveResetToken(o) \/ MailReset(o)
  \/ MatchResetToken(o) \/ SavePassword(o)

Next ==
  \/ \E o \in Request : Start(o) \/ Step(o)
  \/ \E u \in User : Expire(u)

Spec == Init /\ [][Next]_vars

-----------------------------------------------------------------------------
(* "Don't update email yet - wait for verification": an address that changes
   becomes one to which the token now stored was mailed, as long as the requests
   on the account do not overlap. *)
EmailChangeIsProven ==
  [][\A u \in User :
       users[u].state # "absent" /\ users'[u].email # users[u].email =>
         \/ u \in overlapped
         \/ [kind |-> "verify", user |-> u, to |-> users'[u].email,
             token |-> users[u].vtoken] \in mails]_vars

(* A token changes an account once: the second use of a link finds nothing,
   unless the two uses overlap (find, several awaits, save). *)
TokenUsedOnce ==
  \A m \in mails : m.token \in reused => m.user \in overlapped

(* The stored token, and the address it is for, are those of mail m. *)
Live(m) ==
  /\ Active(m.user)
  /\ \/ m.kind = "reset" /\ users[m.user].rtoken = m.token
     \/ /\ m.kind = "verify" /\ users[m.user].vtoken = m.token
        /\ users[m.user].pending = m.to

(* A link that was mailed works until it is used, or expires, or a newer one of
   its kind is stored: no other request on the account breaks it. *)
LinkStaysValid ==
  \A m \in mails :
    \/ Live(m)
    \/ m.token \in used
    \/ ~Active(m.user) \/ m.user \in overlapped
    \/ m.kind = "reset" /\ users[m.user].rtoken > m.token
    \/ m.kind = "verify" /\ users[m.user].vtoken > m.token
    \/ \E n \in mails : n.user = m.user /\ n.kind = m.kind /\ n.token > m.token
=============================================================================
