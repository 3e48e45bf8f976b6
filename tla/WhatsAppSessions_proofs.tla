------------------------ MODULE WhatsAppSessions_proofs ------------------------
(***************************************************************************)
(* Theorems about WhatsAppSessions, for any sets of sessions, clients and  *)
(* request slots, any set of faults and any bounds.                        *)
(***************************************************************************)
EXTENDS WhatsAppSessions, TLAPS

(* Writing a status that exists keeps the documents well typed. *)
LEMMA SetStatusType ==
  ASSUME status \in [Session -> Status], NEW s, NEW st \in Status,
         SetStatus(s, st)
  PROVE  status' \in [Session -> Status]
  BY DEF SetStatus

(* So does replacing a handler in flight by its continuation. *)
LEMMA ContinueType ==
  ASSUME handlers \in SUBSET [kind : Event, client : Client],
         NEW kind, NEW c \in Client, NEW next \in Event,
         Continue(kind, c, next)
  PROVE  handlers' \in SUBSET [kind : Event, client : Client]
  BY DEF Continue

LEMMA TypeInit == Init => TypeOK
  BY SessionsAssumption DEF Init, TypeOK, Idle, Slot, Status, Life, Label, Event

LEMMA TypeStep == TypeOK /\ [Next]_vars => TypeOK'
<1> SUFFICES ASSUME TypeOK, [Next]_vars PROVE TypeOK'
  OBVIOUS
<1>a. {"connecting", "qr_required", "authenticated", "ready", "disconnected",
       "failed"} \subseteq Status
  BY DEF Status
<1>b. {"auth_disconnected", "drop", "failed"} \subseteq Event
  BY DEF Event
<1>c. Idle \in [pc : Label, sess : Session \cup {None},
                client : Client \cup {None}]
  BY DEF Idle, Label
<1> USE DEF TypeOK, procVars, docVars, libVars, budgets
<1>1. ASSUME NEW o \in Request, NEW s \in Session, StartCreateSession(o, s)
      PROVE  TypeOK'
  BY <1>1 DEF StartCreateSession, Slot, Label
<1>2. ASSUME NEW o \in Request, NEW s \in Session, StartDisconnectSession(o, s)
      PROVE  TypeOK'
  BY <1>2 DEF StartDisconnectSession, Slot, Label
<1>3. ASSUME NEW o \in Slot, FindSession(o) PROVE TypeOK'
  BY <1>3 DEF FindSession, Goto, Label
<1>4. ASSUME NEW o \in Slot, InsertSession(o) PROVE TypeOK'
  BY <1>4, <1>a, <1>c DEF InsertSession, Goto, Return, Label
<1>5. ASSUME NEW o \in Slot, TouchSession(o) PROVE TypeOK'
  BY <1>5 DEF TouchSession, Goto, Label
<1>6. ASSUME NEW o \in Slot, InitializeClient(o) PROVE TypeOK'
  BY <1>6, <1>c, SMTT(30) DEF InitializeClient, Launch, Goto, Return, Label, Life
<1>7. ASSUME NEW o \in Slot, ClientInitialized(o) PROVE TypeOK'
  BY <1>7, <1>c DEF ClientInitialized, Return
<1>8. ASSUME NEW o \in Slot, ClientInitFails(o) PROVE TypeOK'
  BY <1>8, ZenonT(40) DEF ClientInitFails, Goto, Label, Life
<1>9. ASSUME NEW o \in Slot, MarkInitFailed(o) PROVE TypeOK'
  <2>1. status' \in [Session -> Status]
    BY <1>9, <1>a, SetStatusType DEF MarkInitFailed
  <2> QED
    BY <2>1, <1>9, <1>c DEF MarkInitFailed, Goto, Return, Label
<1>10. ASSUME NEW o \in Slot, CloseClient(o) PROVE TypeOK'
  BY <1>10, ZenonT(40) DEF CloseClient, Goto, Label, Life
<1>11. ASSUME NEW o \in Slot, MarkDisconnected(o) PROVE TypeOK'
  <2>1. status' \in [Session -> Status]
    BY <1>11, <1>a, SetStatusType DEF MarkDisconnected
  <2> QED
    BY <2>1, <1>11, <1>c DEF MarkDisconnected, Return, SetQR
<1>12. ASSUME NEW o \in Slot, OperationDbError(o) PROVE TypeOK'
  BY <1>12, <1>c DEF OperationDbError, Goto, Return, Label
<1>13. ASSUME NEW c \in Client, Library(c) PROVE TypeOK'
  BY <1>13 DEF Library, EmitQR, EmitAuthenticated, EmitReady,
               EmitDisconnected, EmitAuthFailure, Emit, CanEmit, Event, Life
<1>14. ASSUME NEW c \in Client, HandleQRCode(c) PROVE TypeOK'
  <2>1. status' \in [Session -> Status]
    BY <1>14, <1>a, SetStatusType DEF HandleQRCode
  <2> QED
    BY <2>1, <1>14 DEF HandleQRCode, Finish, SetQR
<1>15. ASSUME NEW c \in Client, HandleAuthenticated(c) PROVE TypeOK'
  <2>1. status' \in [Session -> Status]
    BY <1>15, <1>a, SetStatusType DEF HandleAuthenticated
  <2> QED
    BY <2>1, <1>15 DEF HandleAuthenticated, Finish
<1>16. ASSUME NEW c \in Client, HandleReady(c) PROVE TypeOK'
  <2>1. status' \in [Session -> Status]
    BY <1>16, <1>a, SetStatusType DEF HandleReady
  <2> QED
    BY <2>1, <1>16 DEF HandleReady, Finish, SetQR
<1>17. ASSUME NEW c \in Client, HandleAuthFailure(c) PROVE TypeOK'
  <2>1. status' \in [Session -> Status]
    BY <1>17, <1>a, SetStatusType DEF HandleAuthFailure
  <2>2. handlers' \in SUBSET [kind : Event, client : Client]
    BY <1>17, <1>b, ContinueType DEF HandleAuthFailure
  <2> QED
    BY <2>1, <2>2, <1>17 DEF HandleAuthFailure
<1>18. ASSUME NEW c \in Client, HandleDisconnected(c) PROVE TypeOK'
  <2>1. status' \in [Session -> Status]
    BY <1>18, <1>a, SetStatusType DEF HandleDisconnected
  <2>2. handlers' \in SUBSET [kind : Event, client : Client]
    BY <1>18, <1>b, ContinueType DEF HandleDisconnected
  <2> QED
    BY <2>1, <2>2, <1>18 DEF HandleDisconnected
<1>19. ASSUME NEW c \in Client, DropClient(c) PROVE TypeOK'
  BY <1>19 DEF DropClient, Finish
<1>20. ASSUME NEW c \in Client, HandleFailed(c) PROVE TypeOK'
  <2>1. status' \in [Session -> Status]
    BY <1>20, <1>a, SetStatusType DEF HandleFailed
  <2> QED
    BY <2>1, <1>20 DEF HandleFailed, Finish
<1>21. ASSUME NEW c \in Client, HandlerDbError(c) PROVE TypeOK'
  <2>1. handlers' \in SUBSET [kind : Event, client : Client]
    BY <1>21, <1>b, ContinueType DEF HandlerDbError, Finish
  <2> QED
    BY <2>1, <1>21 DEF HandlerDbError
<1>22. ASSUME NEW s \in Session, ReconnectNext(s) PROVE TypeOK'
  BY <1>22 DEF ReconnectNext, Slot, Label
<1>23. CASE Listen
  BY <1>23 DEF Listen
<1>24. CASE Crash
  BY <1>24, <1>c DEF Crash, Life
<1>25. CASE Restart
  BY <1>25 DEF Restart, ActiveSessions
<1>26. CASE UNCHANGED vars
  BY <1>26 DEF vars
<1> QED
  BY <1>1, <1>2, <1>3, <1>4, <1>5, <1>6, <1>7, <1>8, <1>9, <1>10, <1>11,
     <1>12, <1>13, <1>14, <1>15, <1>16, <1>17, <1>18, <1>19, <1>20, <1>21,
     <1>22, <1>23, <1>24, <1>25, <1>26 DEF Next, Operate, Handle

(* The type invariant: every reachable state is well typed. *)
THEOREM TypeCorrect == Spec => []TypeOK
<1> QED
  BY TypeInit, TypeStep, PTL DEF Spec

-----------------------------------------------------------------------------
(* The status and the QR code.  A handler writes to a document without looking
   at it and findOneAndUpdate ignores a missing one, so a handler of a session
   without document would store a code beside no status.  It takes the second
   part to exclude it: a client belongs to a session whose document exists,
   because initializeClient is reached with a document only. *)
DocumentInv ==
  /\ QRCodeMatchesStatus
  /\ \A c \in Client, s \in Session : owner[c] = s => status[s] # "absent"
  /\ \A o \in Slot, s \in Session :
       op[o].pc \in {"touch", "init"} /\ op[o].sess = s => status[s] # "absent"
  /\ \A s \in todo : status[s] # "absent"

(* No write to a document removes it, or makes one up. *)
LEMMA SetStatusKeeps ==
  ASSUME status \in [Session -> Status], NEW t, NEW st \in Status \ {"absent"},
         SetStatus(t, st)
  PROVE  /\ \A s \in Session : status'[s] = "absent" <=> status[s] = "absent"
         /\ \A s \in Session : s # t => status'[s] = status[s]
         /\ \A s \in Session : status'[s] \in {status[s], st}
         /\ t \in Session /\ status[t] # "absent" => status'[t] = st
  BY DEF SetStatus

(* Whatever the order in which handlers and requests write, a session that
   asks for a scan stores a code, and a new or READY one stores none. *)
THEOREM QRCodeConsistent == Spec => []QRCodeMatchesStatus
<1>1. Init => DocumentInv
  BY SessionsAssumption DEF Init, DocumentInv, QRCodeMatchesStatus, Idle, Slot
<1>2. TypeOK /\ DocumentInv /\ [Next]_vars => DocumentInv'
  <2> SUFFICES ASSUME TypeOK, DocumentInv, [Next]_vars PROVE DocumentInv'
    OBVIOUS
  <2>a. None \notin Session \cup Client
    BY SessionsAssumption
  <2>b. {"connecting", "qr_required", "authenticated", "ready", "disconnected",
         "failed"} \subseteq Status \ {"absent"}
    BY DEF Status
  <2> USE DEF TypeOK, DocumentInv, QRCodeMatchesStatus, procVars, docVars,
              libVars, budgets
  <2>1. ASSUME NEW o \in Request, NEW s \in Session, StartCreateSession(o, s)
        PROVE  DocumentInv'
    BY <2>1 DEF StartCreateSession
  <2>2. ASSUME NEW o \in Request, NEW s \in Session, StartDisconnectSession(o, s)
        PROVE  DocumentInv'
    BY <2>2 DEF StartDisconnectSession
  <2>3. ASSUME NEW o \in Slot, FindSession(o) PROVE DocumentInv'
    BY <2>3 DEF FindSession, Goto
  <2>4. ASSUME NEW o \in Slot, InsertSession(o) PROVE DocumentInv'
    BY <2>4 DEF InsertSession, Goto, Return, Idle
  <2>5. ASSUME NEW o \in Slot, TouchSession(o) PROVE DocumentInv'
    BY <2>5 DEF TouchSession, Goto
  <2>6. ASSUME NEW o \in Slot, InitializeClient(o) PROVE DocumentInv'
    BY <2>6, SMTT(30) DEF InitializeClient, Launch, Goto, Return, Idle
  <2>7. ASSUME NEW o \in Slot, ClientInitialized(o) PROVE DocumentInv'
    BY <2>7 DEF ClientInitialized, Return, Idle
  <2>8. ASSUME NEW o \in Slot, ClientInitFails(o) PROVE DocumentInv'
    BY <2>8 DEF ClientInitFails, Goto
  <2>9. ASSUME NEW o \in Slot, MarkInitFailed(o) PROVE DocumentInv'
    <3>1. PICK t : t = op[o].sess /\ SetStatus(t, "failed")
      BY <2>9 DEF MarkInitFailed
    <3> QED
      BY <3>1, <2>9, <2>b, SetStatusKeeps DEF MarkInitFailed, Goto, Return, Idle
  <2>10. ASSUME NEW o \in Slot, CloseClient(o) PROVE DocumentInv'
    BY <2>10 DEF CloseClient, Goto
  <2>11. ASSUME NEW o \in Slot, MarkDisconnected(o) PROVE DocumentInv'
    <3>1. PICK t : t = op[o].sess /\ SetStatus(t, "disconnected")
      BY <2>11 DEF MarkDisconnected
    <3> QED
      BY <3>1, <2>11, <2>a, <2>b, SetStatusKeeps
         DEF MarkDisconnected, Return, SetQR, Idle
  <2>12. ASSUME NEW o \in Slot, OperationDbError(o) PROVE DocumentInv'
    BY <2>12 DEF OperationDbError, Goto, Return, Idle
  <2>13. ASSUME NEW c \in Client, Library(c) PROVE DocumentInv'
    BY <2>13 DEF Library, EmitQR, EmitAuthenticated, EmitReady,
                 EmitDisconnected, EmitAuthFailure, Emit
  <2>14. ASSUME NEW c \in Client, HandleQRCode(c) PROVE DocumentInv'
    BY <2>14, <2>a, <2>b, SetStatusKeeps DEF HandleQRCode, SetQR
  <2>15. ASSUME NEW c \in Client, HandleAuthenticated(c) PROVE DocumentInv'
    BY <2>15, <2>b, SetStatusKeeps DEF HandleAuthenticated
  <2>16. ASSUME NEW c \in Client, HandleReady(c) PROVE DocumentInv'
    BY <2>16, <2>a, <2>b, SetStatusKeeps DEF HandleReady, SetQR
  <2>17. ASSUME NEW c \in Client, HandleAuthFailure(c) PROVE DocumentInv'
    BY <2>17, <2>b, SetStatusKeeps DEF HandleAuthFailure
  <2>18. ASSUME NEW c \in Client, HandleDisconnected(c) PROVE DocumentInv'
    BY <2>18, <2>b, SetStatusKeeps DEF HandleDisconnected
  <2>19. ASSUME NEW c \in Client, DropClient(c) PROVE DocumentInv'
    BY <2>19 DEF DropClient
  <2>20. ASSUME NEW c \in Client, HandleFailed(c) PROVE DocumentInv'
    BY <2>20, <2>b, SetStatusKeeps DEF HandleFailed
  <2>21. ASSUME NEW c \in Client, HandlerDbError(c) PROVE DocumentInv'
    BY <2>21 DEF HandlerDbError
  <2>22. ASSUME NEW s \in Session, ReconnectNext(s) PROVE DocumentInv'
    BY <2>22 DEF ReconnectNext
  <2>23. CASE Listen
    BY <2>23 DEF Listen
  <2>24. CASE Crash
    BY <2>24 DEF Crash, Idle
  <2>25. CASE Restart
    BY <2>25 DEF Restart, ActiveSessions
  <2>26. CASE UNCHANGED vars
    BY <2>26 DEF vars
  <2> QED
    BY <2>1, <2>2, <2>3, <2>4, <2>5, <2>6, <2>7, <2>8, <2>9, <2>10, <2>11,
       <2>12, <2>13, <2>14, <2>15, <2>16, <2>17, <2>18, <2>19, <2>20, <2>21,
       <2>22, <2>23, <2>24, <2>25, <2>26 DEF Next, Operate, Handle
<1>3. DocumentInv => QRCodeMatchesStatus
  BY DEF DocumentInv
<1> QED
  BY <1>1, <1>2, <1>3, TypeCorrect, PTL DEF Spec

-----------------------------------------------------------------------------
(* Which session a client belongs to.  Handlers and requests find the entry of
   the map by session id only: what they take out of it is a client of that
   session because these bindings never change. *)
BindingInv ==
  /\ \A o \in Slot : op[o].pc # "idle" => op[o].sess \in Session
  /\ \A o \in Slot : op[o].pc = "idle" => op[o] = Idle
  /\ \A o \in Slot :
       op[o].client # None => /\ op[o].sess \in Session
                              /\ owner[op[o].client] = op[o].sess
  /\ \A s \in Session : clients[s] # None => owner[clients[s]] = s
  /\ \A c \in Client : life[c] = "unborn" <=> owner[c] = None

LEMMA BindingInit == Init => BindingInv
  BY SessionsAssumption DEF Init, BindingInv, Idle, Slot

LEMMA BindingStep == TypeOK /\ BindingInv /\ [Next]_vars => BindingInv'
<1> SUFFICES ASSUME TypeOK, BindingInv, [Next]_vars PROVE BindingInv'
  OBVIOUS
<1>a. None \notin Session \cup Client
  BY SessionsAssumption
<1>b. Idle.pc = "idle" /\ Idle.client = None /\ Idle.sess = None
  BY DEF Idle
<1>c. \A c : life[c] \in Alive => life[c] # "unborn"
  BY DEF Alive
<1> USE DEF TypeOK, BindingInv, procVars, docVars, libVars, budgets
<1>1. ASSUME NEW o \in Request, NEW s \in Session, StartCreateSession(o, s)
      PROVE  BindingInv'
  BY <1>1, <1>a, <1>b DEF StartCreateSession
<1>2. ASSUME NEW o \in Request, NEW s \in Session, StartDisconnectSession(o, s)
      PROVE  BindingInv'
  BY <1>2, <1>a, <1>b DEF StartDisconnectSession
<1>3. ASSUME NEW o \in Slot, FindSession(o) PROVE BindingInv'
  BY <1>3, <1>a, <1>b DEF FindSession, Goto
<1>4. ASSUME NEW o \in Slot, InsertSession(o) PROVE BindingInv'
  BY <1>4, <1>a, <1>b, SMTT(30) DEF InsertSession, Goto, Return
<1>5. ASSUME NEW o \in Slot, TouchSession(o) PROVE BindingInv'
  BY <1>5, <1>a, <1>b DEF TouchSession, Goto
<1>6. ASSUME NEW o \in Slot, InitializeClient(o) PROVE BindingInv'
  BY <1>6, <1>a, <1>b DEF InitializeClient, Launch, Goto, Return
<1>7. ASSUME NEW o \in Slot, ClientInitialized(o) PROVE BindingInv'
  BY <1>7, <1>a, <1>b DEF ClientInitialized, Return
<1>8. ASSUME NEW o \in Slot, ClientInitFails(o) PROVE BindingInv'
  BY <1>8, <1>a, <1>b, <1>c DEF ClientInitFails, Goto
<1>9. ASSUME NEW o \in Slot, MarkInitFailed(o) PROVE BindingInv'
  BY <1>9, <1>a, <1>b DEF MarkInitFailed, Goto, Return
<1>10. ASSUME NEW o \in Slot, CloseClient(o) PROVE BindingInv'
  BY <1>10, <1>a, <1>b DEF CloseClient, Goto
<1>11. ASSUME NEW o \in Slot, MarkDisconnected(o) PROVE BindingInv'
  BY <1>11, <1>a, <1>b DEF MarkDisconnected, Return
<1>12. ASSUME NEW o \in Slot, OperationDbError(o) PROVE BindingInv'
  BY <1>12, <1>a, <1>b DEF OperationDbError, Goto, Return
<1>13. ASSUME NEW c \in Client, Library(c) PROVE BindingInv'
  BY <1>13, <1>a, <1>b, <1>c
     DEF Library, EmitQR, EmitAuthenticated, EmitReady,
               EmitDisconnected, EmitAuthFailure, Emit
<1>14. ASSUME NEW c \in Client, HandleQRCode(c) PROVE BindingInv'
  BY <1>14, <1>a, <1>b DEF HandleQRCode
<1>15. ASSUME NEW c \in Client, HandleAuthenticated(c) PROVE BindingInv'
  BY <1>15, <1>a, <1>b DEF HandleAuthenticated
<1>16. ASSUME NEW c \in Client, HandleReady(c) PROVE BindingInv'
  BY <1>16, <1>a, <1>b DEF HandleReady
<1>17. ASSUME NEW c \in Client, HandleAuthFailure(c) PROVE BindingInv'
  BY <1>17, <1>a, <1>b DEF HandleAuthFailure
<1>18. ASSUME NEW c \in Client, HandleDisconnected(c) PROVE BindingInv'
  BY <1>18, <1>a, <1>b DEF HandleDisconnected
<1>19. ASSUME NEW c \in Client, DropClient(c) PROVE BindingInv'
  BY <1>19, <1>a, <1>b DEF DropClient
<1>20. ASSUME NEW c \in Client, HandleFailed(c) PROVE BindingInv'
  BY <1>20, <1>a, <1>b DEF HandleFailed
<1>21. ASSUME NEW c \in Client, HandlerDbError(c) PROVE BindingInv'
  BY <1>21, <1>a, <1>b DEF HandlerDbError
<1>22. ASSUME NEW s \in Session, ReconnectNext(s) PROVE BindingInv'
  BY <1>22, <1>a, <1>b DEF ReconnectNext
<1>23. CASE Listen
  BY <1>23, <1>a, <1>b DEF Listen
<1>24. CASE Crash
  BY <1>24, <1>a, <1>b, <1>c DEF Crash
<1>25. CASE Restart
  BY <1>25, <1>a, <1>b DEF Restart, ActiveSessions
<1>26. CASE UNCHANGED vars
  BY <1>26, <1>a, <1>b DEF vars
<1> QED
  BY <1>1, <1>2, <1>3, <1>4, <1>5, <1>6, <1>7, <1>8, <1>9, <1>10, <1>11,
     <1>12, <1>13, <1>14, <1>15, <1>16, <1>17, <1>18, <1>19, <1>20, <1>21, <1>22,
     <1>23, <1>24, <1>25, <1>26 DEF Next, Operate, Handle

(* A client is created for one session and stays with it. *)
THEOREM BindingsKept == Spec => []BindingInv
<1> QED
  BY BindingInit, BindingStep, TypeCorrect, PTL DEF Spec

-----------------------------------------------------------------------------
(* While the database answers, a dead client in the map is one that a handler
   in flight is about to take out. *)
THEOREM NoZombie == Spec => []NoZombieInMap
<1>1. Init => NoZombieInMap
  BY SessionsAssumption DEF Init, NoZombieInMap
<1>2. TypeOK /\ BindingInv /\ NoZombieInMap /\ [Next]_vars => NoZombieInMap'
  <2> SUFFICES ASSUME TypeOK, BindingInv, NoZombieInMap, [Next]_vars,
                      (dbFaults = 0)',
                      NEW t \in Session, NEW d \in Client, (clients[t] = d)'
               PROVE  (\/ life[d] \in Alive
                       \/ /\ life[d] = "closed"
                          /\ \E kind \in Leaving : InFlight(kind, d))'
    BY DEF NoZombieInMap
  <2> DEFINE Kept == \/ life[d] \in Alive
                     \/ /\ life[d] = "closed"
                        /\ \E kind \in Leaving : InFlight(kind, d)
  <2> SUFFICES Kept'
    OBVIOUS
  <2>a. None \notin Session \cup Client
    BY SessionsAssumption
  <2>b. dbFaults = 0 /\ clients[t] = d => Kept
    BY DEF NoZombieInMap
  <2>c. /\ \A x : x \in Alive <=> x \in {"running", "authenticated", "ready"}
        /\ \A x : x \in Leaving <=> x \in {"disconnected", "auth_failure",
                                           "auth_disconnected", "drop"}
    BY DEF Alive, Leaving
  <2>d. \A o \in Slot : op[o].client # None => owner[op[o].client] = op[o].sess
    BY DEF BindingInv
  <2>e. \A s \in Session : clients[s] # None => owner[clients[s]] = s
    BY DEF BindingInv
  <2>f. life[d] = "unborn" <=> owner[d] = None
    BY DEF BindingInv
  <2> HIDE DEF Kept
  <2> USE DEF TypeOK, procVars, docVars, libVars, budgets
  <2>1. ASSUME NEW o \in Request, NEW s \in Session, StartCreateSession(o, s)
        PROVE  Kept'
    BY <2>1, <2>b DEF StartCreateSession, Kept, InFlight
  <2>2. ASSUME NEW o \in Request, NEW s \in Session, StartDisconnectSession(o, s)
        PROVE  Kept'
    BY <2>2, <2>b DEF StartDisconnectSession, Kept, InFlight
  <2>3. ASSUME NEW o \in Slot, FindSession(o) PROVE Kept'
    BY <2>3, <2>b DEF FindSession, Goto, Kept, InFlight
  <2>4. ASSUME NEW o \in Slot, InsertSession(o) PROVE Kept'
    BY <2>4, <2>b DEF InsertSession, Goto, Return, Kept, InFlight
  <2>5. ASSUME NEW o \in Slot, TouchSession(o) PROVE Kept'
    BY <2>5, <2>b DEF TouchSession, Goto, Kept, InFlight
  <2>6. ASSUME NEW o \in Slot, InitializeClient(o) PROVE Kept'
    BY <2>6, <2>b, <2>a, <2>c, <2>e, <2>f, ZenonT(40)
       DEF InitializeClient, Launch, Goto, Return, Kept, InFlight, Free
  <2>7. ASSUME NEW o \in Slot, ClientInitialized(o) PROVE Kept'
    BY <2>7, <2>b DEF ClientInitialized, Return, Kept, InFlight
  <2>8. ASSUME NEW o \in Slot, ClientInitFails(o) PROVE Kept'
    <3>1. clients[t] = d /\ d # op[o].client
      BY <2>8, <2>a, <2>d, <2>e DEF ClientInitFails
    <3>2. life'[d] = life[d] /\ UNCHANGED <<handlers, dbFaults>>
      BY <2>8, <3>1 DEF ClientInitFails
    <3> QED
      BY <2>b, <3>1, <3>2 DEF Kept, InFlight
  <2>9. ASSUME NEW o \in Slot, MarkInitFailed(o) PROVE Kept'
    BY <2>9, <2>b DEF MarkInitFailed, Goto, Return, Kept, InFlight
  <2>10. ASSUME NEW o \in Slot, CloseClient(o) PROVE Kept'
    <3>1. clients[t] = d
      BY <2>10, <2>a DEF CloseClient
    <3>2. op[o].client # d
      BY <2>10, <3>1, <2>a, <2>d, <2>e DEF CloseClient
    <3>3. life'[d] = life[d] /\ UNCHANGED <<handlers, dbFaults>>
      BY <2>10, <3>2 DEF CloseClient
    <3> QED
      BY <3>1, <3>3, <2>b DEF Kept, InFlight
  <2>11. ASSUME NEW o \in Slot, MarkDisconnected(o) PROVE Kept'
    BY <2>11, <2>b DEF MarkDisconnected, Return, Kept, InFlight
  <2>12. ASSUME NEW o \in Slot, OperationDbError(o) PROVE Kept'
    BY <2>12, <2>b DEF OperationDbError, Goto, Return
  <2>13. ASSUME NEW c \in Client, Library(c) PROVE Kept'
    BY <2>13, <2>b, <2>c
       DEF Library, EmitQR, EmitAuthenticated, EmitReady,
                 EmitDisconnected, EmitAuthFailure, Emit, Kept, InFlight, CanEmit
  <2>14. ASSUME NEW c \in Client, HandleQRCode(c) PROVE Kept'
    BY <2>14, <2>b, <2>c DEF HandleQRCode, Kept, InFlight, Finish
  <2>15. ASSUME NEW c \in Client, HandleAuthenticated(c) PROVE Kept'
    BY <2>15, <2>b, <2>c DEF HandleAuthenticated, Kept, InFlight, Finish
  <2>16. ASSUME NEW c \in Client, HandleReady(c) PROVE Kept'
    BY <2>16, <2>b, <2>c DEF HandleReady, Kept, InFlight, Finish
  <2>17. ASSUME NEW c \in Client, HandleAuthFailure(c) PROVE Kept'
    BY <2>17, <2>b, <2>c DEF HandleAuthFailure, Kept, InFlight, Continue
  <2>18. ASSUME NEW c \in Client, HandleDisconnected(c) PROVE Kept'
    BY <2>18, <2>b, <2>c
       DEF HandleDisconnected, Kept, InFlight, Continue
  <2>19. ASSUME NEW c \in Client, DropClient(c) PROVE Kept'
    BY <2>19, <2>b, <2>a, <2>c, <2>e
       DEF DropClient, Kept, InFlight, Finish
  <2>20. ASSUME NEW c \in Client, HandleFailed(c) PROVE Kept'
    BY <2>20, <2>b, <2>c DEF HandleFailed, Kept, InFlight, Finish
  <2>21. ASSUME NEW c \in Client, HandlerDbError(c) PROVE Kept'
    BY <2>21, <2>b DEF HandlerDbError
  <2>22. ASSUME NEW s \in Session, ReconnectNext(s) PROVE Kept'
    BY <2>22, <2>b DEF ReconnectNext, Kept, InFlight
  <2>23. CASE Listen
    BY <2>23, <2>b DEF Listen, Kept, InFlight
  <2>24. CASE Crash
    BY <2>24, <2>b, <2>a DEF Crash
  <2>25. CASE Restart
    BY <2>25, <2>b DEF Restart, ActiveSessions, Kept, InFlight
  <2>26. CASE UNCHANGED vars
    BY <2>26, <2>b DEF vars, Kept, InFlight
  <2> QED
    BY <2>1, <2>2, <2>3, <2>4, <2>5, <2>6, <2>7, <2>8, <2>9, <2>10, <2>11,
       <2>12, <2>13, <2>14, <2>15, <2>16, <2>17, <2>18, <2>19, <2>20, <2>21, <2>22,
       <2>23, <2>24, <2>25, <2>26 DEF Next, Operate, Handle
<1> QED
  BY <1>1, <1>2, TypeCorrect, BindingsKept, PTL DEF Spec

-----------------------------------------------------------------------------
(* The clients that were ever created for session s, as the registry sees
   them. *)
Issued(s) == {c \in Client : owner[c] = s}

(* The map implements the abstract registry: createSession registers under a
   free key, everything else that touches the map takes one entry out of it,
   and the death of the process empties it. *)
THEOREM RegistryRefined == Spec => RegistrySpec
<1>1. Init => Registry!Init
  BY SessionsAssumption DEF Init, Registry!Init
<1>2. TypeOK /\ BindingInv /\ [Next]_vars => [Registry!Next]_(Registry!registryVars)
  <2> SUFFICES ASSUME TypeOK, BindingInv, [Next]_vars
               PROVE  Registry!Next \/ UNCHANGED Registry!registryVars
    OBVIOUS
  <2> DEFINE Step == Registry!Next \/ UNCHANGED Registry!registryVars
  <2> SUFFICES Step
    OBVIOUS
  <2>a. None \notin Session \cup Client
    BY SessionsAssumption
  <2>b. ASSUME UNCHANGED <<clients, owner>> PROVE Step
    BY <2>b DEF Registry!registryVars
  <2>c. ASSUME NEW s, s \in Session \cup {None}, UNCHANGED owner,
               clients' = [clients EXCEPT ![s] = None]
        PROVE  Step
    <3>1. CASE s \in Session
      BY <3>1, <2>c DEF Registry!Next, Registry!Remove
    <3>2. CASE s = None
      <4>1. clients' = clients
        BY <3>2, <2>a, <2>c DEF TypeOK
      <4> QED
        BY <4>1, <2>b, <2>c
    <3> QED
      BY <3>1, <3>2, <2>c
  <2>d. ASSUME NEW o \in Slot, NEW c \in Client, op[o].pc = "init", Launch(o, c)
        PROVE  Step
    <3> DEFINE s == op[o].sess
    <3>1. s \in Session /\ owner[c] = None
      BY <2>d DEF BindingInv, Launch
    <3>2. clients[s] = None /\ clients' = [clients EXCEPT ![s] = c]
      BY <2>d DEF Launch, Free
    <3>3. owner' = [owner EXCEPT ![c] = s]
      BY <2>d DEF Launch
    <3>4. \A t \in Session : c \notin Issued(t)
      BY <3>1, <2>a DEF Issued
    <3>5. \A t \in Session :
            Issued(t)' = IF t = s THEN Issued(t) \cup {c} ELSE Issued(t)
      BY <3>1, <3>3, <2>a DEF Issued, TypeOK
    <3> HIDE DEF s
    <3>6. [t \in Session |-> Issued(t)]' =
            [[t \in Session |-> Issued(t)] EXCEPT ![s] = @ \cup {c}]
      BY <3>5
    <3>7. \E t \in Session, e \in Client : Registry!Register(t, e)
      BY <3>1, <3>2, <3>4, <3>6 DEF Registry!Register, Issued
    <3> QED
      BY <3>7 DEF Registry!Next
  <2> HIDE DEF Step
  <2> USE DEF procVars, docVars, libVars, budgets
  <2>1. ASSUME NEW o \in Request, NEW s \in Session, StartCreateSession(o, s)
        PROVE  Step
    BY <2>1, <2>b DEF StartCreateSession
  <2>2. ASSUME NEW o \in Request, NEW s \in Session, StartDisconnectSession(o, s)
        PROVE  Step
    BY <2>2, <2>b DEF StartDisconnectSession
  <2>3. ASSUME NEW o \in Slot, FindSession(o) PROVE Step
    BY <2>3, <2>b DEF FindSession, Goto
  <2>4. ASSUME NEW o \in Slot, InsertSession(o) PROVE Step
    BY <2>4, <2>b DEF InsertSession, Goto, Return
  <2>5. ASSUME NEW o \in Slot, TouchSession(o) PROVE Step
    BY <2>5, <2>b DEF TouchSession, Goto
  <2>6. ASSUME NEW o \in Slot, InitializeClient(o) PROVE Step
    <3>1. CASE UNCHANGED <<clients, libVars>>
      BY <3>1, <2>b
    <3>2. CASE \E c \in Client : Launch(o, c)
      BY <3>2, <2>6, <2>d DEF InitializeClient
    <3> QED
      BY <3>1, <3>2, <2>6 DEF InitializeClient
  <2>7. ASSUME NEW o \in Slot, ClientInitialized(o) PROVE Step
    BY <2>7, <2>b DEF ClientInitialized, Return
  <2>8. ASSUME NEW o \in Slot, ClientInitFails(o) PROVE Step
    BY <2>8, <2>c DEF ClientInitFails, TypeOK
  <2>9. ASSUME NEW o \in Slot, MarkInitFailed(o) PROVE Step
    BY <2>9, <2>b DEF MarkInitFailed, Goto, Return
  <2>10. ASSUME NEW o \in Slot, CloseClient(o) PROVE Step
    BY <2>10, <2>c DEF CloseClient, TypeOK
  <2>11. ASSUME NEW o \in Slot, MarkDisconnected(o) PROVE Step
    BY <2>11, <2>b DEF MarkDisconnected, Return
  <2>12. ASSUME NEW o \in Slot, OperationDbError(o) PROVE Step
    BY <2>12, <2>b DEF OperationDbError, Goto, Return
  <2>13. ASSUME NEW c \in Client, Library(c) PROVE Step
    BY <2>13, <2>b DEF Library, EmitQR, EmitAuthenticated, EmitReady,
                 EmitDisconnected, EmitAuthFailure, Emit
  <2>14. ASSUME NEW c \in Client, HandleQRCode(c) PROVE Step
    BY <2>14, <2>b DEF HandleQRCode
  <2>15. ASSUME NEW c \in Client, HandleAuthenticated(c) PROVE Step
    BY <2>15, <2>b DEF HandleAuthenticated
  <2>16. ASSUME NEW c \in Client, HandleReady(c) PROVE Step
    BY <2>16, <2>b DEF HandleReady
  <2>17. ASSUME NEW c \in Client, HandleAuthFailure(c) PROVE Step
    BY <2>17, <2>b DEF HandleAuthFailure
  <2>18. ASSUME NEW c \in Client, HandleDisconnected(c) PROVE Step
    BY <2>18, <2>b DEF HandleDisconnected
  <2>19. ASSUME NEW c \in Client, DropClient(c) PROVE Step
    BY <2>19, <2>c DEF DropClient, TypeOK
  <2>20. ASSUME NEW c \in Client, HandleFailed(c) PROVE Step
    BY <2>20, <2>b DEF HandleFailed
  <2>21. ASSUME NEW c \in Client, HandlerDbError(c) PROVE Step
    BY <2>21, <2>b DEF HandlerDbError
  <2>22. ASSUME NEW s \in Session, ReconnectNext(s) PROVE Step
    BY <2>22, <2>b DEF ReconnectNext
  <2>23. CASE Listen
    BY <2>23, <2>b DEF Listen
  <2>24. CASE Crash
    BY <2>24 DEF Crash, Step, Registry!Next, Registry!Clear
  <2>25. CASE Restart
    BY <2>25, <2>b DEF Restart, ActiveSessions
  <2>26. CASE UNCHANGED vars
    BY <2>26, <2>b DEF vars
  <2> QED
    BY <2>1, <2>2, <2>3, <2>4, <2>5, <2>6, <2>7, <2>8, <2>9, <2>10, <2>11,
       <2>12, <2>13, <2>14, <2>15, <2>16, <2>17, <2>18, <2>19, <2>20, <2>21, <2>22,
       <2>23, <2>24, <2>25, <2>26 DEF Next, Operate, Handle
<1> QED
  BY <1>1, <1>2, TypeCorrect, BindingsKept, PTL
     DEF Spec, RegistrySpec, Registry!Spec

-----------------------------------------------------------------------------
(* Before the service listens: requests are idle, a process that is down has no
   client, and the loop's sessions are taken from the list before it works on
   them.  A session still on the list therefore has no client that could emit
   an event or has a handler in flight. *)
StartupInv ==
  /\ proc # "listening" => \A o \in Request : op[o] = Idle
  /\ proc = "down" => /\ op[Boot] = Idle
                      /\ clients = [s \in Session |-> None]
                      /\ handlers = {}
                      /\ \A c \in Client : life[c] \notin Alive
  /\ proc # "booting" => todo = {}
  /\ proc = "listening" => op[Boot] = Idle
  /\ op[Boot].sess \notin todo
  /\ \A s \in todo : \A c \in Client :
       owner[c] = s => /\ life[c] \notin Alive
                       /\ \A h \in handlers : h.client # c
  /\ StartupListStaysFresh

LEMMA StartupInit == Init => StartupInv
  BY SessionsAssumption DEF Init, StartupInv, StartupListStaysFresh, Idle, Slot, Alive

LEMMA StartupStep == TypeOK /\ BindingInv /\ StartupInv /\ [Next]_vars => StartupInv'
<1> SUFFICES ASSUME TypeOK, BindingInv, StartupInv, [Next]_vars
             PROVE  StartupInv'
  OBVIOUS
<1>a. None \notin Session \cup Client /\ Boot \notin Request
  BY SessionsAssumption
<1>b. Idle.pc = "idle" /\ Idle.client = None /\ Idle.sess = None
  BY DEF Idle
<1>c. \A x : x \in Alive <=> x \in {"running", "authenticated", "ready"}
  BY DEF Alive
<1>d. {"connecting", "qr_required", "authenticated", "ready", "disconnected",
       "failed"} \subseteq Status \ {"absent"}
  BY DEF Status
<1> USE DEF TypeOK, StartupInv, StartupListStaysFresh, Slot, procVars, docVars,
            libVars, budgets
<1>1. ASSUME NEW o \in Request, NEW s \in Session, StartCreateSession(o, s)
      PROVE  StartupInv'
  BY <1>1, <1>a, <1>b DEF StartCreateSession
<1>2. ASSUME NEW o \in Request, NEW s \in Session, StartDisconnectSession(o, s)
      PROVE  StartupInv'
  BY <1>2, <1>a, <1>b DEF StartDisconnectSession
<1>3. ASSUME NEW o \in Slot, FindSession(o) PROVE StartupInv'
  BY <1>3, <1>a, <1>b DEF FindSession, Goto
<1>4. ASSUME NEW o \in Slot, InsertSession(o) PROVE StartupInv'
  BY <1>4, <1>a, <1>b DEF InsertSession, Goto, Return
<1>5. ASSUME NEW o \in Slot, TouchSession(o) PROVE StartupInv'
  BY <1>5, <1>a, <1>b DEF TouchSession, Goto
<1>6. ASSUME NEW o \in Slot, InitializeClient(o) PROVE StartupInv'
  BY <1>6, <1>a, <1>b, <1>c
     DEF InitializeClient, Launch, Goto, Return, BindingInv
<1>7. ASSUME NEW o \in Slot, ClientInitialized(o) PROVE StartupInv'
  BY <1>7, <1>a, <1>b DEF ClientInitialized, Return
<1>8. ASSUME NEW o \in Slot, ClientInitFails(o) PROVE StartupInv'
  BY <1>8, <1>a, <1>b, <1>c DEF ClientInitFails, Goto
<1>9. ASSUME NEW o \in Slot, MarkInitFailed(o) PROVE StartupInv'
  BY <1>9, <1>a, <1>b, <1>d, SetStatusKeeps
     DEF MarkInitFailed, Goto, Return, SetQR
<1>10. ASSUME NEW o \in Slot, CloseClient(o) PROVE StartupInv'
  BY <1>10, <1>a, <1>b, <1>c DEF CloseClient, Goto, BindingInv
<1>11. ASSUME NEW o \in Slot, MarkDisconnected(o) PROVE StartupInv'
  BY <1>11, <1>a, <1>b, <1>d, SetStatusKeeps
     DEF MarkDisconnected, Return, SetQR
<1>12. ASSUME NEW o \in Slot, OperationDbError(o) PROVE StartupInv'
  BY <1>12, <1>a, <1>b DEF OperationDbError, Goto, Return
<1>13. ASSUME NEW c \in Client, Library(c) PROVE StartupInv'
  BY <1>13, <1>a, <1>b, <1>c
     DEF Library, EmitQR, EmitAuthenticated, EmitReady,
               EmitDisconnected, EmitAuthFailure, Emit
<1>14. ASSUME NEW c \in Client, HandleQRCode(c) PROVE StartupInv'
  BY <1>14, <1>a, <1>b, <1>d, SetStatusKeeps
     DEF HandleQRCode, InFlight, Finish
<1>15. ASSUME NEW c \in Client, HandleAuthenticated(c) PROVE StartupInv'
  BY <1>15, <1>a, <1>b, <1>d, SetStatusKeeps
     DEF HandleAuthenticated, InFlight, Finish
<1>16. ASSUME NEW c \in Client, HandleReady(c) PROVE StartupInv'
  BY <1>16, <1>a, <1>b, <1>d, SetStatusKeeps
     DEF HandleReady, InFlight, Finish
<1>17. ASSUME NEW c \in Client, HandleAuthFailure(c) PROVE StartupInv'
  BY <1>17, <1>a, <1>b, <1>d, SetStatusKeeps
     DEF HandleAuthFailure, InFlight, Continue
<1>18. ASSUME NEW c \in Client, HandleDisconnected(c) PROVE StartupInv'
  BY <1>18, <1>a, <1>b, <1>d, SetStatusKeeps
     DEF HandleDisconnected, InFlight, Continue
<1>19. ASSUME NEW c \in Client, DropClient(c) PROVE StartupInv'
  BY <1>19, <1>a, <1>b DEF DropClient, InFlight, Finish
<1>20. ASSUME NEW c \in Client, HandleFailed(c) PROVE StartupInv'
  BY <1>20, <1>a, <1>b, <1>d, SetStatusKeeps
     DEF HandleFailed, InFlight, Finish
<1>21. ASSUME NEW c \in Client, HandlerDbError(c) PROVE StartupInv'
  BY <1>21, <1>a, <1>b DEF HandlerDbError, InFlight, Finish, Continue
<1>22. ASSUME NEW s \in Session, ReconnectNext(s) PROVE StartupInv'
  BY <1>22, <1>a, <1>b DEF ReconnectNext
<1>23. CASE Listen
  BY <1>23, <1>a, <1>b DEF Listen
<1>24. CASE Crash
  BY <1>24, <1>a, <1>b, <1>c DEF Crash
<1>25. CASE Restart
  BY <1>25, <1>a, <1>b DEF Restart, ActiveSessions
<1>26. CASE UNCHANGED vars
  BY <1>26, <1>a, <1>b DEF vars
<1> QED
  BY <1>1, <1>2, <1>3, <1>4, <1>5, <1>6, <1>7, <1>8, <1>9, <1>10, <1>11,
     <1>12, <1>13, <1>14, <1>15, <1>16, <1>17, <1>18, <1>19, <1>20, <1>21, <1>22,
     <1>23, <1>24, <1>25, <1>26 DEF Next, Operate, Handle

LEMMA StartupKept == Spec => []StartupInv
  BY StartupInit, StartupStep, TypeCorrect, BindingsKept, PTL DEF Spec

(* While the loop reconnects one session, the entries that wait for it keep the
   status they were selected for and get no client. *)
THEOREM StartupListFresh == Spec => []StartupListStaysFresh
<1>1. StartupInv => StartupListStaysFresh
  BY DEF StartupInv
<1> QED
  BY <1>1, StartupKept, PTL

-----------------------------------------------------------------------------
(* Requests for one session do not overlap; requests for others may. *)
Serial(s) == \A o, p \in Slot : op[o].sess = s /\ op[p].sess = s => o = p

(* The faults that let a client live on outside the map, or let a handler's write
   come so late that another client is there: none of them happens here. *)
NoStray ==
  Faults \cap {"logout", "destroy_fails", "late_write", "init_leaves"} = {}

Connected == {"ready", "authenticated"}

HandlerInv ==
  /\ \A g, h \in handlers : g.client = h.client => g = h
  /\ \A h \in handlers : owner[h.client] # None

(* View(s, x, o): what slot o may rely on whose locals x are about session s.
   A client of s outside the map is dead, and its handlers are over unless
   disconnectSession, which has just taken it out, is about to wait for them.  A
   connected status without a client is about to change, or the start-up loop
   is about to make it true. *)
ClientOK(s, c, x) ==
  /\ life[c] \in Alive => clients[s] = c
  /\ \A h \in handlers :
       h.client = c =>
         /\ clients[s] = c \/ (x.pc = "mark" /\ x.client = c)
         /\ h.kind \in Leaving => life[c] \notin Alive
         /\ h.kind = "drop" => status[s] \notin Connected \/ x.pc = "mark"

View(s, x, o) ==
  /\ \A c \in Client : owner[c] = s => ClientOK(s, c, x)
  /\ x.pc \in {"wait", "closing"} => x.client # None /\ clients[s] \in {x.client, None}
  /\ x.pc \in {"fail1", "fail2", "mark"} => clients[s] = None
  /\ status[s] \in Connected =>
       \/ clients[s] # None \/ proc = "down" \/ s \in todo
       \/ x.pc \in {"fail1", "fail2", "mark"}
       \/ o = Boot /\ x.pc = "init"

SoleInv(s) ==
  /\ \A o \in Slot : op[o].sess = s => View(s, op[o], o)
  /\ (\A o \in Slot : op[o].sess # s) => View(s, Idle, Boot)

(* One event at a time: the library emits when the writes of the last event are
   over, and a handler goes on in its own place. *)
LEMMA HandlerStep ==
  ASSUME TypeOK, BindingInv, HandlerInv, [Next]_vars, NoStray
  PROVE  HandlerInv'
<1>a. "late_write" \notin Faults
  BY DEF NoStray
<1>b. \A l : l \in Alive <=> l \in {"running", "authenticated", "ready"}
  BY DEF Alive
<1>1. ASSUME UNCHANGED <<handlers, owner>> PROVE HandlerInv'
  BY <1>1 DEF HandlerInv
<1>2. ASSUME NEW c \in Client, NEW kind, UNCHANGED owner, Finish(kind, c) PROVE HandlerInv'
  BY <1>2 DEF HandlerInv, Finish
<1>3. ASSUME NEW c \in Client, NEW kind, NEW next, UNCHANGED owner, InFlight(kind, c),
             Continue(kind, c, next)
      PROVE  HandlerInv'
  BY <1>3 DEF HandlerInv, Continue, InFlight
<1>4. ASSUME NEW c \in Client, NEW kind, NEW lives, life[c] \in Alive, Emit(c, kind, lives)
      PROVE  HandlerInv'
  BY <1>a, <1>b, <1>4 DEF HandlerInv, BindingInv, Emit, CanEmit, Prompt
<1> HIDE DEF HandlerInv
<1>5. ASSUME NEW o \in Slot, Operate(o) \/ OperationDbError(o) PROVE HandlerInv'
  <2>1. UNCHANGED handlers
    BY <1>5, Zenon DEF Operate, OperationDbError, FindSession, InsertSession, TouchSession,
       InitializeClient, ClientInitialized, ClientInitFails, MarkInitFailed, CloseClient,
       MarkDisconnected
  <2>2. UNCHANGED owner \/ (op[o].pc = "init" /\ \E c \in Client : Launch(o, c))
    BY <1>5, Zenon DEF Operate, OperationDbError, FindSession, InsertSession, TouchSession,
       InitializeClient, ClientInitialized, ClientInitFails, MarkInitFailed, CloseClient,
       MarkDisconnected, libVars
  <2>3. ASSUME op[o].pc = "init", NEW c \in Client, Launch(o, c) PROVE HandlerInv'
    <3>1. op[o].sess # None
      BY <2>3, SessionsAssumption DEF BindingInv
    <3> QED
      BY <2>1, <2>3, <3>1 DEF HandlerInv, Launch, TypeOK
  <2> QED
    BY <2>1, <2>2, <2>3, <1>1
<1>6. ASSUME NEW c \in Client, Library(c) PROVE HandlerInv'
  BY <1>b, <1>4, <1>6 DEF Library, EmitQR, EmitAuthenticated, EmitReady, EmitDisconnected,
     EmitAuthFailure
<1>7. ASSUME NEW c \in Client, Handle(c) PROVE HandlerInv'
  BY <1>2, <1>3, <1>7, Zenon DEF Handle, HandleQRCode, HandleAuthenticated, HandleReady,
     HandleAuthFailure, HandleDisconnected, DropClient, HandleFailed, libVars
<1>8. ASSUME NEW c \in Client, HandlerDbError(c) PROVE HandlerInv'
  BY <1>2, <1>3, <1>8, Zenon DEF HandlerDbError, libVars
<1>9. CASE Crash
  BY <1>9 DEF Crash, HandlerInv
<1>10. ASSUME NEW o \in Request, NEW s \in Session,
              StartCreateSession(o, s) \/ StartDisconnectSession(o, s)
       PROVE  HandlerInv'
  BY <1>1, <1>10, Zenon DEF StartCreateSession, StartDisconnectSession, libVars
<1>11. ASSUME NEW s \in Session, ReconnectNext(s) PROVE HandlerInv'
  BY <1>1, <1>11, Zenon DEF ReconnectNext, libVars
<1>12. CASE Listen \/ Restart \/ UNCHANGED vars
  BY <1>1, <1>12, Zenon DEF Listen, Restart, vars, libVars
<1> QED
  BY <1>5, <1>6, <1>7, <1>8, <1>9, <1>10, <1>11, <1>12, Zenon DEF Next

(* A step that has to do with other sessions. *)
LEMMA ViewFrame ==
  ASSUME NEW s, NEW x, NEW o, View(s, x, o),
         clients'[s] = clients[s], status'[s] = status[s], proc' = proc,
         s \in todo => s \in todo',
         \A c \in Client : owner'[c] = s => owner[c] = s /\ life'[c] = life[c],
         \A h \in handlers' : owner'[h.client] = s => h \in handlers
  PROVE  View(s, x, o)'
  BY DEF View, ClientOK

(* The events and the handlers of the clients of s. *)
LEMMA ViewHandle ==
  ASSUME TypeOK, BindingInv, HandlerInv, NoStray, NEW s \in Session, NEW x, NEW o,
         View(s, x, o), NEW c \in Client, Library(c) \/ Handle(c)
  PROVE  View(s, x, o)'
<1>a. /\ None \notin Session \cup Client
      /\ "late_write" \notin Faults /\ "logout" \notin Faults /\ "destroy_fails" \notin Faults
  BY SessionsAssumption DEF NoStray
<1>b. \A l : l \in Alive <=> l \in {"running", "authenticated", "ready"}
  BY DEF Alive
<1>c. UNCHANGED <<procVars, op, owner>>
  BY DEF Library, EmitQR, EmitAuthenticated, EmitReady, EmitDisconnected, EmitAuthFailure, Emit,
         Handle, HandleQRCode, HandleAuthenticated, HandleReady, HandleAuthFailure,
         HandleDisconnected, DropClient, HandleFailed, libVars
<1>d. owner[c] \in Session \cup {None}
  BY DEF TypeOK
<1> USE DEF TypeOK, View, ClientOK, Leaving, Connected, procVars, docVars, libVars
<1>1. CASE Library(c)
  <2>1. PICK kind, lives : /\ Emit(c, kind, lives) /\ life[c] \in Alive
                           /\ kind \in Leaving => lives \notin Alive
                           /\ kind # "drop"
    BY <1>1, <1>a, <1>b
       DEF Library, EmitQR, EmitAuthenticated, EmitReady, EmitDisconnected, EmitAuthFailure
  <2> QED
    BY <1>a, <1>c, <2>1 DEF Emit, CanEmit, Prompt
<1>2. CASE HandleQRCode(c) \/ HandleAuthenticated(c) \/ HandleReady(c) \/ HandleFailed(c)
  <2>1. PICK h \in handlers : h.client = c /\ handlers' = handlers \ {h}
    BY <1>2 DEF HandleQRCode, HandleAuthenticated, HandleReady, HandleFailed, Finish, InFlight
  <2>2. PICK st : SetStatus(owner[c], st) /\ UNCHANGED <<clients, life>>
    BY <1>2 DEF HandleQRCode, HandleAuthenticated, HandleReady, HandleFailed
  <2>3. CASE owner[c] # s
    <3>1. status'[s] = status[s]
      BY <1>d, <2>2, <2>3 DEF SetStatus
    <3> QED
      BY <1>c, <2>1, <2>2, <3>1, ViewFrame
  <2>4. CASE owner[c] = s
    <3>1. clients[s] = c \/ (x.pc = "mark" /\ x.client = c)
      BY <2>1, <2>4
    <3>2. ASSUME NEW g \in handlers', owner[g.client] = s, x.pc # "mark" PROVE FALSE
      BY <2>1, <2>4, <3>1, <3>2 DEF HandlerInv
    <3>3. ASSUME NEW d \in Client, owner[d] = s PROVE ClientOK(s, d, x)'
      BY <1>c, <2>1, <2>2, <3>2, <3>3
    <3>4. clients'[s] # None \/ x.pc = "mark"
      BY <1>a, <2>2, <3>1
    <3> QED
      BY <1>c, <2>2, <3>3, <3>4
  <2> QED
    BY <2>3, <2>4
<1>3. CASE HandleAuthFailure(c) \/ HandleDisconnected(c)
  <2>1. PICK h, g : /\ h \in handlers /\ h.client = c /\ g.client = c
                    /\ h.kind \in Leaving /\ handlers' = (handlers \ {h}) \cup {g}
    BY <1>3 DEF HandleAuthFailure, HandleDisconnected, Continue, InFlight
  <2>2. PICK st : /\ SetStatus(owner[c], st) /\ UNCHANGED <<clients, life>>
                  /\ st \notin Connected
    BY <1>3 DEF HandleAuthFailure, HandleDisconnected
  <2> QED
    BY <1>c, <1>d, <2>1, <2>2 DEF SetStatus, HandlerInv
<1>4. CASE DropClient(c)
  <2>1. PICK h \in handlers : h.client = c /\ h.kind = "drop" /\ handlers' = handlers \ {h}
    BY <1>4 DEF DropClient, Finish, InFlight
  <2>2. clients' = [clients EXCEPT ![owner[c]] = None] /\ UNCHANGED <<status, life>>
    BY <1>4 DEF DropClient
  <2> QED
    BY <1>a, <1>c, <1>d, <2>1, <2>2 DEF HandlerInv
<1> QED
  BY <1>1, <1>2, <1>3, <1>4 DEF Handle

(* The request or the reconnection of s goes on. *)
LEMMA ViewOperate ==
  ASSUME TypeOK, BindingInv, HandlerInv, NoStray, NEW s \in Session, NEW x, NEW y,
         NEW o \in Slot, op[o] = x, x.sess = s, op'[o] = y, View(s, x, o), Operate(o)
  PROVE  View(s, y, o)'
<1>a. /\ None \notin Session \cup Client
      /\ "late_write" \notin Faults /\ "logout" \notin Faults
      /\ "destroy_fails" \notin Faults /\ "init_leaves" \notin Faults
  BY SessionsAssumption DEF NoStray
<1>b. Idle.pc = "idle"
  BY DEF Idle
<1>c. \A l : l \in Alive <=> l \in {"running", "authenticated", "ready"}
  BY DEF Alive
<1>d. /\ \A l : Goto(o, l) => y.pc = l /\ y.client = x.client
      /\ Return(o) => y = Idle
  BY DEF TypeOK, Goto, Return
<1> USE DEF View, ClientOK, procVars, docVars, libVars
<1>1. CASE FindSession(o) \/ TouchSession(o)
  BY <1>1, <1>d DEF FindSession, TouchSession
<1>2. CASE InsertSession(o)
  BY <1>2, <1>b, <1>d DEF InsertSession, TypeOK, Connected
<1>3. CASE InitializeClient(o)
  <2>1. CASE ~Free(s) /\ Return(o) /\ UNCHANGED <<clients, libVars>>
    BY <1>3, <1>b, <1>d, <2>1 DEF InitializeClient, Free
  <2>2. ASSUME NEW c \in Client, Launch(o, c) PROVE View(s, y, o)'
    <3>a. op[o].sess = s
      OBVIOUS
    <3>b. /\ clients[s] = None /\ clients' = [clients EXCEPT ![s] = c]
          /\ life' = [life EXCEPT ![c] = "running"] /\ owner' = [owner EXCEPT ![c] = s]
          /\ op' = [op EXCEPT ![o].pc = "wait", ![o].client = c]
      BY <2>2, <3>a DEF Launch, Free
    <3>1. y.pc = "wait" /\ y.client = c /\ clients'[s] = c /\ c # None
      <4>1. clients'[s] = c /\ c # None
        BY <1>a, <3>b DEF TypeOK
      <4>2. op'[o] = [op[o] EXCEPT !.pc = "wait", !.client = c]
        BY <3>b DEF TypeOK
      <4>3. op[o].pc = "init" /\ op[o] \in [pc : Label, sess : Session \cup {None}, client : Client \cup {None}]
        BY <1>3 DEF TypeOK, InitializeClient
      <4> QED
        BY <4>1, <4>2, <4>3
    <3>2. \A h \in handlers : h.client # c
      BY <2>2 DEF Launch, BindingInv, HandlerInv, TypeOK
    <3>3. ASSUME NEW d \in Client, owner'[d] = s PROVE ClientOK(s, d, y)'
      <4>1. CASE d = c
        BY <1>3, <3>1, <3>2, <4>1 DEF InitializeClient
      <4>2. CASE d # c
        <5>1. owner[d] = s /\ life'[d] = life[d] /\ UNCHANGED <<handlers, status>>
          BY <1>3, <3>b, <3>3, <4>2, Zenon DEF InitializeClient, TypeOK
        <5>2. life[d] \notin Alive /\ x.pc = "init"
          BY <1>3, <1>a, <3>b, <5>1 DEF InitializeClient
        <5>3. \A h \in handlers : h.client # d
          BY <1>a, <3>b, <5>1, <5>2
        <5> QED
          BY <5>1, <5>2, <5>3
      <4> QED
        BY <4>1, <4>2
    <3> QED
      BY <3>1, <3>3
  <2>3. CASE Free(s) /\ Goto(o, "fail2") /\ UNCHANGED <<clients, libVars>>
    BY <1>3, <1>d, <2>3 DEF InitializeClient, Free
  <2> QED
    BY <1>3, <2>1, <2>2, <2>3 DEF InitializeClient
<1>4. CASE ClientInitialized(o)
  BY <1>4, <1>b, <1>d DEF ClientInitialized
<1>5. CASE ClientInitFails(o)
  <2>1. y.pc = "fail1" /\ clients'[s] = None /\ x.client # None /\ clients[s] \in {x.client, None}
    BY <1>5, <1>d DEF ClientInitFails, TypeOK
  <2>2. /\ life'[x.client] \notin Alive
        /\ \A d \in Client : d # x.client => life'[d] = life[d]
        /\ x.pc = "wait" /\ UNCHANGED <<procVars, docVars, owner, handlers>>
    BY <1>5, <1>a, <1>c, <2>1 DEF ClientInitFails, TypeOK
  <2>3. \A h \in handlers : h.client # x.client
    BY <1>5, <1>a DEF ClientInitFails, Prompt
  <2>4. ASSUME NEW d \in Client, owner'[d] = s PROVE ClientOK(s, d, y)'
    BY <1>a, <1>c, <2>1, <2>2, <2>3, <2>4 DEF TypeOK
  <2> QED
    BY <2>1, <2>4
<1>6. CASE MarkInitFailed(o)
  <2>1. x.pc \in {"fail1", "fail2"} /\ clients[s] = None /\ status'[s] \notin Connected
    BY <1>6 DEF MarkInitFailed, SetStatus, Connected, TypeOK
  <2>2. y.pc = "fail2" \/ y = Idle
    BY <1>6, <1>d DEF MarkInitFailed
  <2> QED
    BY <1>6, <1>b, <2>1, <2>2 DEF MarkInitFailed
<1>7. CASE CloseClient(o)
  <2>1. y.pc = "mark" /\ y.client = x.client /\ clients'[s] = None
        /\ x.client # None /\ clients[s] \in {x.client, None}
    BY <1>7, <1>d DEF CloseClient, TypeOK
  <2>2. life' = [life EXCEPT ![x.client] = "destroyed"]
        /\ x.pc = "closing" /\ UNCHANGED <<procVars, docVars, owner, handlers>>
    BY <1>7, <1>a DEF CloseClient
  <2>4. ASSUME NEW d \in Client, owner'[d] = s PROVE ClientOK(s, d, y)'
    BY <1>a, <1>c, <2>1, <2>2, <2>4 DEF TypeOK
  <2> QED
    BY <2>1, <2>4
<1>8. CASE MarkDisconnected(o)
  <2>1. x.pc = "mark" /\ clients[s] = None /\ status'[s] \notin Connected /\ y = Idle
    BY <1>8, <1>d DEF MarkDisconnected, SetStatus, Connected, TypeOK
  <2>2. \A h \in handlers : h.client # x.client
    BY <1>8, <1>a DEF MarkDisconnected, Prompt
  <2> QED
    BY <1>8, <1>a, <1>b, <2>1, <2>2 DEF MarkDisconnected
<1> QED
  BY <1>1, <1>2, <1>3, <1>4, <1>5, <1>6, <1>7, <1>8 DEF Operate

(* What a step of a request says of the sessions it does not work on. *)
LEMMA OperateElsewhere ==
  ASSUME TypeOK, BindingInv, NEW s \in Session, NEW o \in Slot, Operate(o), op[o].sess # s
  PROVE  /\ clients'[s] = clients[s] /\ status'[s] = status[s] /\ UNCHANGED procVars
         /\ \A c \in Client : owner'[c] = s => owner[c] = s /\ life'[c] = life[c]
         /\ UNCHANGED handlers
<1>a. op[o].sess \in Session /\ None \notin Session \cup Client
  BY SessionsAssumption DEF BindingInv, Operate, FindSession, InsertSession, TouchSession,
     InitializeClient, ClientInitialized, ClientInitFails, MarkInitFailed, CloseClient,
     MarkDisconnected
<1>b. \A c \in Client : op[o].client = c => owner[c] # s
  BY <1>a DEF BindingInv
<1> USE DEF TypeOK, procVars, docVars, libVars
<1>1. CASE FindSession(o) \/ TouchSession(o) \/ ClientInitialized(o)
  BY <1>1 DEF FindSession, TouchSession, ClientInitialized
<1>2. CASE InsertSession(o)
  BY <1>2 DEF InsertSession
<1>3. CASE InitializeClient(o)
  BY <1>3, <1>a DEF InitializeClient, Launch
<1>4. CASE ClientInitFails(o) \/ CloseClient(o)
  BY <1>4, <1>a, <1>b DEF ClientInitFails, CloseClient
<1>5. CASE MarkInitFailed(o) \/ MarkDisconnected(o)
  BY <1>5 DEF MarkInitFailed, MarkDisconnected, SetStatus
<1> QED
  BY <1>1, <1>2, <1>3, <1>4, <1>5 DEF Operate

(* A slot keeps its session until it is idle again; the others are left alone. *)
LEMMA OperateSlot ==
  ASSUME TypeOK, NEW o \in Slot, Operate(o)
  PROVE  /\ op'[o].sess = op[o].sess \/ op'[o] = Idle
         /\ \A p \in Slot \ {o} : op'[p] = op[p]
<1>1. \/ \E l : Goto(o, l)
      \/ Return(o)
      \/ \E c : op' = [op EXCEPT ![o].pc = "wait", ![o].client = c]
  BY Zenon DEF Operate, FindSession, InsertSession, TouchSession, InitializeClient, Launch,
     ClientInitialized, ClientInitFails, MarkInitFailed, CloseClient, MarkDisconnected
<1> QED
  BY <1>1 DEF Goto, Return, TypeOK

LEMMA SoleStep ==
  ASSUME TypeOK, BindingInv, HandlerInv, NoStray, [Next]_vars, dbFaults' = dbFaults,
         NEW s \in Session, Serial(s), Serial(s)', SoleInv(s)
  PROVE  SoleInv(s)'
<1>a. /\ None \notin Session \cup Client /\ Boot \notin Request /\ Boot \in Slot
      /\ Request \subseteq Slot
  BY SessionsAssumption DEF Slot
<1>b. Idle.pc = "idle" /\ Idle.client = None /\ Idle.sess = None
  BY DEF Idle
<1>c. \A l : l \in Alive <=> l \in {"running", "authenticated", "ready"}
  BY DEF Alive
(* The slots do as they did. *)
<1>d. ASSUME \A p \in Slot : op[p].sess = s \/ op'[p].sess = s => op'[p] = op[p],
             \A x, o : View(s, x, o) => View(s, x, o)'
      PROVE  SoleInv(s)'
  <2>1. ASSUME NEW o \in Slot, op'[o].sess = s PROVE View(s, op[o], o)'
    <3>1. PICK x : x = op[o]
      OBVIOUS
    <3>2. op'[o] = x /\ x.sess = s
      BY <1>d, <2>1, <3>1
    <3>3. View(s, x, o)
      BY <3>1, <3>2 DEF SoleInv
    <3> QED
      BY <1>d, <3>2, <3>3
  <2>2. ASSUME \A o \in Slot : op'[o].sess # s PROVE View(s, Idle, Boot)'
    <3>1. \A o \in Slot : op[o].sess # s
      BY <1>d, <2>2
    <3> QED
      BY <1>d, <3>1 DEF SoleInv
  <2> QED
    BY <2>1, <2>2 DEF SoleInv
(* Slot o begins to work on s. *)
<1>e. ASSUME NEW o \in Slot, op[o] = Idle, op'[o].sess = s,
             \A p \in Slot \ {o} : op'[p] = op[p],
             \A y : y = op'[o] /\ View(s, Idle, Boot) => View(s, y, o)'
      PROVE  SoleInv(s)'
  <2>1. \A p \in Slot \ {o} : op'[p].sess # s
    BY <1>e DEF Serial
  <2>2. \A p \in Slot : op[p].sess # s
    BY <1>a, <1>b, <1>e, <2>1
  <2>3. View(s, Idle, Boot)
    BY <2>2 DEF SoleInv
  <2>4. View(s, op[o], o)'
    BY <1>e, <2>3
  <2> QED
    BY <1>e, <2>1, <2>4 DEF SoleInv
<1> USE DEF procVars, docVars, libVars
<1>1. ASSUME NEW c \in Client, Library(c) \/ Handle(c) PROVE SoleInv(s)'
  <2>1. UNCHANGED op
    BY <1>1, Zenon DEF Library, EmitQR, EmitAuthenticated, EmitReady, EmitDisconnected,
       EmitAuthFailure, Emit, Handle, HandleQRCode, HandleAuthenticated, HandleReady,
       HandleAuthFailure, HandleDisconnected, DropClient, HandleFailed
  <2>2. ASSUME NEW x, NEW o, View(s, x, o) PROVE View(s, x, o)'
    BY <1>1, <2>2, ViewHandle
  <2> QED
    BY <1>d, <2>1, <2>2
<1>2. ASSUME NEW o \in Slot, Operate(o) PROVE SoleInv(s)'
  <2>a. /\ op'[o].sess = op[o].sess \/ op'[o] = Idle
        /\ \A p \in Slot \ {o} : op'[p] = op[p]
    BY <1>2, OperateSlot
  <2>1. CASE op[o].sess # s
    <3>1. op'[o].sess # s
      BY <1>a, <1>b, <2>1, <2>a
    <3>2. ASSUME NEW x, NEW q, View(s, x, q) PROVE View(s, x, q)'
      BY <1>2, <2>1, <3>2, OperateElsewhere, ViewFrame
    <3> QED
      BY <1>d, <2>1, <2>a, <3>1, <3>2
  <2>2. CASE op[o].sess = s
    <3>1. PICK x : x = op[o]
      OBVIOUS
    <3>2. View(s, x, o)
      BY <2>2, <3>1 DEF SoleInv
    <3>3. ASSUME NEW y, y = op'[o] PROVE View(s, y, o)'
      BY <1>2, <2>2, <3>1, <3>2, <3>3, ViewOperate
    <3>4. \A p \in Slot \ {o} : op'[p].sess # s
      BY <2>2, <2>a DEF Serial
    <3>5. View(s, op[o], o)'
      BY <3>3
    <3>6. op'[o] = Idle => View(s, Idle, Boot)'
      BY <1>b, <3>5 DEF View, ClientOK
    <3> QED
      BY <1>a, <1>b, <2>2, <2>a, <3>4, <3>5, <3>6 DEF SoleInv
  <2> QED
    BY <2>1, <2>2
<1>3. ASSUME NEW o \in Request, NEW t \in Session,
             StartCreateSession(o, t) \/ StartDisconnectSession(o, t)
      PROVE  SoleInv(s)'
  <2>1. PICK y : /\ op' = [op EXCEPT ![o] = y] /\ y.sess = t /\ op[o] = Idle
                 /\ \/ y.pc = "find"
                    \/ y.pc = "closing" /\ y.client = clients[t] /\ clients[t] # None
                    \/ y.pc = "mark" /\ clients[t] = None
                 /\ UNCHANGED <<procVars, clients, docVars, libVars, handlers>>
    <3>1. CASE StartCreateSession(o, t)
      <4>1. PICK y : y = [pc |-> "find", sess |-> t, client |-> None]
        OBVIOUS
      <4>2. y.pc = "find" /\ y.sess = t
        BY <4>1
      <4>3. op' = [op EXCEPT ![o] = y]
        BY <3>1, <4>1 DEF StartCreateSession
      <4> QED
        BY <3>1, <4>2, <4>3, Zenon DEF StartCreateSession
    <3>2. CASE StartDisconnectSession(o, t)
      <4>1. PICK y : y = [pc |-> IF clients[t] = None THEN "mark" ELSE "closing",
                          sess |-> t, client |-> clients[t]]
        OBVIOUS
      <4>2. /\ y.sess = t /\ y.client = clients[t]
            /\ y.pc = IF clients[t] = None THEN "mark" ELSE "closing"
        BY <4>1
      <4>3. op' = [op EXCEPT ![o] = y]
        BY <3>2, <4>1 DEF StartDisconnectSession
      <4> QED
        BY <3>2, <4>2, <4>3, Zenon DEF StartDisconnectSession
    <3> QED
      BY <1>3, <3>1, <3>2
  <2>2. op'[o] = y /\ \A p \in Slot \ {o} : op'[p] = op[p]
    BY <1>a, <2>1 DEF TypeOK
  <2>3. CASE t = s
    <3>1. View(s, Idle, Boot) => View(s, y, o)'
      BY <1>a, <1>b, <2>1, <2>3 DEF View, ClientOK
    <3> QED
      BY <1>a, <1>e, <2>1, <2>2, <2>3, <3>1
  <2>4. CASE t # s
    <3>1. ASSUME NEW x, NEW q, View(s, x, q) PROVE View(s, x, q)'
      BY <2>1, <3>1, ViewFrame
    <3> QED
      BY <1>a, <1>b, <1>d, <2>1, <2>2, <2>4, <3>1
  <2> QED
    BY <2>3, <2>4
<1>4. ASSUME NEW t \in Session, ReconnectNext(t) PROVE SoleInv(s)'
  <2>1. PICK y : /\ op' = [op EXCEPT ![Boot] = y] /\ y.sess = t /\ op[Boot] = Idle
                 /\ y.pc = "init" /\ todo' = todo \ {t}
                 /\ UNCHANGED <<proc, clients, docVars, libVars, handlers>>
    <3>1. PICK y : y = [pc |-> "init", sess |-> t, client |-> None]
      OBVIOUS
    <3>2. y.pc = "init" /\ y.sess = t
      BY <3>1
    <3>3. op' = [op EXCEPT ![Boot] = y]
      BY <1>4, <3>1 DEF ReconnectNext
    <3> QED
      BY <1>4, <3>2, <3>3, Zenon DEF ReconnectNext
  <2>2. op'[Boot] = y /\ \A p \in Slot \ {Boot} : op'[p] = op[p]
    BY <1>a, <2>1 DEF TypeOK
  <2>3. CASE t = s
    <3>1. View(s, Idle, Boot) => View(s, y, Boot)'
      BY <1>a, <1>b, <2>1, <2>3 DEF View, ClientOK
    <3> QED
      BY <1>a, <1>e, <2>1, <2>2, <2>3, <3>1
  <2>4. CASE t # s
    <3>1. ASSUME NEW x, NEW q, View(s, x, q) PROVE View(s, x, q)'
      BY <2>1, <2>4, <3>1, ViewFrame
    <3> QED
      BY <1>a, <1>b, <1>d, <2>1, <2>2, <2>4, <3>1
  <2> QED
    BY <2>3, <2>4
<1>5. CASE Listen
  <2>1. ASSUME NEW x, NEW o, View(s, x, o) PROVE View(s, x, o)'
    BY <1>5, <2>1 DEF Listen, View, ClientOK
  <2> QED
    BY <1>d, <1>5, <2>1 DEF Listen
<1>6. CASE Restart
  <2>1. ASSUME NEW x, NEW o, View(s, x, o) PROVE View(s, x, o)'
    BY <1>6, <2>1 DEF Restart, ActiveSessions, View, ClientOK, Connected
  <2> QED
    BY <1>d, <1>6, <2>1 DEF Restart
<1>7. CASE Crash
  <2>1. View(s, Idle, Boot)'
    BY <1>b, <1>c, <1>7 DEF Crash, View, ClientOK, TypeOK
  <2> QED
    BY <1>a, <1>b, <1>7, <2>1 DEF Crash, SoleInv
<1>8. CASE UNCHANGED vars
  <2>1. ASSUME NEW x, NEW o, View(s, x, o) PROVE View(s, x, o)'
    BY <1>8, <2>1 DEF vars, View, ClientOK
  <2> QED
    BY <1>d, <1>8, <2>1 DEF vars
<1>9. ASSUME NEW o \in Slot, OperationDbError(o) PROVE FALSE
  BY <1>9 DEF OperationDbError, TypeOK
<1>10. ASSUME NEW c \in Client, HandlerDbError(c) PROVE FALSE
  BY <1>10 DEF HandlerDbError, TypeOK
<1> QED
  BY <1>1, <1>2, <1>3, <1>4, <1>5, <1>6, <1>7, <1>8, <1>9, <1>10 DEF Next

SerialInv == HandlerInv /\ \A s \in Session : SoleInv(s)

(* Requests for one session do not overlap, the database answers, and no client
   lives on outside the map. *)
Calm == /\ \A s \in Session : Serial(s)
        /\ NoStray
        /\ dbFaults = 0

LEMMA SerialInit == Init => SerialInv
<1>1. Init => None \notin Session \cup Client /\ \A o \in Slot : op[o].sess \notin Session
  BY SessionsAssumption DEF Init, Idle
<1> QED
  BY <1>1 DEF Init, SerialInv, HandlerInv, SoleInv, View, ClientOK, Idle, Connected, Alive

LEMMA SerialStep ==
  ASSUME TypeOK, BindingInv, SerialInv, [Next]_vars, Calm, Calm'
  PROVE  SerialInv'
<1>1. HandlerInv'
  BY HandlerStep DEF SerialInv, Calm
<1>2. dbFaults' = dbFaults
  BY DEF Calm
<1>3. ASSUME NEW s \in Session PROVE SoleInv(s)'
  BY <1>2, <1>3, SoleStep DEF SerialInv, Calm
<1> QED
  BY <1>1, <1>3 DEF SerialInv

LEMMA SerialKept == Spec /\ []Calm => []SerialInv
<1>1. TypeOK /\ BindingInv /\ SerialInv /\ [Next]_vars /\ Calm /\ Calm' => SerialInv'
  BY SerialStep
<1> QED
  BY <1>1, SerialInit, TypeCorrect, BindingsKept, PTL DEF Spec

(* As long as requests for one session come one after the other and nothing leaves
   a client outside the map, a session that nobody works on and whose status
   says that it is connected has its client in the map of the service. *)
THEOREM ConnectedManaged == Spec /\ []Calm => []ConnectedIsManaged
<1>1. SerialInv /\ StartupInv => ConnectedIsManaged
  <2> SUFFICES ASSUME SerialInv, StartupInv, NEW s \in Session, proc = "listening",
                      \A o \in Slot : op[o].sess # s,
                      status[s] \in {"ready", "authenticated"}
               PROVE  clients[s] # None
    BY DEF ConnectedIsManaged
  <2>1. View(s, Idle, Boot)
    BY DEF SerialInv, SoleInv
  <2> QED
    BY <2>1 DEF View, Connected, StartupInv, Idle
<1> QED
  BY <1>1, SerialKept, StartupKept, PTL

(* A client that has died is not brought back. *)
LEMMA DeadStaysDead ==
  ASSUME TypeOK, [Next]_vars, NEW c \in Client, life[c] \notin Alive, life[c] # "unborn"
  PROVE  life'[c] \notin Alive
<1>a. \A l : l \in Alive <=> l \in {"running", "authenticated", "ready"}
  BY DEF Alive
<1> USE DEF TypeOK
<1>1. ASSUME NEW d \in Client, Library(d) PROVE life'[c] \notin Alive
  <2>1. PICK kind, lives : Emit(d, kind, lives) /\ life[d] \in Alive
    BY <1>1, <1>a
       DEF Library, EmitQR, EmitAuthenticated, EmitReady, EmitDisconnected, EmitAuthFailure
  <2> QED
    BY <2>1 DEF Emit
<1>2. ASSUME NEW o \in Slot, InitializeClient(o) PROVE life'[c] \notin Alive
  BY <1>2 DEF InitializeClient, Launch, libVars
<1>3. ASSUME NEW o \in Slot, ClientInitFails(o) \/ CloseClient(o)
      PROVE  life'[c] \notin Alive
  BY <1>3, <1>a DEF ClientInitFails, CloseClient
<1>4. CASE Crash
  BY <1>4, <1>a DEF Crash
<1>5. CASE UNCHANGED life
  BY <1>5
<1>6. ASSUME NEW o \in Slot, Operate(o) \/ OperationDbError(o)
      PROVE  \/ UNCHANGED life \/ InitializeClient(o) \/ ClientInitFails(o) \/ CloseClient(o)
  BY <1>6, Zenon DEF Operate, OperationDbError, FindSession, InsertSession, TouchSession,
     ClientInitialized, MarkInitFailed, MarkDisconnected, libVars
<1>7. ASSUME NEW d \in Client, Handle(d) \/ HandlerDbError(d) PROVE UNCHANGED life
  BY <1>7, Zenon DEF Handle, HandleQRCode, HandleAuthenticated, HandleReady, HandleAuthFailure,
     HandleDisconnected, DropClient, HandleFailed, HandlerDbError, libVars
<1>8. ASSUME NEW o \in Request, NEW s \in Session,
             StartCreateSession(o, s) \/ StartDisconnectSession(o, s)
      PROVE  UNCHANGED life
  BY <1>8, Zenon DEF StartCreateSession, StartDisconnectSession, libVars
<1>9. ASSUME NEW s \in Session, ReconnectNext(s) PROVE UNCHANGED life
  BY <1>9, Zenon DEF ReconnectNext, libVars
<1>10. Listen \/ Restart \/ UNCHANGED vars => UNCHANGED life
  BY Zenon DEF Listen, Restart, vars, libVars
<1> QED
  BY <1>1, <1>2, <1>3, <1>4, <1>5, <1>6, <1>7, <1>8, <1>9, <1>10, Zenon DEF Next

(* Under the same conditions, when disconnectSession returns, no client that was
   ever created for the session is running. *)
THEOREM DisconnectComplete == Spec /\ []Calm => DisconnectLeavesNothingRunning
<1> DEFINE A == \A o \in Request :
       op[o].pc = "mark" /\ op'[o] = Idle =>
         \A c \in Client : owner[c] = op[o].sess => life'[c] \notin Alive
<1>1. TypeOK /\ BindingInv /\ SerialInv /\ [Next]_vars => A
  <2> SUFFICES ASSUME TypeOK, BindingInv, SerialInv, [Next]_vars, NEW o \in Request,
                      op[o].pc = "mark", op'[o] = Idle,
                      NEW c \in Client, owner[c] = op[o].sess
               PROVE  life'[c] \notin Alive
    OBVIOUS
  <2>1. PICK s \in Session : s = op[o].sess
    BY DEF BindingInv, Slot
  <2>2. View(s, op[o], o)
    BY <2>1 DEF SerialInv, SoleInv, Slot
  <2>3. life[c] \notin Alive /\ life[c] # "unborn"
    BY <2>1, <2>2, SessionsAssumption DEF View, ClientOK, BindingInv
  <2> QED
    BY <2>3, DeadStaysDead
<1> QED
  BY <1>1, SerialKept, TypeCorrect, BindingsKept, PTL DEF Spec, DisconnectLeavesNothingRunning
=============================================================================
