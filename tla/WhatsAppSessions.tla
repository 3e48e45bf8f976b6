--------------------------- MODULE WhatsAppSessions ---------------------------
(***************************************************************************)
(* The session half of WhatsAppService (whatsapp.service.ts): the          *)
(* in-memory map of whatsapp-web.js clients, the session documents in      *)
(* MongoDB, the requests createSession and disconnectSession, the          *)
(* reconnection loop at start-up, the client's event handlers, and the     *)
(* death and restart of the node process.                                  *)
(*                                                                         *)
(* One action is one synchronous segment of the code, from one await to    *)
(* the next; everything else may run in between.  A database write takes   *)
(* effect in the action that also resumes the code awaiting it, unless     *)
(* what follows the write reads or changes the map: then it is a step of   *)
(* its own.                                                                *)
(***************************************************************************)
EXTENDS Naturals, FiniteSets

CONSTANTS
  Session,      \* session ids
  Client,       \* identities of the Client objects that are ever created
  Request,      \* request slots: HTTP requests served at the same time
  Boot,         \* the slot of the reconnection loop run by onModuleInit
  None,         \* no session, no client
  Faults,       \* what may go wrong outside the service in this instance
  MaxHandlers,  \* bound: event handlers in flight at the same time
  MaxCrashes,   \* bound: deaths of the process
  MaxDbFaults   \* bound: database calls that throw

(***************************************************************************)
(* "logout": the phone unlinks the device and the library loads the login  *)
(* page again.  "closed": the library reports disconnected and destroys    *)
(* itself.  "auth_failure": the login is refused.  "init_fails":           *)
(* no Chrome is found, or initialize() rejects and its browser is gone.     *)
(* "init_leaves": initialize() rejects and its browser keeps running: the  *)
(* service forgets the client, but never calls destroy().                  *)
(* "destroy_fails": destroy() throws and the browser keeps running.        *)
(* "late_write": the database write of an event handler may take longer    *)
(* than the pauses of the code and the distance between two events of a    *)
(* client.                                                                 *)
(***************************************************************************)
FaultKind == {"logout", "closed", "auth_failure", "init_fails", "init_leaves",
              "destroy_fails", "late_write"}

ASSUME SessionsAssumption ==
  /\ Boot \notin Request
  /\ None \notin Session \cup Client
  /\ Faults \subseteq FaultKind
  /\ MaxHandlers \in Nat /\ MaxCrashes \in Nat /\ MaxDbFaults \in Nat

VARIABLES
  proc,      \* the node process: "down", "booting" or "listening"
  todo,      \* sessions the start-up query returned, not yet reconnected
  clients,   \* the map: session -> Client object or None
  status,    \* status of the session document, "absent" if there is none
  qr,        \* the client whose QR code the document holds, or None
  op,        \* program counter and locals of each slot
  life,      \* what became of each Client object
  owner,     \* the session each Client object was created for
  handlers,  \* event handlers in flight
  crashes,   \* deaths of the process so far
  dbFaults   \* database calls that threw so far

procVars == <<proc, todo>>
docVars  == <<status, qr>>
libVars  == <<life, owner>>
budgets  == <<crashes, dbFaults>>
vars == <<procVars, clients, docVars, op, libVars, handlers, budgets>>

Slot   == Request \cup {Boot}
Status == {"absent", "connecting", "qr_required", "authenticated", "ready",
           "disconnected", "failed"}
Life   == {"unborn", "running", "authenticated", "ready", "closed", "destroyed"}
Alive  == {"running", "authenticated", "ready"}
Label  == {"idle", "find", "insert", "touch", "init", "wait", "fail1", "fail2",
           "closing", "mark"}
Event  == {"qr", "authenticated", "ready", "disconnected", "auth_failure",
           "auth_disconnected", "drop", "failed"}

Idle == [pc |-> "idle", sess |-> None, client |-> None]

TypeOK ==
  /\ proc \in {"down", "booting", "listening"}
  /\ todo \in SUBSET Session
  /\ clients \in [Session -> Client \cup {None}]
  /\ status \in [Session -> Status]
  /\ qr \in [Session -> Client \cup {None}]
  /\ op \in [Slot -> [pc : Label, sess : Session \cup {None},
                      client : Client \cup {None}]]
  /\ life \in [Client -> Life]
  /\ owner \in [Client -> Session \cup {None}]
  /\ handlers \in SUBSET [kind : Event, client : Client]
  /\ crashes \in Nat
  /\ dbFaults \in Nat

Init ==
  /\ proc = "down"
  /\ todo = {}
  /\ clients = [s \in Session |-> None]
  /\ status = [s \in Session |-> "absent"]
  /\ qr = [s \in Session |-> None]
  /\ op = [o \in Slot |-> Idle]
  /\ life = [c \in Client |-> "unborn"]
  /\ owner = [c \in Client |-> None]
  /\ handlers = {}
  /\ crashes = 0
  /\ dbFaults = 0

-----------------------------------------------------------------------------
(* Helpers *)

Goto(o, label) == op' = [op EXCEPT ![o].pc = label]
Return(o)      == op' = [op EXCEPT ![o] = Idle]

(* findOneAndUpdate without upsert: nothing happens to a missing document. *)
SetStatus(s, st) ==
  status' = [status EXCEPT ![s] = IF @ = "absent" THEN @ ELSE st]

SetQR(s, c) == qr' = [qr EXCEPT ![s] = c]

InFlight(kind, c) == [kind |-> kind, client |-> c] \in handlers
Finish(kind, c)   == handlers' = handlers \ {[kind |-> kind, client |-> c]}
Continue(kind, c, next) ==
  handlers' = (handlers \ {[kind |-> kind, client |-> c]})
                \cup {[kind |-> next, client |-> c]}

(* Writes of c's handlers are over, where the instance lets code rely on it. *)
Prompt(c) == \/ "late_write" \in Faults
             \/ \A h \in handlers : h.client # c

-----------------------------------------------------------------------------
(* createSession and initializeClient *)

(* The entity is looked up first; a request that fails there changes nothing
   and is not started here. *)
StartCreateSession(o, s) ==
  /\ proc = "listening"
  /\ op[o] = Idle
  /\ op' = [op EXCEPT ![o] = [pc |-> "find", sess |-> s, client |-> None]]
  /\ UNCHANGED <<procVars, clients, docVars, libVars, handlers, budgets>>

FindSession(o) ==
  /\ op[o].pc = "find"
  /\ Goto(o, IF status[op[o].sess] = "absent" THEN "insert" ELSE "touch")
  /\ UNCHANGED <<procVars, clients, docVars, libVars, handlers, budgets>>

(* sessionId has a unique index: the second of two inserts is rejected. *)
InsertSession(o) ==
  /\ op[o].pc = "insert"
  /\ \/ /\ status[op[o].sess] = "absent"
        /\ status' = [status EXCEPT ![op[o].sess] = "connecting"]
        /\ Goto(o, "init")
     \/ /\ status[op[o].sess] # "absent"
        /\ Return(o)
        /\ UNCHANGED status
  /\ UNCHANGED <<procVars, clients, qr, libVars, handlers, budgets>>

(* An existing document gets a new path and tenant, its status stays. *)
TouchSession(o) ==
  /\ op[o].pc = "touch"
  /\ Goto(o, "init")
  /\ UNCHANGED <<procVars, clients, docVars, libVars, handlers, budgets>>

(* Broken variant: the map is not tested. *)
FreeUntested(s) == TRUE

Free(s) == clients[s] = None

(* The test of the map and clients.set run without an await in between. *)
Launch(o, c) ==
  /\ life[c] = "unborn"
  /\ Free(op[o].sess)
  /\ clients' = [clients EXCEPT ![op[o].sess] = c]
  /\ life' = [life EXCEPT ![c] = "running"]
  /\ owner' = [owner EXCEPT ![c] = op[o].sess]
  /\ op' = [op EXCEPT ![o].pc = "wait", ![o].client = c]

InitializeClient(o) ==
  /\ op[o].pc = "init"
  /\ \/ /\ ~Free(op[o].sess)
        /\ Return(o)
        /\ UNCHANGED <<clients, libVars>>
     \/ \E c \in Client : Launch(o, c)
     \/ /\ "init_fails" \in Faults
        /\ Free(op[o].sess)
        /\ Goto(o, "fail2")
        /\ UNCHANGED <<clients, libVars>>
  /\ UNCHANGED <<procVars, docVars, handlers, budgets>>

ClientInitialized(o) ==
  /\ op[o].pc = "wait"
  /\ Return(o)
  /\ UNCHANGED <<procVars, clients, docVars, libVars, handlers, budgets>>

(* The client is not destroyed: what became of its browser is up to the fault.
   clients.delete takes out whatever client the map holds by now. *)
ClientInitFails(o) ==
  /\ op[o].pc = "wait"
  /\ \/ life[op[o].client] \notin Alive /\ UNCHANGED life
     \/ /\ "init_fails" \in Faults
        /\ life[op[o].client] \in Alive
        /\ life' = [life EXCEPT ![op[o].client] = "closed"]
     \/ "init_leaves" \in Faults /\ UNCHANGED life
  /\ Prompt(op[o].client)
  /\ clients' = [clients EXCEPT ![op[o].sess] = None]
  /\ Goto(o, "fail1")
  /\ UNCHANGED <<procVars, docVars, owner, handlers, budgets>>

(* Broken variant: the start-up loop does not catch the error. *)
MarkInitFailedUncaught(o) ==
  /\ \/ op[o].pc = "fail1" /\ Goto(o, "fail2")
     \/ op[o].pc = "fail2" /\ o # Boot /\ Return(o)
  /\ SetStatus(op[o].sess, "failed")
  /\ UNCHANGED <<procVars, clients, qr, libVars, handlers, budgets>>

(* FAILED is written by the inner catch, then again by the outer one. *)
MarkInitFailed(o) ==
  /\ \/ op[o].pc = "fail1" /\ Goto(o, "fail2")
     \/ op[o].pc = "fail2" /\ Return(o)
  /\ SetStatus(op[o].sess, "failed")
  /\ UNCHANGED <<procVars, clients, qr, libVars, handlers, budgets>>

-----------------------------------------------------------------------------
(* disconnectSession *)

StartDisconnectSession(o, s) ==
  /\ proc = "listening"
  /\ op[o] = Idle
  /\ op' = [op EXCEPT ![o] =
       [pc |-> IF clients[s] = None THEN "mark" ELSE "closing",
        sess |-> s, client |-> clients[s]]]
  /\ UNCHANGED <<procVars, clients, docVars, libVars, handlers, budgets>>

(* Broken variant: the client is logged out but never destroyed. *)
CloseClientLogoutOnly(o) ==
  /\ op[o].pc = "closing"
  /\ clients' = [clients EXCEPT ![op[o].sess] = None]
  /\ Goto(o, "mark")
  /\ UNCHANGED <<procVars, docVars, libVars, handlers, budgets>>

(* Broken variant: destroy of a dead browser hangs. *)
CloseClientHangs(o) ==
  /\ op[o].pc = "closing"
  /\ life[op[o].client] \in Alive
  /\ life' = [life EXCEPT ![op[o].client] = "destroyed"]
  /\ clients' = [clients EXCEPT ![op[o].sess] = None]
  /\ Goto(o, "mark")
  /\ UNCHANGED <<procVars, docVars, owner, handlers, budgets>>

(* logout, a pause, destroy (the errors of both are swallowed), then
   clients.delete, which again takes out whatever the map holds by now. *)
CloseClient(o) ==
  /\ op[o].pc = "closing"
  /\ \/ life' = [life EXCEPT ![op[o].client] = "destroyed"]
     \/ "destroy_fails" \in Faults /\ UNCHANGED life
  /\ clients' = [clients EXCEPT ![op[o].sess] = None]
  /\ Goto(o, "mark")
  /\ UNCHANGED <<procVars, docVars, owner, handlers, budgets>>

(* After a second pause. *)
MarkDisconnected(o) ==
  /\ op[o].pc = "mark"
  /\ Prompt(op[o].client)
  /\ SetStatus(op[o].sess, "disconnected")
  /\ SetQR(op[o].sess, None)
  /\ Return(o)
  /\ UNCHANGED <<procVars, clients, libVars, handlers, budgets>>

(* A database call of a request or of the loop throws.  disconnectSession
   swallows it; createSession rejects; a failing FAILED write in the inner
   catch is followed by the outer one. *)
OperationDbError(o) ==
  /\ dbFaults < MaxDbFaults
  /\ dbFaults' = dbFaults + 1
  /\ \/ op[o].pc \in {"find", "insert", "touch", "fail2", "mark"} /\ Return(o)
     \/ op[o].pc = "fail1" /\ Goto(o, "fail2")
  /\ UNCHANGED <<procVars, clients, docVars, libVars, handlers, crashes>>

-----------------------------------------------------------------------------
(* The client library (external): what a Client object may emit *)

CanEmit(c, kind) ==
  /\ Cardinality(handlers) < MaxHandlers
  /\ ~InFlight(kind, c)
  /\ Prompt(c)

Emit(c, kind, lives) ==
  /\ CanEmit(c, kind)
  /\ handlers' = handlers \cup {[kind |-> kind, client |-> c]}
  /\ life' = [life EXCEPT ![c] = lives]
  /\ UNCHANGED <<procVars, clients, docVars, op, owner, budgets>>

EmitQR(c) == life[c] = "running" /\ Emit(c, "qr", "running")

EmitAuthenticated(c) ==
  life[c] = "running" /\ Emit(c, "authenticated", "authenticated")

EmitReady(c) == life[c] = "authenticated" /\ Emit(c, "ready", "ready")

EmitDisconnected(c) ==
  \/ /\ "closed" \in Faults
     /\ life[c] \in Alive
     /\ Emit(c, "disconnected", "closed")
  \/ /\ "logout" \in Faults
     /\ life[c] \in {"authenticated", "ready"}
     /\ Emit(c, "disconnected", "running")

EmitAuthFailure(c) ==
  /\ "auth_failure" \in Faults
  /\ life[c] = "running"
  /\ Emit(c, "auth_failure", "closed")

-----------------------------------------------------------------------------
(* The event handlers; each knows its session only by the session id *)

(* The QR code is rendered first, then stored with the status. *)
HandleQRCode(c) ==
  /\ InFlight("qr", c)
  /\ Finish("qr", c)
  /\ SetStatus(owner[c], "qr_required")
  /\ SetQR(owner[c], c)
  /\ UNCHANGED <<procVars, clients, op, libVars, budgets>>

HandleAuthenticated(c) ==
  /\ InFlight("authenticated", c)
  /\ Finish("authenticated", c)
  /\ SetStatus(owner[c], "authenticated")
  /\ UNCHANGED <<procVars, clients, qr, op, libVars, budgets>>

(* Broken variant: the QR code is not cleared. *)
HandleReadyKeepsQR(c) ==
  /\ InFlight("ready", c)
  /\ Finish("ready", c)
  /\ SetStatus(owner[c], "ready")
  /\ UNCHANGED <<procVars, clients, qr, op, libVars, budgets>>

HandleReady(c) ==
  /\ InFlight("ready", c)
  /\ Finish("ready", c)
  /\ SetStatus(owner[c], "ready")
  /\ SetQR(owner[c], None)
  /\ UNCHANGED <<procVars, clients, op, libVars, budgets>>

HandleAuthFailure(c) ==
  /\ InFlight("auth_failure", c)
  /\ Continue("auth_failure", c, "auth_disconnected")
  /\ SetStatus(owner[c], "failed")
  /\ UNCHANGED <<procVars, clients, qr, op, libVars, budgets>>

(* Broken variant: the entry of the map is kept. *)
HandleDisconnectedKeeps(c) ==
  /\ \E kind \in {"disconnected", "auth_disconnected"} :
       InFlight(kind, c) /\ Finish(kind, c)
  /\ SetStatus(owner[c], "disconnected")
  /\ UNCHANGED <<procVars, clients, qr, op, libVars, budgets>>

(* The status is written and, when that write has returned, the session's
   entry of the map is deleted. *)
HandleDisconnected(c) ==
  /\ \E kind \in {"disconnected", "auth_disconnected"} :
       InFlight(kind, c) /\ Continue(kind, c, "drop")
  /\ SetStatus(owner[c], "disconnected")
  /\ UNCHANGED <<procVars, clients, qr, op, libVars, budgets>>

(* Broken variant: only a client that is alive is dropped. *)
DropClientAlive(c) ==
  /\ InFlight("drop", c)
  /\ Finish("drop", c)
  /\ clients' = IF life[c] \in Alive
                  THEN [clients EXCEPT ![owner[c]] = None] ELSE clients
  /\ UNCHANGED <<procVars, docVars, op, libVars, budgets>>

DropClient(c) ==
  /\ InFlight("drop", c)
  /\ Finish("drop", c)
  /\ clients' = [clients EXCEPT ![owner[c]] = None]
  /\ UNCHANGED <<procVars, docVars, op, libVars, budgets>>

(* The catch blocks of the authenticated and disconnected handlers. *)
HandleFailed(c) ==
  /\ InFlight("failed", c)
  /\ Finish("failed", c)
  /\ SetStatus(owner[c], "failed")
  /\ UNCHANGED <<procVars, clients, qr, op, libVars, budgets>>

(* The write of a handler throws.  A throw in a catch block is an unhandled
   rejection, which ends the process: that is Crash. *)
HandlerDbError(c) ==
  /\ dbFaults < MaxDbFaults
  /\ dbFaults' = dbFaults + 1
  /\ \/ \E kind \in {"qr", "ready", "auth_failure", "auth_disconnected"} :
          InFlight(kind, c) /\ Finish(kind, c)
     \/ \E kind \in {"authenticated", "disconnected"} :
          InFlight(kind, c) /\ Continue(kind, c, "failed")
  /\ UNCHANGED <<procVars, clients, docVars, op, libVars, crashes>>

-----------------------------------------------------------------------------
(* Death and start of the process *)

(* Nothing in memory survives, nor do the browsers the process launched.
   onModuleDestroy does not run: main.ts enables no shutdown hooks. *)
Crash ==
  /\ proc # "down"
  /\ crashes < MaxCrashes
  /\ crashes' = crashes + 1
  /\ proc' = "down"
  /\ todo' = {}
  /\ clients' = [s \in Session |-> None]
  /\ op' = [o \in Slot |-> Idle]
  /\ life' = [c \in Client |-> IF life[c] \in Alive THEN "closed" ELSE life[c]]
  /\ handlers' = {}
  /\ UNCHANGED <<docVars, owner, dbFaults>>

(* Broken variant: the key of a document instead of its session id. *)
ActiveSessionsById ==
  {<<s>> : s \in {t \in Session : status[t] \in {"ready", "authenticated"}}}

(* Broken variant: AUTHENTICATED sessions are not asked for. *)
ActiveSessionsReady == {s \in Session : status[s] = "ready"}

ActiveSessions == {s \in Session : status[s] \in {"ready", "authenticated"}}

(* onModuleInit: the query of reconnectActiveSessions is read once. *)
Restart ==
  /\ proc = "down"
  /\ proc' = "booting"
  /\ todo' = ActiveSessions
  /\ UNCHANGED <<clients, docVars, op, libVars, handlers, budgets>>

(* The loop initializes one client at a time and swallows its errors. *)
ReconnectNext(s) ==
  /\ proc = "booting"
  /\ op[Boot] = Idle
  /\ s \in todo
  /\ todo' = todo \ {s}
  /\ op' = [op EXCEPT ![Boot] = [pc |-> "init", sess |-> s, client |-> None]]
  /\ UNCHANGED <<proc, clients, docVars, libVars, handlers, budgets>>

(* Broken variant: requests are served while the loop still runs. *)
ListenEarly ==
  /\ proc = "booting"
  /\ proc' = "listening"
  /\ UNCHANGED <<todo, clients, docVars, op, libVars, handlers, budgets>>

(* app.listen comes after onModuleInit has returned. *)
Listen ==
  /\ proc = "booting"
  /\ op[Boot] = Idle
  /\ todo = {}
  /\ proc' = "listening"
  /\ UNCHANGED <<todo, clients, docVars, op, libVars, handlers, budgets>>

-----------------------------------------------------------------------------
Operate(o) ==
  \/ FindSession(o) \/ InsertSession(o) \/ TouchSession(o)
  \/ InitializeClient(o) \/ ClientInitialized(o) \/ ClientInitFails(o)
  \/ MarkInitFailed(o) \/ CloseClient(o) \/ MarkDisconnected(o)

Handle(c) ==
  \/ HandleQRCode(c) \/ HandleAuthenticated(c) \/ HandleReady(c)
  \/ HandleAuthFailure(c) \/ HandleDisconnected(c) \/ DropClient(c)
  \/ HandleFailed(c)

Library(c) ==
  \/ EmitQR(c) \/ EmitAuthenticated(c) \/ EmitReady(c)
  \/ EmitDisconnected(c) \/ EmitAuthFailure(c)

Next ==
  \/ \E o \in Request, s \in Session :
       StartCreateSession(o, s) \/ StartDisconnectSession(o, s)
  \/ \E o \in Slot : Operate(o) \/ OperationDbError(o)
  \/ \E c \in Client : Library(c) \/ Handle(c) \/ HandlerDbError(c)
  \/ \E s \in Session : ReconnectNext(s)
  \/ Listen \/ Crash \/ Restart

Spec == Init /\ [][Next]_vars

(***************************************************************************)
(* Promises of the library settle (its waits have timeouts) and the        *)
(* database answers, so a segment that is due runs.  Users, phones and     *)
(* crashes owe nothing.                                                    *)
(***************************************************************************)
Fairness ==
  /\ \A o \in Slot : WF_vars(Operate(o))
  /\ \A c \in Client :
       /\ WF_vars(HandleQRCode(c)) /\ WF_vars(HandleAuthenticated(c))
       /\ WF_vars(HandleReady(c)) /\ WF_vars(HandleAuthFailure(c))
       /\ WF_vars(HandleDisconnected(c)) /\ WF_vars(DropClient(c))
       /\ WF_vars(HandleFailed(c))
  /\ \A s \in Session : WF_vars(ReconnectNext(s))
  /\ WF_vars(Listen)

FairSpec == Spec /\ Fairness

-----------------------------------------------------------------------------
(* Safety *)

(* The status and the QR code of a session document, written by handlers and
   requests in any order, never contradict each other: a session that asks for
   a scan stores a code, and one that is new or READY stores none. *)
QRCodeMatchesStatus ==
  \A s \in Session :
    /\ status[s] = "qr_required" => qr[s] # None
    /\ qr[s] # None => status[s] \notin {"absent", "connecting", "ready"}

Leaving == {"disconnected", "auth_failure", "auth_disconnected", "drop"}

(* While the database answers, the map holds no dead client that nobody is
   about to take out: createSession would return early for ever on such an
   entry, because initializeClient only asks whether the key is there. *)
NoZombieInMap ==
  dbFaults = 0 =>
    \A s \in Session : \A c \in Client :
      clients[s] = c =>
        \/ life[c] \in Alive
        \/ life[c] = "closed" /\ \E kind \in Leaving : InFlight(kind, c)

(* The start-up loop works on a query result read once.  Its entries do not
   go stale while it waits for other sessions: they still have the status
   they were selected for, and no client was created for them meanwhile. *)
StartupListStaysFresh ==
  \A s \in todo :
    /\ status[s] \in {"ready", "authenticated"}
    /\ clients[s] = None

(* With requests one after the other and handlers that keep up: whenever a
   session has a connected status, the running service holds its client, also
   after a crash and the reconnections that follow it.  Messages of such a
   session are received, and disconnectSession reaches its browser. *)
ConnectedIsManaged ==
  \A s \in Session :
    /\ proc = "listening"
    /\ \A o \in Slot : op[o].sess # s
    /\ status[s] \in {"ready", "authenticated"}
    => clients[s] # None

(* "Session disconnected successfully" (whatsapp.controller.ts): when
   disconnectSession returns, no browser of that session is left running. *)
DisconnectLeavesNothingRunning ==
  [][\A o \in Request :
       op[o].pc = "mark" /\ op'[o] = Idle =>
         \A c \in Client : owner[c] = op[o].sess => life'[c] \notin Alive]_vars

(* The map of clients implements the abstract registry. *)
Registry == INSTANCE ClientRegistry WITH
  handle <- clients,
  issued <- [s \in Session |-> {c \in Client : owner[c] = s}]

RegistrySpec == Registry!Spec

-----------------------------------------------------------------------------
(* Liveness *)

(* Every request returns, whatever happens to the client it works on. *)
RequestsReturn == \A o \in Request : op[o] # Idle ~> op[o] = Idle

(* The reconnections at start-up, failed ones included, do not keep the
   service from listening for ever. *)
StartupCompletes == proc = "booting" ~> proc # "booting"

(* A dead client leaves the map. *)
ZombieIsDropped ==
  \A s \in Session, c \in Client :
    clients[s] = c /\ life[c] = "closed" ~> clients[s] # c
=============================================================================
