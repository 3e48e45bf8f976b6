---------------------------- MODULE ClientRegistry ----------------------------
(***************************************************************************)
(* What the in-memory map `clients` of the WhatsApp service promises,      *)
(* without any of the machinery that maintains it: a session has at most   *)
(* one handle, a handle is given out once and to one session, it is never  *)
(* overwritten by another one (it has to be removed first), and a handle   *)
(* that was removed never comes back.                                      *)
(***************************************************************************)
CONSTANTS
  Session,   \* session ids
  Client,    \* identities of whatsapp-web.js Client objects
  None       \* no handle

VARIABLES
  handle,    \* handle[s]: the client the map holds for s, or None
  issued     \* issued[s]: the clients ever registered for s

registryVars == <<handle, issued>>

Init ==
  /\ handle = [s \in Session |-> None]
  /\ issued = [s \in Session |-> {}]

(* A client object that was never registered is entered under a free key. *)
Register(s, c) ==
  /\ handle[s] = None
  /\ \A t \in Session : c \notin issued[t]
  /\ handle' = [handle EXCEPT ![s] = c]
  /\ issued' = [issued EXCEPT ![s] = @ \cup {c}]

Remove(s) ==
  /\ handle' = [handle EXCEPT ![s] = None]
  /\ UNCHANGED issued

(* The map is in memory: the end of the process empties it. *)
Clear ==
  /\ handle' = [s \in Session |-> None]
  /\ UNCHANGED issued

Next ==
  \/ \E s \in Session, c \in Client : Register(s, c)
  \/ \E s \in Session : Remove(s)
  \/ Clear

Spec == Init /\ [][Next]_registryVars
=============================================================================
