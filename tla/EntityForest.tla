----------------------------- MODULE EntityForest -----------------------------
(***************************************************************************)
(* What the tree of entities promises: every operation is one step, an     *)
(* entity is created or moved under an active one, never under itself or   *)
(* one of its descendants, and only an entity without active children is   *)
(* removed, for good.                                                      *)
(***************************************************************************)

CONSTANTS
  Entity,   \* identities of entities
  None      \* no parent

VARIABLES
  state,    \* state[e]: "absent", "active" or "removed"
  parent    \* parent[e]: the parent of e, or None

forestVars == <<state, parent>>

Children(e) == {c \in Entity : state[c] = "active" /\ parent[c] = e}

(* e is d or one of its ancestors: whatever contains d and, with an entity, its
   parent contains e. *)
Above(e, d) ==
  \A S \in SUBSET Entity :
    d \in S /\ (\A x \in S : parent[x] \in S \cup {None}) => e \in S

Init ==
  /\ state = [e \in Entity |-> "absent"]
  /\ parent = [e \in Entity |-> None]

Create(e, p) ==
  /\ state[e] = "absent"
  /\ p # None => state[p] = "active"
  /\ state' = [state EXCEPT ![e] = "active"]
  /\ parent' = [parent EXCEPT ![e] = p]

Move(e, p) ==
  /\ state[e] = "active"
  /\ p # None => state[p] = "active" /\ ~Above(e, p)
  /\ parent' = [parent EXCEPT ![e] = p]
  /\ UNCHANGED state

Remove(e) ==
  /\ state[e] = "active"
  /\ Children(e) = {}
  /\ state' = [state EXCEPT ![e] = "removed"]
  /\ UNCHANGED parent

Next ==
  \E e \in Entity :
    \/ \E p \in Entity \cup {None} : Create(e, p) \/ Move(e, p)
    \/ Remove(e)

Spec == Init /\ [][Next]_forestVars
=============================================================================
