---------------------------- MODULE EntityHierarchy ----------------------------
(***************************************************************************)
(* EntitiesService (entities.service.ts): the tree of entities, with the   *)
(* path, level, entityIdPath and tenantId derived from the ancestors.      *)
(* create, move and remove read the tree several times before they write,  *)
(* and move rewrites the subtree one document at a time; requests          *)
(* interleave at every await.  One action is one database call and the     *)
(* code that follows it.                                                   *)
(*                                                                         *)
(* Names are abstracted to the entity itself, so that a path is a sequence *)
(* of entities; update changes no field modelled here.                     *)
(***************************************************************************)
EXTENDS Naturals, Sequences, FiniteSets

CONSTANTS
  Entity,     \* identities of entities (bounds how many are created)
  Creator, Mover, Remover,  \* request slots that may create, move, remove
  None,       \* no entity; the caller None is a SYSTEM_ADMIN
  Admins,     \* whether TENANT_ADMIN callers act too
  SelfMoves,  \* whether an entity may be asked to become its own parent
  MaxMoves    \* bound: moves that are started

ASSUME EntitiesAssumption ==
  /\ None \notin Entity /\ IsFiniteSet(Entity)
  /\ Admins \in BOOLEAN /\ SelfMoves \in BOOLEAN
  /\ MaxMoves \in Nat

VARIABLES
  state,    \* state[e]: "absent", "active" or "removed" (isActive)
  parent,   \* parent[e]: parentId, None if it names no entity
  path,     \* path[e]: the names in the path of e
  level,    \* level[e]
  idPath,   \* idPath[e]: entityIdPath
  tenant,   \* tenant[e]: tenantId
  op,       \* program counter and locals of each slot
  moves     \* moves started so far

treeVars  == <<state, parent>>
placeVars == <<path, level>>
ownVars   == <<idPath, tenant>>
vars == <<treeVars, placeVars, ownVars, op, moves>>

Slot   == Creator \cup Mover \cup Remover
Maybe  == Entity \cup {None}
Label  == {"idle", "authorize", "authorizeParent", "newParent", "circle", "walk",
           "path", "level", "idPath", "save", "write", "rewalk", "descPath",
           "descLevel", "descWrite", "count", "remove"}

Idle == [kind |-> "none", pc |-> "idle", id |-> None, parent |-> None,
         by |-> None, path |-> <<>>, level |-> 0, idPath |-> <<>>,
         tenant |-> None, stack |-> <<>>, list |-> <<>>]

Operation ==
  [kind : {"none", "create", "move", "remove"}, pc : Label, id : Maybe,
   parent : Maybe, by : Maybe, path : Seq(Entity), level : Nat,
   idPath : Seq(Entity), tenant : Maybe, stack : Seq(Entity \X Maybe),
   list : Seq(Entity \X Entity)]

TypeOK ==
  /\ state \in [Entity -> {"absent", "active", "removed"}]
  /\ parent \in [Entity -> Maybe]
  /\ path \in [Entity -> Seq(Entity)]
  /\ level \in [Entity -> Nat]
  /\ idPath \in [Entity -> Seq(Entity)]
  /\ tenant \in [Entity -> Maybe]
  /\ op \in [Slot -> Operation]
  /\ moves \in Nat

Init ==
  /\ state = [e \in Entity |-> "absent"]
  /\ parent = [e \in Entity |-> None]
  /\ path = [e \in Entity |-> <<>>]
  /\ level = [e \in Entity |-> 0]
  /\ idPath = [e \in Entity |-> <<>>]
  /\ tenant = [e \in Entity |-> None]
  /\ op = [o \in Slot |-> Idle]
  /\ moves = 0

-----------------------------------------------------------------------------
(* Helpers *)

Active(e) == state[e] = "active"

Children(e) == {c \in Entity : Active(c) /\ parent[c] = e}

Elements(seq) == {seq[i] : i \in 1 .. Len(seq)}

Goto(o, label) == op' = [op EXCEPT ![o].pc = label]
Return(o)      == op' = [op EXCEPT ![o] = Idle]

(* Broken variant: the current path instead of entityIdPath. *)
CanManageByPath(by, e) == by = e \/ (Active(e) /\ by \in Elements(path[e]))

(* canManageEntity and canUserManageEntity; entityIdPath is never empty. *)
CanManage(by, e) == by = e \/ (Active(e) /\ by \in Elements(idPath[e]))

(* A caller: None, or the entity of a tenant administrator. *)
Caller(by) == by # None => Admins /\ state[by] # "absent"

(* The orders a query may return a set of documents in. *)
Orders(S) ==
  {f \in [1 .. Cardinality(S) -> S] :
     \A i, j \in 1 .. Cardinality(S) : f[i] = f[j] => i = j}

-----------------------------------------------------------------------------
(* create *)

(* The parent is read; a tenant administrator creates no root. *)
StartCreate(o, p, by) ==
  /\ op[o] = Idle
  /\ Caller(by)
  /\ p # None => Active(p)
  /\ by # None => p # None
  /\ op' = [op EXCEPT ![o] =
       [Idle EXCEPT !.kind = "create", !.parent = p, !.by = by,
          !.tenant = IF p = None THEN None ELSE tenant[p],
          !.pc = IF p = None THEN "save"
                 ELSE IF by = None THEN "path" ELSE "authorize"]]
  /\ UNCHANGED <<treeVars, placeVars, ownVars, moves>>

(* canManageEntity: the parent of a new entity, or the entity to be moved or
   removed. *)
Authorize(o) ==
  /\ op[o].pc = "authorize"
  /\ LET target == IF op[o].kind = "create" THEN op[o].parent ELSE op[o].id
     IN  \/ /\ CanManage(op[o].by, target)
            /\ Goto(o, CASE op[o].kind = "create" -> "path"
                         [] op[o].kind = "move"   -> "authorizeParent"
                         [] op[o].kind = "remove" -> "count")
         \/ ~CanManage(op[o].by, target) /\ Return(o)
  /\ UNCHANGED <<treeVars, placeVars, ownVars, moves>>

(* generatePath *)
GeneratePath(o) ==
  /\ op[o].pc = "path"
  /\ \/ /\ Active(op[o].parent)
        /\ op' = [op EXCEPT ![o].pc = "level", ![o].path = path[op[o].parent]]
     \/ ~Active(op[o].parent) /\ Return(o)
  /\ UNCHANGED <<treeVars, placeVars, ownVars, moves>>

(* calculateLevel takes a missing parent for a root. *)
LevelBelow(p) == (IF Active(p) THEN level[p] ELSE 0) + 1

CalculateLevel(o) ==
  /\ op[o].pc = "level"
  /\ op' = [op EXCEPT ![o].pc = IF op[o].kind = "create" THEN "idPath" ELSE "write",
                      ![o].level = LevelBelow(op[o].parent)]
  /\ UNCHANGED <<treeVars, placeVars, ownVars, moves>>

(* generateEntityPath *)
GenerateEntityPath(o) ==
  /\ op[o].pc = "idPath"
  /\ \/ /\ Active(op[o].parent)
        /\ op' = [op EXCEPT ![o].pc = "save", ![o].idPath = idPath[op[o].parent]]
     \/ ~Active(op[o].parent) /\ Return(o)
  /\ UNCHANGED <<treeVars, placeVars, ownVars, moves>>

(* Broken variant: the parent is taken for the tenant. *)
SaveEntityParentTenant(o, e) ==
  /\ op[o].pc = "save"
  /\ state[e] = "absent"
  /\ state' = [state EXCEPT ![e] = "active"]
  /\ parent' = [parent EXCEPT ![e] = op[o].parent]
  /\ path' = [path EXCEPT ![e] = Append(op[o].path, e)]
  /\ level' = [level EXCEPT ![e] = op[o].level]
  /\ idPath' = [idPath EXCEPT ![e] = Append(op[o].idPath, e)]
  /\ tenant' = [tenant EXCEPT ![e] =
       IF op[o].parent = None THEN e ELSE op[o].parent]
  /\ Return(o)
  /\ UNCHANGED moves

SaveEntity(o, e) ==
  /\ op[o].pc = "save"
  /\ state[e] = "absent"
  /\ state' = [state EXCEPT ![e] = "active"]
  /\ parent' = [parent EXCEPT ![e] = op[o].parent]
  /\ path' = [path EXCEPT ![e] = Append(op[o].path, e)]
  /\ level' = [level EXCEPT ![e] = op[o].level]
  /\ idPath' = [idPath EXCEPT ![e] = Append(op[o].idPath, e)]
  /\ tenant' = [tenant EXCEPT ![e] =
       IF op[o].parent = None THEN e ELSE op[o].tenant]
  /\ Return(o)
  /\ UNCHANGED moves

-----------------------------------------------------------------------------
(* move *)

(* A tenant administrator moves nothing to the root. *)
StartMove(o, e, p, by) ==
  /\ moves < MaxMoves
  /\ moves' = moves + 1
  /\ op[o] = Idle
  /\ Caller(by)
  /\ Active(e)
  /\ p = e => SelfMoves
  /\ by # None => p # None
  /\ op' = [op EXCEPT ![o] =
       [Idle EXCEPT !.kind = "move", !.id = e, !.parent = p, !.by = by,
          !.pc = IF by # None THEN "authorize"
                 ELSE IF p = None THEN "write" ELSE "newParent"]]
  /\ UNCHANGED <<treeVars, placeVars, ownVars>>

AuthorizeParent(o) ==
  /\ op[o].pc = "authorizeParent"
  /\ \/ CanManage(op[o].by, op[o].parent) /\ Goto(o, "newParent")
     \/ ~CanManage(op[o].by, op[o].parent) /\ Return(o)
  /\ UNCHANGED <<treeVars, placeVars, ownVars, moves>>

(* The query asks for the caller's tenant, which a SYSTEM_ADMIN has none of. *)
FindNewParent(o) ==
  /\ op[o].pc = "newParent"
  /\ LET found == /\ Active(op[o].parent)
                  /\ op[o].by # None =>
                       tenant[op[o].parent] = tenant[op[o].by]
     IN  \/ found /\ Goto(o, "circle")
         \/ ~found /\ Return(o)
  /\ UNCHANGED <<treeVars, placeVars, ownVars, moves>>

(* wouldCreateCircularReference: its query overwrites the parent's id by
   "$ne: id", so it asks for any active entity but the one to be moved. *)
CheckCircular(o) ==
  /\ op[o].pc = "circle"
  /\ \/ /\ \E e \in Entity \ {op[o].id} : Active(e)
        /\ op' = [op EXCEPT ![o].pc = "walk",
                            ![o].stack = <<<<op[o].id, None>>>>]
     \/ /\ \A e \in Entity \ {op[o].id} : ~Active(e)
        /\ Goto(o, "path")
  /\ UNCHANGED <<treeVars, placeVars, ownVars, moves>>

(* Broken variant: the children of a child are not asked for. *)
DescentChildrenOnly(o) ==
  LET node == Head(op[o].stack)
  IN  IF node[2] # None THEN {} ELSE Children(node[1])

Descent(o) == Children(Head(op[o].stack)[1])

(* Broken variant: the entity itself is noted too. *)
NotedWithSelf(o) ==
  LET node == Head(op[o].stack)
  IN  IF node \in Elements(op[o].list) THEN op[o].list ELSE Append(op[o].list, node)

(* An entry that is in the list is not noted again: the list of the code grows
   for as long as it goes in a circle, and is then never used. *)
Noted(o) ==
  LET node == Head(op[o].stack)
  IN  IF node[2] = None \/ node \in Elements(op[o].list)
        THEN op[o].list ELSE Append(op[o].list, node)

(* One call of getAllDescendants: the node is noted and its children, with the
   parent they were found under, come next. *)
GetDescendants(o) ==
  /\ op[o].pc \in {"walk", "rewalk"}
  /\ op[o].stack # <<>>
  /\ LET node == Head(op[o].stack)
         kids == Descent(o)
     IN  \E order \in Orders(kids) :
           op' = [op EXCEPT ![o].list = Noted(o),
             ![o].stack = [i \in 1 .. Len(order) |-> <<order[i], node[1]>>]
                            \o Tail(op[o].stack)]
  /\ UNCHANGED <<treeVars, placeVars, ownVars, moves>>

(* Broken variant: the list is compared with the entity itself. *)
NotBelowSelf(o) == \A node \in Elements(op[o].list) : node[1] # op[o].id

NotBelow(o) == \A node \in Elements(op[o].list) : node[1] # op[o].parent

DescendantsKnown(o) ==
  /\ op[o].pc = "walk"
  /\ op[o].stack = <<>>
  /\ \/ NotBelow(o) /\ op' = [op EXCEPT ![o].pc = "path", ![o].list = <<>>]
     \/ ~NotBelow(o) /\ Return(o)
  /\ UNCHANGED <<treeVars, placeVars, ownVars, moves>>

(* parentId, path and level are written; entityIdPath and tenantId are not. *)
WriteMove(o) ==
  /\ op[o].pc = "write"
  /\ parent' = [parent EXCEPT ![op[o].id] = op[o].parent]
  /\ path' = [path EXCEPT ![op[o].id] = Append(op[o].path, op[o].id)]
  /\ level' = [level EXCEPT ![op[o].id] = op[o].level]
  /\ op' = [op EXCEPT ![o].pc = "rewalk", ![o].stack = <<<<op[o].id, None>>>>]
  /\ UNCHANGED <<state, ownVars, moves>>

(* updateDescendantsPaths: the descendants are collected again, then path and
   level of one after the other are read from its parent and written. *)
RewriteNext(o) ==
  /\ op[o].pc = "rewalk"
  /\ op[o].stack = <<>>
  /\ \/ op[o].list # <<>> /\ Goto(o, "descPath")
     \/ op[o].list = <<>> /\ Return(o)
  /\ UNCHANGED <<treeVars, placeVars, ownVars, moves>>

ReadDescendantPath(o) ==
  /\ op[o].pc = "descPath"
  /\ LET above == Head(op[o].list)[2]
     IN  \/ /\ Active(above)
            /\ op' = [op EXCEPT ![o].pc = "descLevel", ![o].path = path[above]]
         \/ ~Active(above) /\ Return(o)
  /\ UNCHANGED <<treeVars, placeVars, ownVars, moves>>

ReadDescendantLevel(o) ==
  /\ op[o].pc = "descLevel"
  /\ op' = [op EXCEPT ![o].pc = "descWrite",
                      ![o].level = LevelBelow(Head(op[o].list)[2])]
  /\ UNCHANGED <<treeVars, placeVars, ownVars, moves>>

WriteDescendant(o) ==
  /\ op[o].pc = "descWrite"
  /\ LET e == Head(op[o].list)[1]
     IN  /\ path' = [path EXCEPT ![e] = Append(op[o].path, e)]
         /\ level' = [level EXCEPT ![e] = op[o].level]
  /\ op' = [op EXCEPT ![o].pc = "rewalk", ![o].list = Tail(@)]
  /\ UNCHANGED <<treeVars, ownVars, moves>>

-----------------------------------------------------------------------------
(* remove *)

StartRemove(o, e, by) ==
  /\ op[o] = Idle
  /\ Caller(by)
  /\ Active(e)
  /\ op' = [op EXCEPT ![o] =
       [Idle EXCEPT !.kind = "remove", !.id = e, !.by = by,
          !.pc = IF by = None THEN "count" ELSE "authorize"]]
  /\ UNCHANGED <<treeVars, placeVars, ownVars, moves>>

(* Broken variant: the children are fetched but not counted. *)
ChildlessUntested(e) == TRUE

Childless(e) == Children(e) = {}

(* Children are counted, then users; an entity with users is refused, and
   whether it has any is not modelled. *)
CountDependents(o) ==
  /\ op[o].pc = "count"
  /\ \/ Childless(op[o].id) /\ Goto(o, "remove")
     \/ Return(o)
  /\ UNCHANGED <<treeVars, placeVars, ownVars, moves>>

RemoveEntity(o) ==
  /\ op[o].pc = "remove"
  /\ state' = [state EXCEPT ![op[o].id] = "removed"]
  /\ Return(o)
  /\ UNCHANGED <<parent, placeVars, ownVars, moves>>

-----------------------------------------------------------------------------
Serve(o) ==
  \/ Authorize(o) \/ GeneratePath(o) \/ CalculateLevel(o)
  \/ GenerateEntityPath(o) \/ AuthorizeParent(o) \/ FindNewParent(o)
  \/ CheckCircular(o) \/ GetDescendants(o) \/ DescendantsKnown(o)
  \/ WriteMove(o) \/ RewriteNext(o) \/ ReadDescendantPath(o)
  \/ ReadDescendantLevel(o) \/ WriteDescendant(o)
  \/ CountDependents(o) \/ RemoveEntity(o)

Next ==
  \/ \E o \in Creator, p \in Maybe, by \in Maybe : StartCreate(o, p, by)
  \/ \E o \in Mover, e \in Entity, p \in Maybe, by \in Maybe :
       StartMove(o, e, p, by)
  \/ \E o \in Remover, e \in Entity, by \in Maybe : StartRemove(o, e, by)
  \/ \E o \in Slot : Serve(o) \/ \E e \in Entity : SaveEntity(o, e)

Spec == Init /\ [][Next]_vars

(* The database answers, so a request that is under way goes on. *)
FairSpec == Spec /\ \A o \in Slot : WF_vars(Serve(o))

-----------------------------------------------------------------------------
(* Safety *)

(* The tree of the documents implements the abstract forest. *)
Forest == INSTANCE EntityForest

ForestSpec == Forest!Spec

(* "Prevent circular references": there are no active entities each of which
   has its parent among them.  A walk over descendants would never end there. *)
Acyclic ==
  \A cycle \in SUBSET {e \in Entity : Active(e)} :
    cycle # {} => \E e \in cycle : parent[e] \notin cycle

(* "Cannot delete entity with children": an active entity is under an active
   one. *)
ActiveUnderActive ==
  \A e \in Entity : Active(e) /\ parent[e] # None => Active(parent[e])

(* Between requests the path and the level of an entity are one step longer
   than those of its parent, though move rewrites a subtree document by
   document. *)
PathFollowsParent ==
  (\A o \in Slot : op[o] = Idle) =>
    \A e \in Entity :
      Active(e) =>
        /\ path[e] = Append(IF parent[e] = None THEN <<>> ELSE path[parent[e]], e)
        /\ level[e] + 1 = Len(path[e])

(* "Array of all ancestor entity IDs from root to current entity". *)
IdPathListsAncestors ==
  \A e \in Entity :
    Active(e) =>
      idPath[e] = Append(IF parent[e] = None THEN <<>> ELSE idPath[parent[e]], e)

(* What authorization goes by (entityIdPath) and what queries filter by
   (tenantId) agree, however requests interleave: an entityIdPath starts at the
   tenant, ends at the entity itself and does not leave the tenant. *)
IdPathWithinTenant ==
  \A e \in Entity :
    state[e] # "absent" =>
      /\ idPath[e] # <<>>
      /\ idPath[e][1] = tenant[e]
      /\ idPath[e][Len(idPath[e])] = e
      /\ \A a \in Elements(idPath[e]) : state[a] # "absent" /\ tenant[a] = tenant[e]

(* Tenant isolation: a request of a tenant administrator that is about to write
   works on an entity and a parent of that tenant, even though system
   administrators move entities between tenants meanwhile. *)
TenantIsolation ==
  \A o \in Slot :
    op[o].by # None /\ op[o].pc \in {"save", "write", "remove"} =>
      /\ op[o].kind # "create" => tenant[op[o].id] = tenant[op[o].by]
      /\ op[o].kind # "remove" => tenant[op[o].parent] = tenant[op[o].by]

-----------------------------------------------------------------------------
(* Nothing keeps requests apart: no lock, no transaction, no version of what was
   read.  These are the overlaps that leave the tree as it should not be, and
   without which the properties above hold for any number of requests. *)

(* The subtree of a moved entity is being rewritten. *)
Rewriting == {"rewalk", "descPath", "descLevel", "descWrite"}

(* A move is about to be written while another one is between its check for
   circular references and its own write. *)
MovesCross ==
  \E m, n \in Slot :
    /\ m # n /\ op[m].pc = "write"
    /\ op[n].kind = "move" /\ op[n].parent # None
    /\ op[n].pc \in {"walk", "path", "level", "write"}

(* An entity is about to be put under itself. *)
SelfMoved == \E o \in Slot : op[o].pc = "write" /\ op[o].parent = op[o].id

(* An entity whose children have been counted is about to be removed while another
   request that has read it for the last time puts one under it. *)
RemovedUnder ==
  \E r, n \in Slot :
    /\ op[r].pc = "remove" /\ op[n].parent = op[r].id
    /\ \/ op[n].pc \in {"save", "write"}
       \/ op[n].kind = "move" /\ op[n].pc = "level"

(* An entity is about to be removed while it is being moved. *)
RemovedInMove ==
  \E r, n \in Slot :
    /\ op[r].pc = "remove" /\ op[n].kind = "move" /\ op[n].id = op[r].id
    /\ op[n].pc \notin Rewriting

(* A moved entity and its subtree are being written while another request does
   the same, is about to remove an entity, or goes by the path of a parent. *)
PlacesCross ==
  \E m, n \in Slot :
    /\ m # n /\ op[m].pc \in Rewriting \cup {"write"}
    /\ \/ op[n].pc \in Rewriting \cup {"write", "remove"}
       \/ op[n].parent # None /\ op[n].pc \in {"level", "idPath", "save"}

NothingLost == ~MovesCross /\ ~SelfMoved /\ ~RemovedUnder /\ ~RemovedInMove

-----------------------------------------------------------------------------
(* Liveness *)

(* Every request that got past its checks returns. *)
RequestsReturn ==
  \A o \in Slot :
    op[o].pc \notin {"idle", "save"} ~> op[o].pc \in {"idle", "save"}
=============================================================================
