------------------------ MODULE EntityHierarchy_proofs ------------------------
(***************************************************************************)
(* Theorems about EntityHierarchy, for any finite set of entities, any     *)
(* number of requests and any bound.                                       *)
(***************************************************************************)
EXTENDS EntityHierarchy, FiniteSetTheorems, TLAPS

(* What the label of a request says of its locals. *)
WellFormed(x) ==
  /\ x.pc \in {"idPath", "save"} => x.kind = "create"
  /\ x.pc \in {"path", "level"} => x.kind \in {"create", "move"}
  /\ x.pc \in {"authorizeParent", "newParent", "circle", "walk", "write",
               "rewalk", "descPath", "descLevel", "descWrite"} => x.kind = "move"
  /\ x.pc \in {"count", "remove"} => x.kind = "remove"
  /\ x.pc = "authorize" => x.kind # "none" /\ x.by # None
  /\ x.kind = "create" /\ x.pc # "save" => x.parent # None
  /\ x.kind \in {"move", "remove"} => x.id # None
  /\ x.kind = "move" /\ x.pc \in {"authorizeParent", "newParent", "circle",
                                  "walk", "path", "level"} => x.parent # None
  /\ x.by # None => x.kind = "remove" \/ x.parent # None
  /\ x.pc \in {"descPath", "descLevel", "descWrite"} => x.list # <<>>

RequestInv == \A o \in Slot : WellFormed(op[o])

(* A slot that serves nothing. *)
LEMMA IdleOperation == Idle \in Operation /\ WellFormed(Idle)
  BY DEF Idle, Operation, Label, Maybe, WellFormed

(* A step of one slot leaves the others as they are. *)
LEMMA SlotStep ==
  ASSUME op \in [Slot -> Operation], RequestInv,
         NEW o \in Slot, NEW y \in Operation, WellFormed(y),
         op' = [op EXCEPT ![o] = y]
  PROVE  op' \in [Slot -> Operation] /\ RequestInv'
  BY DEF RequestInv

(* A request that ends. *)
LEMMA ReturnStep ==
  ASSUME op \in [Slot -> Operation], RequestInv, NEW o \in Slot, Return(o)
  PROVE  op' \in [Slot -> Operation] /\ RequestInv'
  BY IdleOperation, SlotStep DEF Return

(* A request that goes to another label and keeps its locals. *)
LEMMA GotoStep ==
  ASSUME op \in [Slot -> Operation], RequestInv, NEW o \in Slot,
         NEW l \in Label, Goto(o, l), WellFormed([op[o] EXCEPT !.pc = l])
  PROVE  op' \in [Slot -> Operation] /\ RequestInv'
<1>1. [op[o] EXCEPT !.pc = l] \in Operation
  <2>1. op[o] \in Operation
    OBVIOUS
  <2> QED
    BY <2>1 DEF Operation
<1>2. op' = [op EXCEPT ![o] = [op[o] EXCEPT !.pc = l]]
  BY DEF Goto
<1> QED
  BY <1>1, <1>2, SlotStep

(* Locals that are set along with the label keep their types. *)
LEMMA SetLocals ==
  ASSUME NEW x \in Operation, NEW l \in Label
  PROVE  /\ \A v \in Seq(Entity) : [x EXCEPT !.pc = l, !.path = v] \in Operation
         /\ \A v \in Nat : [x EXCEPT !.pc = l, !.level = v] \in Operation
         /\ \A v \in Seq(Entity) : [x EXCEPT !.pc = l, !.idPath = v] \in Operation
         /\ \A v \in Seq(Entity \X Maybe) :
              [x EXCEPT !.pc = l, !.stack = v] \in Operation
         /\ \A v \in Seq(Entity \X Entity) :
              [x EXCEPT !.pc = l, !.list = v] \in Operation
<1>1. \A v \in Seq(Entity) : [x EXCEPT !.pc = l, !.path = v] \in Operation
  BY DEF Operation
<1>2. \A v \in Nat : [x EXCEPT !.pc = l, !.level = v] \in Operation
  BY DEF Operation
<1>3. \A v \in Seq(Entity) : [x EXCEPT !.pc = l, !.idPath = v] \in Operation
  BY DEF Operation
<1>4. \A v \in Seq(Entity \X Maybe) : [x EXCEPT !.pc = l, !.stack = v] \in Operation
  BY DEF Operation
<1>5. \A v \in Seq(Entity \X Entity) : [x EXCEPT !.pc = l, !.list = v] \in Operation
  BY DEF Operation
<1> QED
  BY <1>1, <1>2, <1>3, <1>4, <1>5

(* The locals a request begins with. *)
LEMMA StartType ==
  ASSUME NEW k \in {"create", "move", "remove"}, NEW i \in Maybe, NEW p \in Maybe,
         NEW b \in Maybe, NEW t \in Maybe, NEW l \in Label
  PROVE  /\ [Idle EXCEPT !.kind = k, !.parent = p, !.by = b, !.tenant = t, !.pc = l]
              \in Operation
         /\ [Idle EXCEPT !.kind = k, !.id = i, !.parent = p, !.by = b, !.pc = l]
              \in Operation
         /\ [Idle EXCEPT !.kind = k, !.id = i, !.by = b, !.pc = l] \in Operation
<1>1. \A x \in Operation : [x EXCEPT !.kind = k] \in Operation
  BY ZenonT(30) DEF Operation
<1>2. \A x \in Operation : [x EXCEPT !.id = i] \in Operation
  BY ZenonT(30) DEF Operation
<1>3. \A x \in Operation : [x EXCEPT !.parent = p] \in Operation
  BY ZenonT(30) DEF Operation
<1>4. \A x \in Operation : [x EXCEPT !.by = b] \in Operation
  BY ZenonT(30) DEF Operation
<1>5. \A x \in Operation : [x EXCEPT !.tenant = t] \in Operation
  BY ZenonT(30) DEF Operation
<1>6. \A x \in Operation : [x EXCEPT !.pc = l] \in Operation
  BY ZenonT(30) DEF Operation
<1>7. [Idle EXCEPT !.kind = k] \in Operation
  BY <1>1, IdleOperation
<1>8. [Idle EXCEPT !.kind = k, !.id = i] \in Operation
  BY <1>2, <1>7
<1> QED
  BY <1>3, <1>4, <1>5, <1>6, <1>7, <1>8

(* The level below any entity, active or not, is a number. *)
LEMMA LevelBelowNat ==
  ASSUME TypeOK, NEW p \in Entity
  PROVE  LevelBelow(p) \in Nat
<1>1. level[p] \in Nat
  BY DEF TypeOK
<1> QED
  BY <1>1 DEF LevelBelow

(* One call of the recursion keeps the stack and the list well typed. *)
LEMMA DescentType ==
  ASSUME NEW stack \in Seq(Entity \X Maybe), stack # <<>>,
         NEW kids, kids \subseteq Entity, NEW order \in Orders(kids)
  PROVE  [i \in 1 .. Len(order) |-> <<order[i], Head(stack)[1]>>] \o Tail(stack)
           \in Seq(Entity \X Maybe)
<1>1. IsFiniteSet(kids)
  BY EntitiesAssumption, FS_Subset
<1>2. Cardinality(kids) \in Nat
  BY <1>1, FS_CardinalityType
<1>3. order \in [1 .. Cardinality(kids) -> kids]
  BY DEF Orders
<1>4. order \in Seq(kids)
  BY <1>2, <1>3
<1>5. Len(order) = Cardinality(kids)
  BY <1>2, <1>3
<1>6. Head(stack)[1] \in Entity
  OBVIOUS
<1>7. [i \in 1 .. Len(order) |-> <<order[i], Head(stack)[1]>>]
        \in Seq(Entity \X Maybe)
  <2>1. \A i \in 1 .. Len(order) :
          <<order[i], Head(stack)[1]>> \in Entity \X Maybe
    BY <1>3, <1>5, <1>6 DEF Maybe
  <2> QED
    BY <1>2, <1>5, <2>1
<1>8. Tail(stack) \in Seq(Entity \X Maybe)
  OBVIOUS
<1> QED
  BY <1>7, <1>8

(* What most steps do: they change the locals of a slot and nothing else. *)
LEMMA LocalStep ==
  ASSUME TypeOK, UNCHANGED <<treeVars, placeVars, ownVars>>,
         op' \in [Slot -> Operation], moves' \in Nat
  PROVE  TypeOK'
  BY DEF TypeOK, treeVars, placeVars, ownVars

(* The two invariants of the requests' locals hold together. *)
LEMMA Typed == Spec => [](TypeOK /\ RequestInv)
<1> DEFINE Inv == TypeOK /\ RequestInv
<1>1. Init => Inv
  BY IdleOperation DEF Init, TypeOK, Maybe, RequestInv
<1>2. Inv /\ [Next]_vars => Inv'
  <2> SUFFICES ASSUME TypeOK, RequestInv, [Next]_vars PROVE TypeOK' /\ RequestInv'
    OBVIOUS
  <2>a. op \in [Slot -> Operation] /\ moves \in Nat
    BY DEF TypeOK
  <2>b. \A o \in Slot : op[o] \in Operation /\ WellFormed(op[o])
    BY <2>a DEF RequestInv
  <2>c. \A o \in Slot : Return(o) => op' \in [Slot -> Operation] /\ RequestInv'
    BY <2>a, ReturnStep
  <2>d. \A o \in Slot : \A y \in Operation :
          WellFormed(y) /\ op' = [op EXCEPT ![o] = y]
            => op' \in [Slot -> Operation] /\ RequestInv'
    BY <2>a, SlotStep
  <2>1. ASSUME NEW o \in Creator, NEW p \in Maybe, NEW by \in Maybe,
               StartCreate(o, p, by)
        PROVE  TypeOK' /\ RequestInv'
    <3> DEFINE t == IF p = None THEN None ELSE tenant[p]
               l == IF p = None THEN "save"
                    ELSE IF by = None THEN "path" ELSE "authorize"
               y == [Idle EXCEPT !.kind = "create", !.parent = p, !.by = by,
                       !.tenant = t, !.pc = l]
    <3>1. t \in Maybe
      BY DEF TypeOK, Maybe
    <3>a. l \in Label
      BY DEF Label
    <3>2. y \in Operation
      <4>1. None \in Maybe
        BY DEF Maybe
      <4> HIDE DEF t, l
      <4> QED
        BY <3>1, <3>a, <4>1, StartType, Zenon
    <3>3. WellFormed(y)
      BY <2>1 DEF StartCreate, WellFormed, Idle
    <3>4. op' = [op EXCEPT ![o] = y]
      BY <2>1 DEF StartCreate
    <3> QED
      BY <2>1, <2>a, <2>d, <3>2, <3>3, <3>4, LocalStep DEF StartCreate, Slot
  <2>2. ASSUME NEW o \in Mover, NEW e \in Entity, NEW p \in Maybe,
               NEW by \in Maybe, StartMove(o, e, p, by)
        PROVE  TypeOK' /\ RequestInv'
    <3> DEFINE l == IF by # None THEN "authorize"
                    ELSE IF p = None THEN "write" ELSE "newParent"
               y == [Idle EXCEPT !.kind = "move", !.id = e, !.parent = p, !.by = by,
                       !.pc = l]
    <3>1. y \in Operation
      <4>1. l \in Label /\ e \in Maybe
        BY DEF Label, Maybe
      <4> HIDE DEF l
      <4> QED
        BY <4>1, StartType, Zenon
    <3>2. WellFormed(y)
      BY <2>2, EntitiesAssumption DEF StartMove, WellFormed, Idle
    <3>3. op' = [op EXCEPT ![o] = y]
      BY <2>2 DEF StartMove
    <3>4. moves' \in Nat /\ UNCHANGED <<treeVars, placeVars, ownVars>>
      BY <2>2, <2>a DEF StartMove
    <3> HIDE DEF y
    <3> QED
      BY <2>d, <3>1, <3>2, <3>3, <3>4, LocalStep DEF Slot
  <2>3. ASSUME NEW o \in Remover, NEW e \in Entity, NEW by \in Maybe,
               StartRemove(o, e, by)
        PROVE  TypeOK' /\ RequestInv'
    <3> DEFINE l == IF by = None THEN "count" ELSE "authorize"
               y == [Idle EXCEPT !.kind = "remove", !.id = e, !.by = by, !.pc = l]
    <3>1. y \in Operation
      <4>1. l \in Label /\ e \in Maybe
        BY DEF Label, Maybe
      <4> HIDE DEF l
      <4> QED
        BY <4>1, StartType, Zenon
    <3>2. WellFormed(y)
      BY <2>3, EntitiesAssumption DEF StartRemove, WellFormed, Idle
    <3>3. op' = [op EXCEPT ![o] = y]
      BY <2>3 DEF StartRemove
    <3> QED
      BY <2>3, <2>a, <2>d, <3>1, <3>2, <3>3, LocalStep DEF StartRemove, Slot
  <2>4. ASSUME NEW o \in Slot, Authorize(o) PROVE TypeOK' /\ RequestInv'
    <3>1. CASE Return(o)
      BY <2>4, <2>a, <2>c, <3>1, LocalStep DEF Authorize
    <3>2. CASE Goto(o, CASE op[o].kind = "create" -> "path"
                         [] op[o].kind = "move"   -> "authorizeParent"
                         [] op[o].kind = "remove" -> "count")
      <4> DEFINE l == CASE op[o].kind = "create" -> "path"
                        [] op[o].kind = "move"   -> "authorizeParent"
                        [] op[o].kind = "remove" -> "count"
      <4>1. op[o].kind \in {"create", "move", "remove"}
        BY <2>4, <2>b DEF Authorize, WellFormed, Operation
      <4>2. l \in Label
        BY <4>1 DEF Label
      <4>3. WellFormed([op[o] EXCEPT !.pc = l])
        BY <2>4, <2>b, <4>1 DEF Authorize, WellFormed, Operation
      <4> QED
        BY <2>4, <2>a, <3>2, <4>2, <4>3, GotoStep, LocalStep DEF Authorize
    <3> QED
      BY <2>4, <3>1, <3>2 DEF Authorize
  <2>5. ASSUME NEW o \in Slot, GeneratePath(o) PROVE TypeOK' /\ RequestInv'
    <3>1. CASE Return(o)
      BY <2>5, <2>a, <2>c, <3>1, LocalStep DEF GeneratePath
    <3>2. CASE op' = [op EXCEPT ![o].pc = "level", ![o].path = path[op[o].parent]]
      <4> DEFINE y == [op[o] EXCEPT !.pc = "level", !.path = path[op[o].parent]]
      <4>1. op[o].parent \in Entity
        BY <2>5, <2>b DEF GeneratePath, WellFormed, Operation, Maybe
      <4>2. path[op[o].parent] \in Seq(Entity)
        BY <4>1 DEF TypeOK
      <4>3. y \in Operation
        BY <2>b, <4>2, SetLocals DEF Label
      <4>4. WellFormed(y)
        BY <2>5, <2>b DEF GeneratePath, WellFormed, Operation
      <4>5. op' = [op EXCEPT ![o] = y]
        BY <3>2
      <4> QED
        BY <2>5, <2>a, <2>d, <4>3, <4>4, <4>5, LocalStep DEF GeneratePath
    <3> QED
      BY <2>5, <3>1, <3>2 DEF GeneratePath
  <2>6. ASSUME NEW o \in Slot, CalculateLevel(o) PROVE TypeOK' /\ RequestInv'
    <3> DEFINE l == IF op[o].kind = "create" THEN "idPath" ELSE "write"
               y == [op[o] EXCEPT !.pc = l, !.level = LevelBelow(op[o].parent)]
    <3>1. op[o].parent \in Entity
      BY <2>6, <2>b DEF CalculateLevel, WellFormed, Operation, Maybe
    <3>2. LevelBelow(op[o].parent) \in Nat /\ l \in Label
      BY <3>1, LevelBelowNat DEF Label
    <3>3. y \in Operation
      <4> HIDE DEF l
      <4> QED
        BY <2>b, <3>2, SetLocals
    <3>4. WellFormed(y)
      BY <2>6, <2>b DEF CalculateLevel, WellFormed, Operation
    <3>5. op' = [op EXCEPT ![o] = y]
      BY <2>6 DEF CalculateLevel
    <3> QED
      BY <2>6, <2>a, <2>d, <3>3, <3>4, <3>5, LocalStep DEF CalculateLevel
  <2>7. ASSUME NEW o \in Slot, GenerateEntityPath(o) PROVE TypeOK' /\ RequestInv'
    <3>1. CASE Return(o)
      BY <2>7, <2>a, <2>c, <3>1, LocalStep DEF GenerateEntityPath
    <3>2. CASE op' = [op EXCEPT ![o].pc = "save",
                                ![o].idPath = idPath[op[o].parent]]
      <4> DEFINE y == [op[o] EXCEPT !.pc = "save", !.idPath = idPath[op[o].parent]]
      <4>1. op[o].parent \in Entity
        BY <2>7, <2>b DEF GenerateEntityPath, WellFormed, Operation, Maybe
      <4>2. idPath[op[o].parent] \in Seq(Entity)
        BY <4>1 DEF TypeOK
      <4>3. y \in Operation
        BY <2>b, <4>2, SetLocals DEF Label
      <4>4. WellFormed(y)
        BY <2>7, <2>b DEF GenerateEntityPath, WellFormed, Operation
      <4>5. op' = [op EXCEPT ![o] = y]
        BY <3>2
      <4> QED
        BY <2>7, <2>a, <2>d, <4>3, <4>4, <4>5, LocalStep DEF GenerateEntityPath
    <3> QED
      BY <2>7, <3>1, <3>2 DEF GenerateEntityPath
  <2>8. ASSUME NEW o \in Slot, NEW e \in Entity, SaveEntity(o, e)
        PROVE  TypeOK' /\ RequestInv'
    <3>1. op[o] \in Operation /\ RequestInv' /\ op' \in [Slot -> Operation]
      BY <2>8, <2>b, <2>c DEF SaveEntity
    <3>2. Append(op[o].path, e) \in Seq(Entity) /\ Append(op[o].idPath, e) \in Seq(Entity)
          /\ op[o].level \in Nat /\ op[o].parent \in Maybe /\ op[o].tenant \in Maybe
          /\ e \in Maybe
      BY <3>1 DEF Operation, Maybe
    <3> QED
      BY <2>8, <3>1, <3>2 DEF SaveEntity, TypeOK
  <2>9. ASSUME NEW o \in Slot, AuthorizeParent(o) PROVE TypeOK' /\ RequestInv'
    <3>1. CASE Return(o)
      BY <2>9, <2>a, <2>c, <3>1, LocalStep DEF AuthorizeParent
    <3>2. CASE Goto(o, "newParent")
      <4>1. WellFormed([op[o] EXCEPT !.pc = "newParent"])
        BY <2>9, <2>b DEF AuthorizeParent, WellFormed, Operation
      <4> QED
        BY <2>9, <2>a, <3>2, <4>1, GotoStep, LocalStep DEF AuthorizeParent, Label
    <3> QED
      BY <2>9, <3>1, <3>2 DEF AuthorizeParent
  <2>10. ASSUME NEW o \in Slot, FindNewParent(o) PROVE TypeOK' /\ RequestInv'
    <3>1. CASE Return(o)
      BY <2>10, <2>a, <2>c, <3>1, LocalStep DEF FindNewParent
    <3>2. CASE Goto(o, "circle")
      <4>1. WellFormed([op[o] EXCEPT !.pc = "circle"])
        BY <2>10, <2>b DEF FindNewParent, WellFormed, Operation
      <4> QED
        BY <2>10, <2>a, <3>2, <4>1, GotoStep, LocalStep DEF FindNewParent, Label
    <3> QED
      BY <2>10, <3>1, <3>2 DEF FindNewParent
  <2>11. ASSUME NEW o \in Slot, CheckCircular(o) PROVE TypeOK' /\ RequestInv'
    <3>1. CASE Goto(o, "path")
      <4>1. WellFormed([op[o] EXCEPT !.pc = "path"])
        BY <2>11, <2>b DEF CheckCircular, WellFormed, Operation
      <4> QED
        BY <2>11, <2>a, <3>1, <4>1, GotoStep, LocalStep DEF CheckCircular, Label
    <3>2. CASE op' = [op EXCEPT ![o].pc = "walk",
                                ![o].stack = <<<<op[o].id, None>>>>]
      <4> DEFINE y == [op[o] EXCEPT !.pc = "walk", !.stack = <<<<op[o].id, None>>>>]
      <4>1. op[o].id \in Entity
        BY <2>11, <2>b DEF CheckCircular, WellFormed, Operation, Maybe
      <4>2. <<<<op[o].id, None>>>> \in Seq(Entity \X Maybe)
        BY <4>1 DEF Maybe
      <4>3. y \in Operation
        BY <2>b, <4>2, SetLocals DEF Label
      <4>4. WellFormed(y)
        BY <2>11, <2>b DEF CheckCircular, WellFormed, Operation
      <4>5. op' = [op EXCEPT ![o] = y]
        BY <3>2
      <4> QED
        BY <2>11, <2>a, <2>d, <4>3, <4>4, <4>5, LocalStep DEF CheckCircular
    <3> QED
      BY <2>11, <3>1, <3>2 DEF CheckCircular
  <2>12. ASSUME NEW o \in Slot, GetDescendants(o) PROVE TypeOK' /\ RequestInv'
    <3> DEFINE node == Head(op[o].stack)
               list == IF node[2] = None \/ node \in Elements(op[o].list)
                         THEN op[o].list ELSE Append(op[o].list, node)
    <3>1. PICK order \in Orders(Descent(o)) :
            op' = [op EXCEPT ![o].list = list,
              ![o].stack = [i \in 1 .. Len(order) |-> <<order[i], node[1]>>]
                             \o Tail(op[o].stack)]
      BY <2>12 DEF GetDescendants, Noted
    <3> DEFINE stack == [i \in 1 .. Len(order) |-> <<order[i], node[1]>>]
                          \o Tail(op[o].stack)
               y == [op[o] EXCEPT !.list = list, !.stack = stack]
    <3>2. op[o].stack \in Seq(Entity \X Maybe) /\ op[o].stack # <<>>
          /\ op[o].list \in Seq(Entity \X Entity)
      BY <2>12, <2>b DEF GetDescendants, Operation
    <3>3. stack \in Seq(Entity \X Maybe)
      <4>1. Descent(o) \subseteq Entity
        BY DEF Descent, Children
      <4> QED
        BY <3>2, <4>1, DescentType
    <3>4. list \in Seq(Entity \X Entity)
      <4>1. node \in Entity \X Maybe
        BY <3>2
      <4>2. node[2] # None => node \in Entity \X Entity
        BY <4>1 DEF Maybe
      <4> QED
        BY <3>2, <4>2
    <3>5. op' = [op EXCEPT ![o] = y]
      BY <3>1
    <3> HIDE DEF list, stack
    <3>6. y \in Operation
      BY <2>b, <3>3, <3>4 DEF Operation
    <3>7. WellFormed(y)
      BY <2>12, <2>b DEF GetDescendants, WellFormed, Operation
    <3> QED
      BY <2>12, <2>a, <2>d, <3>5, <3>6, <3>7, LocalStep DEF GetDescendants
  <2>13. ASSUME NEW o \in Slot, DescendantsKnown(o) PROVE TypeOK' /\ RequestInv'
    <3>1. CASE Return(o)
      BY <2>13, <2>a, <2>c, <3>1, LocalStep DEF DescendantsKnown
    <3>2. CASE op' = [op EXCEPT ![o].pc = "path", ![o].list = <<>>]
      <4> DEFINE y == [op[o] EXCEPT !.pc = "path", !.list = <<>>]
      <4>1. y \in Operation
        <5>1. <<>> \in Seq(Entity \X Entity)
          OBVIOUS
        <5> QED
          BY <2>b, <5>1, SetLocals DEF Label
      <4>2. WellFormed(y)
        BY <2>13, <2>b DEF DescendantsKnown, WellFormed, Operation
      <4>3. op' = [op EXCEPT ![o] = y]
        BY <3>2
      <4> QED
        BY <2>13, <2>a, <2>d, <4>1, <4>2, <4>3, LocalStep DEF DescendantsKnown
    <3> QED
      BY <2>13, <3>1, <3>2 DEF DescendantsKnown
  <2>14. ASSUME NEW o \in Slot, WriteMove(o) PROVE TypeOK' /\ RequestInv'
    <3> DEFINE y == [op[o] EXCEPT !.pc = "rewalk", !.stack = <<<<op[o].id, None>>>>]
    <3>1. op[o].id \in Entity
      BY <2>14, <2>b DEF WriteMove, WellFormed, Operation, Maybe
    <3>2. <<<<op[o].id, None>>>> \in Seq(Entity \X Maybe)
      BY <3>1 DEF Maybe
    <3>3. y \in Operation
      BY <2>b, <3>2, SetLocals DEF Label
    <3>4. WellFormed(y)
      BY <2>14, <2>b DEF WriteMove, WellFormed, Operation
    <3>5. op' = [op EXCEPT ![o] = y]
      BY <2>14 DEF WriteMove
    <3>6. op' \in [Slot -> Operation] /\ RequestInv'
      BY <2>d, <3>3, <3>4, <3>5
    <3>7. /\ Append(op[o].path, op[o].id) \in Seq(Entity)
          /\ op[o].level \in Nat /\ op[o].parent \in Maybe
      BY <2>b, <3>1 DEF Operation
    <3> QED
      BY <2>14, <3>6, <3>7 DEF WriteMove, TypeOK, ownVars
  <2>15. ASSUME NEW o \in Slot, RewriteNext(o) PROVE TypeOK' /\ RequestInv'
    <3>1. CASE Return(o)
      BY <2>15, <2>a, <2>c, <3>1, LocalStep DEF RewriteNext
    <3>2. CASE op[o].list # <<>> /\ Goto(o, "descPath")
      <4>1. WellFormed([op[o] EXCEPT !.pc = "descPath"])
        BY <2>15, <2>b, <3>2 DEF RewriteNext, WellFormed, Operation
      <4> QED
        BY <2>15, <2>a, <3>2, <4>1, GotoStep, LocalStep DEF RewriteNext, Label
    <3> QED
      BY <2>15, <3>1, <3>2 DEF RewriteNext
  <2>e. ASSUME NEW o \in Slot, op[o].pc \in {"descPath", "descLevel", "descWrite"}
        PROVE  /\ op[o].list \in Seq(Entity \X Entity) /\ op[o].list # <<>>
               /\ Head(op[o].list)[1] \in Entity /\ Head(op[o].list)[2] \in Entity
    <3>1. op[o].list \in Seq(Entity \X Entity) /\ op[o].list # <<>>
      BY <2>e, <2>b DEF WellFormed, Operation
    <3>2. Head(op[o].list) \in Entity \X Entity
      BY <3>1
    <3> QED
      BY <3>1, <3>2
  <2>16. ASSUME NEW o \in Slot, ReadDescendantPath(o) PROVE TypeOK' /\ RequestInv'
    <3> DEFINE above == Head(op[o].list)[2]
    <3>1. CASE Return(o)
      BY <2>16, <2>a, <2>c, <3>1, LocalStep DEF ReadDescendantPath
    <3>2. CASE op' = [op EXCEPT ![o].pc = "descLevel", ![o].path = path[above]]
      <4>1. path[above] \in Seq(Entity)
        BY <2>16, <2>e DEF ReadDescendantPath, TypeOK
      <4> HIDE DEF above
      <4> DEFINE y == [op[o] EXCEPT !.pc = "descLevel", !.path = path[above]]
      <4>2. y \in Operation
        BY <2>b, <4>1, SetLocals DEF Label
      <4>3. WellFormed(y)
        BY <2>16, <2>b DEF ReadDescendantPath, WellFormed, Operation
      <4>4. op' = [op EXCEPT ![o] = y]
        BY <3>2
      <4> QED
        BY <2>16, <2>a, <2>d, <4>2, <4>3, <4>4, LocalStep DEF ReadDescendantPath
    <3> QED
      BY <2>16, <3>1, <3>2 DEF ReadDescendantPath
  <2>17. ASSUME NEW o \in Slot, ReadDescendantLevel(o) PROVE TypeOK' /\ RequestInv'
    <3> DEFINE n == LevelBelow(Head(op[o].list)[2])
    <3>1. n \in Nat
      BY <2>17, <2>e, LevelBelowNat DEF ReadDescendantLevel
    <3>2. op' = [op EXCEPT ![o].pc = "descWrite", ![o].level = n]
      BY <2>17 DEF ReadDescendantLevel
    <3> HIDE DEF n
    <3> DEFINE y == [op[o] EXCEPT !.pc = "descWrite", !.level = n]
    <3>3. y \in Operation
      BY <2>b, <3>1, SetLocals DEF Label
    <3>4. WellFormed(y)
      BY <2>17, <2>b DEF ReadDescendantLevel, WellFormed, Operation
    <3>5. op' = [op EXCEPT ![o] = y]
      BY <3>2
    <3> QED
      BY <2>17, <2>a, <2>d, <3>3, <3>4, <3>5, LocalStep DEF ReadDescendantLevel
  <2>18. ASSUME NEW o \in Slot, WriteDescendant(o) PROVE TypeOK' /\ RequestInv'
    <3> DEFINE e == Head(op[o].list)[1]
               y == [op[o] EXCEPT !.pc = "rewalk", !.list = Tail(op[o].list)]
    <3>1. e \in Entity /\ Tail(op[o].list) \in Seq(Entity \X Entity)
      BY <2>18, <2>e DEF WriteDescendant
    <3>2. y \in Operation
      BY <2>b, <3>1, SetLocals DEF Label
    <3>3. WellFormed(y)
      BY <2>18, <2>b DEF WriteDescendant, WellFormed, Operation
    <3>4. op' = [op EXCEPT ![o] = y]
      BY <2>18 DEF WriteDescendant
    <3>5. op' \in [Slot -> Operation] /\ RequestInv'
      BY <2>d, <3>2, <3>3, <3>4
    <3>6. Append(op[o].path, e) \in Seq(Entity) /\ op[o].level \in Nat
      BY <2>b, <3>1 DEF Operation
    <3>7. /\ path' = [path EXCEPT ![e] = Append(op[o].path, e)]
          /\ level' = [level EXCEPT ![e] = op[o].level]
      BY <2>18 DEF WriteDescendant
    <3> HIDE DEF e
    <3>8. path' \in [Entity -> Seq(Entity)] /\ level' \in [Entity -> Nat]
      BY <3>1, <3>6, <3>7 DEF TypeOK
    <3>9. UNCHANGED <<treeVars, ownVars, moves>>
      BY <2>18 DEF WriteDescendant
    <3> QED
      BY <3>5, <3>8, <3>9 DEF TypeOK, treeVars, ownVars
  <2>19. ASSUME NEW o \in Slot, CountDependents(o) PROVE TypeOK' /\ RequestInv'
    <3>1. CASE Return(o)
      BY <2>19, <2>a, <2>c, <3>1, LocalStep DEF CountDependents
    <3>2. CASE Goto(o, "remove")
      <4>1. WellFormed([op[o] EXCEPT !.pc = "remove"])
        BY <2>19, <2>b DEF CountDependents, WellFormed, Operation
      <4> QED
        BY <2>19, <2>a, <3>2, <4>1, GotoStep, LocalStep DEF CountDependents, Label
    <3> QED
      BY <2>19, <3>1, <3>2 DEF CountDependents
  <2>20. ASSUME NEW o \in Slot, RemoveEntity(o) PROVE TypeOK' /\ RequestInv'
    <3>1. op' \in [Slot -> Operation] /\ RequestInv'
      BY <2>20, <2>c DEF RemoveEntity
    <3> QED
      BY <2>20, <3>1 DEF RemoveEntity, TypeOK, placeVars, ownVars
  <2>21. CASE UNCHANGED vars
    BY <2>21 DEF vars, TypeOK, RequestInv, treeVars, placeVars, ownVars
  <2> QED
    BY <2>1, <2>2, <2>3, <2>4, <2>5, <2>6, <2>7, <2>8, <2>9, <2>10, <2>11, <2>12,
       <2>13, <2>14, <2>15, <2>16, <2>17, <2>18, <2>19, <2>20, <2>21
       DEF Next, Serve
<1> QED
  BY <1>1, <1>2, PTL DEF Spec

(* The type invariant: every reachable state is well typed. *)
THEOREM TypeCorrect == Spec => []TypeOK
  BY Typed, PTL

-----------------------------------------------------------------------------
(* Tenants.  What a request knows of the entities it works on: they exist, and
   what it has read of their tenant and entityIdPath is still so, because no
   operation writes these two again. *)
OwnOK(x, st, ip, tn) ==
  /\ x.by # None => st[x.by] # "absent"
  /\ x.kind = "create" /\ x.parent = None => x.idPath = <<>>
  /\ x.kind = "create" /\ x.parent # None =>
       /\ st[x.parent] # "absent"
       /\ x.tenant = tn[x.parent]
       /\ x.pc = "save" => x.idPath = ip[x.parent]
       /\ x.by # None /\ x.pc # "authorize" => tn[x.parent] = tn[x.by]
  /\ x.kind \in {"move", "remove"} =>
       /\ st[x.id] # "absent"
       /\ x.by # None /\ x.pc # "authorize" => tn[x.id] = tn[x.by]
  /\ /\ x.kind = "move" /\ x.by # None
     /\ x.pc \notin {"authorize", "authorizeParent", "newParent"}
     => st[x.parent] # "absent" /\ tn[x.parent] = tn[x.by]

OwnInv ==
  /\ IdPathWithinTenant
  /\ \A o \in Slot : OwnOK(op[o], state, idPath, tenant)

LEMMA IdleOwn == \A st, ip, tn : OwnOK(Idle, st, ip, tn)
  BY DEF OwnOK, Idle

(* A step that writes no entityIdPath and no tenant and creates nothing. *)
LEMMA OwnStep ==
  ASSUME TypeOK, OwnInv, ownVars' = ownVars,
         \A e \in Entity : state'[e] = "absent" <=> state[e] = "absent",
         NEW o \in Slot, NEW y \in Operation, WellFormed(y),
         OwnOK(y, state, idPath, tenant), op' = [op EXCEPT ![o] = y],
         RequestInv
  PROVE  OwnInv'
<1>1. idPath' = idPath /\ tenant' = tenant
  BY DEF ownVars
<1>2. IdPathWithinTenant'
  <2>1. \A e \in Entity : Elements(idPath[e]) \subseteq Entity
    BY DEF TypeOK, Elements
  <2> QED
    BY <1>1, <2>1 DEF OwnInv, IdPathWithinTenant, Elements
<1>3. \A x \in Operation :
        WellFormed(x) /\ OwnOK(x, state, idPath, tenant)
          => OwnOK(x, state', idPath', tenant')
  <2> SUFFICES ASSUME NEW x \in Operation, WellFormed(x),
                      OwnOK(x, state, idPath, tenant)
               PROVE  OwnOK(x, state', idPath, tenant)
    BY <1>1
  <2>1. x.by \in Maybe /\ x.parent \in Maybe /\ x.id \in Maybe
    BY DEF Operation
  <2>2. x.kind \in {"move", "remove"} => x.id \in Entity
    BY <2>1 DEF WellFormed, Maybe
  <2>3. x.kind = "move" /\ x.by # None => x.parent \in Entity
    BY <2>1 DEF WellFormed, Maybe
  <2> QED
    BY <2>1, <2>2, <2>3 DEF OwnOK, Maybe
<1>4. \A s \in Slot : op'[s] = IF s = o THEN y ELSE op[s]
  BY DEF TypeOK
<1>5. \A s \in Slot : op'[s] \in Operation /\ WellFormed(op'[s])
                       /\ OwnOK(op'[s], state, idPath, tenant)
  BY <1>4 DEF TypeOK, RequestInv, OwnInv
<1> QED
  BY <1>2, <1>3, <1>5 DEF OwnInv

(* Locals that are not about tenants may change. *)
LEMMA OwnKept ==
  ASSUME NEW x \in Operation, NEW y \in Operation, NEW st, NEW ip, NEW tn,
         OwnOK(x, st, ip, tn),
         y.kind = x.kind, y.by = x.by, y.parent = x.parent, y.id = x.id,
         y.tenant = x.tenant, y.idPath = x.idPath,
         x.pc = "authorize" => y.pc = "authorize",
         x.pc \in {"authorizeParent", "newParent"}
           => y.pc \in {"authorize", "authorizeParent", "newParent"},
         y.pc # "save"
  PROVE  OwnOK(y, st, ip, tn)
  BY DEF OwnOK

(* Whom an administrator may manage is of the administrator's tenant. *)
LEMMA ManagedTenant ==
  ASSUME TypeOK, IdPathWithinTenant, NEW by \in Entity, NEW e \in Entity,
         CanManage(by, e)
  PROVE  tenant[by] = tenant[e]
  BY DEF CanManage, Active, IdPathWithinTenant

(* generateEntityPath: the parent's entityIdPath and the entity itself. *)
LEMMA AppendElements ==
  ASSUME NEW seq \in Seq(Entity), NEW e \in Entity
  PROVE  /\ Append(seq, e) # <<>>
         /\ Append(seq, e)[1] = IF seq = <<>> THEN e ELSE seq[1]
         /\ Append(seq, e)[Len(Append(seq, e))] = e
         /\ Elements(Append(seq, e)) = Elements(seq) \cup {e}
<1>1. Len(Append(seq, e)) = Len(seq) + 1 /\ Len(seq) \in Nat
  OBVIOUS
<1>2. \A i \in 1 .. Len(seq) : Append(seq, e)[i] = seq[i]
  OBVIOUS
<1>3. Append(seq, e)[Len(seq) + 1] = e
  OBVIOUS
<1>4. Elements(Append(seq, e)) = Elements(seq) \cup {e}
  <2>1. \A i \in 1 .. Len(seq) + 1 : i \in 1 .. Len(seq) \/ i = Len(seq) + 1
    BY <1>1
  <2>2. Len(seq) + 1 \in 1 .. Len(seq) + 1
    BY <1>1
  <2>3. \A i \in 1 .. Len(seq) : i \in 1 .. Len(seq) + 1
    BY <1>1
  <2> QED
    BY <1>1, <1>2, <1>3, <2>1, <2>2, <2>3 DEF Elements
<1>5. seq # <<>> => 1 \in 1 .. Len(seq)
  BY <1>1
<1>6. seq = <<>> => Len(seq) + 1 = 1
  OBVIOUS
<1>7. Append(seq, e)[1] = IF seq = <<>> THEN e ELSE seq[1]
  BY <1>2, <1>3, <1>5, <1>6
<1>8. Append(seq, e)[Len(Append(seq, e))] = e
  BY <1>1, <1>3
<1>9. Append(seq, e) # <<>>
  <2>1. Len(Append(seq, e)) # Len(<<>>)
    BY <1>1
  <2> QED
    BY <2>1
<1> QED
  BY <1>4, <1>7, <1>8, <1>9

(* SaveEntity: the new entity joins the tenant of its parent; what was known
   of the others stays so. *)
LEMMA SaveOwn ==
  ASSUME TypeOK, RequestInv, OwnInv, NEW o \in Slot, NEW e \in Entity,
         SaveEntity(o, e)
  PROVE  OwnInv'
<1> DEFINE x == op[o]
           p == x.parent
<1>a. x \in Operation /\ WellFormed(x) /\ OwnOK(x, state, idPath, tenant)
  BY DEF TypeOK, RequestInv, OwnInv
<1>b. x.kind = "create" /\ x.pc = "save"
  BY <1>a DEF SaveEntity, WellFormed
<1>c. p \in Maybe /\ x.idPath \in Seq(Entity)
  BY <1>a DEF Operation
<1>d. /\ state[e] = "absent"
      /\ state' = [state EXCEPT ![e] = "active"]
      /\ idPath' = [idPath EXCEPT ![e] = Append(x.idPath, e)]
      /\ tenant' = [tenant EXCEPT ![e] = IF p = None THEN e ELSE x.tenant]
      /\ op' = [op EXCEPT ![o] = Idle]
  BY DEF SaveEntity, Return
<1>1. \A f \in Entity : f # e =>
        state'[f] = state[f] /\ idPath'[f] = idPath[f] /\ tenant'[f] = tenant[f]
  BY <1>d DEF TypeOK
<1>2. /\ state'[e] = "active" /\ idPath'[e] = Append(x.idPath, e)
      /\ tenant'[e] = IF p = None THEN e ELSE x.tenant
  BY <1>d DEF TypeOK
<1>3. p = None => x.idPath = <<>>
  BY <1>a, <1>b DEF OwnOK
<1>4. p # None => /\ p \in Entity /\ state[p] # "absent" /\ p # e
                  /\ x.tenant = tenant[p] /\ x.idPath = idPath[p]
  BY <1>a, <1>b, <1>c, <1>d DEF OwnOK, Maybe
<1>5. \A f \in Entity : Elements(idPath[f]) \subseteq Entity
  BY DEF TypeOK, Elements
<1>6. IdPathWithinTenant'
  <2> SUFFICES ASSUME NEW f \in Entity, state'[f] # "absent"
               PROVE  /\ idPath'[f] # <<>>
                      /\ idPath'[f][1] = tenant'[f]
                      /\ idPath'[f][Len(idPath'[f])] = f
                      /\ \A a \in Elements(idPath'[f]) :
                           state'[a] # "absent" /\ tenant'[a] = tenant'[f]
    BY DEF IdPathWithinTenant, Elements
  <2>1. CASE f # e
    <3>1. /\ state[f] # "absent" /\ idPath'[f] = idPath[f] /\ tenant'[f] = tenant[f]
      BY <1>1, <2>1
    <3>2. \A a \in Elements(idPath[f]) :
            a \in Entity /\ state[a] # "absent" /\ tenant[a] = tenant[f]
      BY <1>5, <3>1 DEF OwnInv, IdPathWithinTenant
    <3>3. \A a \in Elements(idPath[f]) :
            state'[a] # "absent" /\ tenant'[a] = tenant[f]
      BY <1>1, <1>d, <3>2
    <3> QED
      BY <3>1, <3>3 DEF OwnInv, IdPathWithinTenant
  <2>2. CASE f = e /\ p = None
    <3>1. Elements(<<>>) = {} /\ <<>> \in Seq(Entity)
      BY DEF Elements
    <3>2. /\ Append(<<>>, e) # <<>> /\ Append(<<>>, e)[1] = e
          /\ Append(<<>>, e)[Len(Append(<<>>, e))] = e
          /\ Elements(Append(<<>>, e)) = {e}
      <4> DEFINE none == <<>>
      <4>1. none \in Seq(Entity) /\ Elements(none) = {} /\ none = <<>>
        BY <3>1
      <4> HIDE DEF none
      <4>2. /\ Append(none, e) # <<>> /\ Append(none, e)[1] = e
            /\ Append(none, e)[Len(Append(none, e))] = e
            /\ Elements(Append(none, e)) = Elements(none) \cup {e}
        BY <4>1, AppendElements
      <4> QED
        BY <4>1, <4>2
    <3>3. /\ idPath'[e] = Append(<<>>, e) /\ tenant'[e] = e
          /\ state'[e] = "active"
      BY <1>2, <1>3, <2>2
    <3> QED
      BY <2>2, <3>2, <3>3
  <2>3. CASE f = e /\ p # None
    <3>1. /\ idPath[p] # <<>> /\ idPath[p][1] = tenant[p]
          /\ \A a \in Elements(idPath[p]) :
               a \in Entity /\ state[a] # "absent" /\ tenant[a] = tenant[p]
      BY <1>4, <1>5, <2>3 DEF OwnInv, IdPathWithinTenant
    <3>2. \A a \in Elements(idPath[p]) :
            state'[a] # "absent" /\ tenant'[a] = tenant[p]
      BY <1>1, <1>d, <3>1
    <3>3. /\ idPath'[e] = Append(idPath[p], e) /\ tenant'[e] = tenant[p]
          /\ state'[e] = "active"
      BY <1>2, <1>4, <2>3
    <3>4. idPath[p] \in Seq(Entity)
      BY <1>4, <2>3 DEF TypeOK
    <3>5. /\ Append(idPath[p], e) # <<>>
          /\ Append(idPath[p], e)[1] = idPath[p][1]
          /\ Append(idPath[p], e)[Len(Append(idPath[p], e))] = e
          /\ Elements(Append(idPath[p], e)) = Elements(idPath[p]) \cup {e}
      BY <3>1, <3>4, AppendElements
    <3>6. \A a \in Elements(idPath'[e]) : state'[a] # "absent" /\ tenant'[a] = tenant[p]
      BY <3>2, <3>3, <3>5
    <3> QED
      BY <2>3, <3>1, <3>3, <3>5, <3>6
  <2> QED
    BY <2>1, <2>2, <2>3
<1>7. \A y \in Operation :
        WellFormed(y) /\ OwnOK(y, state, idPath, tenant)
          => OwnOK(y, state', idPath', tenant')
  <2> SUFFICES ASSUME NEW y \in Operation, WellFormed(y),
                      OwnOK(y, state, idPath, tenant)
               PROVE  OwnOK(y, state', idPath', tenant')
    OBVIOUS
  <2>1. \A f \in Entity : state[f] # "absent" =>
          /\ state'[f] # "absent" /\ idPath'[f] = idPath[f]
          /\ tenant'[f] = tenant[f]
    BY <1>1, <1>d
  <2>2. y.by \in Maybe /\ y.parent \in Maybe /\ y.id \in Maybe
    BY DEF Operation
  <2>3. y.kind \in {"move", "remove"} => y.id \in Entity
    BY <2>2 DEF WellFormed, Maybe
  <2>4. y.kind = "move" /\ y.by # None => y.parent \in Entity
    BY <2>2 DEF WellFormed, Maybe
  <2>5. y.by # None => y.by \in Entity
    BY <2>2 DEF Maybe
  <2>6. y.parent # None => y.parent \in Entity
    BY <2>2 DEF Maybe
  <2> QED
    BY <2>1, <2>3, <2>4, <2>5, <2>6 DEF OwnOK
<1>8. \A s \in Slot : op'[s] = IF s = o THEN Idle ELSE op[s]
  BY <1>d DEF TypeOK
<1>9. \A s \in Slot : OwnOK(op'[s], state', idPath', tenant')
  <2> SUFFICES ASSUME NEW s \in Slot
               PROVE  OwnOK(op'[s], state', idPath', tenant')
    OBVIOUS
  <2>1. CASE s = o
    BY <1>8, <2>1, IdleOwn
  <2>2. CASE s # o
    BY <1>7, <1>8, <2>2 DEF TypeOK, RequestInv, OwnInv
  <2> QED
    BY <2>1, <2>2
<1> QED
  BY <1>6, <1>9 DEF OwnInv

(* The locals that say for whom a request works, and on what. *)
Keeps(x, y) ==
  /\ y.kind = x.kind /\ y.by = x.by /\ y.parent = x.parent /\ y.id = x.id
  /\ y.tenant = x.tenant /\ y.idPath = x.idPath

(* A step of one slot to locals y, for which the tenants are still right. *)
LEMMA OwnLocal ==
  ASSUME TypeOK, RequestInv, OwnInv, TypeOK', RequestInv',
         NEW o \in Slot, NEW y, op' = [op EXCEPT ![o] = y],
         ownVars' = ownVars,
         \A e \in Entity : state'[e] = "absent" <=> state[e] = "absent",
         OwnOK(y, state, idPath, tenant)
  PROVE  OwnInv'
<1>1. op'[o] = y
  BY DEF TypeOK
<1>2. y \in Operation /\ WellFormed(y)
  BY <1>1 DEF TypeOK, RequestInv
<1> QED
  BY <1>2, OwnStep

(* The same for a step that keeps the locals about tenants. *)
LEMMA OwnKeeping ==
  ASSUME TypeOK, RequestInv, OwnInv, TypeOK', RequestInv',
         NEW o \in Slot, NEW y, op' = [op EXCEPT ![o] = y],
         ownVars' = ownVars, state' = state,
         Keeps(op[o], y), y.pc # "save",
         op[o].pc \notin {"authorize", "authorizeParent", "newParent"}
  PROVE  OwnInv'
<1>1. op'[o] = y
  BY DEF TypeOK
<1>2. y \in Operation /\ op[o] \in Operation
  BY <1>1 DEF TypeOK
<1>3. OwnOK(op[o], state, idPath, tenant)
  BY DEF OwnInv
<1>4. OwnOK(y, state, idPath, tenant)
  BY <1>2, <1>3, OwnKept DEF Keeps
<1> QED
  BY <1>4, OwnLocal

(* A request that ends. *)
LEMMA OwnReturn ==
  ASSUME TypeOK, RequestInv, OwnInv, TypeOK', RequestInv',
         NEW o \in Slot, Return(o), ownVars' = ownVars,
         \A e \in Entity : state'[e] = "absent" <=> state[e] = "absent"
  PROVE  OwnInv'
  BY IdleOwn, OwnLocal DEF Return

(* One entityIdPath and one tenant per entity, which requests know of. *)
LEMMA Owned == Spec => []OwnInv
<1>1. Init => OwnInv
  <2>1. \A o \in Slot : Init => OwnOK(op[o], state, idPath, tenant)
    BY IdleOwn DEF Init
  <2> QED
    BY <2>1 DEF Init, OwnInv, IdPathWithinTenant
<1>2. TypeOK /\ RequestInv /\ OwnInv /\ TypeOK' /\ RequestInv' /\ [Next]_vars
        => OwnInv'
  <2> SUFFICES ASSUME TypeOK, RequestInv, OwnInv, TypeOK', RequestInv', [Next]_vars
               PROVE  OwnInv'
    OBVIOUS
  <2>b. \A o \in Slot : /\ op[o] \in Operation /\ WellFormed(op[o])
                        /\ OwnOK(op[o], state, idPath, tenant)
    BY DEF TypeOK, RequestInv, OwnInv
  <2>1. ASSUME NEW o \in Creator, NEW p \in Maybe, NEW by \in Maybe,
               StartCreate(o, p, by)
        PROVE  OwnInv'
    <3> DEFINE y == [Idle EXCEPT !.kind = "create", !.parent = p, !.by = by,
                       !.tenant = IF p = None THEN None ELSE tenant[p],
                       !.pc = IF p = None THEN "save"
                              ELSE IF by = None THEN "path" ELSE "authorize"]
    <3>1. OwnOK(y, state, idPath, tenant)
      BY <2>1 DEF StartCreate, Caller, Active, OwnOK, Idle
    <3>2. op' = [op EXCEPT ![o] = y] /\ ownVars' = ownVars /\ state' = state
      BY <2>1 DEF StartCreate, treeVars
    <3> HIDE DEF y
    <3> QED
      BY <3>1, <3>2, OwnLocal DEF Slot
  <2>2. ASSUME NEW o \in Mover, NEW e \in Entity, NEW p \in Maybe,
               NEW by \in Maybe, StartMove(o, e, p, by)
        PROVE  OwnInv'
    <3> DEFINE y == [Idle EXCEPT !.kind = "move", !.id = e, !.parent = p, !.by = by,
                       !.pc = IF by # None THEN "authorize"
                              ELSE IF p = None THEN "write" ELSE "newParent"]
    <3>1. OwnOK(y, state, idPath, tenant)
      BY <2>2 DEF StartMove, Caller, Active, OwnOK, Idle
    <3>2. op' = [op EXCEPT ![o] = y] /\ ownVars' = ownVars /\ state' = state
      BY <2>2 DEF StartMove, treeVars
    <3> HIDE DEF y
    <3> QED
      BY <3>1, <3>2, OwnLocal DEF Slot
  <2>3. ASSUME NEW o \in Remover, NEW e \in Entity, NEW by \in Maybe,
               StartRemove(o, e, by)
        PROVE  OwnInv'
    <3> DEFINE y == [Idle EXCEPT !.kind = "remove", !.id = e, !.by = by,
                       !.pc = IF by = None THEN "count" ELSE "authorize"]
    <3>1. OwnOK(y, state, idPath, tenant)
      BY <2>3 DEF StartRemove, Caller, Active, OwnOK, Idle
    <3>2. op' = [op EXCEPT ![o] = y] /\ ownVars' = ownVars /\ state' = state
      BY <2>3 DEF StartRemove, treeVars
    <3> HIDE DEF y
    <3> QED
      BY <3>1, <3>2, OwnLocal DEF Slot
  <2>4. ASSUME NEW o \in Slot, Authorize(o) PROVE OwnInv'
    <3>1. ownVars' = ownVars /\ state' = state
      BY <2>4 DEF Authorize, treeVars
    <3>2. CASE Return(o)
      BY <3>1, <3>2, OwnReturn
    <3>3. CASE ~Return(o)
      <4> DEFINE target == IF op[o].kind = "create" THEN op[o].parent ELSE op[o].id
                 l == CASE op[o].kind = "create" -> "path"
                        [] op[o].kind = "move"   -> "authorizeParent"
                        [] op[o].kind = "remove" -> "count"
                 y == [op[o] EXCEPT !.pc = l]
      <4>1. CanManage(op[o].by, target) /\ op' = [op EXCEPT ![o] = y]
        BY <2>4, <3>3 DEF Authorize, Goto
      <4>2. op[o].pc = "authorize" /\ op[o].kind \in {"create", "move", "remove"}
        BY <2>4, <2>b DEF Authorize, WellFormed, Operation
      <4>3. op[o].by \in Entity /\ target \in Entity
        BY <2>b, <4>2 DEF WellFormed, Operation, Maybe
      <4>4. tenant[op[o].by] = tenant[target]
        BY <4>1, <4>3, ManagedTenant DEF OwnInv
      <4>5. l \in {"path", "authorizeParent", "count"}
            /\ (l # "authorizeParent" => op[o].kind # "move")
        BY <4>2
      <4>6. Keeps(op[o], y) /\ y.pc = l
        BY <2>b DEF Operation, Keeps
      <4> HIDE DEF l, y
      <4>7. OwnOK(y, state, idPath, tenant)
        BY <2>b, <4>2, <4>4, <4>5, <4>6 DEF OwnOK, Keeps
      <4> QED
        BY <3>1, <4>1, <4>7, OwnLocal
    <3> QED
      BY <3>2, <3>3
  <2>5. ASSUME NEW o \in Slot, GeneratePath(o) PROVE OwnInv'
    <3>1. ownVars' = ownVars /\ state' = state /\ op[o].pc = "path"
      BY <2>5 DEF GeneratePath, treeVars
    <3>2. CASE Return(o)
      BY <3>1, <3>2, OwnReturn
    <3>3. CASE ~Return(o)
      <4> DEFINE y == [op[o] EXCEPT !.pc = "level", !.path = path[op[o].parent]]
      <4>1. op' = [op EXCEPT ![o] = y]
        BY <2>5, <3>3 DEF GeneratePath
      <4>2. Keeps(op[o], y) /\ y.pc = "level"
        BY <2>b DEF Operation, Keeps
      <4> HIDE DEF y
      <4> QED
        BY <3>1, <4>1, <4>2, OwnKeeping
    <3> QED
      BY <3>2, <3>3
  <2>6. ASSUME NEW o \in Slot, CalculateLevel(o) PROVE OwnInv'
    <3> DEFINE l == IF op[o].kind = "create" THEN "idPath" ELSE "write"
               y == [op[o] EXCEPT !.pc = l, !.level = LevelBelow(op[o].parent)]
    <3>1. ownVars' = ownVars /\ state' = state /\ op[o].pc = "level"
      BY <2>6 DEF CalculateLevel, treeVars
    <3>2. op' = [op EXCEPT ![o] = y]
      BY <2>6 DEF CalculateLevel
    <3>3. Keeps(op[o], y) /\ y.pc = l
      BY <2>b DEF Operation, Keeps
    <3>4. l # "save"
      OBVIOUS
    <3> HIDE DEF l, y
    <3> QED
      BY <3>1, <3>2, <3>3, <3>4, OwnKeeping
  <2>7. ASSUME NEW o \in Slot, GenerateEntityPath(o) PROVE OwnInv'
    <3>1. ownVars' = ownVars /\ state' = state /\ op[o].pc = "idPath"
      BY <2>7 DEF GenerateEntityPath, treeVars
    <3>2. CASE Return(o)
      BY <3>1, <3>2, OwnReturn
    <3>3. CASE ~Return(o)
      <4> DEFINE y == [op[o] EXCEPT !.pc = "save", !.idPath = idPath[op[o].parent]]
      <4>1. op' = [op EXCEPT ![o] = y]
        BY <2>7, <3>3 DEF GenerateEntityPath
      <4>2. /\ y.kind = op[o].kind /\ y.by = op[o].by /\ y.parent = op[o].parent
            /\ y.tenant = op[o].tenant /\ y.idPath = idPath[op[o].parent]
        BY <2>b DEF Operation
      <4>3. op[o].kind = "create" /\ op[o].parent # None
        BY <2>b, <3>1 DEF WellFormed
      <4> HIDE DEF y
      <4>4. OwnOK(y, state, idPath, tenant)
        BY <2>b, <3>1, <4>2, <4>3 DEF OwnOK
      <4> QED
        BY <3>1, <4>1, <4>4, OwnLocal
    <3> QED
      BY <3>2, <3>3
  <2>8. ASSUME NEW o \in Slot, NEW e \in Entity, SaveEntity(o, e) PROVE OwnInv'
    BY <2>8, SaveOwn
  <2>9. ASSUME NEW o \in Slot, AuthorizeParent(o) PROVE OwnInv'
    <3>1. ownVars' = ownVars /\ state' = state /\ op[o].pc = "authorizeParent"
      BY <2>9 DEF AuthorizeParent, treeVars
    <3>2. CASE Return(o)
      BY <3>1, <3>2, OwnReturn
    <3>3. CASE ~Return(o)
      <4> DEFINE y == [op[o] EXCEPT !.pc = "newParent"]
      <4>1. op' = [op EXCEPT ![o] = y]
        BY <2>9, <3>3 DEF AuthorizeParent, Goto
      <4>2. Keeps(op[o], y) /\ y.pc = "newParent"
        BY <2>b DEF Operation, Keeps
      <4>3. op[o].kind = "move"
        BY <2>b, <3>1 DEF WellFormed
      <4> HIDE DEF y
      <4>4. OwnOK(y, state, idPath, tenant)
        BY <2>b, <3>1, <4>2, <4>3 DEF OwnOK, Keeps
      <4> QED
        BY <3>1, <4>1, <4>4, OwnLocal
    <3> QED
      BY <3>2, <3>3
  <2>10. ASSUME NEW o \in Slot, FindNewParent(o) PROVE OwnInv'
    <3>1. ownVars' = ownVars /\ state' = state /\ op[o].pc = "newParent"
      BY <2>10 DEF FindNewParent, treeVars
    <3>2. CASE Return(o)
      BY <3>1, <3>2, OwnReturn
    <3>3. CASE ~Return(o)
      <4> DEFINE y == [op[o] EXCEPT !.pc = "circle"]
      <4>1. /\ op' = [op EXCEPT ![o] = y] /\ state[op[o].parent] # "absent"
            /\ op[o].by # None => tenant[op[o].parent] = tenant[op[o].by]
        BY <2>10, <3>3 DEF FindNewParent, Goto, Active
      <4>2. Keeps(op[o], y) /\ y.pc = "circle"
        BY <2>b DEF Operation, Keeps
      <4>3. op[o].kind = "move"
        BY <2>b, <3>1 DEF WellFormed
      <4> HIDE DEF y
      <4>4. OwnOK(y, state, idPath, tenant)
        BY <2>b, <3>1, <4>1, <4>2, <4>3 DEF OwnOK, Keeps
      <4> QED
        BY <3>1, <4>1, <4>4, OwnLocal
    <3> QED
      BY <3>2, <3>3
  <2>11. ASSUME NEW o \in Slot, CheckCircular(o) PROVE OwnInv'
    <3>1. ownVars' = ownVars /\ state' = state /\ op[o].pc = "circle"
      BY <2>11 DEF CheckCircular, treeVars
    <3>2. CASE Goto(o, "path")
      <4> DEFINE y == [op[o] EXCEPT !.pc = "path"]
      <4>1. op' = [op EXCEPT ![o] = y]
        BY <3>2 DEF Goto
      <4>2. Keeps(op[o], y) /\ y.pc = "path"
        BY <2>b DEF Operation, Keeps
      <4> HIDE DEF y
      <4> QED
        BY <3>1, <4>1, <4>2, OwnKeeping
    <3>3. CASE ~Goto(o, "path")
      <4> DEFINE y == [op[o] EXCEPT !.pc = "walk", !.stack = <<<<op[o].id, None>>>>]
      <4>1. op' = [op EXCEPT ![o] = y]
        BY <2>11, <3>3 DEF CheckCircular
      <4>2. Keeps(op[o], y) /\ y.pc = "walk"
        BY <2>b DEF Operation, Keeps
      <4> HIDE DEF y
      <4> QED
        BY <3>1, <4>1, <4>2, OwnKeeping
    <3> QED
      BY <3>2, <3>3
  <2>12. ASSUME NEW o \in Slot, GetDescendants(o) PROVE OwnInv'
    <3>1. /\ ownVars' = ownVars /\ state' = state
          /\ op[o].pc \in {"walk", "rewalk"}
      BY <2>12 DEF GetDescendants, treeVars
    <3>2. \E list, stack : op' = [op EXCEPT ![o].list = list, ![o].stack = stack]
      BY <2>12 DEF GetDescendants
    <3>3. PICK list, stack :
            op' = [op EXCEPT ![o].list = list, ![o].stack = stack]
      BY <3>2
    <3> DEFINE y == [op[o] EXCEPT !.list = list, !.stack = stack]
    <3>4. op' = [op EXCEPT ![o] = y]
      BY <3>3
    <3>5. Keeps(op[o], y) /\ y.pc = op[o].pc
      BY <2>b DEF Operation, Keeps
    <3> HIDE DEF y
    <3> QED
      BY <3>1, <3>4, <3>5, OwnKeeping
  <2>13. ASSUME NEW o \in Slot, DescendantsKnown(o) PROVE OwnInv'
    <3>1. ownVars' = ownVars /\ state' = state /\ op[o].pc = "walk"
      BY <2>13 DEF DescendantsKnown, treeVars
    <3>2. CASE Return(o)
      BY <3>1, <3>2, OwnReturn
    <3>3. CASE ~Return(o)
      <4> DEFINE y == [op[o] EXCEPT !.pc = "path", !.list = <<>>]
      <4>1. op' = [op EXCEPT ![o] = y]
        BY <2>13, <3>3 DEF DescendantsKnown
      <4>2. Keeps(op[o], y) /\ y.pc = "path"
        BY <2>b DEF Operation, Keeps
      <4> HIDE DEF y
      <4> QED
        BY <3>1, <4>1, <4>2, OwnKeeping
    <3> QED
      BY <3>2, <3>3
  <2>14. ASSUME NEW o \in Slot, WriteMove(o) PROVE OwnInv'
    <3> DEFINE y == [op[o] EXCEPT !.pc = "rewalk", !.stack = <<<<op[o].id, None>>>>]
    <3>1. ownVars' = ownVars /\ state' = state /\ op[o].pc = "write"
      BY <2>14 DEF WriteMove, treeVars
    <3>2. op' = [op EXCEPT ![o] = y]
      BY <2>14 DEF WriteMove
    <3>3. Keeps(op[o], y) /\ y.pc = "rewalk"
      BY <2>b DEF Operation, Keeps
    <3> HIDE DEF y
    <3> QED
      BY <3>1, <3>2, <3>3, OwnKeeping
  <2>15. ASSUME NEW o \in Slot, RewriteNext(o) PROVE OwnInv'
    <3>1. ownVars' = ownVars /\ state' = state /\ op[o].pc = "rewalk"
      BY <2>15 DEF RewriteNext, treeVars
    <3>2. CASE Return(o)
      BY <3>1, <3>2, OwnReturn
    <3>3. CASE ~Return(o)
      <4> DEFINE y == [op[o] EXCEPT !.pc = "descPath"]
      <4>1. op' = [op EXCEPT ![o] = y]
        BY <2>15, <3>3 DEF RewriteNext, Goto
      <4>2. Keeps(op[o], y) /\ y.pc = "descPath"
        BY <2>b DEF Operation, Keeps
      <4> HIDE DEF y
      <4> QED
        BY <3>1, <4>1, <4>2, OwnKeeping
    <3> QED
      BY <3>2, <3>3
  <2>16. ASSUME NEW o \in Slot, ReadDescendantPath(o) PROVE OwnInv'
    <3>1. ownVars' = ownVars /\ state' = state /\ op[o].pc = "descPath"
      BY <2>16 DEF ReadDescendantPath, treeVars
    <3>2. CASE Return(o)
      BY <3>1, <3>2, OwnReturn
    <3>3. CASE ~Return(o)
      <4> DEFINE y == [op[o] EXCEPT !.pc = "descLevel",
                              !.path = path[Head(op[o].list)[2]]]
      <4>1. op' = [op EXCEPT ![o] = y]
        BY <2>16, <3>3 DEF ReadDescendantPath
      <4>2. Keeps(op[o], y) /\ y.pc = "descLevel"
        BY <2>b DEF Operation, Keeps
      <4> HIDE DEF y
      <4> QED
        BY <3>1, <4>1, <4>2, OwnKeeping
    <3> QED
      BY <3>2, <3>3
  <2>17. ASSUME NEW o \in Slot, ReadDescendantLevel(o) PROVE OwnInv'
    <3> DEFINE y == [op[o] EXCEPT !.pc = "descWrite",
                            !.level = LevelBelow(Head(op[o].list)[2])]
    <3>1. ownVars' = ownVars /\ state' = state /\ op[o].pc = "descLevel"
      BY <2>17 DEF ReadDescendantLevel, treeVars
    <3>2. op' = [op EXCEPT ![o] = y]
      BY <2>17 DEF ReadDescendantLevel
    <3>3. Keeps(op[o], y) /\ y.pc = "descWrite"
      BY <2>b DEF Operation, Keeps
    <3> HIDE DEF y
    <3> QED
      BY <3>1, <3>2, <3>3, OwnKeeping
  <2>18. ASSUME NEW o \in Slot, WriteDescendant(o) PROVE OwnInv'
    <3> DEFINE y == [op[o] EXCEPT !.pc = "rewalk", !.list = Tail(op[o].list)]
    <3>1. ownVars' = ownVars /\ state' = state /\ op[o].pc = "descWrite"
      BY <2>18 DEF WriteDescendant, treeVars
    <3>2. op' = [op EXCEPT ![o] = y]
      BY <2>18 DEF WriteDescendant
    <3>3. Keeps(op[o], y) /\ y.pc = "rewalk"
      BY <2>b DEF Operation, Keeps
    <3> HIDE DEF y
    <3> QED
      BY <3>1, <3>2, <3>3, OwnKeeping
  <2>19. ASSUME NEW o \in Slot, CountDependents(o) PROVE OwnInv'
    <3>1. ownVars' = ownVars /\ state' = state /\ op[o].pc = "count"
      BY <2>19 DEF CountDependents, treeVars
    <3>2. CASE Return(o)
      BY <3>1, <3>2, OwnReturn
    <3>3. CASE ~Return(o)
      <4> DEFINE y == [op[o] EXCEPT !.pc = "remove"]
      <4>1. op' = [op EXCEPT ![o] = y]
        BY <2>19, <3>3 DEF CountDependents, Goto
      <4>2. Keeps(op[o], y) /\ y.pc = "remove"
        BY <2>b DEF Operation, Keeps
      <4> HIDE DEF y
      <4> QED
        BY <3>1, <4>1, <4>2, OwnKeeping
    <3> QED
      BY <3>2, <3>3
  <2>20. ASSUME NEW o \in Slot, RemoveEntity(o) PROVE OwnInv'
    <3>1. op[o].id \in Entity
      BY <2>20, <2>b DEF RemoveEntity, WellFormed, Operation, Maybe
    <3>2. state[op[o].id] # "absent"
      BY <2>20, <2>b DEF RemoveEntity, WellFormed, OwnOK
    <3>3. \A e \in Entity : state'[e] = "absent" <=> state[e] = "absent"
      BY <2>20, <3>1, <3>2 DEF RemoveEntity, TypeOK
    <3> QED
      BY <2>20, <3>3, OwnReturn DEF RemoveEntity
  <2>21. CASE UNCHANGED vars
    BY <2>21 DEF vars, OwnInv, IdPathWithinTenant, treeVars, ownVars
  <2> QED
    BY <2>1, <2>2, <2>3, <2>4, <2>5, <2>6, <2>7, <2>8, <2>9, <2>10, <2>11, <2>12,
       <2>13, <2>14, <2>15, <2>16, <2>17, <2>18, <2>19, <2>20, <2>21
       DEF Next, Serve
<1> QED
  BY <1>1, <1>2, Typed, PTL DEF Spec

(* What authorization and queries go by agree: the entityIdPath of an entity
   starts at its tenant and stays within it. *)
THEOREM IdPathCorrect == Spec => []IdPathWithinTenant
<1>1. OwnInv => IdPathWithinTenant
  BY DEF OwnInv
<1> QED
  BY <1>1, Owned, PTL

(* A tenant administrator's request that is about to write works within the
   tenant, whatever system administrators move meanwhile. *)
THEOREM TenantsIsolated == Spec => []TenantIsolation
<1>1. TypeOK /\ RequestInv /\ OwnInv => TenantIsolation
  <2> SUFFICES ASSUME TypeOK, RequestInv, OwnInv, NEW o \in Slot,
                      op[o].by # None, op[o].pc \in {"save", "write", "remove"}
               PROVE  /\ op[o].kind # "create" => tenant[op[o].id] = tenant[op[o].by]
                      /\ op[o].kind # "remove" =>
                           tenant[op[o].parent] = tenant[op[o].by]
    BY DEF TenantIsolation
  <2>1. WellFormed(op[o]) /\ OwnOK(op[o], state, idPath, tenant)
    BY DEF RequestInv, OwnInv
  <2> QED
    BY <2>1 DEF WellFormed, OwnOK
<1> QED
  BY <1>1, Typed, Owned, PTL

-----------------------------------------------------------------------------
(* The shape of a step that writes neither state nor parent: what the request was
   asked stays, and only a few steps say something about the tree. *)
Same(x, y) == y.kind = x.kind /\ y.id = x.id /\ y.parent = x.parent /\ y.by = x.by

(* One call of getAllDescendants. *)
Descends(x, y) ==
  /\ \E order \in Orders(Children(Head(x.stack)[1])) :
       y.stack = [i \in 1 .. Len(order) |-> <<order[i], Head(x.stack)[1]>>]
                   \o Tail(x.stack)
  /\ y.list = IF Head(x.stack)[2] = None \/ Head(x.stack) \in Elements(x.list)
                THEN x.list ELSE Append(x.list, Head(x.stack))

Advance(x, y) ==
  /\ Same(x, y)
  /\ \/ /\ x.pc \in {"authorize", "authorizeParent"} /\ y.list = x.list
        /\ y.pc \in {"authorizeParent", "newParent", "count"}
     \/ y.pc \in {"rewalk", "descPath", "descLevel", "descWrite"}
     \/ x.pc = "level" /\ y.pc = "idPath"
     \/ x.pc = "idPath" /\ y.pc = "save" /\ Active(x.parent)
     \/ y.pc \in {"path", "level"} /\ y.kind = "create"
     \/ y.pc = "level" /\ x.pc = "path" /\ Active(x.parent)
     \/ y.pc = "write" /\ x.pc = "level"
     \/ x.pc = "newParent" /\ y.pc = "circle" /\ y.list = x.list /\ Active(x.parent)
     \/ /\ x.pc = "circle" /\ y.pc = "walk"
        /\ y.list = x.list /\ y.stack = <<<<x.id, None>>>>
     \/ /\ x.pc = "circle" /\ y.pc = "path"
        /\ \A e \in Entity \ {x.id} : ~Active(e)
     \/ /\ x.pc = "walk" /\ y.pc = "path" /\ x.stack = <<>>
        /\ \A node \in Elements(x.list) : node[1] # x.parent
     \/ /\ x.pc = "walk" /\ y.pc = "walk" /\ x.stack # <<>>
        /\ Descends(x, y)
     \/ x.pc = "count" /\ y.pc = "remove" /\ Childless(x.id)

LEMMA GotoFields ==
  ASSUME op \in [Slot -> Operation], NEW o \in Slot, NEW l, Goto(o, l)
  PROVE  /\ op' = [op EXCEPT ![o] = op'[o]]
         /\ Same(op[o], op'[o]) /\ op'[o].pc = l
         /\ op'[o].list = op[o].list /\ op'[o].stack = op[o].stack
<1>1. op'[o] = [op[o] EXCEPT !.pc = l] /\ op[o] \in Operation
  BY DEF Goto
<1>2. op' = [op EXCEPT ![o] = op'[o]]
  BY <1>1 DEF Goto
<1> QED
  BY <1>1, <1>2 DEF Same, Operation

LEMMA ReturnFields ==
  ASSUME op \in [Slot -> Operation], NEW o \in Slot, Return(o)
  PROVE  op' = [op EXCEPT ![o] = op'[o]] /\ op'[o] = Idle
  BY DEF Return

LEMMA ServeShape ==
  ASSUME TypeOK, RequestInv, NEW o \in Slot, Serve(o),
         op[o].pc \notin {"write", "remove"}
  PROVE  /\ UNCHANGED <<state, parent>>
         /\ op' = [op EXCEPT ![o] = op'[o]]
         /\ op'[o] = Idle \/ Advance(op[o], op'[o])
<1> DEFINE x == op[o]
           Shape == /\ UNCHANGED <<state, parent>>
                    /\ op' = [op EXCEPT ![o] = op'[o]]
                    /\ op'[o] = Idle \/ Advance(op[o], op'[o])
<1>a. op \in [Slot -> Operation] /\ op[o] \in Operation /\ WellFormed(op[o])
  BY DEF TypeOK, RequestInv
<1>r. ASSUME Return(o), UNCHANGED <<state, parent>> PROVE Shape
  BY <1>a, <1>r, ReturnFields
<1>1. CASE Authorize(o)
  <2>1. UNCHANGED <<state, parent>> /\ op[o].pc = "authorize"
    BY <1>1 DEF Authorize, treeVars
  <2>2. ASSUME NEW l \in {"path", "authorizeParent", "count"}, Goto(o, l),
               l = "path" => op[o].kind = "create"
        PROVE  Shape
    BY <1>a, <2>1, <2>2, GotoFields DEF Advance, Same
  <2>3. op[o].kind \in {"create", "move", "remove"}
    BY <1>1, <1>a DEF Authorize, WellFormed, Operation
  <2>4. CASE op[o].kind = "create"
    BY <1>1, <1>r, <2>1, <2>2, <2>4 DEF Authorize
  <2>5. CASE op[o].kind = "move"
    BY <1>1, <1>r, <2>1, <2>2, <2>5 DEF Authorize
  <2>6. CASE op[o].kind = "remove"
    BY <1>1, <1>r, <2>1, <2>2, <2>6 DEF Authorize
  <2> QED
    BY <2>3, <2>4, <2>5, <2>6
<1>2. CASE GeneratePath(o)
  <2>1. UNCHANGED <<state, parent>> /\ op[o].pc = "path"
    BY <1>2 DEF GeneratePath, treeVars
  <2>2. CASE /\ Active(op[o].parent)
             /\ op' = [op EXCEPT ![o].pc = "level", ![o].path = path[op[o].parent]]
    <3>1. op'[o] = [op[o] EXCEPT !.pc = "level", !.path = path[op[o].parent]]
      BY <1>a, <2>2
    <3>2. op'[o].pc = "level" /\ Same(op[o], op'[o])
      BY <1>a, <3>1 DEF Operation, Same
    <3>3. op' = [op EXCEPT ![o] = op'[o]]
      BY <1>a, <2>2, <3>1
    <3> QED
      BY <2>1, <2>2, <3>2, <3>3 DEF Advance
  <2> QED
    BY <1>2, <1>r, <2>1, <2>2 DEF GeneratePath
<1>3. CASE CalculateLevel(o)
  <2> DEFINE l == IF op[o].kind = "create" THEN "idPath" ELSE "write"
             v == LevelBelow(op[o].parent)
  <2>1. UNCHANGED <<state, parent>> /\ op[o].pc = "level"
        /\ op' = [op EXCEPT ![o].pc = l, ![o].level = v]
    BY <1>3 DEF CalculateLevel, treeVars
  <2> HIDE DEF v
  <2>2. op'[o] = [op[o] EXCEPT !.pc = l, !.level = v]
    BY <1>a, <2>1
  <2>3. op'[o].pc = l /\ Same(op[o], op'[o])
    BY <1>a, <2>2 DEF Operation, Same
  <2>4. op' = [op EXCEPT ![o] = op'[o]]
    BY <1>a, <2>1, <2>2
  <2> QED
    BY <2>1, <2>3, <2>4 DEF Advance
<1>4. CASE GenerateEntityPath(o)
  <2>1. UNCHANGED <<state, parent>> /\ op[o].pc = "idPath"
    BY <1>4 DEF GenerateEntityPath, treeVars
  <2>2. CASE /\ Active(op[o].parent)
             /\ op' = [op EXCEPT ![o].pc = "save", ![o].idPath = idPath[op[o].parent]]
    <3>1. op'[o] = [op[o] EXCEPT !.pc = "save", !.idPath = idPath[op[o].parent]]
      BY <1>a, <2>2
    <3>2. op'[o].pc = "save" /\ Same(op[o], op'[o])
      BY <1>a, <3>1 DEF Operation, Same
    <3>3. op' = [op EXCEPT ![o] = op'[o]]
      BY <1>a, <2>2, <3>1
    <3> QED
      BY <2>1, <2>2, <3>2, <3>3 DEF Advance
  <2> QED
    BY <1>4, <1>r, <2>1, <2>2 DEF GenerateEntityPath
<1>5. CASE AuthorizeParent(o)
  <2>1. UNCHANGED <<state, parent>> /\ op[o].pc = "authorizeParent"
    BY <1>5 DEF AuthorizeParent, treeVars
  <2>2. CASE Goto(o, "newParent")
    BY <1>a, <2>1, <2>2, GotoFields DEF Advance
  <2> QED
    BY <1>5, <1>r, <2>1, <2>2 DEF AuthorizeParent
<1>6. CASE FindNewParent(o)
  <2>1. UNCHANGED <<state, parent>> /\ op[o].pc = "newParent"
    BY <1>6 DEF FindNewParent, treeVars
  <2>2. CASE Goto(o, "circle") /\ Active(op[o].parent)
    BY <1>a, <2>1, <2>2, GotoFields DEF Advance
  <2> QED
    BY <1>6, <1>r, <2>1, <2>2 DEF FindNewParent
<1>7. CASE CheckCircular(o)
  <2>1. UNCHANGED <<state, parent>> /\ op[o].pc = "circle"
    BY <1>7 DEF CheckCircular, treeVars
  <2>2. CASE op' = [op EXCEPT ![o].pc = "walk", ![o].stack = <<<<op[o].id, None>>>>]
    <3> DEFINE v == <<<<op[o].id, None>>>>
    <3>1. op' = [op EXCEPT ![o].pc = "walk", ![o].stack = v]
      BY <2>2
    <3> HIDE DEF v
    <3>2. op'[o] = [op[o] EXCEPT !.pc = "walk", !.stack = v]
      BY <1>a, <3>1
    <3>3. op'[o].pc = "walk" /\ Same(op[o], op'[o])
          /\ op'[o].list = op[o].list /\ op'[o].stack = v
      BY <1>a, <3>2 DEF Operation, Same
    <3>4. op' = [op EXCEPT ![o] = op'[o]]
      BY <1>a, <3>1, <3>2
    <3> QED
      BY <2>1, <3>3, <3>4 DEF Advance, v
  <2>3. CASE Goto(o, "path") /\ \A e \in Entity \ {op[o].id} : ~Active(e)
    BY <1>a, <2>1, <2>3, GotoFields DEF Advance
  <2> QED
    BY <1>7, <2>2, <2>3 DEF CheckCircular
<1>8. CASE GetDescendants(o)
  <2>1. UNCHANGED <<state, parent>> /\ op[o].pc \in {"walk", "rewalk"}
        /\ op[o].stack # <<>>
    BY <1>8 DEF GetDescendants, treeVars
  <2> DEFINE ls == IF Head(op[o].stack)[2] = None \/ Head(op[o].stack) \in Elements(op[o].list)
                     THEN op[o].list ELSE Append(op[o].list, Head(op[o].stack))
             st(order) == [i \in 1 .. Len(order) |-> <<order[i], Head(op[o].stack)[1]>>]
                            \o Tail(op[o].stack)
  <2>2. PICK order \in Orders(Children(Head(op[o].stack)[1])) :
          op' = [op EXCEPT ![o].list = ls, ![o].stack = st(order)]
    BY <1>8 DEF GetDescendants, Noted, Descent
  <2>3. PICK s, l : s = st(order) /\ l = ls /\ op' = [op EXCEPT ![o].list = l, ![o].stack = s]
    BY <2>2
  <2>a. s = st(order) /\ l = ls
    BY <2>3
  <2> HIDE DEF st, ls
  <2>4. op'[o] = [op[o] EXCEPT !.list = l, !.stack = s]
    BY <1>a, <2>3
  <2>5. op'[o].pc = op[o].pc /\ Same(op[o], op'[o])
        /\ op'[o].list = l /\ op'[o].stack = s
    BY <1>a, <2>4 DEF Operation, Same
  <2>6. op' = [op EXCEPT ![o] = op'[o]]
    BY <1>a, <2>3, <2>4
  <2>7. CASE op[o].pc = "rewalk"
    BY <2>1, <2>5, <2>6, <2>7 DEF Advance
  <2>8. CASE op[o].pc = "walk"
    <3>1. /\ op'[o].stack = st(order)
          /\ op'[o].list = IF Head(op[o].stack)[2] = None
                               \/ Head(op[o].stack) \in Elements(op[o].list)
                             THEN op[o].list ELSE Append(op[o].list, Head(op[o].stack))
      BY <2>a, <2>5 DEF st, ls
    <3>2. Advance(op[o], op'[o])
      <4>1. Descends(op[o], op'[o])
        BY <2>2, <3>1 DEF Descends, st
      <4>2. /\ Same(op[o], op'[o]) /\ op[o].pc = "walk" /\ op'[o].pc = "walk"
            /\ op[o].stack # <<>>
        BY <2>1, <2>5, <2>8
      <4> QED
        BY <4>1, <4>2, SMTT(30) DEF Advance
    <3> QED
      BY <2>1, <2>6, <3>2
  <2> QED
    BY <2>1, <2>7, <2>8
<1>9. CASE DescendantsKnown(o)
  <2>1. UNCHANGED <<state, parent>> /\ op[o].pc = "walk" /\ op[o].stack = <<>>
    BY <1>9 DEF DescendantsKnown, treeVars
  <2>2. CASE NotBelow(o) /\ op' = [op EXCEPT ![o].pc = "path", ![o].list = <<>>]
    <3>1. op'[o] = [op[o] EXCEPT !.pc = "path", !.list = <<>>]
      BY <1>a, <2>2
    <3>2. op'[o].pc = "path" /\ Same(op[o], op'[o])
      BY <1>a, <3>1 DEF Operation, Same
    <3>3. op' = [op EXCEPT ![o] = op'[o]]
      BY <1>a, <2>2, <3>1
    <3> QED
      BY <2>1, <2>2, <3>2, <3>3 DEF Advance, NotBelow
  <2> QED
    BY <1>9, <1>r, <2>1, <2>2 DEF DescendantsKnown
<1>10. CASE RewriteNext(o)
  <2>1. UNCHANGED <<state, parent>>
    BY <1>10 DEF RewriteNext, treeVars
  <2>2. CASE Goto(o, "descPath")
    BY <1>a, <2>1, <2>2, GotoFields DEF Advance
  <2> QED
    BY <1>10, <1>r, <2>1, <2>2 DEF RewriteNext
<1>11. CASE ReadDescendantPath(o)
  <2>1. UNCHANGED <<state, parent>>
    BY <1>11 DEF ReadDescendantPath, treeVars
  <2>2. ASSUME NEW v, op' = [op EXCEPT ![o].pc = "descLevel", ![o].path = v] PROVE Shape
    <3>1. op'[o] = [op[o] EXCEPT !.pc = "descLevel", !.path = v]
      BY <1>a, <2>2
    <3>2. op'[o].pc = "descLevel" /\ Same(op[o], op'[o])
      BY <1>a, <3>1 DEF Operation, Same
    <3>3. op' = [op EXCEPT ![o] = op'[o]]
      BY <1>a, <2>2, <3>1
    <3> QED
      BY <2>1, <3>2, <3>3 DEF Advance
  <2> QED
    BY <1>11, <1>r, <2>1, <2>2 DEF ReadDescendantPath
<1>12. CASE ReadDescendantLevel(o)
  <2>1. PICK v : op' = [op EXCEPT ![o].pc = "descWrite", ![o].level = v]
    BY <1>12 DEF ReadDescendantLevel
  <2>2. op'[o] = [op[o] EXCEPT !.pc = "descWrite", !.level = v]
    BY <1>a, <2>1
  <2>3. op'[o].pc = "descWrite" /\ Same(op[o], op'[o])
    BY <1>a, <2>2 DEF Operation, Same
  <2>4. op' = [op EXCEPT ![o] = op'[o]]
    BY <1>a, <2>1, <2>2
  <2> QED
    BY <1>12, <2>3, <2>4 DEF Advance, ReadDescendantLevel, treeVars
<1>13. CASE WriteDescendant(o)
  <2>1. PICK v : op' = [op EXCEPT ![o].pc = "rewalk", ![o].list = v]
    BY <1>13 DEF WriteDescendant
  <2>2. op'[o] = [op[o] EXCEPT !.pc = "rewalk", !.list = v]
    BY <1>a, <2>1
  <2>3. op'[o].pc = "rewalk" /\ Same(op[o], op'[o])
    BY <1>a, <2>2 DEF Operation, Same
  <2>4. op' = [op EXCEPT ![o] = op'[o]]
    BY <1>a, <2>1, <2>2
  <2> QED
    BY <1>13, <2>3, <2>4 DEF Advance, WriteDescendant, treeVars
<1>14. CASE CountDependents(o)
  <2>1. UNCHANGED <<state, parent>> /\ op[o].pc = "count"
    BY <1>14 DEF CountDependents, treeVars
  <2>2. CASE Goto(o, "remove") /\ Childless(op[o].id)
    BY <1>a, <2>1, <2>2, GotoFields DEF Advance
  <2> QED
    BY <1>14, <1>r, <2>1, <2>2 DEF CountDependents
<1>15. ~WriteMove(o) /\ ~RemoveEntity(o)
  BY DEF WriteMove, RemoveEntity
<1> QED
  BY <1>1, <1>2, <1>3, <1>4, <1>5, <1>6, <1>7, <1>8, <1>9, <1>10, <1>11, <1>12, <1>13, <1>14,
     <1>15 DEF Serve

-----------------------------------------------------------------------------
(* No cycle: what the walk over the descendants of the entity to be moved has
   established when the move is written, unless another move is written after the
   walk began. *)
Ents(seq) == {node[1] : node \in Elements(seq)}

Kids(v, st, pa) == {c \in Entity : st[c] = "active" /\ pa[c] = v}

(* A set of entities that exist, with all their ancestors. *)
Known(O, st, pa) == \A e \in O : st[e] # "absent" /\ pa[e] \in O \cup {None}

Visited(x) == {x.id} \cup Ents(x.list)

(* The walk of circularity: of the entities that were there when it began, the
   active children of a visited one are visited or will be. *)
WalkOK(x, st, pa) ==
  /\ \A node \in Elements(x.stack) : node[2] = None => node[1] = x.id
  /\ \E O \in SUBSET Entity :
       /\ Known(O, st, pa) /\ x.id \in O /\ x.parent \in O
       /\ \A v \in Visited(x) :
            \/ v \in Ents(x.stack)
            \/ Kids(v, st, pa) \cap O \subseteq Visited(x) \cup Ents(x.stack)

(* What the walk found: the new parent is gone for good, or it is not in a set
   with the entity to be moved that no known child leads out of. *)
ApartOK(x, st, pa) ==
  \/ st[x.parent] = "removed"
  \/ \E O \in SUBSET Entity, V \in SUBSET Entity :
       /\ Known(O, st, pa) /\ x.id \in V /\ x.parent \in O \ V
       /\ \A v \in V : Kids(v, st, pa) \cap O \subseteq V

MoveOK(x, st, pa) ==
  x.kind = "move" =>
    /\ x.pc \in {"authorize", "authorizeParent", "newParent", "circle"} =>
         x.list = <<>>
    /\ x.pc \in {"circle", "walk", "path", "level", "write"} /\ x.parent # None =>
         st[x.parent] # "absent"
    /\ x.pc = "walk" => WalkOK(x, st, pa)
    /\ x.pc \in {"path", "level", "write"} /\ x.parent \notin {None, x.id} =>
         ApartOK(x, st, pa)

ParentsExist ==
  \A e \in Entity :
    state[e] # "absent" /\ parent[e] # None => state[parent[e]] # "absent"

CycleInv ==
  /\ Acyclic /\ ParentsExist
  /\ \A o \in Slot : MoveOK(op[o], state, parent)

(* An order of a set of entities lists every one of them. *)
LEMMA OrderLists ==
  ASSUME NEW S, S \subseteq Entity, NEW f \in Orders(S)
  PROVE  /\ f \in Seq(S)
         /\ \A s \in S : \E i \in 1 .. Len(f) : f[i] = s
<1>1. IsFiniteSet(S)
  BY EntitiesAssumption, FS_Subset
<1>2. Cardinality(S) \in Nat
  BY <1>1, FS_CardinalityType
<1> DEFINE n == Cardinality(S)
<1>3. f \in [1 .. n -> S] /\ \A i, j \in 1 .. n : f[i] = f[j] => i = j
  BY DEF Orders
<1>4. f \in Injection(1 .. n, S)
  BY <1>3 DEF Injection, IsInjective
<1>5. IsFiniteSet(1 .. n) /\ Cardinality(1 .. n) = n
  BY <1>2, FS_Interval
<1>6. f \in Surjection(1 .. n, S)
  BY <1>1, <1>4, <1>5, FS_Injection
<1>7. Len(f) = n /\ f \in Seq(S)
  BY <1>2, <1>3
<1> QED
  BY <1>6, <1>7 DEF Surjection

(* What is on the stack after a node has been taken from it and its children
   have been put there. *)
LEMMA PushedElements ==
  ASSUME NEW T, NEW stack \in Seq(T), stack # <<>>, NEW new \in Seq(T)
  PROVE  /\ Elements(new \o Tail(stack)) = Elements(new) \cup Elements(Tail(stack))
         /\ Elements(stack) = {Head(stack)} \cup Elements(Tail(stack))
<1> DEFINE t == Tail(stack)
<1>1. t \in Seq(T) /\ Len(stack) \in Nat /\ Len(stack) >= 1 /\ Len(t) = Len(stack) - 1
      /\ \A i \in 1 .. Len(t) : t[i] = stack[i + 1]
  OBVIOUS
<1>2. Len(new \o t) = Len(new) + Len(t) /\ Len(new) \in Nat /\ Len(t) \in Nat
  BY <1>1
<1>3. \A i \in 1 .. Len(new) + Len(t) :
        (new \o t)[i] = IF i <= Len(new) THEN new[i] ELSE t[i - Len(new)]
  BY <1>1
<1> HIDE DEF t
<1>4. Elements(new \o t) = Elements(new) \cup Elements(t)
  <2>1. ASSUME NEW x \in Elements(new \o t) PROVE x \in Elements(new) \cup Elements(t)
    <3>1. PICK i \in 1 .. Len(new) + Len(t) : x = (new \o t)[i]
      BY <1>2 DEF Elements
    <3>2. CASE i <= Len(new)
      BY <1>2, <1>3, <3>1, <3>2 DEF Elements
    <3>3. CASE ~(i <= Len(new))
      <4>1. i - Len(new) \in 1 .. Len(t) /\ x = t[i - Len(new)]
        BY <1>2, <1>3, <3>1, <3>3
      <4> QED
        BY <4>1 DEF Elements
    <3> QED
      BY <3>2, <3>3
  <2>2. ASSUME NEW x \in Elements(new) PROVE x \in Elements(new \o t)
    <3>1. PICK i \in 1 .. Len(new) : x = new[i]
      BY DEF Elements
    <3>2. i \in 1 .. Len(new) + Len(t) /\ x = (new \o t)[i]
      BY <1>2, <1>3, <3>1
    <3> QED
      BY <1>2, <3>2 DEF Elements
  <2>3. ASSUME NEW x \in Elements(t) PROVE x \in Elements(new \o t)
    <3>1. PICK i \in 1 .. Len(t) : x = t[i]
      BY DEF Elements
    <3>2. Len(new) + i \in 1 .. Len(new) + Len(t) /\ ~(Len(new) + i <= Len(new))
          /\ (Len(new) + i) - Len(new) = i
      BY <1>2, <3>1
    <3>3. x = (new \o t)[Len(new) + i]
      BY <1>3, <3>1, <3>2
    <3> QED
      BY <1>2, <3>2, <3>3 DEF Elements
  <2> QED
    BY <2>1, <2>2, <2>3
<1>5. Elements(stack) = {Head(stack)} \cup Elements(t)
  <2>1. ASSUME NEW x \in Elements(stack) PROVE x = Head(stack) \/ x \in Elements(t)
    <3>1. PICK i \in 1 .. Len(stack) : x = stack[i]
      BY DEF Elements
    <3>2. CASE i = 1
      BY <3>1, <3>2
    <3>3. CASE i # 1
      <4>1. i - 1 \in 1 .. Len(t) /\ x = t[i - 1]
        BY <1>1, <3>1, <3>3
      <4> QED
        BY <4>1 DEF Elements
    <3> QED
      BY <3>2, <3>3
  <2>2. Head(stack) \in Elements(stack)
    <3>1. 1 \in 1 .. Len(stack) /\ Head(stack) = stack[1]
      BY <1>1
    <3> QED
      BY <3>1 DEF Elements
  <2>3. ASSUME NEW x \in Elements(t) PROVE x \in Elements(stack)
    <3>1. PICK i \in 1 .. Len(t) : x = t[i]
      BY DEF Elements
    <3>2. i + 1 \in 1 .. Len(stack) /\ x = stack[i + 1]
      BY <1>1, <3>1
    <3> QED
      BY <3>2 DEF Elements
  <2> QED
    BY <2>1, <2>2, <2>3
<1> QED
  BY <1>4, <1>5 DEF t

(* The invariants of a move depend on the entities that exist and on their
   parents; creating an entity and removing one disturb neither. *)
LEMMA MoveFrame ==
  ASSUME NEW x \in Operation, WellFormed(x),
         NEW st, NEW pa, MoveOK(x, st, pa), x.kind = "move" => st[x.id] # "absent",
         NEW st2, NEW pa2,
         \A e \in Entity : st[e] # "absent" =>
           /\ st2[e] # "absent" /\ pa2[e] = pa[e]
           /\ st2[e] = "active" => st[e] = "active"
           /\ st[e] = "removed" => st2[e] = "removed"
  PROVE  MoveOK(x, st2, pa2)
<1> SUFFICES ASSUME x.kind = "move" PROVE MoveOK(x, st2, pa2)
  BY DEF MoveOK
<1>1. x.id \in Entity /\ x.parent \in Maybe
  BY DEF Operation, WellFormed, Maybe
<1>2. x.pc \in {"walk", "path", "level"} => x.parent # None
  BY DEF WellFormed
<1>a. \A O \in SUBSET Entity : Known(O, st, pa) => Known(O, st2, pa2)
  BY DEF Known
<1>b. \A O \in SUBSET Entity, v \in Entity :
        Known(O, st, pa) => Kids(v, st2, pa2) \cap O \subseteq Kids(v, st, pa) \cap O
  BY DEF Known, Kids
<1>3. ASSUME x.pc = "walk" PROVE WalkOK(x, st2, pa2)
  <2>1. WalkOK(x, st, pa)
    BY <1>3 DEF MoveOK
  <2>2. PICK O \in SUBSET Entity :
          /\ Known(O, st, pa) /\ x.id \in O /\ x.parent \in O
          /\ \A v \in Visited(x) :
               \/ v \in Ents(x.stack)
               \/ Kids(v, st, pa) \cap O \subseteq Visited(x) \cup Ents(x.stack)
    BY <2>1 DEF WalkOK
  <2>3. Visited(x) \subseteq Entity
    <3>1. x.list \in Seq(Entity \X Entity)
      BY DEF Operation
    <3>2. \A node \in Elements(x.list) : node \in Entity \X Entity
      BY <3>1 DEF Elements
    <3> QED
      BY <1>1, <3>2 DEF Visited, Ents
  <2>4. Known(O, st2, pa2)
    BY <1>a, <2>2
  <2>5. \A v \in Visited(x) :
          \/ v \in Ents(x.stack)
          \/ Kids(v, st2, pa2) \cap O \subseteq Visited(x) \cup Ents(x.stack)
    BY <1>b, <2>2, <2>3
  <2> QED
    BY <2>1, <2>2, <2>4, <2>5 DEF WalkOK
<1>4. ASSUME x.pc \in {"path", "level", "write"}, x.parent \notin {None, x.id}
      PROVE  ApartOK(x, st2, pa2)
  <2>1. ApartOK(x, st, pa) /\ x.parent \in Entity
    BY <1>4, <1>1 DEF MoveOK, Maybe
  <2>2. CASE st[x.parent] = "removed"
    BY <2>1, <2>2 DEF ApartOK
  <2>3. CASE ~(st[x.parent] = "removed")
    <3>1. PICK O \in SUBSET Entity, V \in SUBSET Entity :
            /\ Known(O, st, pa) /\ x.id \in V /\ x.parent \in O \ V
            /\ \A v \in V : Kids(v, st, pa) \cap O \subseteq V
      BY <2>1, <2>3 DEF ApartOK
    <3>2. Known(O, st2, pa2) /\ \A v \in V : Kids(v, st2, pa2) \cap O \subseteq V
      BY <1>a, <1>b, <3>1
    <3> QED
      BY <3>1, <3>2 DEF ApartOK
  <2> QED
    BY <2>2, <2>3
<1>5. x.parent # None /\ st[x.parent] # "absent" => st2[x.parent] # "absent"
  BY <1>1 DEF Maybe
<1> QED
  BY <1>3, <1>4, <1>5 DEF MoveOK

(* Appending to a sequence of any kind adds one element. *)
LEMMA AppendedElements ==
  ASSUME NEW T, NEW seq \in Seq(T), NEW e \in T
  PROVE  Elements(Append(seq, e)) = Elements(seq) \cup {e}
<1>1. Len(Append(seq, e)) = Len(seq) + 1 /\ Len(seq) \in Nat
  OBVIOUS
<1>2. \A i \in 1 .. Len(seq) : Append(seq, e)[i] = seq[i]
  OBVIOUS
<1>3. Append(seq, e)[Len(seq) + 1] = e
  OBVIOUS
<1>4. \A i \in 1 .. Len(seq) + 1 : i \in 1 .. Len(seq) \/ i = Len(seq) + 1
  BY <1>1
<1>5. Len(seq) + 1 \in 1 .. Len(seq) + 1
      /\ \A i \in 1 .. Len(seq) : i \in 1 .. Len(seq) + 1
  BY <1>1
<1> QED
  BY <1>1, <1>2, <1>3, <1>4, <1>5 DEF Elements

(* The stack after one call of getAllDescendants. *)
LEMMA DescendsElements ==
  ASSUME NEW x \in Operation, NEW y \in Operation, x.stack # <<>>, Descends(x, y)
  PROVE  /\ Head(x.stack) \in Entity \X Maybe /\ Head(x.stack)[1] \in Entity
         /\ Elements(x.stack) = {Head(x.stack)} \cup Elements(Tail(x.stack))
         /\ Elements(y.stack) =
              {<<k, Head(x.stack)[1]>> : k \in Kids(Head(x.stack)[1], state, parent)}
                \cup Elements(Tail(x.stack))
<1> DEFINE node == Head(x.stack)
           ks == Children(node[1])
<1>0. PICK order \in Orders(Children(Head(x.stack)[1])) :
        y.stack = [i \in 1 .. Len(order) |-> <<order[i], Head(x.stack)[1]>>]
                    \o Tail(x.stack)
  BY DEF Descends
<1> DEFINE new == [i \in 1 .. Len(order) |-> <<order[i], node[1]>>]
<1>1. x.stack \in Seq(Entity \X Maybe) /\ x.list \in Seq(Entity \X Entity)
      /\ node \in Entity \X Maybe /\ node[1] \in Entity
  BY DEF Operation
<1>2. ks \subseteq Entity /\ ks = Kids(node[1], state, parent)
  BY DEF Children, Kids, Active
<1>3. order \in Seq(ks) /\ \A k \in ks : \E i \in 1 .. Len(order) : order[i] = k
  BY <1>2, OrderLists
<1>4. new \in Seq(Entity \X Maybe) /\ Len(new) = Len(order) /\ Len(order) \in Nat
      /\ \A i \in 1 .. Len(order) : new[i] = <<order[i], node[1]>>
  <2>1. Len(order) \in Nat /\ \A i \in 1 .. Len(order) : order[i] \in Entity
    BY <1>2, <1>3
  <2>2. \A i \in 1 .. Len(order) : <<order[i], node[1]>> \in Entity \X Maybe
    BY <2>1, <1>1 DEF Maybe
  <2> QED
    BY <2>1, <2>2
<1>5. Elements(new) = {<<k, node[1]>> : k \in ks}
  <2>1. ASSUME NEW n \in Elements(new) PROVE n \in {<<k, node[1]>> : k \in ks}
    <3>1. PICK i \in 1 .. Len(order) : n = <<order[i], node[1]>>
      BY <1>4 DEF Elements
    <3>2. order[i] \in ks
      BY <1>3
    <3> QED
      BY <3>1, <3>2
  <2>2. ASSUME NEW k \in ks PROVE <<k, node[1]>> \in Elements(new)
    <3>1. PICK i \in 1 .. Len(order) : order[i] = k
      BY <1>3
    <3>2. i \in 1 .. Len(new) /\ new[i] = <<k, node[1]>>
      BY <1>4, <3>1
    <3> QED
      BY <3>2 DEF Elements
  <2> QED
    BY <2>1, <2>2
<1>6. /\ Elements(y.stack) = {<<k, node[1]>> : k \in ks} \cup Elements(Tail(x.stack))
      /\ Elements(x.stack) = {node} \cup Elements(Tail(x.stack))
  <2>1. y.stack = new \o Tail(x.stack)
    BY <1>0
  <2>2. x.stack \in Seq(Entity \X Maybe) /\ new \in Seq(Entity \X Maybe)
    BY <1>1, <1>4
  <2> HIDE DEF new
  <2>3. /\ Elements(new \o Tail(x.stack)) = Elements(new) \cup Elements(Tail(x.stack))
        /\ Elements(x.stack) = {Head(x.stack)} \cup Elements(Tail(x.stack))
    BY <2>2, PushedElements
  <2> QED
    BY <2>1, <2>3, <1>5
<1> QED
  BY <1>1, <1>2, <1>6

(* One call of getAllDescendants on the walk of circularity. *)
LEMMA WalkStep ==
  ASSUME NEW x \in Operation, NEW y \in Operation, x.id \in Entity, Same(x, y),
         WalkOK(x, state, parent), x.stack # <<>>, Descends(x, y)
  PROVE  WalkOK(y, state, parent)
<1> DEFINE node == Head(x.stack)
           ks == Kids(node[1], state, parent)
<1>1. x.list \in Seq(Entity \X Entity) /\ node \in Entity \X Maybe /\ node[1] \in Entity
  BY DescendsElements DEF Operation
<1>2. ks = Kids(node[1], state, parent) /\ ks \subseteq Entity
  BY DEF Kids
<1>3. y.list = IF node[2] = None \/ node \in Elements(x.list)
                 THEN x.list ELSE Append(x.list, node)
  BY DEF Descends
<1>6. /\ Elements(y.stack) = {<<k, node[1]>> : k \in ks} \cup Elements(Tail(x.stack))
      /\ Elements(x.stack) = {node} \cup Elements(Tail(x.stack))
  BY DescendsElements
<1>7. node[2] = None => node[1] = x.id
  BY <1>6 DEF WalkOK
<1>8. Visited(y) = Visited(x) \cup {node[1]}
  <2>1. CASE node[2] = None
    BY <1>3, <1>7, <2>1 DEF Visited, Same
  <2>2. CASE node[2] # None /\ node \in Elements(x.list)
    BY <1>3, <2>2 DEF Visited, Same, Ents
  <2>3. CASE node[2] # None /\ node \notin Elements(x.list)
    <3>1. node \in Entity \X Entity
      BY <1>1, <2>3 DEF Maybe
    <3>2. x.list \in Seq(Entity \X Entity)
      BY <1>1
    <3> HIDE DEF node
    <3>a. \A seq \in Seq(Entity \X Entity), e \in Entity \X Entity :
            Elements(Append(seq, e)) = Elements(seq) \cup {e}
      BY AppendedElements
    <3>3. Elements(Append(x.list, node)) = Elements(x.list) \cup {node}
      BY <3>1, <3>2, <3>a
    <3>4. y.list = Append(x.list, node)
      BY <1>3, <2>3 DEF node
    <3> QED
      BY <3>3, <3>4 DEF Visited, Same, Ents
  <2> QED
    BY <2>1, <2>2, <2>3
<1>9. Ents(y.stack) = ks \cup Ents(Tail(x.stack))
      /\ Ents(x.stack) = {node[1]} \cup Ents(Tail(x.stack))
  <2> DEFINE tail == Elements(Tail(x.stack))
  <2>1. Ents(y.stack) = {n[1] : n \in {<<k, node[1]>> : k \in ks} \cup tail}
        /\ Ents(x.stack) = {n[1] : n \in {node} \cup tail}
        /\ Ents(Tail(x.stack)) = {n[1] : n \in tail}
    BY <1>6 DEF Ents
  <2> DEFINE h == node[1]
  <2>2. \A k : <<k, h>>[1] = k
    OBVIOUS
  <2> HIDE DEF h
  <2>3. \A A : {n[1] : n \in {<<k, h>> : k \in A}} = A
    BY <2>2
  <2>4. \A A, B : {n[1] : n \in A \cup B} = {n[1] : n \in A} \cup {n[1] : n \in B}
    OBVIOUS
  <2>5. {n[1] : n \in {node}} = {h}
    BY DEF h
  <2> HIDE DEF ks, tail
  <2>6. Ents(y.stack) = ks \cup Ents(Tail(x.stack))
    BY <2>1, <2>3, <2>4 DEF h
  <2>7. Ents(x.stack) = {h} \cup Ents(Tail(x.stack))
    BY <2>1, <2>4, <2>5
  <2> QED
    BY <2>6, <2>7 DEF h, ks
<1>10. PICK O \in SUBSET Entity :
         /\ Known(O, state, parent) /\ x.id \in O /\ x.parent \in O
         /\ \A v \in Visited(x) :
              \/ v \in Ents(x.stack)
              \/ Kids(v, state, parent) \cap O \subseteq Visited(x) \cup Ents(x.stack)
  BY DEF WalkOK
<1>11. ASSUME NEW v \in Visited(y)
       PROVE  \/ v \in Ents(y.stack)
              \/ Kids(v, state, parent) \cap O \subseteq Visited(y) \cup Ents(y.stack)
  <2>1. CASE v = node[1]
    BY <1>2, <1>9, <2>1
  <2>2. CASE v # node[1]
    BY <1>8, <1>9, <1>10, <2>2
  <2> QED
    BY <2>1, <2>2
<1>12. ASSUME NEW n \in Elements(y.stack), n[2] = None PROVE n[1] = y.id
  <2>1. CASE n \in {<<k, node[1]>> : k \in ks}
    BY <1>1, <1>12, <2>1, EntitiesAssumption
  <2>2. CASE n \in Elements(Tail(x.stack))
    BY <1>6, <1>12, <2>2 DEF WalkOK, Same
  <2> QED
    BY <1>6, <2>1, <2>2
<1> QED
  BY <1>10, <1>11, <1>12 DEF WalkOK, Same

(* The steps of a request that leave the tree alone keep the invariants. *)
LEMMA MoveAdvances ==
  ASSUME TypeOK, ParentsExist, NEW x \in Operation, NEW y \in Operation, WellFormed(x),
         WellFormed(y), MoveOK(x, state, parent), x.kind = "move" => state[x.id] # "absent",
         Advance(x, y)
  PROVE  MoveOK(y, state, parent)
<1> SUFFICES ASSUME y.kind = "move" PROVE MoveOK(y, state, parent)
  BY DEF MoveOK
<1>1. Same(x, y) /\ x.kind = "move"
  BY DEF Advance, Same
<1>2. x.id \in Entity /\ x.parent \in Maybe /\ state[x.id] # "absent"
      /\ state[x.id] \in {"absent", "active", "removed"}
  BY <1>1 DEF Operation, WellFormed, Maybe, MoveOK, TypeOK
<1>3. Known({e \in Entity : state[e] # "absent"}, state, parent)
  BY DEF Known, ParentsExist, TypeOK, Maybe
<1> DEFINE O == {e \in Entity : state[e] # "absent"}
<1>4. x.parent # None /\ x.pc \in {"circle", "walk", "path", "level", "write"}
        => state[x.parent] # "absent"
  BY <1>1 DEF MoveOK
<1>5. WellFormed(x) => (x.pc \in {"newParent", "circle", "walk", "path", "level"}
                         => x.parent \in Entity)
  BY <1>1, <1>2 DEF WellFormed, Maybe
<1>6. y.kind = "move" /\ y.id = x.id /\ y.parent = x.parent
  BY <1>1 DEF Same
<1>7. CASE /\ x.pc \in {"authorize", "authorizeParent"} /\ y.list = x.list
           /\ y.pc \in {"authorizeParent", "newParent", "count"}
  <2>1. x.list = <<>>
    BY <1>1, <1>7 DEF MoveOK
  <2> QED
    BY <1>2, <1>6, <1>7, <2>1 DEF MoveOK
<1>8. CASE y.pc \in {"rewalk", "descPath", "descLevel", "descWrite", "idPath", "save"}
  BY <1>2, <1>6, <1>8 DEF MoveOK
<1>9. CASE (x.pc = "path" /\ y.pc = "level") \/ (x.pc = "level" /\ y.pc = "write")
  <2>1. x.parent \in Entity /\ (x.parent # x.id => ApartOK(x, state, parent))
    BY <1>1, <1>2, <1>5, <1>9 DEF MoveOK, Maybe, WellFormed
  <2>2. x.parent # x.id => ApartOK(y, state, parent)
    BY <1>6, <2>1 DEF ApartOK
  <2> QED
    BY <1>2, <1>4, <1>6, <1>9, <2>1, <2>2 DEF MoveOK
<1>10. CASE x.pc = "newParent" /\ y.pc = "circle" /\ y.list = x.list /\ Active(x.parent)
  <2>1. x.list = <<>> /\ state[x.parent] # "absent"
    BY <1>1, <1>10 DEF MoveOK, Active
  <2> QED
    BY <1>2, <1>6, <1>10, <2>1 DEF MoveOK
<1>11. CASE /\ x.pc = "circle" /\ y.pc = "walk"
            /\ y.list = x.list /\ y.stack = <<<<x.id, None>>>>
  <2>1. x.list = <<>> /\ x.parent \in Entity /\ state[x.parent] # "absent"
    BY <1>1, <1>4, <1>5, <1>11, EntitiesAssumption DEF MoveOK
  <2>2. Elements(y.stack) = {<<x.id, None>>}
    BY <1>11 DEF Elements
  <2>3. Ents(y.stack) = {x.id} /\ Visited(y) = {x.id}
    BY <2>1, <2>2, <1>6, <1>11 DEF Ents, Visited, Elements
  <2>4. \A node \in Elements(y.stack) : node[2] = None => node[1] = y.id
    BY <1>6, <2>2
  <2>5. O \in SUBSET Entity /\ y.id \in O /\ y.parent \in O
    BY <1>2, <1>6, <2>1
  <2> HIDE DEF O
  <2>6. WalkOK(y, state, parent)
    BY <1>3, <2>3, <2>4, <2>5 DEF WalkOK, O
  <2> QED
    BY <1>2, <1>6, <1>11, <2>1, <2>6 DEF MoveOK
<1>12. CASE x.pc = "circle" /\ y.pc = "path" /\ \A e \in Entity \ {x.id} : ~Active(e)
  <2>1. x.parent # x.id => state[x.parent] = "removed"
    BY <1>2, <1>4, <1>5, <1>12, EntitiesAssumption DEF TypeOK, Active
  <2>2. state[x.parent] # "absent"
    BY <1>4, <1>5, <1>12, EntitiesAssumption
  <2> QED
    BY <1>2, <1>6, <1>12, <2>1, <2>2 DEF MoveOK, ApartOK
<1>13. CASE /\ x.pc = "walk" /\ y.pc = "path" /\ x.stack = <<>>
            /\ \A node \in Elements(x.list) : node[1] # x.parent
  <2>1. WalkOK(x, state, parent)
    BY <1>1, <1>13 DEF MoveOK
  <2>2. Ents(x.stack) = {}
    BY <1>13 DEF Ents, Elements
  <2>3. (x.parent # x.id => x.parent \notin Visited(x)) /\ x.id \in Visited(x)
    BY <1>2, <1>13 DEF Visited, Ents
  <2>4. Visited(x) \subseteq Entity
    <3>1. x.list \in Seq(Entity \X Entity)
      BY DEF Operation
    <3>2. \A node \in Elements(x.list) : node \in Entity \X Entity
      BY <3>1 DEF Elements
    <3> QED
      BY <1>2, <3>2 DEF Visited, Ents
  <2>5. x.parent # x.id => ApartOK(y, state, parent)
    BY <1>6, <2>1, <2>2, <2>3, <2>4 DEF WalkOK, ApartOK
  <2>6. state[x.parent] # "absent"
    BY <1>4, <1>5, <1>13, EntitiesAssumption
  <2> QED
    BY <1>2, <1>6, <1>13, <2>5, <2>6 DEF MoveOK
<1>14. CASE /\ x.pc = "walk" /\ y.pc = "walk" /\ x.stack # <<>>
            /\ Descends(x, y)
  <2>1. WalkOK(x, state, parent)
    BY <1>1, <1>14 DEF MoveOK
  <2>2. WalkOK(y, state, parent)
    BY <1>1, <1>2, <1>14, <2>1, WalkStep
  <2>3. state[x.parent] # "absent"
    BY <1>4, <1>5, <1>14, EntitiesAssumption
  <2> QED
    BY <1>2, <1>6, <1>14, <2>2, <2>3 DEF MoveOK
<1>15. CASE \/ y.pc \in {"path", "level"} /\ y.kind = "create"
            \/ x.pc = "count" /\ y.pc = "remove" /\ Childless(x.id)
  BY <1>2, <1>6, <1>15 DEF MoveOK
<1> HIDE DEF O
<1> QED
  BY <1>7, <1>8, <1>9, <1>10, <1>11, <1>12, <1>13, <1>14, <1>15 DEF Advance

(* A move that is written closes no cycle: the part of a new cycle that lies
   outside of the visited entities would have been one before. *)
LEMMA WriteKeepsAcyclic ==
  ASSUME TypeOK, Acyclic, NEW x \in Operation, x.id \in Entity, x.parent \in Maybe,
         x.parent # None => ApartOK(x, state, parent),
         state' = state, parent' = [parent EXCEPT ![x.id] = x.parent]
  PROVE  Acyclic'
<1> SUFFICES ASSUME NEW C \in SUBSET {e \in Entity : state[e] = "active"}, C # {},
                    \A e \in C : parent'[e] \in C
             PROVE  FALSE
  BY DEF Acyclic, Active
<1>1. \A e \in Entity : parent'[e] = IF e = x.id THEN x.parent ELSE parent[e]
  BY DEF TypeOK
<1>2. \A D \in SUBSET {e \in Entity : state[e] = "active"} :
        D # {} => \E e \in D : parent[e] \notin D
  BY DEF Acyclic, Active
<1>3. CASE x.id \notin C
  BY <1>1, <1>2, <1>3
<1>4. CASE x.id \in C
  <2>1. x.parent \in C /\ x.parent \in Entity /\ x.parent # None
        /\ state[x.parent] = "active"
    BY <1>1, <1>4, EntitiesAssumption
  <2>2. PICK O \in SUBSET Entity, V \in SUBSET Entity :
          /\ Known(O, state, parent) /\ x.id \in V /\ x.parent \in O \ V
          /\ \A v \in V : Kids(v, state, parent) \cap O \subseteq V
    BY <2>1 DEF ApartOK
  <2> DEFINE D == {e \in C : e \in O /\ e \notin V}
  <2>3. x.parent \in D /\ D \in SUBSET {e \in Entity : state[e] = "active"}
    BY <2>1, <2>2
  <2>4. ASSUME NEW e \in D PROVE parent[e] \in D
    <3>1. e \in Entity /\ state[e] = "active" /\ e # x.id /\ e \in O /\ e \notin V
      BY <2>2
    <3>2. parent[e] \in C /\ parent[e] \in Entity
      BY <1>1, <3>1
    <3>3. parent[e] \in O
      BY <2>2, <3>1, <3>2, EntitiesAssumption DEF Known
    <3>4. parent[e] \notin V
      BY <2>2, <3>1, <3>2 DEF Kids
    <3> QED
      BY <3>2, <3>3, <3>4
  <2> HIDE DEF D
  <2> QED
    BY <1>2, <2>3, <2>4
<1> QED
  BY <1>3, <1>4

(* A new entity closes no cycle: nothing is below it yet. *)
LEMMA SaveKeepsAcyclic ==
  ASSUME TypeOK, Acyclic, ParentsExist, NEW e \in Entity, NEW p \in Maybe,
         state[e] = "absent", p # None => state[p] # "absent",
         state' = [state EXCEPT ![e] = "active"], parent' = [parent EXCEPT ![e] = p]
  PROVE  Acyclic' /\ ParentsExist'
<1>1. \A d \in Entity : /\ parent'[d] = IF d = e THEN p ELSE parent[d]
                        /\ state'[d] = IF d = e THEN "active" ELSE state[d]
                        /\ parent[d] \in Maybe
  BY DEF TypeOK
<1>2. ParentsExist'
  BY <1>1 DEF ParentsExist, Maybe
<1>3. Acyclic'
  <2> SUFFICES ASSUME NEW C \in SUBSET {d \in Entity : state'[d] = "active"}, C # {},
                      \A d \in C : parent'[d] \in C
               PROVE  FALSE
    BY DEF Acyclic, Active
  <2>1. \A D \in SUBSET {d \in Entity : state[d] = "active"} :
          D # {} => \E d \in D : parent[d] \notin D
    BY DEF Acyclic, Active
  <2> DEFINE D == C \ {e}
  <2>2. D \in SUBSET {d \in Entity : state[d] = "active"}
    BY <1>1
  <2>3. D # {}
    <3>1. CASE e \in C
      <4>1. p \in C /\ p # None /\ p # e
        BY <1>1, <3>1, EntitiesAssumption
      <4> QED
        BY <4>1
    <3>2. CASE e \notin C
      BY <3>2
    <3> QED
      BY <3>1, <3>2
  <2>4. ASSUME NEW d \in D PROVE parent[d] \in D
    <3>1. d \in Entity /\ d # e /\ state[d] # "absent" /\ parent[d] \in C
      BY <1>1
    <3>2. parent[d] # None /\ parent[d] \in Entity
      BY <3>1, EntitiesAssumption
    <3>3. state[parent[d]] # "absent"
      BY <3>1, <3>2 DEF ParentsExist
    <3> QED
      BY <3>1, <3>3
  <2> HIDE DEF D
  <2> QED
    BY <2>1, <2>2, <2>3, <2>4
<1> QED
  BY <1>2, <1>3

(* The label says which action serves a request that is about to write. *)
LEMMA WritingSteps ==
  ASSUME NEW o \in Slot, Serve(o)
  PROVE  /\ op[o].pc = "write" => WriteMove(o)
         /\ op[o].pc = "remove" => RemoveEntity(o)
         /\ op[o].pc \notin {"idle", "save"}
<1>1. \/ WriteMove(o) \/ RemoveEntity(o)
      \/ op[o].pc \in {"authorize", "path", "level", "idPath", "authorizeParent",
                        "newParent", "circle", "walk", "rewalk", "descPath",
                        "descLevel", "count"}
      \/ op[o].pc = "descWrite"
  <2>1. CASE Authorize(o) \/ GeneratePath(o) \/ CalculateLevel(o) \/ GenerateEntityPath(o)
    BY <2>1 DEF Authorize, GeneratePath, CalculateLevel, GenerateEntityPath
  <2>2. CASE AuthorizeParent(o) \/ FindNewParent(o) \/ CheckCircular(o)
    BY <2>2 DEF AuthorizeParent, FindNewParent, CheckCircular
  <2>3. CASE GetDescendants(o)
    BY <2>3 DEF GetDescendants
  <2>4. CASE DescendantsKnown(o) \/ RewriteNext(o) \/ ReadDescendantPath(o)
    BY <2>4 DEF DescendantsKnown, RewriteNext, ReadDescendantPath
  <2>5. CASE ReadDescendantLevel(o) \/ CountDependents(o)
    BY <2>5 DEF ReadDescendantLevel, CountDependents
  <2>6. CASE WriteDescendant(o)
    BY <2>6 DEF WriteDescendant
  <2> QED
    BY <2>1, <2>2, <2>3, <2>4, <2>5, <2>6 DEF Serve
<1>2. WriteMove(o) => op[o].pc = "write"
  BY DEF WriteMove
<1>3. RemoveEntity(o) => op[o].pc = "remove"
  BY DEF RemoveEntity
<1> QED
  BY <1>1, <1>2, <1>3

LEMMA IdleMoves == \A st, pa : MoveOK(Idle, st, pa) /\ Idle.kind # "move"
  BY DEF MoveOK, Idle

LEMMA CycleStep ==
  ASSUME ~MovesCross, ~SelfMoved,
         TypeOK, RequestInv, OwnInv, CycleInv, [Next]_vars, TypeOK', RequestInv'
  PROVE  CycleInv'
<1>a. op \in [Slot -> Operation] /\ op' \in [Slot -> Operation]
      /\ state \in [Entity -> {"absent", "active", "removed"}]
      /\ parent \in [Entity -> Maybe]
  BY DEF TypeOK
<1>b. \A s \in Slot : /\ op[s] \in Operation /\ WellFormed(op[s])
                      /\ op'[s] \in Operation /\ WellFormed(op'[s])
                      /\ MoveOK(op[s], state, parent)
  BY <1>a DEF RequestInv, CycleInv
<1>c. \A s \in Slot :
        /\ op[s].kind \in {"move", "remove"} =>
             op[s].id \in Entity /\ state[op[s].id] # "absent"
        /\ op[s].kind = "create" /\ op[s].parent # None => state[op[s].parent] # "absent"
        /\ op[s].parent \in Maybe
  BY <1>b DEF OwnInv, OwnOK, WellFormed, Operation, Maybe
<1>d. Acyclic /\ ParentsExist
  BY DEF CycleInv
<1>e. ASSUME UNCHANGED <<state, parent>>, NEW o \in Slot, op' = [op EXCEPT ![o] = op'[o]],
             MoveOK(op'[o], state, parent)
      PROVE  CycleInv'
  <2>1. \A s \in Slot : op'[s] = op[s] \/ s = o
    BY <1>a, <1>e
  <2>2. \A s \in Slot : MoveOK(op'[s], state', parent')
    BY <1>b, <1>e, <2>1
  <2>3. Acyclic' /\ ParentsExist'
    BY <1>d, <1>e DEF Acyclic, ParentsExist, Active
  <2> QED
    BY <2>2, <2>3 DEF CycleInv
<1>1. ASSUME NEW o \in Creator, NEW p \in Maybe, NEW by \in Maybe, StartCreate(o, p, by)
      PROVE  CycleInv'
  <2>1. UNCHANGED <<state, parent>> /\ o \in Slot
    BY <1>1 DEF StartCreate, treeVars, Slot
  <2>2. op' = [op EXCEPT ![o] = op'[o]] /\ op'[o].kind = "create"
    BY <1>1, <1>a, <2>1 DEF StartCreate, Idle
  <2>3. MoveOK(op'[o], state, parent)
    BY <2>2 DEF MoveOK
  <2> QED
    BY <1>e, <2>1, <2>2, <2>3
<1>2. ASSUME NEW o \in Mover, NEW e \in Entity, NEW p \in Maybe, NEW by \in Maybe,
             StartMove(o, e, p, by)
      PROVE  CycleInv'
  <2>1. UNCHANGED <<state, parent>> /\ o \in Slot
    BY <1>2 DEF StartMove, treeVars, Slot
  <2>2. op' = [op EXCEPT ![o] = op'[o]]
        /\ op'[o] = [Idle EXCEPT !.kind = "move", !.id = e, !.parent = p, !.by = by,
                       !.pc = IF by # None THEN "authorize"
                              ELSE IF p = None THEN "write" ELSE "newParent"]
    BY <1>2, <1>a, <2>1 DEF StartMove
  <2>3. op'[o].id = e /\ op'[o].parent = p /\ op'[o].list = <<>>
        /\ op'[o].pc = IF by # None THEN "authorize"
                       ELSE IF p = None THEN "write" ELSE "newParent"
    BY <2>2 DEF Idle
  <2>4. MoveOK(op'[o], state, parent)
    BY <2>3 DEF MoveOK
  <2> QED
    BY <1>e, <2>1, <2>2, <2>4
<1>3. ASSUME NEW o \in Remover, NEW e \in Entity, NEW by \in Maybe, StartRemove(o, e, by)
      PROVE  CycleInv'
  <2>1. UNCHANGED <<state, parent>> /\ o \in Slot
    BY <1>3 DEF StartRemove, treeVars, Slot
  <2>2. op' = [op EXCEPT ![o] = op'[o]] /\ op'[o].kind = "remove"
    BY <1>3, <1>a, <2>1 DEF StartRemove, Idle
  <2>3. MoveOK(op'[o], state, parent)
    BY <2>2 DEF MoveOK
  <2> QED
    BY <1>e, <2>1, <2>2, <2>3
<1>4. ASSUME NEW o \in Slot, Serve(o), op[o].pc \notin {"write", "remove"} PROVE CycleInv'
  <2>1. /\ UNCHANGED <<state, parent>>
        /\ op' = [op EXCEPT ![o] = op'[o]]
        /\ op'[o] = Idle \/ Advance(op[o], op'[o])
    BY <1>4, ServeShape
  <2>2. CASE op'[o] = Idle
    BY <1>e, <2>1, <2>2, IdleMoves
  <2>3. CASE Advance(op[o], op'[o])
    <3>1. MoveOK(op'[o], state, parent)
      BY <1>b, <1>c, <1>d, <2>3, MoveAdvances
    <3> QED
      BY <1>e, <2>1, <3>1
  <2> QED
    BY <2>1, <2>2, <2>3
<1>5. ASSUME NEW o \in Slot, WriteMove(o) PROVE CycleInv'
  <2>1. op[o].kind = "move" /\ op[o].pc = "write"
    BY <1>5, <1>b DEF WriteMove, WellFormed
  <2>2. op[o].id \in Entity /\ op[o].parent \in Maybe
        /\ (op[o].parent # None => ApartOK(op[o], state, parent))
        /\ (op[o].parent # None => state[op[o].parent] # "absent")
    BY <1>b, <1>c, <2>1 DEF MoveOK, SelfMoved
  <2>3. state' = state /\ parent' = [parent EXCEPT ![op[o].id] = op[o].parent]
        /\ op' = [op EXCEPT ![o].pc = "rewalk", ![o].stack = <<<<op[o].id, None>>>>]
    BY <1>5 DEF WriteMove
  <2>4. Acyclic'
    BY <1>b, <1>d, <2>2, <2>3, WriteKeepsAcyclic
  <2>5. ParentsExist'
    <3>1. \A e \in Entity : parent'[e] = IF e = op[o].id THEN op[o].parent ELSE parent[e]
      BY <1>a, <2>3
    <3> QED
      BY <1>d, <2>2, <2>3, <3>1 DEF ParentsExist
  <2>6. ASSUME NEW s \in Slot
        PROVE  MoveOK(op'[s], state', parent')
    <3>1. CASE s = o
      <4>v. PICK v : op' = [op EXCEPT ![o].pc = "rewalk", ![o].stack = v]
        BY <2>3
      <4>1. op'[o] = [op[o] EXCEPT !.pc = "rewalk", !.stack = v]
        BY <1>a, <4>v
      <4>2. op'[o].pc = "rewalk" /\ op'[o].kind = "move" /\ op'[o].id = op[o].id
            /\ op'[o].parent = op[o].parent
        BY <1>b, <2>1, <4>1 DEF Operation
      <4> QED
        BY <3>1, <4>2 DEF MoveOK
    <3>2. CASE s # o
      <4>1. op'[s] = op[s]
        BY <1>a, <2>3, <3>2
      <4>2. op[s].kind = "move" /\ op[s].parent # None =>
              op[s].pc \notin {"walk", "path", "level", "write"}
        BY <2>1, <3>2 DEF MovesCross
      <4>3. op[s].pc = "walk" => op[s].parent # None
        BY <1>b DEF WellFormed
      <4> QED
        BY <1>b, <2>3, <4>1, <4>2, <4>3 DEF MoveOK
    <3> QED
      BY <3>1, <3>2
  <2> QED
    BY <2>4, <2>5, <2>6 DEF CycleInv
<1>6. ASSUME NEW o \in Slot, RemoveEntity(o) PROVE CycleInv'
  <2>1. op[o].kind = "remove"
    BY <1>6, <1>b DEF RemoveEntity, WellFormed
  <2>2. op[o].id \in Entity /\ state[op[o].id] # "absent"
    BY <1>c, <2>1
  <2>3. state' = [state EXCEPT ![op[o].id] = "removed"] /\ parent' = parent /\ Return(o)
    BY <1>6 DEF RemoveEntity
  <2>4. \A e \in Entity : state'[e] = IF e = op[o].id THEN "removed" ELSE state[e]
    BY <1>a, <2>3
  <2>5. Acyclic'
    <3>1. {e \in Entity : state'[e] = "active"} \subseteq {e \in Entity : state[e] = "active"}
      BY <2>4
    <3> QED
      BY <1>d, <2>3, <3>1 DEF Acyclic, Active
  <2>6. ParentsExist'
    BY <1>a, <1>d, <2>2, <2>3, <2>4 DEF ParentsExist, Maybe
  <2>7. \A e \in Entity : state[e] # "absent" =>
          /\ state'[e] # "absent" /\ parent'[e] = parent[e]
          /\ state'[e] = "active" => state[e] = "active"
          /\ state[e] = "removed" => state'[e] = "removed"
    BY <2>3, <2>4
  <2>8. \A s \in Slot : MoveOK(op[s], state', parent')
    BY <1>b, <1>c, <2>7, MoveFrame
  <2>9. \A s \in Slot : op'[s] = Idle \/ op'[s] = op[s]
    BY <1>a, <2>3 DEF Return
  <2>10. \A s \in Slot : MoveOK(op'[s], state', parent')
    BY <1>b, <2>8, <2>9, IdleMoves
  <2> QED
    BY <2>5, <2>6, <2>10 DEF CycleInv
<1>7. ASSUME NEW o \in Slot, NEW e \in Entity, SaveEntity(o, e) PROVE CycleInv'
  <2>1. op[o].kind = "create"
    BY <1>7, <1>b DEF SaveEntity, WellFormed
  <2>2. state[e] = "absent" /\ op[o].parent \in Maybe
        /\ (op[o].parent # None => state[op[o].parent] # "absent")
    BY <1>7, <1>c, <2>1 DEF SaveEntity
  <2>3. state' = [state EXCEPT ![e] = "active"]
        /\ parent' = [parent EXCEPT ![e] = op[o].parent] /\ Return(o)
    BY <1>7 DEF SaveEntity
  <2>4. Acyclic' /\ ParentsExist'
    BY <1>d, <2>2, <2>3, SaveKeepsAcyclic
  <2>5. \A d \in Entity : state[d] # "absent" =>
          /\ state'[d] # "absent" /\ parent'[d] = parent[d]
          /\ state'[d] = "active" => state[d] = "active"
          /\ state[d] = "removed" => state'[d] = "removed"
    BY <1>a, <2>2, <2>3
  <2>6. \A s \in Slot : MoveOK(op[s], state', parent')
    BY <1>b, <1>c, <2>5, MoveFrame
  <2>7. \A s \in Slot : op'[s] = Idle \/ op'[s] = op[s]
    BY <1>a, <2>3 DEF Return
  <2>8. \A s \in Slot : MoveOK(op'[s], state', parent')
    BY <1>b, <2>6, <2>7, IdleMoves
  <2> QED
    BY <2>4, <2>8 DEF CycleInv
<1>8. CASE UNCHANGED vars
  <2>1. UNCHANGED <<state, parent, op>>
    BY <1>8 DEF vars, treeVars
  <2> QED
    BY <2>1, <1>b, <1>d DEF CycleInv, Acyclic, ParentsExist, Active
<1> QED
  <2>1. ASSUME NEW o \in Slot, Serve(o) PROVE CycleInv'
    BY <1>4, <1>5, <1>6, <2>1, WritingSteps
  <2> QED
    BY <1>1, <1>2, <1>3, <1>7, <1>8, <2>1 DEF Next

LEMMA CycleInvariant == Spec /\ []~MovesCross /\ []~SelfMoved => []CycleInv
<1>1. Init => CycleInv
  <2> SUFFICES ASSUME Init PROVE CycleInv
    OBVIOUS
  <2>1. Acyclic /\ ParentsExist
    BY DEF Init, Acyclic, ParentsExist, Active
  <2>2. \A o \in Slot : op[o] = Idle
    BY DEF Init
  <2> QED
    BY <2>1, <2>2, IdleMoves DEF CycleInv
<1>2. ~MovesCross /\ ~SelfMoved /\ TypeOK /\ RequestInv /\ OwnInv /\ CycleInv
        /\ [Next]_vars /\ TypeOK' /\ RequestInv' => CycleInv'
  BY CycleStep
<1> QED
  BY <1>1, <1>2, Typed, Owned, PTL DEF Spec

(* "Prevent circular references": however many requests interleave, a cycle comes
   of an entity asked to become its own parent, which move does not refuse, or of
   a move that is written while another one is between its check and its write. *)
THEOREM NoCircularReferences ==
  Spec /\ []~MovesCross /\ []~SelfMoved => []Acyclic
<1>1. CycleInv => Acyclic
  BY DEF CycleInv
<1> QED
  BY <1>1, CycleInvariant, PTL

-----------------------------------------------------------------------------
(* What a request that is about to place an entity, or to remove one, has read of
   the tree: it still holds unless the parent is removed, or gets a child, in
   between. *)
PlacedOK(x, st, pa) ==
  /\ x.kind = "create" /\ x.pc = "save" /\ x.parent # None => st[x.parent] = "active"
  /\ x.kind = "move" /\ x.pc \in {"level", "write"} /\ x.parent # None =>
       st[x.parent] = "active"
  /\ x.pc = "remove" => Kids(x.id, st, pa) = {}

OrphanInv ==
  /\ ActiveUnderActive
  /\ \A o \in Slot : PlacedOK(op[o], state, parent)

LEMMA IdlePlaced == \A st, pa : PlacedOK(Idle, st, pa)
  BY DEF PlacedOK, Idle

LEMMA OrphanStep ==
  ASSUME ~RemovedUnder,
         TypeOK, RequestInv, OwnInv, OrphanInv, [Next]_vars, TypeOK', RequestInv'
  PROVE  OrphanInv'
<1>a. op \in [Slot -> Operation] /\ op' \in [Slot -> Operation]
      /\ state \in [Entity -> {"absent", "active", "removed"}]
      /\ parent \in [Entity -> Maybe]
  BY DEF TypeOK
<1>b. \A s \in Slot : /\ op[s] \in Operation /\ WellFormed(op[s])
                      /\ op'[s] \in Operation /\ WellFormed(op'[s])
                      /\ PlacedOK(op[s], state, parent)
  BY <1>a DEF RequestInv, OrphanInv
<1>c. \A s \in Slot :
        /\ op[s].kind \in {"move", "remove"} =>
             op[s].id \in Entity /\ state[op[s].id] # "absent"
        /\ op[s].parent \in Maybe
  BY <1>b DEF OwnInv, OwnOK, WellFormed, Operation, Maybe
<1>d. \A e \in Entity :
        state[e] = "active" /\ parent[e] # None => state[parent[e]] = "active"
  BY DEF OrphanInv, ActiveUnderActive, Active
<1>e. ASSUME UNCHANGED <<state, parent>>, NEW o \in Slot, op' = [op EXCEPT ![o] = op'[o]],
             PlacedOK(op'[o], state, parent)
      PROVE  OrphanInv'
  <2>1. \A s \in Slot : op'[s] = op[s] \/ s = o
    BY <1>a, <1>e
  <2>2. \A s \in Slot : PlacedOK(op'[s], state', parent')
    BY <1>b, <1>e, <2>1
  <2>3. ActiveUnderActive'
    BY <1>d, <1>e DEF ActiveUnderActive, Active
  <2> QED
    BY <2>2, <2>3 DEF OrphanInv
<1>1. ASSUME NEW o \in Creator, NEW p \in Maybe, NEW by \in Maybe, StartCreate(o, p, by)
      PROVE  OrphanInv'
  <2>1. UNCHANGED <<state, parent>> /\ o \in Slot
    BY <1>1 DEF StartCreate, treeVars, Slot
  <2>2. op' = [op EXCEPT ![o] = op'[o]] /\ op'[o].kind = "create" /\ op'[o].parent = p
        /\ op'[o].pc # "remove"
    BY <1>1, <1>a, <2>1 DEF StartCreate, Idle
  <2>3. PlacedOK(op'[o], state, parent)
    BY <1>1, <2>2 DEF PlacedOK, StartCreate, Active
  <2> QED
    BY <1>e, <2>1, <2>2, <2>3
<1>2. ASSUME NEW o \in Mover, NEW e \in Entity, NEW p \in Maybe, NEW by \in Maybe,
             StartMove(o, e, p, by)
      PROVE  OrphanInv'
  <2>1. UNCHANGED <<state, parent>> /\ o \in Slot
    BY <1>2 DEF StartMove, treeVars, Slot
  <2>2. op' = [op EXCEPT ![o] = op'[o]]
        /\ op'[o] = [Idle EXCEPT !.kind = "move", !.id = e, !.parent = p, !.by = by,
                       !.pc = IF by # None THEN "authorize"
                              ELSE IF p = None THEN "write" ELSE "newParent"]
    BY <1>2, <1>a, <2>1 DEF StartMove
  <2>3. op'[o].kind = "move" /\ op'[o].parent = p
        /\ op'[o].pc = IF by # None THEN "authorize"
                       ELSE IF p = None THEN "write" ELSE "newParent"
    BY <2>2 DEF Idle
  <2>4. PlacedOK(op'[o], state, parent)
    BY <2>3 DEF PlacedOK
  <2> QED
    BY <1>e, <2>1, <2>2, <2>4
<1>3. ASSUME NEW o \in Remover, NEW e \in Entity, NEW by \in Maybe, StartRemove(o, e, by)
      PROVE  OrphanInv'
  <2>1. UNCHANGED <<state, parent>> /\ o \in Slot
    BY <1>3 DEF StartRemove, treeVars, Slot
  <2>2. op' = [op EXCEPT ![o] = op'[o]] /\ op'[o].kind = "remove" /\ op'[o].pc # "remove"
    BY <1>3, <1>a, <2>1 DEF StartRemove, Idle
  <2>3. PlacedOK(op'[o], state, parent)
    BY <2>2 DEF PlacedOK
  <2> QED
    BY <1>e, <2>1, <2>2, <2>3
<1>4. ASSUME NEW o \in Slot, Serve(o), op[o].pc \notin {"write", "remove"} PROVE OrphanInv'
  <2>1. /\ UNCHANGED <<state, parent>>
        /\ op' = [op EXCEPT ![o] = op'[o]]
        /\ op'[o] = Idle \/ Advance(op[o], op'[o])
    BY <1>4, ServeShape
  <2>2. CASE op'[o] = Idle
    BY <1>e, <2>1, <2>2, IdlePlaced
  <2>3. CASE Advance(op[o], op'[o])
    <3>1. Same(op[o], op'[o])
      BY <2>3 DEF Advance
    <3>2. op'[o].pc = "remove" => Kids(op[o].id, state, parent) = {}
      BY <2>3, <1>b DEF Advance, Childless, Children, Kids, Active, WellFormed
    <3>3. op'[o].kind = "create" /\ op'[o].pc = "save" => state[op[o].parent] = "active"
      BY <2>3 DEF Advance, Active
    <3>4. op'[o].kind = "move" /\ op'[o].pc \in {"level", "write"} =>
            state[op[o].parent] = "active" \/ op[o].pc = "level"
      BY <2>3, <3>1 DEF Advance, Active, Same
    <3>5. PlacedOK(op'[o], state, parent)
      BY <1>b, <3>1, <3>2, <3>3, <3>4 DEF PlacedOK, Same
    <3> QED
      BY <1>e, <2>1, <3>5
  <2> QED
    BY <2>1, <2>2, <2>3
<1>5. ASSUME NEW o \in Slot, WriteMove(o) PROVE OrphanInv'
  <2>1. op[o].kind = "move" /\ op[o].pc = "write"
    BY <1>5, <1>b DEF WriteMove, WellFormed
  <2>2. op[o].id \in Entity /\ op[o].parent \in Maybe
        /\ (op[o].parent # None => state[op[o].parent] = "active")
    BY <1>b, <1>c, <2>1 DEF PlacedOK
  <2>3. state' = state /\ parent' = [parent EXCEPT ![op[o].id] = op[o].parent]
        /\ op' = [op EXCEPT ![o].pc = "rewalk", ![o].stack = <<<<op[o].id, None>>>>]
    BY <1>5 DEF WriteMove
  <2>a. \A e \in Entity : parent'[e] = IF e = op[o].id THEN op[o].parent ELSE parent[e]
    BY <1>a, <2>3
  <2>4. ActiveUnderActive'
    BY <1>d, <2>2, <2>3, <2>a DEF ActiveUnderActive, Active
  <2>5. ASSUME NEW s \in Slot PROVE PlacedOK(op'[s], state', parent')
    <3>1. CASE s = o
      <4>v. PICK v : op' = [op EXCEPT ![o].pc = "rewalk", ![o].stack = v]
        BY <2>3
      <4>1. op'[o] = [op[o] EXCEPT !.pc = "rewalk", !.stack = v]
        BY <1>a, <4>v
      <4>2. op'[o].pc = "rewalk"
        BY <1>b, <4>1 DEF Operation
      <4> QED
        BY <3>1, <4>2 DEF PlacedOK
    <3>2. CASE s # o
      <4>1. op'[s] = op[s]
        BY <1>a, <2>3, <3>2
      <4>2. op[s].pc = "remove" => op[o].parent # op[s].id
        BY <2>1 DEF RemovedUnder
      <4>3. op[s].pc = "remove" => Kids(op[s].id, state', parent') = {}
        BY <1>b, <2>3, <2>a, <4>2 DEF PlacedOK, Kids
      <4> QED
        BY <1>b, <2>3, <4>1, <4>3 DEF PlacedOK
    <3> QED
      BY <3>1, <3>2
  <2> QED
    BY <2>4, <2>5 DEF OrphanInv
<1>6. ASSUME NEW o \in Slot, RemoveEntity(o) PROVE OrphanInv'
  <2>1. op[o].kind = "remove" /\ op[o].pc = "remove"
    BY <1>6, <1>b DEF RemoveEntity, WellFormed
  <2>2. op[o].id \in Entity /\ Kids(op[o].id, state, parent) = {}
    BY <1>b, <1>c, <2>1 DEF PlacedOK
  <2>3. state' = [state EXCEPT ![op[o].id] = "removed"] /\ parent' = parent /\ Return(o)
    BY <1>6 DEF RemoveEntity
  <2>4. \A e \in Entity : state'[e] = IF e = op[o].id THEN "removed" ELSE state[e]
    BY <1>a, <2>3
  <2>5. ActiveUnderActive'
    BY <1>a, <1>d, <2>2, <2>3, <2>4 DEF ActiveUnderActive, Active, Kids, Maybe
  <2>6. ASSUME NEW s \in Slot PROVE PlacedOK(op[s], state', parent')
    <3>1. (\/ op[s].kind = "create" /\ op[s].pc = "save"
           \/ op[s].kind = "move" /\ op[s].pc \in {"level", "write"})
            => op[s].parent # op[o].id
      BY <2>1 DEF RemovedUnder
    <3>2. op[s].parent # None /\ op[s].parent # op[o].id =>
            state'[op[s].parent] = state[op[s].parent]
      BY <1>c, <2>4 DEF Maybe
    <3>3. Kids(op[s].id, state, parent) = {} => Kids(op[s].id, state', parent') = {}
      BY <2>3, <2>4 DEF Kids
    <3> QED
      BY <1>b, <3>1, <3>2, <3>3 DEF PlacedOK
  <2>7. \A s \in Slot : op'[s] = Idle \/ op'[s] = op[s]
    BY <1>a, <2>3 DEF Return
  <2>8. \A s \in Slot : PlacedOK(op'[s], state', parent')
    BY <2>6, <2>7, IdlePlaced
  <2> QED
    BY <2>5, <2>8 DEF OrphanInv
<1>7. ASSUME NEW o \in Slot, NEW e \in Entity, SaveEntity(o, e) PROVE OrphanInv'
  <2>1. op[o].kind = "create" /\ op[o].pc = "save"
    BY <1>7, <1>b DEF SaveEntity, WellFormed
  <2>2. state[e] = "absent" /\ op[o].parent \in Maybe
        /\ (op[o].parent # None => state[op[o].parent] = "active")
    BY <1>7, <1>b, <1>c, <2>1 DEF SaveEntity, PlacedOK
  <2>3. state' = [state EXCEPT ![e] = "active"]
        /\ parent' = [parent EXCEPT ![e] = op[o].parent] /\ Return(o)
    BY <1>7 DEF SaveEntity
  <2>4. \A d \in Entity : /\ parent'[d] = IF d = e THEN op[o].parent ELSE parent[d]
                          /\ state'[d] = IF d = e THEN "active" ELSE state[d]
                          /\ parent[d] \in Maybe
    BY <1>a, <2>3
  <2>5. ActiveUnderActive'
    BY <1>d, <2>2, <2>4 DEF ActiveUnderActive, Active, Maybe
  <2>6. ASSUME NEW s \in Slot PROVE PlacedOK(op[s], state', parent')
    <3>1. op[s].parent # None /\ state[op[s].parent] = "active" =>
            state'[op[s].parent] = "active"
      BY <1>c, <2>4 DEF Maybe
    <3>2. op[s].pc = "remove" => op[o].parent # op[s].id
      BY <2>1 DEF RemovedUnder
    <3>3. op[s].pc = "remove" => Kids(op[s].id, state', parent') = {}
      BY <1>b, <2>4, <3>2 DEF PlacedOK, Kids
    <3> QED
      BY <1>b, <3>1, <3>3 DEF PlacedOK
  <2>7. \A s \in Slot : op'[s] = Idle \/ op'[s] = op[s]
    BY <1>a, <2>3 DEF Return
  <2>8. \A s \in Slot : PlacedOK(op'[s], state', parent')
    BY <2>6, <2>7, IdlePlaced
  <2> QED
    BY <2>5, <2>8 DEF OrphanInv
<1>8. CASE UNCHANGED vars
  <2>1. UNCHANGED <<state, parent, op>>
    BY <1>8 DEF vars, treeVars
  <2> QED
    BY <2>1, <1>b, <1>d DEF OrphanInv, ActiveUnderActive, Active
<1> QED
  <2>1. ASSUME NEW o \in Slot, Serve(o) PROVE OrphanInv'
    BY <1>4, <1>5, <1>6, <2>1, WritingSteps
  <2> QED
    BY <1>1, <1>2, <1>3, <1>7, <1>8, <2>1 DEF Next

LEMMA OrphanInvariant == Spec /\ []~RemovedUnder => []OrphanInv
<1>1. Init => OrphanInv
  <2> SUFFICES ASSUME Init PROVE OrphanInv
    OBVIOUS
  <2>1. ActiveUnderActive
    BY DEF Init, ActiveUnderActive, Active
  <2>2. \A o \in Slot : op[o] = Idle
    BY DEF Init
  <2> QED
    BY <2>1, <2>2, IdlePlaced DEF OrphanInv
<1>2. ~RemovedUnder /\ TypeOK /\ RequestInv /\ OwnInv /\ OrphanInv /\ [Next]_vars
        /\ TypeOK' /\ RequestInv' => OrphanInv'
  BY OrphanStep
<1> QED
  BY <1>1, <1>2, Typed, Owned, PTL DEF Spec

(* "Cannot delete entity with children": however many requests interleave, an
   active entity is left without an active parent only by a removal between whose
   count of the children and whose write another request places one of them, having
   read the parent for the last time. *)
THEOREM NoOrphans == Spec /\ []~RemovedUnder => []ActiveUnderActive
<1>1. OrphanInv => ActiveUnderActive
  BY DEF OrphanInv
<1> QED
  BY <1>1, OrphanInvariant, PTL

(* The entity of a move that is not written yet is active. *)
MovingInv ==
  \A o \in Slot :
    op[o].kind = "move" /\ op[o].pc \notin Rewriting => state[op[o].id] = "active"

LEMMA MovingInvariant == Spec /\ []~RemovedInMove => []MovingInv
<1>1. Init => MovingInv
  BY DEF Init, MovingInv, Idle
<1>2. ASSUME ~RemovedInMove, TypeOK, RequestInv, MovingInv, [Next]_vars, TypeOK', RequestInv'
      PROVE  MovingInv'
  <2>a. op \in [Slot -> Operation] /\ op' \in [Slot -> Operation]
        /\ state \in [Entity -> {"absent", "active", "removed"}]
    BY <1>2 DEF TypeOK
  <2>b. \A s \in Slot : /\ op[s] \in Operation /\ WellFormed(op[s])
                        /\ op[s].kind = "move" => op[s].id \in Entity
    BY <1>2, <2>a DEF RequestInv, WellFormed, Operation, Maybe
  <2>c. ASSUME state' = state, NEW o \in Slot, op' = [op EXCEPT ![o] = op'[o]],
               op'[o].kind = "move" /\ op'[o].pc \notin Rewriting =>
                 state[op'[o].id] = "active"
        PROVE  MovingInv'
    <3>1. \A s \in Slot : op'[s] = op[s] \/ s = o
      BY <2>a, <2>c
    <3> QED
      BY <1>2, <2>c, <3>1 DEF MovingInv
  <2>1. ASSUME NEW o \in Creator, NEW p \in Maybe, NEW by \in Maybe, StartCreate(o, p, by)
        PROVE  MovingInv'
    <3>1. state' = state /\ o \in Slot
      BY <2>1 DEF StartCreate, treeVars, Slot
    <3>2. op' = [op EXCEPT ![o] = op'[o]] /\ op'[o].kind = "create"
      BY <2>1, <2>a, <3>1 DEF StartCreate, Idle
    <3> QED
      BY <2>c, <3>1, <3>2
  <2>2. ASSUME NEW o \in Mover, NEW e \in Entity, NEW p \in Maybe, NEW by \in Maybe,
               StartMove(o, e, p, by)
        PROVE  MovingInv'
    <3>1. state' = state /\ o \in Slot /\ Active(e)
      BY <2>2 DEF StartMove, treeVars, Slot
    <3>2. op' = [op EXCEPT ![o] = op'[o]]
          /\ op'[o] = [Idle EXCEPT !.kind = "move", !.id = e, !.parent = p, !.by = by,
                         !.pc = IF by # None THEN "authorize"
                                ELSE IF p = None THEN "write" ELSE "newParent"]
      BY <2>2, <2>a, <3>1 DEF StartMove
    <3>3. op'[o].id = e
      BY <3>2 DEF Idle
    <3> QED
      BY <2>c, <3>1, <3>2, <3>3 DEF Active
  <2>3. ASSUME NEW o \in Remover, NEW e \in Entity, NEW by \in Maybe, StartRemove(o, e, by)
        PROVE  MovingInv'
    <3>1. state' = state /\ o \in Slot
      BY <2>3 DEF StartRemove, treeVars, Slot
    <3>2. op' = [op EXCEPT ![o] = op'[o]] /\ op'[o].kind = "remove"
      BY <2>3, <2>a, <3>1 DEF StartRemove, Idle
    <3> QED
      BY <2>c, <3>1, <3>2
  <2>4. ASSUME NEW o \in Slot, Serve(o), op[o].pc \notin {"write", "remove"}
        PROVE  MovingInv'
    <3>1. /\ state' = state
          /\ op' = [op EXCEPT ![o] = op'[o]]
          /\ op'[o] = Idle \/ Advance(op[o], op'[o])
      BY <1>2, <2>4, ServeShape
    <3>2. CASE op'[o] = Idle
      BY <2>c, <3>1, <3>2 DEF Idle
    <3>3. CASE Advance(op[o], op'[o])
      <4>1. Same(op[o], op'[o])
        BY <3>3 DEF Advance
      <4>2. op'[o].pc \notin Rewriting /\ op'[o].kind = "move" => op[o].pc \notin Rewriting
        BY <3>3 DEF Advance, Rewriting
      <4> QED
        BY <1>2, <2>c, <3>1, <4>1, <4>2 DEF MovingInv, Same
    <3> QED
      BY <3>1, <3>2, <3>3
  <2>5. ASSUME NEW o \in Slot, WriteMove(o) PROVE MovingInv'
    <3>v. PICK v : op' = [op EXCEPT ![o].pc = "rewalk", ![o].stack = v]
      BY <2>5 DEF WriteMove
    <3>1. op'[o] = [op[o] EXCEPT !.pc = "rewalk", !.stack = v]
      BY <2>a, <3>v
    <3>2. op'[o].pc = "rewalk" /\ op' = [op EXCEPT ![o] = op'[o]] /\ state' = state
      BY <2>a, <2>b, <2>5, <3>v, <3>1 DEF Operation, WriteMove
    <3> QED
      BY <2>c, <3>2 DEF Rewriting
  <2>6. ASSUME NEW o \in Slot, RemoveEntity(o) PROVE MovingInv'
    <3>1. op[o].pc = "remove" /\ state' = [state EXCEPT ![op[o].id] = "removed"] /\ Return(o)
      BY <2>6 DEF RemoveEntity
    <3>2. \A s \in Slot : op'[s] = Idle \/ op'[s] = op[s]
      BY <2>a, <3>1 DEF Return
    <3>3. \A s \in Slot :
            op[s].kind = "move" /\ op[s].pc \notin Rewriting => op[s].id # op[o].id
      BY <1>2, <3>1 DEF RemovedInMove
    <3>4. \A e \in Entity : e # op[o].id => state'[e] = state[e]
      BY <2>a, <3>1
    <3>5. Idle.kind # "move"
      BY DEF Idle
    <3> QED
      BY <1>2, <2>b, <3>2, <3>3, <3>4, <3>5 DEF MovingInv
  <2>7. ASSUME NEW o \in Slot, NEW e \in Entity, SaveEntity(o, e) PROVE MovingInv'
    <3>1. state' = [state EXCEPT ![e] = "active"] /\ Return(o)
      BY <2>7 DEF SaveEntity
    <3>2. \A s \in Slot : op'[s] = Idle \/ op'[s] = op[s]
      BY <2>a, <3>1 DEF Return
    <3>3. \A d \in Entity : state[d] = "active" => state'[d] = "active"
      BY <2>a, <3>1
    <3>4. Idle.kind # "move"
      BY DEF Idle
    <3> QED
      BY <1>2, <2>b, <3>2, <3>3, <3>4 DEF MovingInv
  <2>8. CASE UNCHANGED vars
    BY <1>2, <2>8 DEF vars, treeVars, MovingInv
  <2> QED
    <3>1. ASSUME NEW o \in Slot, Serve(o) PROVE MovingInv'
      BY <1>2, <2>4, <2>5, <2>6, <3>1, WritingSteps
    <3> QED
      BY <1>2, <2>1, <2>2, <2>3, <2>7, <2>8, <3>1 DEF Next
<1>3. ~RemovedInMove /\ TypeOK /\ RequestInv /\ MovingInv /\ [Next]_vars
        /\ TypeOK' /\ RequestInv' => MovingInv'
  BY <1>2
<1> QED
  BY <1>1, <1>3, Typed, PTL DEF Spec

(* The active entities outside of what the walk visited contain the new parent
   and with an entity its parent; the entity to be moved is not one of them. *)
LEMMA NotAbove ==
  ASSUME TypeOK, ActiveUnderActive, NEW x \in Operation, x.id \in Entity,
         x.parent \in Entity, state[x.parent] = "active", ApartOK(x, state, parent)
  PROVE  ~Forest!Above(x.id, x.parent)
<1>1. PICK O \in SUBSET Entity, V \in SUBSET Entity :
        /\ Known(O, state, parent) /\ x.id \in V /\ x.parent \in O \ V
        /\ \A v \in V : Kids(v, state, parent) \cap O \subseteq V
  BY DEF ApartOK
<1> DEFINE S == {e \in O : state[e] = "active" /\ e \notin V}
<1>2. S \in SUBSET Entity /\ x.parent \in S /\ x.id \notin S
  BY <1>1
<1>3. ASSUME NEW e \in S PROVE parent[e] \in S \cup {None}
  <2>1. e \in Entity /\ e \in O /\ state[e] = "active" /\ e \notin V
    OBVIOUS
  <2>2. parent[e] \in O \cup {None}
    BY <1>1, <2>1 DEF Known
  <2>3. ASSUME parent[e] # None PROVE parent[e] \in S
    <3>1. state[parent[e]] = "active"
      BY <2>1, <2>3 DEF ActiveUnderActive, Active
    <3>2. parent[e] \notin V
      BY <1>1, <2>1 DEF Kids
    <3> QED
      BY <2>2, <2>3, <3>1, <3>2
  <2> QED
    BY <2>3
<1> HIDE DEF S
<1> QED
  BY <1>2, <1>3 DEF Forest!Above

(* Interleaved requests are single steps of the forest: an entity is created or
   moved under an active one, never below itself, and only an entity without active
   children is removed, for good.  The overlaps that NothingLost names are the only
   ones that break it; any others may happen. *)
THEOREM ForestRefined == Spec /\ []NothingLost => ForestSpec
<1>1. Init => Forest!Init
  BY DEF Init, Forest!Init
<1>2. ~SelfMoved /\ TypeOK /\ RequestInv /\ OwnInv /\ CycleInv /\ OrphanInv /\ MovingInv
        /\ [Next]_vars => [Forest!Next]_(Forest!forestVars)
  <2> SUFFICES ASSUME ~SelfMoved, TypeOK, RequestInv, OwnInv, CycleInv, OrphanInv,
                      MovingInv, [Next]_vars
               PROVE  Forest!Next \/ UNCHANGED Forest!forestVars
    OBVIOUS
  <2> DEFINE Step == Forest!Next \/ UNCHANGED Forest!forestVars
  <2>a. ASSUME UNCHANGED <<state, parent>> PROVE Step
    BY <2>a DEF Forest!forestVars
  <2>b. \A s \in Slot : /\ op[s] \in Operation /\ WellFormed(op[s])
                        /\ PlacedOK(op[s], state, parent)
                        /\ MoveOK(op[s], state, parent)
    BY DEF TypeOK, RequestInv, OrphanInv, CycleInv
  <2>c. \A s \in Slot : /\ op[s].kind \in {"move", "remove"} => op[s].id \in Entity
                        /\ op[s].parent \in Maybe
    BY <2>b DEF WellFormed, Operation, Maybe
  <2>1. ASSUME NEW o \in Creator, NEW p \in Maybe, NEW by \in Maybe, StartCreate(o, p, by)
        PROVE  Step
    BY <2>1, <2>a DEF StartCreate, treeVars
  <2>2. ASSUME NEW o \in Mover, NEW e \in Entity, NEW p \in Maybe, NEW by \in Maybe,
               StartMove(o, e, p, by)
        PROVE  Step
    BY <2>2, <2>a DEF StartMove, treeVars
  <2>3. ASSUME NEW o \in Remover, NEW e \in Entity, NEW by \in Maybe, StartRemove(o, e, by)
        PROVE  Step
    BY <2>3, <2>a DEF StartRemove, treeVars
  <2>4. ASSUME NEW o \in Slot, Serve(o), op[o].pc \notin {"write", "remove"} PROVE Step
    BY <2>4, <2>a, ServeShape
  <2>5. ASSUME NEW o \in Slot, WriteMove(o) PROVE Step
    <3>1. op[o].kind = "move" /\ op[o].pc = "write"
      BY <2>5, <2>b DEF WriteMove, WellFormed
    <3>2. op[o].id \in Entity /\ op[o].parent \in Maybe /\ state[op[o].id] = "active"
          /\ (op[o].parent # None =>
                state[op[o].parent] = "active" /\ ApartOK(op[o], state, parent))
      BY <2>b, <2>c, <3>1 DEF PlacedOK, MoveOK, MovingInv, Rewriting, SelfMoved
    <3>3. op[o].parent # None => ~Forest!Above(op[o].id, op[o].parent)
      <4> SUFFICES ASSUME op[o].parent # None
                   PROVE  ~Forest!Above(op[o].id, op[o].parent)
        OBVIOUS
      <4>1. op[o].parent \in Entity /\ ActiveUnderActive /\ op[o] \in Operation
        BY <2>b, <3>2 DEF Maybe, OrphanInv
      <4> QED
        BY <3>2, <4>1, NotAbove
    <3>4. Forest!Move(op[o].id, op[o].parent)
      BY <2>5, <3>2, <3>3 DEF Forest!Move, WriteMove
    <3> QED
      BY <3>2, <3>4 DEF Forest!Next, Maybe
  <2>6. ASSUME NEW o \in Slot, RemoveEntity(o) PROVE Step
    <3>1. op[o].kind = "remove" /\ op[o].pc = "remove"
      BY <2>6, <2>b DEF RemoveEntity, WellFormed
    <3>2. op[o].id \in Entity /\ state[op[o].id] \in {"active", "removed"}
          /\ Kids(op[o].id, state, parent) = {}
      BY <2>b, <2>c, <3>1 DEF PlacedOK, OwnInv, OwnOK, TypeOK
    <3>3. CASE state[op[o].id] = "active"
      <4>1. Forest!Remove(op[o].id)
        BY <2>6, <3>2, <3>3 DEF Forest!Remove, Forest!Children, Kids, RemoveEntity
      <4> QED
        BY <3>2, <4>1 DEF Forest!Next
    <3>4. CASE state[op[o].id] = "removed"
      <4>1. state' = state /\ parent' = parent
        BY <2>6, <3>2, <3>4 DEF RemoveEntity, TypeOK
      <4> QED
        BY <2>a, <4>1
    <3> QED
      BY <3>2, <3>3, <3>4
  <2>7. ASSUME NEW o \in Slot, NEW e \in Entity, SaveEntity(o, e) PROVE Step
    <3>1. op[o].kind = "create" /\ op[o].pc = "save"
      BY <2>7, <2>b DEF SaveEntity, WellFormed
    <3>2. op[o].parent \in Maybe /\ (op[o].parent # None => state[op[o].parent] = "active")
      BY <2>b, <2>c, <3>1 DEF PlacedOK
    <3>3. Forest!Create(e, op[o].parent)
      BY <2>7, <3>2 DEF Forest!Create, SaveEntity
    <3> QED
      BY <3>2, <3>3 DEF Forest!Next, Maybe
  <2>8. CASE UNCHANGED vars
    BY <2>8, <2>a DEF vars, treeVars
  <2> QED
    <3>1. ASSUME NEW o \in Slot, Serve(o) PROVE Step
      BY <2>4, <2>5, <2>6, <3>1, WritingSteps
    <3> QED
      BY <2>1, <2>2, <2>3, <2>7, <2>8, <3>1 DEF Next
<1>3. NothingLost => ~MovesCross /\ ~SelfMoved /\ ~RemovedUnder /\ ~RemovedInMove
  BY DEF NothingLost
<1> QED
  BY <1>1, <1>2, <1>3, Typed, Owned, CycleInvariant, OrphanInvariant, MovingInvariant, PTL
     DEF Spec, ForestSpec, Forest!Spec

-----------------------------------------------------------------------------
(* Paths: which entities are out of date while move rewrites the subtree, and in
   which order they are put right. *)
(* The path of an entity is one step longer than that of its parent. *)
Sound(e, pa, pt) ==
  pt[e] = Append(IF pa[e] = None THEN <<>> ELSE pt[pa[e]], e)

(* An entry of the list or of the stack: an entity and its parent. *)
Edge(node, st, pa) ==
  node[2] \in Entity /\ st[node[1]] = "active" /\ pa[node[1]] = node[2]

(* While the descendants are collected: an entity whose children have been put on
   the stack (D) is not there any more, so that it is noted once. *)
DescentOK(x, st, pa) ==
  \E D \in SUBSET Entity :
    /\ \A node \in Elements(x.stack) :
         node = <<x.id, None>> \/ (Edge(node, st, pa) /\ node[2] \in D)
    /\ \A node \in Elements(x.list) :
         Edge(node, st, pa) /\ node[1] \in D /\ node[2] \in D
    /\ \A i, j \in 1 .. Len(x.stack) : x.stack[i][1] = x.stack[j][1] => i = j
    /\ Ents(x.stack) \cap D = {}
    /\ D \subseteq Ents(x.list) \cup {x.id}

(* The children of a listed entity are still on the stack or come later in the
   list. *)
InOrder(x, st, pa) ==
  \A i \in 1 .. Len(x.list) : \A k \in Kids(x.list[i][1], st, pa) :
    \/ <<k, x.list[i][1]>> \in Elements(x.stack)
    \/ \E j \in 1 .. Len(x.list) : j > i /\ x.list[j] = <<k, x.list[i][1]>>

(* An entity whose path is out of date will be found, or is in the list. *)
PendingOK(x, st, pa, pt) ==
  /\ \A node \in Elements(x.list) : Edge(node, st, pa)
  /\ InOrder(x, st, pa)
  /\ \A e \in Entity :
       st[e] = "active" /\ ~Sound(e, pa, pt) =>
         /\ pa[e] # None
         /\ \/ <<e, pa[e]>> \in Elements(x.stack)
            \/ <<e, pa[e]>> \in Elements(x.list)
            \/ pa[e] = x.id /\ <<x.id, None>> \in Elements(x.stack)

(* What a request has read of the place it is about to write.  The level read of a
   parent that has been removed is not that of the parent; create and move do not
   use it. *)
PlaceOK(x, st, pt, lv) ==
  /\ x.kind = "move" /\ x.pc \notin Rewriting \cup {"walk"} => x.list = <<>>
  /\ x.kind \in {"create", "move"} /\ x.pc \notin Rewriting /\ x.parent = None =>
       x.path = <<>> /\ x.level = 0
  /\ x.kind \in {"create", "move"} /\ x.parent # None =>
       /\ x.pc \in {"level", "idPath", "save", "write"} => x.path = pt[x.parent]
       /\ x.pc \in {"idPath", "save", "write"} /\ st[x.parent] = "active" =>
            x.level = lv[x.parent] + 1
  /\ x.pc \in Rewriting \ {"rewalk"} => x.stack = <<>>
  /\ x.pc \in {"descLevel", "descWrite"} => x.path = pt[Head(x.list)[2]]
  /\ x.pc = "descWrite" => x.level = lv[Head(x.list)[2]] + 1

RewriteOK(x, st, pa, pt) ==
  /\ x.pc \in Rewriting => PendingOK(x, st, pa, pt) /\ st[x.id] = "active"
  /\ x.pc = "rewalk" /\ x.stack # <<>> => DescentOK(x, st, pa)

AllSound(st, pa, pt) == \A e \in Entity : st[e] = "active" => Sound(e, pa, pt)

LevelsFollow ==
  \A e \in Entity : Active(e) => level[e] + 1 = Len(path[e])

PathInv ==
  /\ LevelsFollow
  /\ \A o \in Slot : PlaceOK(op[o], state, path, level)
                     /\ RewriteOK(op[o], state, parent, path)
  /\ (\A o \in Slot : op[o].pc \notin Rewriting) => AllSound(state, parent, path)

(* An entity that is on the stack once and whose children are not there yet: after
   its children have taken its place, every entity is still there once. *)
LEMMA PushedOnce ==
  ASSUME NEW x \in Operation, NEW y \in Operation, x.stack # <<>>, Descends(x, y),
         \A i, j \in 1 .. Len(x.stack) : x.stack[i][1] = x.stack[j][1] => i = j,
         \A node \in Elements(Tail(x.stack)) :
           node[1] \notin Kids(Head(x.stack)[1], state, parent)
  PROVE  /\ \A i, j \in 1 .. Len(y.stack) : y.stack[i][1] = y.stack[j][1] => i = j
         /\ \A node \in Elements(Tail(x.stack)) : node[1] # Head(x.stack)[1]
<1> DEFINE T == Entity \X Maybe
           stack == x.stack
           h == Head(x.stack)[1]
           S == Kids(h, state, parent)
           new == y.stack
<1>c. PICK order \in Orders(Children(h)) :
        new = [i \in 1 .. Len(order) |-> <<order[i], h>>] \o Tail(stack)
  BY DEF Descends
<1>d. Children(h) = S /\ S \subseteq Entity /\ h \in Entity
  BY DescendsElements DEF Children, Kids, Active
<1>e. order \in Seq(S)
  BY <1>d, OrderLists
<1>f. \A i, j \in 1 .. Len(order) : order[i] = order[j] => i = j
  <2>1. Cardinality(S) \in Nat
    BY <1>d, EntitiesAssumption, FS_Subset, FS_CardinalityType
  <2>2. order \in [1 .. Cardinality(S) -> S]
    BY <1>d DEF Orders
  <2>3. Len(order) = Cardinality(S)
    BY <1>e, <2>1, <2>2
  <2>4. \A i, j \in 1 .. Cardinality(S) : order[i] = order[j] => i = j
    BY <1>d DEF Orders
  <2> QED
    BY <2>3, <2>4
<1>g. stack \in Seq(T) /\ stack # <<>>
  BY DEF Operation
<1>h. \A i, j \in 1 .. Len(stack) : stack[i][1] = stack[j][1] => i = j
  OBVIOUS
<1>i. \A node \in Elements(Tail(stack)) : node[1] \notin S
  OBVIOUS
<1> DEFINE t == Tail(stack)
           m == Len(order)
<1>0. \A s \in S : <<s, h>> \in T
  BY <1>d DEF Maybe
<1> HIDE DEF T, stack, S, new, h
<1>1. t \in Seq(T) /\ Len(stack) \in Nat /\ Len(stack) >= 1 /\ Len(t) = Len(stack) - 1
      /\ Head(stack) = stack[1] /\ \A i \in 1 .. Len(t) : t[i] = stack[i + 1]
  BY <1>g
<1>2. m \in Nat /\ \A i \in 1 .. m : order[i] \in S
  BY <1>e
<1>3. /\ Len(new) = m + Len(t) /\ Len(t) \in Nat
      /\ \A i \in 1 .. m : new[i] = <<order[i], h>>
      /\ \A i \in 1 .. Len(t) : new[m + i] = t[i]
  <2> DEFINE a == [i \in 1 .. m |-> <<order[i], h>>]
  <2>1. a \in Seq(T) /\ Len(a) = m /\ \A i \in 1 .. m : a[i] = <<order[i], h>>
    <3>1. \A i \in 1 .. m : <<order[i], h>> \in T
      BY <1>0, <1>2
    <3> QED
      BY <1>2, <3>1
  <2>2. new = a \o t
    BY <1>c
  <2> HIDE DEF a
  <2> HIDE DEF t
  <2>3. Len(new) = m + Len(t) /\ Len(t) \in Nat
    <3> HIDE DEF m
    <3>1. t \in Seq(T) /\ a \in Seq(T) /\ Len(a) = m
      BY <1>1, <2>1
    <3>2. \A q, r \in Seq(T) : Len(q \o r) = Len(q) + Len(r) /\ Len(r) \in Nat
      OBVIOUS
    <3> QED
      BY <2>2, <3>1, <3>2, Zenon
  <2>4. ASSUME NEW i \in 1 .. m PROVE new[i] = <<order[i], h>>
    <3>1. (a \o t)[i] = a[i]
      BY <1>1, <1>2, <2>1
    <3> QED
      BY <2>1, <2>2, <3>1
  <2>5. ASSUME NEW i \in 1 .. Len(t) PROVE new[m + i] = t[i]
    <3> HIDE DEF m
    <3>1. (a \o t)[m + i] = t[i]
      BY <1>1, <1>2, <2>1
    <3> QED
      BY <2>2, <3>1
  <2> QED
    BY <2>3, <2>4, <2>5
<1>4. \A i \in 1 .. Len(t) : t[i] \in Elements(Tail(stack))
  BY DEF Elements
<1> HIDE DEF t, m
<1>a. ASSUME NEW i \in 1 .. Len(new), ~(i <= m)
      PROVE  \E p \in 1 .. Len(t) : i = m + p /\ new[i] = t[p]
  <2>1. i - m \in 1 .. Len(t) /\ i = m + (i - m)
    BY <1>2, <1>3, <1>a
  <2> QED
    BY <1>3, <2>1
<1>b. ASSUME NEW i \in 1 .. Len(new), i <= m
      PROVE  i \in 1 .. Len(order) /\ order[i] \in S /\ new[i][1] = order[i]
  <2>1. i \in 1 .. m
    BY <1>2, <1>3, <1>b
  <2>2. i \in 1 .. Len(order) /\ order[i] \in S /\ new[i] = <<order[i], h>>
    BY <1>2, <1>3, <2>1 DEF m
  <2> QED
    BY <2>2
<1>5. ASSUME NEW i \in 1 .. Len(new), NEW j \in 1 .. Len(new), new[i][1] = new[j][1]
      PROVE  i = j
  <2>1. CASE i <= m /\ j <= m
    <3>1. new[i][1] = order[i] /\ new[j][1] = order[j]
          /\ i \in 1 .. Len(order) /\ j \in 1 .. Len(order)
      BY <1>b, <2>1
    <3>2. order[i] = order[j]
      BY <1>5, <3>1
    <3> QED
      BY <1>f, <3>1, <3>2
  <2>2. ASSUME NEW k \in 1 .. Len(new), NEW l \in 1 .. Len(new), k <= m, ~(l <= m)
        PROVE  new[k][1] # new[l][1]
    <3>1. new[k][1] \in S
      BY <1>b, <2>2
    <3>2. PICK p \in 1 .. Len(t) : new[l] = t[p]
      BY <1>a, <2>2
    <3> QED
      BY <1>4, <1>i, <3>1, <3>2
  <2>3. CASE ~(i <= m) /\ ~(j <= m)
    <3>1. PICK p \in 1 .. Len(t) : i = m + p /\ new[i] = t[p]
      BY <1>a, <2>3
    <3>2. PICK q \in 1 .. Len(t) : j = m + q /\ new[j] = t[q]
      BY <1>a, <2>3
    <3>3. t[p] = stack[p + 1] /\ t[q] = stack[q + 1]
          /\ p + 1 \in 1 .. Len(stack) /\ q + 1 \in 1 .. Len(stack)
      BY <1>1
    <3>4. stack[p + 1][1] = stack[q + 1][1]
      BY <1>5, <3>1, <3>2, <3>3
    <3>5. p + 1 = q + 1
      BY <1>h, <3>3, <3>4
    <3> QED
      BY <1>2, <3>1, <3>2, <3>5
  <2> QED
    BY <1>5, <2>1, <2>2, <2>3
<1>6. ASSUME NEW node \in Elements(t) PROVE node[1] # Head(stack)[1]
  <2>1. PICK i \in 1 .. Len(t) : node = t[i]
    BY DEF Elements
  <2>2. node = stack[i + 1] /\ i + 1 \in 1 .. Len(stack) /\ i + 1 # 1 /\ 1 \in 1 .. Len(stack)
    BY <1>1, <2>1
  <2> QED
    BY <1>1, <1>h, <2>2
<1> QED
  BY <1>5, <1>6 DEF t, stack, h, new

(* One call of getAllDescendants after the move: an entity is noted after its
   parent and before its children, and none is forgotten. *)
LEMMA RewalkStep ==
  ASSUME TypeOK, Acyclic, NEW x \in Operation, NEW y \in Operation, x.id \in Entity,
         state[x.id] = "active", Same(x, y), x.stack # <<>>, Descends(x, y),
         DescentOK(x, state, parent), PendingOK(x, state, parent, path)
  PROVE  DescentOK(y, state, parent) /\ PendingOK(y, state, parent, path)
<1> DEFINE node == Head(x.stack)
           n == Head(x.stack)[1]
           ks == Kids(n, state, parent)
           tail == Elements(Tail(x.stack))
           root == <<x.id, None>>
<1>1. /\ x.stack \in Seq(Entity \X Maybe) /\ x.list \in Seq(Entity \X Entity)
      /\ y.list \in Seq(Entity \X Entity) /\ y.id = x.id /\ None \notin Entity
  BY EntitiesAssumption DEF Operation, Same
<1>2. /\ node \in Entity \X Maybe /\ n \in Entity
      /\ Elements(x.stack) = {node} \cup tail
      /\ Elements(y.stack) = {<<k, n>> : k \in ks} \cup tail
  BY DescendsElements
<1>3. PICK D \in SUBSET Entity :
        /\ \A e \in Elements(x.stack) :
             e = root \/ (Edge(e, state, parent) /\ e[2] \in D)
        /\ \A e \in Elements(x.list) :
             Edge(e, state, parent) /\ e[1] \in D /\ e[2] \in D
        /\ \A i, j \in 1 .. Len(x.stack) : x.stack[i][1] = x.stack[j][1] => i = j
        /\ Ents(x.stack) \cap D = {}
        /\ D \subseteq Ents(x.list) \cup {x.id}
  BY DEF DescentOK
<1>4. \A e \in Elements(x.list) : e \in Entity \X Entity
  BY <1>1 DEF Elements
<1>5. \A k \in ks : k \in Entity /\ state[k] = "active" /\ parent[k] = n
  BY DEF Kids
<1>6. n \notin D
  BY <1>2, <1>3 DEF Ents
<1>7. node = root \/ (Edge(node, state, parent) /\ node[2] \in D)
  BY <1>2, <1>3
<1>8. node[2] = None => n = x.id /\ node = root
  BY <1>7, <1>1 DEF Edge
<1>9. node \notin Elements(x.list)
  BY <1>3, <1>6
<1>10. y.list = IF node[2] = None THEN x.list ELSE Append(x.list, node)
  BY <1>9 DEF Descends
<1>11. node[2] # None => node \in Entity \X Entity
  BY <1>2 DEF Maybe
<1>12. /\ node[2] = None => Elements(y.list) = Elements(x.list)
       /\ node[2] # None => Elements(y.list) = Elements(x.list) \cup {node}
  <2>1. \A seq \in Seq(Entity \X Entity), e \in Entity \X Entity :
          Elements(Append(seq, e)) = Elements(seq) \cup {e}
    BY AppendedElements
  <2> HIDE DEF node
  <2> QED
    BY <1>1, <1>10, <1>11, <2>1
<1>13. ASSUME NEW d \in D \cup {n} PROVE state[d] = "active"
                                         /\ (d # x.id => parent[d] \in D)
  <2>1. CASE d \in D /\ d # x.id
    <3>1. PICK e \in Elements(x.list) : e[1] = d
      BY <1>3, <2>1 DEF Ents
    <3> QED
      BY <1>3, <3>1 DEF Edge
  <2>2. CASE d = n /\ d # x.id
    BY <1>7, <2>2 DEF Edge
  <2> QED
    BY <1>13, <2>1, <2>2
(* No descendant of the moved entity is its parent. *)
<1>14. parent[x.id] \notin D \cup {n}
  <2> SUFFICES ASSUME parent[x.id] \in D \cup {n} PROVE FALSE
    OBVIOUS
  <2> DEFINE C == D \cup {n}
  <2>1. C \in SUBSET {e \in Entity : Active(e)} /\ C # {}
    BY <1>2, <1>13 DEF Active
  <2>2. \A d \in C : parent[d] \in C
    BY <1>13
  <2> HIDE DEF C
  <2> QED
    BY <2>1, <2>2 DEF Acyclic
<1>15. ASSUME NEW k \in ks PROVE k # n /\ k # x.id /\ k \notin D
  <2>1. k # x.id
    BY <1>5, <1>14
  <2>2. k \notin D
    BY <1>5, <1>6, <1>13, <2>1
  <2>3. k # n
    BY <1>5, <1>6, <1>13, <2>1
  <2> QED
    BY <2>1, <2>2, <2>3
<1>16. \A e \in tail : e[1] \notin ks
  <2> SUFFICES ASSUME NEW e \in tail, e[1] \in ks PROVE FALSE
    OBVIOUS
  <2>1. e = root \/ (Edge(e, state, parent) /\ e[2] \in D)
    BY <1>2, <1>3
  <2>2. CASE e = root
    BY <1>15, <2>2
  <2>3. CASE Edge(e, state, parent) /\ e[2] \in D
    BY <1>5, <1>6, <2>3 DEF Edge
  <2> QED
    BY <2>1, <2>2, <2>3
<1>17. /\ \A i, j \in 1 .. Len(y.stack) : y.stack[i][1] = y.stack[j][1] => i = j
       /\ \A e \in tail : e[1] # n
  <2>1. \A i, j \in 1 .. Len(x.stack) : x.stack[i][1] = x.stack[j][1] => i = j
    BY <1>3
  <2>2. \A e \in Elements(Tail(x.stack)) : e[1] \notin Kids(Head(x.stack)[1], state, parent)
    BY <1>16
  <2> QED
    BY <2>1, <2>2, PushedOnce
<1>18. DescentOK(y, state, parent)
  <2> DEFINE E == D \cup {n}
  <2>1. E \in SUBSET Entity
    BY <1>2
  <2>2. ASSUME NEW e \in Elements(y.stack)
        PROVE  e = root \/ (Edge(e, state, parent) /\ e[2] \in E)
    <3>1. CASE e \in tail
      BY <1>2, <1>3, <3>1
    <3>2. CASE e \in {<<k, n>> : k \in ks}
      BY <1>2, <1>5, <3>2 DEF Edge
    <3> QED
      BY <1>2, <3>1, <3>2
  <2>3. ASSUME NEW e \in Elements(y.list)
        PROVE  Edge(e, state, parent) /\ e[1] \in E /\ e[2] \in E
    <3>1. CASE e \in Elements(x.list)
      BY <1>3, <3>1
    <3>2. CASE e = node /\ node[2] # None
      BY <1>7, <3>2
    <3> QED
      BY <1>12, <3>1, <3>2
  <2>4. Ents(y.stack) \cap E = {}
    <3> SUFFICES ASSUME NEW e \in Elements(y.stack) PROVE e[1] \notin E
      BY DEF Ents
    <3>1. CASE e \in tail
      BY <1>2, <1>3, <1>17, <3>1 DEF Ents
    <3>2. CASE e \in {<<k, n>> : k \in ks}
      BY <1>15, <3>2
    <3> QED
      BY <1>2, <3>1, <3>2
  <2>5. E \subseteq Ents(y.list) \cup {x.id}
    BY <1>3, <1>8, <1>12 DEF Ents
  <2> HIDE DEF E
  <2> QED
    BY <1>1, <1>17, <2>1, <2>2, <2>3, <2>4, <2>5 DEF DescentOK
<1>19. InOrder(y, state, parent)
  <2> SUFFICES ASSUME NEW i \in 1 .. Len(y.list), NEW k \in Kids(y.list[i][1], state, parent)
               PROVE  \/ <<k, y.list[i][1]>> \in Elements(y.stack)
                      \/ \E j \in 1 .. Len(y.list) : j > i /\ y.list[j] = <<k, y.list[i][1]>>
    BY DEF InOrder
  <2>1. /\ Len(x.list) \in Nat
        /\ node[2] = None => y.list = x.list
        /\ node[2] # None =>
             /\ Len(y.list) = Len(x.list) + 1 /\ y.list[Len(x.list) + 1] = node
             /\ \A j \in 1 .. Len(x.list) : y.list[j] = x.list[j]
    <3> HIDE DEF node
    <3> QED
      BY <1>1, <1>10, <1>11
  <2>2. CASE i \in 1 .. Len(x.list)
    <3> DEFINE e == <<k, x.list[i][1]>>
    <3>1. y.list[i] = x.list[i]
      BY <2>1, <2>2
    <3>2. \/ e \in Elements(x.stack)
          \/ \E j \in 1 .. Len(x.list) : j > i /\ x.list[j] = e
      BY <2>2, <3>1 DEF PendingOK, InOrder
    <3>3. x.list[i][1] \in Entity
      BY <1>1, <2>2
    <3>4. CASE e = node
      <4>1. node[2] # None
        BY <1>1, <3>3, <3>4
      <4>2. Len(y.list) \in 1 .. Len(y.list) /\ Len(y.list) > i /\ y.list[Len(y.list)] = e
        BY <2>1, <2>2, <3>4, <4>1
      <4> QED
        BY <3>1, <4>2
    <3>5. CASE e \in tail
      BY <1>2, <3>1, <3>5
    <3>6. CASE \E j \in 1 .. Len(x.list) : j > i /\ x.list[j] = e
      <4>1. PICK j \in 1 .. Len(x.list) : j > i /\ x.list[j] = e
        BY <3>6
      <4>2. j \in 1 .. Len(y.list) /\ y.list[j] = e
        BY <2>1, <4>1
      <4> QED
        BY <3>1, <4>1, <4>2
    <3> QED
      BY <1>2, <3>2, <3>4, <3>5, <3>6
  <2>3. CASE i \notin 1 .. Len(x.list)
    <3>1. node[2] # None /\ y.list[i] = node
      BY <2>1, <2>3
    <3>2. k \in ks /\ <<k, y.list[i][1]>> = <<k, n>>
      BY <3>1
    <3> QED
      BY <1>2, <3>2
  <2> QED
    BY <2>2, <2>3
<1>20. ASSUME NEW e \in Entity, state[e] = "active", ~Sound(e, parent, path)
       PROVE  /\ parent[e] # None
              /\ \/ <<e, parent[e]>> \in Elements(y.stack)
                 \/ <<e, parent[e]>> \in Elements(y.list)
                 \/ parent[e] = x.id /\ <<x.id, None>> \in Elements(y.stack)
  <2>1. /\ parent[e] # None
        /\ \/ <<e, parent[e]>> \in Elements(x.stack)
           \/ <<e, parent[e]>> \in Elements(x.list)
           \/ parent[e] = x.id /\ <<x.id, None>> \in Elements(x.stack)
    BY <1>20 DEF PendingOK
  <2>2. CASE <<e, parent[e]>> = node
    BY <1>12, <2>1, <2>2
  <2>3. CASE <<e, parent[e]>> \in tail
    BY <1>2, <2>1, <2>3
  <2>4. CASE <<e, parent[e]>> \in Elements(x.list)
    BY <1>12, <2>1, <2>4
  <2>5. CASE parent[e] = x.id /\ root = node
    <3>1. n = x.id
      BY <2>5
    <3>2. e \in ks
      BY <1>20, <2>5, <3>1 DEF Kids
    <3> QED
      BY <1>2, <2>1, <2>5, <3>1, <3>2
  <2>6. CASE parent[e] = x.id /\ root \in tail
    BY <1>2, <2>1, <2>6
  <2> QED
    BY <1>2, <2>1, <2>2, <2>3, <2>4, <2>5, <2>6
<1>21. \A e \in Elements(y.list) : Edge(e, state, parent)
  BY <1>3, <1>7, <1>12
<1> QED
  BY <1>1, <1>18, <1>19, <1>20, <1>21 DEF PendingOK

(* The locals that matter here, after a step that sets some of them. *)
Fields(x, y, pc, pt, lv, ls, st) ==
  Same(x, y) /\ y.pc = pc /\ y.path = pt /\ y.level = lv /\ y.list = ls /\ y.stack = st

LEMMA GotoSets ==
  ASSUME op \in [Slot -> Operation], NEW o \in Slot,
         NEW l, Goto(o, l)
  PROVE  Fields(op[o], op'[o], l, op[o].path, op[o].level, op[o].list, op[o].stack)
<1>1. op'[o] = [op[o] EXCEPT !.pc = l] /\ op[o] \in Operation
  BY DEF Goto
<1> QED
  BY <1>1 DEF Operation, Fields, Same

(* A step before the writes: what it reads of the new place. *)
PlaceAdvance(x, y) ==
  /\ Same(x, y) /\ y.pc \notin Rewriting
  /\ \/ y.list = x.list /\ x.pc # "walk"
     \/ y.list = <<>>
     \/ y.pc = "walk"
  /\ \/ /\ y.pc \in {"authorizeParent", "newParent", "circle", "walk", "path", "count",
                     "remove"}
        /\ y.path = x.path /\ y.level = x.level
     \/ /\ x.pc = "path" /\ y.pc = "level"
        /\ y.path = path[x.parent] /\ y.level = x.level
     \/ /\ x.pc = "level" /\ y.pc \in {"idPath", "write"}
        /\ y.path = x.path /\ y.level = LevelBelow(x.parent)
     \/ x.pc = "idPath" /\ y.pc = "save" /\ y.path = x.path /\ y.level = x.level

LEMMA PlaceShape ==
  ASSUME TypeOK, RequestInv, NEW o \in Slot, Serve(o),
         op[o].pc \notin Rewriting \cup {"write", "remove"}
  PROVE  /\ UNCHANGED <<state, parent, path, level>>
         /\ op'[o] = Idle \/ PlaceAdvance(op[o], op'[o])
<1> DEFINE Shape == /\ UNCHANGED <<state, parent, path, level>>
                    /\ op'[o] = Idle \/ PlaceAdvance(op[o], op'[o])
           Kept == UNCHANGED <<state, parent, path, level>>
<1>a. op \in [Slot -> Operation] /\ op[o] \in Operation /\ WellFormed(op[o])
  BY DEF TypeOK, RequestInv
<1>r. ASSUME Return(o), Kept PROVE Shape
  BY <1>a, <1>r, ReturnFields
<1>g. ASSUME NEW l \in {"authorizeParent", "newParent", "circle", "path", "count", "remove"},
             Goto(o, l), Kept, op[o].pc # "walk"
      PROVE  Shape
  <2>1. Fields(op[o], op'[o], l, op[o].path, op[o].level, op[o].list, op[o].stack)
    BY <1>a, <1>g, GotoSets
  <2> QED
    BY <1>g, <2>1 DEF Fields, PlaceAdvance, Rewriting
<1>1. CASE Authorize(o)
  <2>1. Kept /\ op[o].pc = "authorize"
    BY <1>1 DEF Authorize, treeVars, placeVars
  <2>2. op[o].kind \in {"create", "move", "remove"}
    BY <1>1, <1>a DEF Authorize, WellFormed, Operation
  <2>3. Return(o) \/ Goto(o, "path") \/ Goto(o, "authorizeParent") \/ Goto(o, "count")
    BY <1>1, <2>2 DEF Authorize
  <2> QED
    BY <1>r, <1>g, <2>1, <2>3
<1>2. CASE GeneratePath(o)
  <2>1. Kept /\ op[o].pc = "path"
    BY <1>2 DEF GeneratePath, treeVars, placeVars
  <2>2. CASE op' = [op EXCEPT ![o].pc = "level", ![o].path = path[op[o].parent]]
    <3>0. op'[o] = [op[o] EXCEPT !.pc = "level", !.path = path[op[o].parent]]
      BY <1>a, <2>2
    <3>1. Fields(op[o], op'[o], "level", path[op[o].parent], op[o].level, op[o].list,
                 op[o].stack)
      BY <1>a, <3>0 DEF Operation, Fields, Same
    <3> QED
      BY <2>1, <3>1 DEF Fields, PlaceAdvance, Rewriting
  <2> QED
    BY <1>2, <1>r, <2>1, <2>2 DEF GeneratePath
<1>3. CASE CalculateLevel(o)
  <2> DEFINE l == IF op[o].kind = "create" THEN "idPath" ELSE "write"
             v == LevelBelow(op[o].parent)
  <2>1. Kept /\ op[o].pc = "level" /\ op' = [op EXCEPT ![o].pc = l, ![o].level = v]
    BY <1>3 DEF CalculateLevel, treeVars, placeVars
  <2> HIDE DEF v, l
  <2>0. op'[o] = [op[o] EXCEPT !.pc = l, !.level = v]
    BY <1>a, <2>1
  <2>2. Fields(op[o], op'[o], l, op[o].path, v, op[o].list, op[o].stack)
    BY <1>a, <2>0 DEF Operation, Fields, Same
  <2> QED
    BY <2>1, <2>2 DEF Fields, PlaceAdvance, Rewriting, l, v
<1>4. CASE GenerateEntityPath(o)
  <2>1. Kept /\ op[o].pc = "idPath"
    BY <1>4 DEF GenerateEntityPath, treeVars, placeVars
  <2>2. CASE op' = [op EXCEPT ![o].pc = "save", ![o].idPath = idPath[op[o].parent]]
    <3>0. op'[o] = [op[o] EXCEPT !.pc = "save", !.idPath = idPath[op[o].parent]]
      BY <1>a, <2>2
    <3>1. Fields(op[o], op'[o], "save", op[o].path, op[o].level, op[o].list, op[o].stack)
      BY <1>a, <3>0 DEF Operation, Fields, Same
    <3> QED
      BY <2>1, <3>1 DEF Fields, PlaceAdvance, Rewriting
  <2> QED
    BY <1>4, <1>r, <2>1, <2>2 DEF GenerateEntityPath
<1>5. CASE AuthorizeParent(o)
  <2>1. Kept /\ op[o].pc = "authorizeParent"
    BY <1>5 DEF AuthorizeParent, treeVars, placeVars
  <2> QED
    BY <1>5, <1>r, <1>g, <2>1 DEF AuthorizeParent
<1>6. CASE FindNewParent(o)
  <2>1. Kept /\ op[o].pc = "newParent"
    BY <1>6 DEF FindNewParent, treeVars, placeVars
  <2> QED
    BY <1>6, <1>r, <1>g, <2>1 DEF FindNewParent
<1>7. CASE CheckCircular(o)
  <2>1. Kept /\ op[o].pc = "circle"
    BY <1>7 DEF CheckCircular, treeVars, placeVars
  <2>2. CASE op' = [op EXCEPT ![o].pc = "walk", ![o].stack = <<<<op[o].id, None>>>>]
    <3>1. PICK v : op' = [op EXCEPT ![o].pc = "walk", ![o].stack = v]
      BY <2>2
    <3>2. Fields(op[o], op'[o], "walk", op[o].path, op[o].level, op[o].list, v)
      <4>1. op'[o] = [op[o] EXCEPT !.pc = "walk", !.stack = v]
        BY <1>a, <3>1
      <4> QED
        BY <1>a, <4>1 DEF Operation, Fields, Same
    <3> QED
      BY <2>1, <3>2 DEF Fields, PlaceAdvance, Rewriting
  <2> QED
    BY <1>7, <1>g, <2>1, <2>2 DEF CheckCircular
<1>8. CASE GetDescendants(o)
  <2>1. Kept /\ op[o].pc = "walk"
    BY <1>8 DEF GetDescendants, treeVars, placeVars, Rewriting
  <2>2. PICK v, w : op' = [op EXCEPT ![o].list = v, ![o].stack = w]
    BY <1>8 DEF GetDescendants
  <2>3. Fields(op[o], op'[o], "walk", op[o].path, op[o].level, v, w)
    <3>1. op'[o] = [op[o] EXCEPT !.list = v, !.stack = w]
      BY <1>a, <2>2
    <3> QED
      BY <1>a, <2>1, <3>1 DEF Operation, Fields, Same
  <2> QED
    BY <2>1, <2>3 DEF Fields, PlaceAdvance, Rewriting
<1>9. CASE DescendantsKnown(o)
  <2>1. Kept /\ op[o].pc = "walk"
    BY <1>9 DEF DescendantsKnown, treeVars, placeVars
  <2>2. CASE op' = [op EXCEPT ![o].pc = "path", ![o].list = <<>>]
    <3>1. Fields(op[o], op'[o], "path", op[o].path, op[o].level, <<>>, op[o].stack)
      <4>1. op'[o] = [op[o] EXCEPT !.pc = "path", !.list = <<>>]
        BY <1>a, <2>2
      <4> QED
        BY <1>a, <4>1 DEF Operation, Fields, Same
    <3> QED
      BY <2>1, <3>1 DEF Fields, PlaceAdvance, Rewriting
  <2> QED
    BY <1>9, <1>r, <2>1, <2>2 DEF DescendantsKnown
<1>10. CASE CountDependents(o)
  <2>1. Kept /\ op[o].pc = "count"
    BY <1>10 DEF CountDependents, treeVars, placeVars
  <2> QED
    BY <1>10, <1>r, <1>g, <2>1 DEF CountDependents
<1>11. /\ ~WriteMove(o) /\ ~RemoveEntity(o) /\ ~RewriteNext(o)
       /\ ~ReadDescendantPath(o) /\ ~ReadDescendantLevel(o)
  BY DEF WriteMove, RemoveEntity, RewriteNext, ReadDescendantPath,
         ReadDescendantLevel, Rewriting
<1>12. ~WriteDescendant(o)
  BY DEF WriteDescendant, Rewriting
<1> QED
  BY <1>1, <1>2, <1>3, <1>4, <1>5, <1>6, <1>7, <1>8, <1>9, <1>10, <1>11, <1>12
     DEF Serve

(* A request that has not begun, or has ended. *)
LEMMA IdlePaths ==
  ASSUME NEW st, NEW pa, NEW pt, NEW lv
  PROVE  PlaceOK(Idle, st, pt, lv) /\ RewriteOK(Idle, st, pa, pt)
  BY DEF PlaceOK, RewriteOK, Idle, Rewriting

(* Before the writes: the path and the level that were read are still those of the
   new parent. *)
LEMMA PlaceStep ==
  ASSUME NEW x \in Operation, NEW y \in Operation, WellFormed(x), WellFormed(y),
         x.pc \notin Rewriting, PlaceOK(x, state, path, level), PlaceAdvance(x, y)
  PROVE  PlaceOK(y, state, path, level) /\ RewriteOK(y, state, parent, path)
         /\ y.pc \notin Rewriting
<1>1. y.kind = x.kind /\ y.parent = x.parent /\ y.pc \notin Rewriting
  BY DEF PlaceAdvance, Same
<1>2. y.kind = "move" /\ y.pc # "walk" => y.list = <<>>
  BY <1>1 DEF PlaceAdvance, PlaceOK
<1>3. x.pc \in {"path", "level"} /\ x.kind \in {"create", "move"} => x.parent # None
  BY DEF WellFormed
<1>4. ASSUME y.kind \in {"create", "move"}, y.parent = None
      PROVE  y.path = <<>> /\ y.level = 0
  <2>1. x.path = <<>> /\ x.level = 0 /\ x.pc \notin {"path", "level"}
    BY <1>1, <1>3, <1>4 DEF PlaceOK
  <2> QED
    BY <2>1 DEF PlaceAdvance
<1>5. ASSUME y.kind \in {"create", "move"}, y.parent # None,
             y.pc \in {"level", "idPath", "save", "write"}
      PROVE  y.path = path[y.parent]
  BY <1>1, <1>5 DEF PlaceAdvance, PlaceOK
<1>6. ASSUME y.kind \in {"create", "move"}, y.parent # None,
             y.pc \in {"idPath", "save", "write"}, state[y.parent] = "active"
      PROVE  y.level = level[y.parent] + 1
  <2>1. CASE x.pc = "level" /\ y.level = LevelBelow(x.parent)
    BY <1>1, <1>6, <2>1 DEF LevelBelow, Active
  <2>2. CASE x.pc = "idPath" /\ y.pc = "save" /\ y.level = x.level
    BY <1>1, <1>6, <2>2 DEF PlaceOK
  <2> QED
    BY <1>6, <2>1, <2>2 DEF PlaceAdvance
<1>7. y.pc \notin Rewriting \ {"rewalk"} /\ y.pc \notin {"descLevel", "descWrite"} /\ y.pc # "rewalk"
  BY <1>1 DEF Rewriting
<1>8. PlaceOK(y, state, path, level)
  BY <1>1, <1>2, <1>4, <1>5, <1>6, <1>7 DEF PlaceOK
<1> QED
  BY <1>1, <1>7, <1>8 DEF RewriteOK

(* The move is written: only the children of the moved entity are out of date. *)
LEMMA WritePaths ==
  ASSUME TypeOK, OrphanInv, MovingInv, PathInv, ~SelfMoved, AllSound(state, parent, path),
         NEW o \in Slot, WriteMove(o), op[o] \in Operation, WellFormed(op[o])
  PROVE  /\ LevelsFollow' /\ PlaceOK(op'[o], state', path', level')
         /\ RewriteOK(op'[o], state', parent', path') /\ op'[o].pc \in Rewriting
<1> DEFINE x == op[o]
<1>1. /\ x.pc = "write" /\ x.kind = "move" /\ PlaceOK(x, state, path, level)
      /\ PlacedOK(x, state, parent) /\ state[x.id] = "active"
      /\ x.parent # x.id /\ x.id # None
  BY DEF WriteMove, PathInv, Rewriting, OrphanInv, MovingInv, SelfMoved, WellFormed
<1>2. /\ x.id \in Entity /\ x.parent \in Maybe /\ x.path \in Seq(Entity) /\ x.level \in Nat
      /\ state[x.id] = "active"
  BY <1>1 DEF Operation, Maybe
<1>3. /\ x.list = <<>>
      /\ x.parent = None => x.path = <<>> /\ x.level = 0
      /\ x.parent # None => /\ x.path = path[x.parent] /\ x.level = level[x.parent] + 1
                            /\ x.parent \in Entity /\ state[x.parent] = "active"
  BY <1>1, <1>2 DEF PlaceOK, Rewriting, PlacedOK, Maybe
<1>4. /\ state' = state /\ parent' = [parent EXCEPT ![x.id] = x.parent]
      /\ path' = [path EXCEPT ![x.id] = Append(x.path, x.id)]
      /\ level' = [level EXCEPT ![x.id] = x.level]
  BY DEF WriteMove
<1>5. \A e \in Entity :
        /\ parent'[e] = IF e = x.id THEN x.parent ELSE parent[e]
        /\ path'[e] = IF e = x.id THEN Append(x.path, x.id) ELSE path[e]
        /\ level'[e] = IF e = x.id THEN x.level ELSE level[e]
        /\ path[e] \in Seq(Entity) /\ level[e] \in Nat /\ parent[e] \in Maybe
  BY <1>4 DEF TypeOK
<1>6. x.level = Len(x.path)
  <2>1. CASE x.parent = None
    BY <1>3, <2>1
  <2>2. CASE x.parent # None
    BY <1>3, <2>2 DEF PathInv, LevelsFollow, Active
  <2> QED
    BY <2>1, <2>2
<1>7. LevelsFollow'
  <2>1. Len(Append(x.path, x.id)) = Len(x.path) + 1
    BY <1>2
  <2>2. \A e \in Entity : state[e] = "active" => level[e] + 1 = Len(path[e])
    BY DEF PathInv, LevelsFollow, Active
  <2>3. \A e \in Entity : state[e] = "active" => level'[e] + 1 = Len(path'[e])
    BY <1>5, <1>6, <2>1, <2>2
  <2> QED
    BY <1>4, <2>3 DEF LevelsFollow, Active
<1>8. Sound(x.id, parent', path')
  <2>1. parent'[x.id] = x.parent /\ path'[x.id] = Append(x.path, x.id)
    BY <1>2, <1>5
  <2>2. x.parent # None => path'[x.parent] = x.path
    BY <1>1, <1>3, <1>5
  <2> QED
    BY <1>3, <2>1, <2>2 DEF Sound
<1>9. \A e \in Entity : state[e] = "active" /\ e # x.id /\ parent[e] # x.id
        => Sound(e, parent', path')
  <2> SUFFICES ASSUME NEW e \in Entity, state[e] = "active", e # x.id, parent[e] # x.id
               PROVE  Sound(e, parent', path')
    OBVIOUS
  <2>1. Sound(e, parent, path)
    BY <1>1 DEF AllSound
  <2>2. parent'[e] = parent[e] /\ path'[e] = path[e]
    BY <1>5
  <2>3. parent[e] # None => path'[parent[e]] = path[parent[e]]
    BY <1>5 DEF Maybe
  <2> QED
    BY <2>1, <2>2, <2>3 DEF Sound
<1>10. PICK v : v = <<<<x.id, None>>>> /\ op' = [op EXCEPT ![o].pc = "rewalk", ![o].stack = v]
  BY DEF WriteMove
<1> DEFINE y == op'[o]
<1>11. y = [x EXCEPT !.pc = "rewalk", !.stack = v]
  BY <1>10 DEF TypeOK
<1>12. y.pc = "rewalk" /\ y.kind = "move" /\ y.id = x.id /\ y.list = <<>> /\ y.stack = v
  BY <1>1, <1>3, <1>11 DEF Operation
<1>13. PlaceOK(y, state', path', level')
  BY <1>12 DEF PlaceOK, Rewriting
<1>14. /\ Elements(y.list) = {} /\ Ents(y.list) = {} /\ Len(y.list) = 0
       /\ Elements(y.stack) = {<<x.id, None>>} /\ Len(y.stack) = 1
  <2>1. y.list = <<>> /\ y.stack = <<<<x.id, None>>>>
    BY <1>10, <1>12
  <2> QED
    BY <2>1 DEF Elements, Ents
<1> HIDE DEF x, y
<1>15. DescentOK(y, state', parent')
  <2>1. \A i, j \in 1 .. Len(y.stack) : i = j
    BY <1>14
  <2> QED
    BY <1>12, <1>14, <2>1 DEF DescentOK
<1>16. PendingOK(y, state', parent', path')
  <2>1. InOrder(y, state', parent')
    BY <1>14 DEF InOrder
  <2>2. ASSUME NEW e \in Entity, state'[e] = "active", ~Sound(e, parent', path')
        PROVE  parent'[e] = x.id
    BY <1>4, <1>5, <1>8, <1>9, <2>2
  <2> QED
    BY <1>1, <1>12, <1>14, <2>1, <2>2 DEF PendingOK
<1>17. state'[y.id] = "active"
  BY <1>2, <1>4, <1>12
<1> QED
  BY <1>7, <1>12, <1>13, <1>15, <1>16, <1>17 DEF RewriteOK, Rewriting, y

(* One descendant is written: its children, which come later, are out of date. *)
LEMMA DescendantPaths ==
  ASSUME TypeOK, OrphanInv, PathInv, CycleInv, NEW o \in Slot, WriteDescendant(o),
         op[o] \in Operation, WellFormed(op[o])
  PROVE  /\ LevelsFollow' /\ PlaceOK(op'[o], state', path', level')
         /\ RewriteOK(op'[o], state', parent', path') /\ op'[o].pc \in Rewriting
<1> DEFINE x == op[o]
           ls == x.list
           e == Head(x.list)[1]
           above == Head(x.list)[2]
<1>1. /\ x.pc = "descWrite" /\ x.kind = "move" /\ PlaceOK(x, state, path, level)
      /\ PendingOK(x, state, parent, path) /\ x.list # <<>>
      /\ state[x.id] = "active"
  BY DEF WriteDescendant, PathInv, RewriteOK, Rewriting, WellFormed
<1>2. /\ x.stack = <<>> /\ x.path = path[above] /\ x.level = level[above] + 1
      /\ x.list \in Seq(Entity \X Entity) /\ x.path \in Seq(Entity)
  BY <1>1 DEF PlaceOK, Rewriting, Operation
<1>3. /\ Head(ls) \in Entity \X Entity /\ Tail(ls) \in Seq(Entity \X Entity)
      /\ Head(ls) = ls[1] /\ Len(ls) \in Nat /\ Len(ls) >= 1
      /\ Len(Tail(ls)) = Len(ls) - 1 /\ \A i \in 1 .. Len(Tail(ls)) : Tail(ls)[i] = ls[i + 1]
  BY <1>1, <1>2
<1>4. e \in Entity /\ above \in Entity /\ Head(ls) = <<e, above>> /\ Head(ls) \in Elements(ls)
  <2>1. 1 \in 1 .. Len(ls) /\ Head(ls) = ls[1]
    BY <1>3
  <2> QED
    BY <1>3, <2>1 DEF Elements
<1>5. state[e] = "active" /\ parent[e] = above /\ state[above] = "active"
  <2>1. Edge(Head(ls), state, parent)
    BY <1>1, <1>4 DEF PendingOK
  <2>2. state[e] = "active" /\ parent[e] = above
    BY <2>1 DEF Edge
  <2> QED
    BY <1>4, <2>2, EntitiesAssumption DEF OrphanInv, ActiveUnderActive, Active
<1>6. above # e
  <2> SUFFICES ASSUME above = e PROVE FALSE
    OBVIOUS
  <2>1. {e} \in SUBSET {d \in Entity : Active(d)}
    BY <1>4, <1>5 DEF Active
  <2> HIDE DEF e, above
  <2> QED
    BY <1>5, <2>1 DEF CycleInv, Acyclic
<1>7. /\ state' = state /\ parent' = parent
      /\ path' = [path EXCEPT ![e] = Append(x.path, e)]
      /\ level' = [level EXCEPT ![e] = x.level]
  BY DEF WriteDescendant, treeVars
<1> HIDE DEF e, above
<1>8. \A d \in Entity :
        /\ path'[d] = IF d = e THEN Append(x.path, e) ELSE path[d]
        /\ level'[d] = IF d = e THEN x.level ELSE level[d]
        /\ path[d] \in Seq(Entity) /\ level[d] \in Nat /\ parent[d] \in Maybe
  BY <1>7 DEF TypeOK
<1>9. LevelsFollow'
  <2>1. Len(Append(x.path, e)) = Len(x.path) + 1
    BY <1>2, <1>4
  <2>2. \A d \in Entity : state[d] = "active" => level[d] + 1 = Len(path[d])
    BY DEF PathInv, LevelsFollow, Active
  <2>3. x.level = Len(x.path)
    BY <1>2, <1>4, <1>5, <2>2
  <2>4. \A d \in Entity : state[d] = "active" => level'[d] + 1 = Len(path'[d])
    BY <1>8, <2>1, <2>2, <2>3
  <2> QED
    BY <1>7, <2>4 DEF LevelsFollow, Active
<1>10. Sound(e, parent, path')
  BY <1>2, <1>4, <1>5, <1>6, <1>8, EntitiesAssumption DEF Sound
<1>11. \A d \in Entity : Sound(d, parent, path) /\ d # e /\ parent[d] # e
         => Sound(d, parent, path')
  <2> SUFFICES ASSUME NEW d \in Entity, Sound(d, parent, path), d # e, parent[d] # e
               PROVE  Sound(d, parent, path')
    OBVIOUS
  <2>1. path'[d] = path[d] /\ (parent[d] # None => path'[parent[d]] = path[parent[d]])
    BY <1>8 DEF Maybe
  <2> QED
    BY <2>1 DEF Sound
<1>12. PICK v : v = Tail(ls) /\ op' = [op EXCEPT ![o].pc = "rewalk", ![o].list = v]
  BY DEF WriteDescendant
<1> DEFINE y == op'[o]
<1>13. y = [x EXCEPT !.pc = "rewalk", !.list = v]
  BY <1>12 DEF TypeOK
<1>14. y.pc = "rewalk" /\ y.kind = "move" /\ y.id = x.id /\ y.list = Tail(ls)
       /\ y.stack = <<>>
  <2>1. y.pc = "rewalk" /\ y.kind = x.kind /\ y.id = x.id /\ y.list = v
        /\ y.stack = x.stack
    BY <1>13 DEF Operation
  <2> HIDE DEF x, y, ls
  <2>2. v = Tail(ls) /\ x.kind = "move" /\ x.stack = <<>>
    BY <1>1, <1>2, <1>12
  <2> QED
    BY <2>1, <2>2
<1> HIDE DEF y
<1>15. PlaceOK(y, state', path', level')
  BY <1>14 DEF PlaceOK, Rewriting
<1>16. Elements(ls) = {<<e, above>>} \cup Elements(y.list)
  <2>1. ls \in Seq(Entity \X Entity) /\ ls # <<>>
    BY <1>1, <1>2
  <2> HIDE DEF ls
  <2>2. Elements(ls) = {Head(ls)} \cup Elements(Tail(ls))
    BY <2>1, PushedElements
  <2> QED
    BY <1>4, <1>14, <2>2
<1>17. \A k \in Kids(e, state, parent) : <<k, e>> \in Elements(y.list)
  <2> SUFFICES ASSUME NEW k \in Kids(e, state, parent) PROVE <<k, e>> \in Elements(y.list)
    OBVIOUS
  <2>1. 1 \in 1 .. Len(ls) /\ ls[1] = Head(ls) /\ Head(ls)[1] = e
    BY <1>3 DEF e
  <2>2. Elements(x.stack) = {}
    BY <1>2 DEF Elements
  <2>3. PICK j \in 1 .. Len(ls) : j > 1 /\ ls[j] = <<k, e>>
    BY <1>1, <2>1, <2>2 DEF PendingOK, InOrder
  <2>4. j - 1 \in 1 .. Len(Tail(ls)) /\ (j - 1) + 1 = j
    BY <1>3, <2>3
  <2>5. Tail(ls)[j - 1] = <<k, e>>
    BY <1>3, <2>3, <2>4
  <2> QED
    BY <1>14, <2>4, <2>5 DEF Elements
<1>18. InOrder(y, state, parent)
  <2> SUFFICES ASSUME NEW i \in 1 .. Len(Tail(ls)), NEW k \in Kids(Tail(ls)[i][1], state, parent)
               PROVE  \E j \in 1 .. Len(Tail(ls)) : j > i /\ Tail(ls)[j] = <<k, Tail(ls)[i][1]>>
    BY <1>14 DEF InOrder
  <2>1. i + 1 \in 1 .. Len(ls) /\ Tail(ls)[i] = ls[i + 1]
    BY <1>3
  <2>2. Elements(x.stack) = {}
    BY <1>2 DEF Elements
  <2>3. k \in Kids(ls[i + 1][1], state, parent)
    BY <2>1
  <2>4. PICK j \in 1 .. Len(ls) : j > i + 1 /\ ls[j] = <<k, ls[i + 1][1]>>
    BY <1>1, <2>1, <2>2, <2>3 DEF PendingOK, InOrder
  <2>5. j - 1 \in 1 .. Len(Tail(ls)) /\ (j - 1) + 1 = j /\ j - 1 > i
    BY <1>3, <2>4
  <2>6. Tail(ls)[j - 1] = <<k, Tail(ls)[i][1]>>
    BY <1>3, <2>1, <2>4, <2>5
  <2> QED
    BY <2>5, <2>6
<1>19. ASSUME NEW d \in Entity, state[d] = "active", ~Sound(d, parent, path')
       PROVE  parent[d] # None /\ <<d, parent[d]>> \in Elements(y.list)
  <2>1. d # e
    BY <1>10, <1>19
  <2>2. CASE parent[d] = e
    <3>1. d \in Kids(e, state, parent)
      BY <1>19, <2>2 DEF Kids
    <3> QED
      BY <1>4, <1>17, <2>2, <3>1, EntitiesAssumption
  <2>3. CASE parent[d] # e
    <3>1. ~Sound(d, parent, path)
      BY <1>11, <1>19, <2>1, <2>3
    <3>2. Elements(x.stack) = {}
      BY <1>2 DEF Elements
    <3>3. parent[d] # None /\ <<d, parent[d]>> \in Elements(ls)
      BY <1>1, <1>19, <3>1, <3>2 DEF PendingOK
    <3>4. <<d, parent[d]>> # <<e, above>>
      BY <2>1
    <3> QED
      BY <1>16, <3>3, <3>4
  <2> QED
    BY <2>2, <2>3
<1>20. PendingOK(y, state, parent, path')
  BY <1>1, <1>16, <1>18, <1>19 DEF PendingOK
<1> QED
  BY <1>1, <1>7, <1>9, <1>14, <1>15, <1>20 DEF RewriteOK, Rewriting, y

(* A new entity has no children: its own path is right, and no other one becomes
   wrong by it. *)
LEMMA SavePaths ==
  ASSUME TypeOK, OrphanInv, PathInv, NEW o \in Slot, NEW e \in Entity, SaveEntity(o, e),
         op[o] \in Operation, WellFormed(op[o])
  PROVE  /\ LevelsFollow' /\ Sound(e, parent', path')
         /\ \A d \in Entity : state[d] = "active" /\ Sound(d, parent, path) =>
              Sound(d, parent', path')
<1> DEFINE x == op[o]
<1>1. /\ x.pc = "save" /\ x.kind = "create" /\ PlaceOK(x, state, path, level)
      /\ PlacedOK(x, state, parent) /\ state[e] = "absent" /\ e # None
  BY EntitiesAssumption DEF SaveEntity, PathInv, Rewriting, OrphanInv, WellFormed
<1>2. x.parent \in Maybe /\ x.path \in Seq(Entity) /\ x.level \in Nat
  BY DEF Operation
<1>3. /\ x.parent = None => x.path = <<>> /\ x.level = 0
      /\ x.parent # None => /\ x.path = path[x.parent] /\ x.level = level[x.parent] + 1
                            /\ x.parent \in Entity /\ state[x.parent] = "active"
  BY <1>1, <1>2 DEF PlaceOK, Rewriting, PlacedOK, Maybe
<1>4. /\ state' = [state EXCEPT ![e] = "active"]
      /\ parent' = [parent EXCEPT ![e] = x.parent]
      /\ path' = [path EXCEPT ![e] = Append(x.path, e)]
      /\ level' = [level EXCEPT ![e] = x.level]
  BY DEF SaveEntity
<1>5. \A d \in Entity :
        /\ state'[d] = IF d = e THEN "active" ELSE state[d]
        /\ parent'[d] = IF d = e THEN x.parent ELSE parent[d]
        /\ path'[d] = IF d = e THEN Append(x.path, e) ELSE path[d]
        /\ level'[d] = IF d = e THEN x.level ELSE level[d]
        /\ path[d] \in Seq(Entity) /\ level[d] \in Nat /\ parent[d] \in Maybe
  BY <1>4 DEF TypeOK
<1>6. x.level = Len(x.path)
  <2>1. CASE x.parent = None
    BY <1>3, <2>1
  <2>2. CASE x.parent # None
    BY <1>3, <2>2 DEF PathInv, LevelsFollow, Active
  <2> QED
    BY <2>1, <2>2
<1>7. LevelsFollow'
  <2>1. Len(Append(x.path, e)) = Len(x.path) + 1
    BY <1>2
  <2>2. \A d \in Entity : state[d] = "active" => level[d] + 1 = Len(path[d])
    BY DEF PathInv, LevelsFollow, Active
  <2>3. \A d \in Entity : state'[d] = "active" => level'[d] + 1 = Len(path'[d])
    BY <1>5, <1>6, <2>1, <2>2
  <2> QED
    BY <2>3 DEF LevelsFollow, Active
<1>8. Sound(e, parent', path')
  <2>1. parent'[e] = x.parent /\ path'[e] = Append(x.path, e)
    BY <1>5
  <2>2. x.parent = None => Sound(e, parent', path')
    BY <1>3, <2>1 DEF Sound
  <2>3. x.parent # None => path'[x.parent] = x.path
    BY <1>1, <1>3, <1>5
  <2> QED
    BY <2>1, <2>2, <2>3 DEF Sound
<1>9. ASSUME NEW d \in Entity, state[d] = "active", Sound(d, parent, path)
      PROVE  Sound(d, parent', path')
  <2>1. d # e
    BY <1>1, <1>9
  <2>2. parent[d] # None => parent[d] \in Entity /\ parent[d] # e
    BY <1>1, <1>5, <1>9 DEF OrphanInv, ActiveUnderActive, Active, Maybe
  <2>3. path'[d] = path[d] /\ parent'[d] = parent[d]
        /\ (parent[d] # None => path'[parent[d]] = path[parent[d]])
    BY <1>5, <2>1, <2>2
  <2> QED
    BY <1>9, <2>3 DEF Sound
<1> QED
  BY <1>7, <1>8, <1>9

(* What another request has read of its place survives the creation of an entity. *)
LEMMA PlaceKept ==
  ASSUME TypeOK, OrphanInv, NEW e \in Entity, state[e] = "absent",
         NEW x \in Operation, WellFormed(x), PlaceOK(x, state, path, level),
         RewriteOK(x, state, parent, path),
         x.kind \in {"create", "move"} /\ x.parent # None
           /\ x.pc \in {"level", "idPath", "save", "write"} => state[x.parent] # "absent",
         NEW st, NEW pt, NEW lv,
         \A d \in Entity \ {e} : st[d] = state[d] /\ pt[d] = path[d] /\ lv[d] = level[d]
  PROVE  PlaceOK(x, st, pt, lv)
<1>1. x.parent \in Maybe /\ x.list \in Seq(Entity \X Entity)
  BY DEF Operation
<1>2. x.kind \in {"create", "move"} /\ x.parent # None
        /\ x.pc \in {"level", "idPath", "save", "write"} => x.parent \in Entity \ {e}
  BY <1>1 DEF Maybe
<1>3. ASSUME x.pc \in {"descLevel", "descWrite"} PROVE Head(x.list)[2] \in Entity \ {e}
  <2>1. PendingOK(x, state, parent, path) /\ x.list # <<>>
    BY <1>3 DEF RewriteOK, Rewriting, WellFormed
  <2>2. Head(x.list) \in Elements(x.list) /\ Head(x.list) \in Entity \X Entity
    <3>1. 1 \in 1 .. Len(x.list) /\ Head(x.list) = x.list[1]
          /\ Head(x.list) \in Entity \X Entity
      BY <1>1, <2>1
    <3> QED
      BY <3>1 DEF Elements
  <2>3. Edge(Head(x.list), state, parent)
    BY <2>1, <2>2 DEF PendingOK
  <2>4. state[Head(x.list)[2]] = "active" /\ Head(x.list)[2] \in Entity
    BY <2>2, <2>3, EntitiesAssumption DEF Edge, OrphanInv, ActiveUnderActive, Active
  <2> QED
    BY <2>4
<1>4. x.kind \in {"create", "move"} /\ x.parent # None =>
        /\ x.pc \in {"level", "idPath", "save", "write"} => x.path = pt[x.parent]
        /\ x.pc \in {"idPath", "save", "write"} /\ st[x.parent] = "active" =>
             x.level = lv[x.parent] + 1
  BY <1>2 DEF PlaceOK
<1>5. /\ x.pc \in {"descLevel", "descWrite"} => x.path = pt[Head(x.list)[2]]
      /\ x.pc = "descWrite" => x.level = lv[Head(x.list)[2]] + 1
  BY <1>3 DEF PlaceOK
<1> QED
  BY <1>4, <1>5 DEF PlaceOK

(* A subtree that is being rewritten does not change by the creation of a root. *)
LEMMA RewriteKept ==
  ASSUME TypeOK, NEW e \in Entity, state[e] = "absent",
         NEW x \in Operation, x.id \in Entity, RewriteOK(x, state, parent, path),
         NEW st, NEW pa, NEW pt, pa[e] = None, Sound(e, pa, pt),
         \A d \in Entity \ {e} : st[d] = state[d] /\ pa[d] = parent[d],
         \A d \in Entity : state[d] = "active" /\ Sound(d, parent, path) => Sound(d, pa, pt)
  PROVE  RewriteOK(x, st, pa, pt)
<1>1. None \notin Entity /\ x.list \in Seq(Entity \X Entity) /\ x.stack \in Seq(Entity \X Maybe)
  BY EntitiesAssumption DEF Operation
<1>2. \A v \in Entity : Kids(v, st, pa) = Kids(v, state, parent)
  BY <1>1 DEF Kids
<1>3. \A n \in Entity \X Maybe : Edge(n, state, parent) => Edge(n, st, pa)
  BY <1>1 DEF Edge
<1>4. /\ \A n \in Elements(x.stack) : n \in Entity \X Maybe
      /\ \A n \in Elements(x.list) : n \in Entity \X Maybe
  BY <1>1 DEF Elements, Maybe
<1>5. ASSUME x.pc \in Rewriting PROVE PendingOK(x, st, pa, pt) /\ st[x.id] = "active"
  <2>1. PendingOK(x, state, parent, path) /\ state[x.id] = "active"
    BY <1>5 DEF RewriteOK
  <2>2. InOrder(x, st, pa)
    <3>1. \A i \in 1 .. Len(x.list) : x.list[i][1] \in Entity
      BY <1>1
    <3> QED
      BY <1>2, <2>1, <3>1 DEF PendingOK, InOrder
  <2>3. \A n \in Elements(x.list) : Edge(n, st, pa)
    BY <1>3, <1>4, <2>1 DEF PendingOK
  <2>4. ASSUME NEW d \in Entity, st[d] = "active", ~Sound(d, pa, pt)
        PROVE  state[d] = "active" /\ ~Sound(d, parent, path) /\ pa[d] = parent[d]
    BY <2>4
  <2>5. \A d \in Entity : st[d] = "active" /\ ~Sound(d, pa, pt) =>
          /\ pa[d] # None
          /\ \/ <<d, pa[d]>> \in Elements(x.stack)
             \/ <<d, pa[d]>> \in Elements(x.list)
             \/ pa[d] = x.id /\ <<x.id, None>> \in Elements(x.stack)
    BY <2>1, <2>4 DEF PendingOK
  <2> QED
    BY <2>1, <2>2, <2>3, <2>5 DEF PendingOK
<1>6. ASSUME x.pc = "rewalk", x.stack # <<>> PROVE DescentOK(x, st, pa)
  <2>1. DescentOK(x, state, parent)
    BY <1>6 DEF RewriteOK
  <2> QED
    BY <1>3, <1>4, <2>1 DEF DescentOK
<1> QED
  BY <1>5, <1>6 DEF RewriteOK

(* What is pending depends on the list, the stack and the entity moved alone. *)
LEMMA PendingSame ==
  ASSUME NEW x, NEW y, y.list = x.list, y.stack = x.stack, y.id = x.id,
         NEW st, NEW pa, NEW pt, PendingOK(x, st, pa, pt)
  PROVE  PendingOK(y, st, pa, pt)
<1>1. InOrder(x, st, pa) => InOrder(y, st, pa)
  BY DEF InOrder
<1> QED
  BY <1>1 DEF PendingOK

LEMMA PathStep ==
  ASSUME NothingLost, ~PlacesCross, TypeOK, RequestInv, OwnInv, CycleInv, OrphanInv,
         MovingInv, PathInv, [Next]_vars, TypeOK', RequestInv'
  PROVE  PathInv'
<1>a. op \in [Slot -> Operation] /\ op' \in [Slot -> Operation]
      /\ state \in [Entity -> {"absent", "active", "removed"}]
      /\ parent \in [Entity -> Maybe]
  BY DEF TypeOK
<1>b. \A s \in Slot : /\ op[s] \in Operation /\ WellFormed(op[s])
                      /\ op'[s] \in Operation /\ WellFormed(op'[s])
                      /\ PlaceOK(op[s], state, path, level)
                      /\ RewriteOK(op[s], state, parent, path)
  BY <1>a DEF RequestInv, PathInv
<1>s. (\A s \in Slot : op[s].pc \notin Rewriting) => AllSound(state, parent, path)
  BY DEF PathInv
(* A step of one request that writes nothing. *)
<1>d. ASSUME UNCHANGED <<state, parent, path, level>>, NEW o \in Slot,
             op' = [op EXCEPT ![o] = op'[o]],
             PlaceOK(op'[o], state, path, level),
             RewriteOK(op'[o], state, parent, path),
             op[o].pc \notin Rewriting \/ op'[o].pc \in Rewriting
               \/ AllSound(state, parent, path)
      PROVE  PathInv'
  <2>1. LevelsFollow'
    BY <1>d DEF PathInv, LevelsFollow, Active
  <2>2. \A s \in Slot : op'[s] = op[s] \/ s = o
    BY <1>a, <1>d
  <2>3. \A s \in Slot : PlaceOK(op'[s], state', path', level')
                        /\ RewriteOK(op'[s], state', parent', path')
    BY <1>b, <1>d, <2>2
  <2>4. (\A s \in Slot : op'[s].pc \notin Rewriting) => AllSound(state', parent', path')
    BY <1>s, <1>d, <2>2
  <2> QED
    BY <2>1, <2>3, <2>4 DEF PathInv
(* While a request writes paths, the others go by none and do not write. *)
<1>w. ASSUME NEW o \in Slot, op[o].pc \in Rewriting \cup {"write"}, NEW s \in Slot, s # o
      PROVE  /\ op[s].pc \notin Rewriting /\ op[s].pc # "remove"
             /\ op[s].parent # None => op[s].pc \notin {"level", "idPath", "save", "write"}
  BY <1>w DEF PlacesCross
<1>x. ASSUME NEW o \in Slot, op[o].pc \in Rewriting \cup {"write"},
             op' = [op EXCEPT ![o] = op'[o]], LevelsFollow',
             PlaceOK(op'[o], state', path', level'),
             RewriteOK(op'[o], state', parent', path'), op'[o].pc \in Rewriting
      PROVE  PathInv'
  <2>1. ASSUME NEW s \in Slot, s # o
        PROVE  PlaceOK(op'[s], state', path', level')
               /\ RewriteOK(op'[s], state', parent', path')
    <3>1. op'[s] = op[s]
      BY <1>a, <1>x, <2>1
    <3>2. op[s].pc \notin Rewriting
          /\ (op[s].parent # None => op[s].pc \notin {"level", "idPath", "save", "write"})
      BY <1>w, <1>x, <2>1
    <3>3. RewriteOK(op[s], state', parent', path')
      BY <3>2 DEF RewriteOK, Rewriting
    <3>4. PlaceOK(op[s], state', path', level')
      BY <1>b, <3>2 DEF PlaceOK, Rewriting
    <3> QED
      BY <3>1, <3>3, <3>4
  <2> QED
    BY <1>x, <2>1 DEF PathInv
<1>1. ASSUME NEW o \in Creator, NEW p \in Maybe, NEW by \in Maybe, StartCreate(o, p, by)
      PROVE  PathInv'
  <2>1. UNCHANGED <<state, parent, path, level>> /\ o \in Slot /\ op[o] = Idle
    BY <1>1 DEF StartCreate, treeVars, placeVars, Slot
  <2>2. /\ op' = [op EXCEPT ![o] = op'[o]]
        /\ op'[o].kind = "create" /\ op'[o].parent = p /\ op'[o].path = <<>>
        /\ op'[o].level = 0
        /\ op'[o].pc = IF p = None THEN "save" ELSE IF by = None THEN "path" ELSE "authorize"
    BY <1>1, <1>a, <2>1 DEF StartCreate, Idle
  <2>3. PlaceOK(op'[o], state, path, level) /\ RewriteOK(op'[o], state, parent, path)
    BY <2>2 DEF PlaceOK, RewriteOK, Rewriting
  <2>4. op[o].pc \notin Rewriting
    BY <2>1 DEF Idle, Rewriting
  <2> QED
    BY <1>d, <2>1, <2>2, <2>3, <2>4
<1>2. ASSUME NEW o \in Mover, NEW e \in Entity, NEW p \in Maybe, NEW by \in Maybe,
             StartMove(o, e, p, by)
      PROVE  PathInv'
  <2>1. UNCHANGED <<state, parent, path, level>> /\ o \in Slot /\ op[o] = Idle
    BY <1>2 DEF StartMove, treeVars, placeVars, Slot
  <2>2. op' = [op EXCEPT ![o] = op'[o]]
        /\ op'[o] = [Idle EXCEPT !.kind = "move", !.id = e, !.parent = p, !.by = by,
                       !.pc = IF by # None THEN "authorize"
                              ELSE IF p = None THEN "write" ELSE "newParent"]
    BY <1>2, <1>a, <2>1 DEF StartMove
  <2>3. /\ op'[o].kind = "move" /\ op'[o].parent = p /\ op'[o].path = <<>>
        /\ op'[o].level = 0 /\ op'[o].list = <<>>
        /\ op'[o].pc = IF by # None THEN "authorize"
                       ELSE IF p = None THEN "write" ELSE "newParent"
    BY <2>2 DEF Idle
  <2>4. PlaceOK(op'[o], state, path, level) /\ RewriteOK(op'[o], state, parent, path)
    BY <2>3 DEF PlaceOK, RewriteOK, Rewriting
  <2>5. op[o].pc \notin Rewriting
    BY <2>1 DEF Idle, Rewriting
  <2> QED
    BY <1>d, <2>1, <2>2, <2>4, <2>5
<1>3. ASSUME NEW o \in Remover, NEW e \in Entity, NEW by \in Maybe, StartRemove(o, e, by)
      PROVE  PathInv'
  <2>1. UNCHANGED <<state, parent, path, level>> /\ o \in Slot /\ op[o] = Idle
    BY <1>3 DEF StartRemove, treeVars, placeVars, Slot
  <2>2. op' = [op EXCEPT ![o] = op'[o]]
        /\ op'[o].kind = "remove" /\ op'[o].pc = IF by = None THEN "count" ELSE "authorize"
    BY <1>3, <1>a, <2>1 DEF StartRemove, Idle
  <2>3. PlaceOK(op'[o], state, path, level) /\ RewriteOK(op'[o], state, parent, path)
    BY <2>2 DEF PlaceOK, RewriteOK, Rewriting
  <2>4. op[o].pc \notin Rewriting
    BY <2>1 DEF Idle, Rewriting
  <2> QED
    BY <1>d, <2>1, <2>2, <2>3, <2>4
<1>4. ASSUME NEW o \in Slot, Serve(o), op[o].pc \notin Rewriting \cup {"write", "remove"}
      PROVE  PathInv'
  <2>1. /\ UNCHANGED <<state, parent, path, level>>
        /\ op'[o] = Idle \/ PlaceAdvance(op[o], op'[o])
    BY <1>4, PlaceShape
  <2>2. op' = [op EXCEPT ![o] = op'[o]]
    BY <1>4, ServeShape
  <2>3. CASE op'[o] = Idle
    BY <1>d, <1>4, <2>1, <2>2, <2>3, IdlePaths
  <2>4. CASE PlaceAdvance(op[o], op'[o])
    <3>1. PlaceOK(op'[o], state, path, level) /\ RewriteOK(op'[o], state, parent, path)
      BY <1>b, <1>4, <2>4, PlaceStep
    <3> QED
      BY <1>d, <1>4, <2>1, <2>2, <3>1
  <2> QED
    BY <2>1, <2>3, <2>4
<1>5. ASSUME NEW o \in Slot, WriteMove(o) PROVE PathInv'
  <2>1. op[o].pc = "write"
    BY <1>5 DEF WriteMove
  <2>2. \A s \in Slot : op[s].pc \notin Rewriting
    BY <1>w, <2>1 DEF Rewriting
  <2>3. /\ LevelsFollow' /\ PlaceOK(op'[o], state', path', level')
        /\ RewriteOK(op'[o], state', parent', path') /\ op'[o].pc \in Rewriting
    BY <1>b, <1>s, <1>5, <2>2, WritePaths DEF NothingLost
  <2>v. PICK v : op' = [op EXCEPT ![o].pc = "rewalk", ![o].stack = v]
    BY <1>5 DEF WriteMove
  <2>4. op' = [op EXCEPT ![o] = op'[o]]
    BY <1>a, <2>v
  <2> QED
    BY <1>x, <2>1, <2>3, <2>4
<1>6. ASSUME NEW o \in Slot, WriteDescendant(o) PROVE PathInv'
  <2>1. op[o].pc \in Rewriting
    BY <1>6 DEF WriteDescendant, Rewriting
  <2>2. /\ LevelsFollow' /\ PlaceOK(op'[o], state', path', level')
        /\ RewriteOK(op'[o], state', parent', path') /\ op'[o].pc \in Rewriting
    BY <1>b, <1>6, DescendantPaths
  <2>v. PICK v : op' = [op EXCEPT ![o].pc = "rewalk", ![o].list = v]
    BY <1>6 DEF WriteDescendant
  <2>3. op' = [op EXCEPT ![o] = op'[o]]
    BY <1>a, <2>v
  <2> QED
    BY <1>x, <2>1, <2>2, <2>3
<1>7. ASSUME NEW o \in Slot, NEW e \in Entity, SaveEntity(o, e) PROVE PathInv'
  <2>1. /\ LevelsFollow' /\ Sound(e, parent', path')
        /\ \A d \in Entity : state[d] = "active" /\ Sound(d, parent, path) =>
             Sound(d, parent', path')
    BY <1>b, <1>7, SavePaths
  <2>2. /\ op[o].pc = "save" /\ state[e] = "absent" /\ op' = [op EXCEPT ![o] = Idle]
        /\ \A d \in Entity : /\ state'[d] = IF d = e THEN "active" ELSE state[d]
                             /\ parent'[d] = IF d = e THEN op[o].parent ELSE parent[d]
        /\ \A d \in Entity \ {e} : path'[d] = path[d] /\ level'[d] = level[d]
    BY <1>7, <1>a DEF SaveEntity, Return, TypeOK
  <2>3. \A s \in Slot : op'[s] = op[s] \/ op'[s] = Idle
    BY <1>a, <2>2
  <2>4. ASSUME NEW s \in Slot PROVE PlaceOK(op[s], state', path', level')
    <3>1. op[s].kind \in {"create", "move"} /\ op[s].parent # None
            /\ op[s].pc \in {"level", "idPath", "save", "write"} =>
              state[op[s].parent] # "absent"
      BY <1>b DEF CycleInv, MoveOK, OwnInv, OwnOK, WellFormed
    <3>2. \A d \in Entity \ {e} :
            state'[d] = state[d] /\ path'[d] = path[d] /\ level'[d] = level[d]
      BY <2>2
    <3> QED
      BY <1>b, <2>2, <3>1, <3>2, PlaceKept
  <2>5. ASSUME NEW s \in Slot PROVE RewriteOK(op[s], state', parent', path')
    <3>1. CASE op[s].pc \notin Rewriting
      BY <3>1 DEF RewriteOK, Rewriting
    <3>2. CASE op[s].pc \in Rewriting
      <4>1. s # o /\ op[o].parent = None
        BY <1>w, <2>2, <3>2 DEF Rewriting
      <4>2. op[s].id \in Entity
        BY <1>b, <3>2 DEF Rewriting, WellFormed, Operation, Maybe
      <4>3. parent'[e] = None
            /\ \A d \in Entity \ {e} : state'[d] = state[d] /\ parent'[d] = parent[d]
        BY <2>2, <4>1
      <4> QED
        BY <1>b, <2>1, <2>2, <4>2, <4>3, RewriteKept
    <3> QED
      BY <3>1, <3>2
  <2>6. \A s \in Slot : PlaceOK(op'[s], state', path', level')
                        /\ RewriteOK(op'[s], state', parent', path')
    BY <2>3, <2>4, <2>5, IdlePaths
  <2>7. ASSUME \A s \in Slot : op'[s].pc \notin Rewriting
        PROVE  AllSound(state', parent', path')
    <3>1. \A s \in Slot : op[s].pc \notin Rewriting
      <4>1. \A s \in Slot : s # o => op'[s] = op[s]
        BY <1>a, <2>2
      <4> QED
        BY <2>2, <2>7, <4>1 DEF Rewriting
    <3>2. AllSound(state, parent, path)
      BY <1>s, <3>1
    <3> QED
      BY <2>1, <2>2, <3>2 DEF AllSound
  <2> QED
    BY <2>1, <2>6, <2>7 DEF PathInv
<1>8. ASSUME NEW o \in Slot, RemoveEntity(o) PROVE PathInv'
  <2>1. op[o].pc = "remove"
    BY <1>8 DEF RemoveEntity
  <2>2. \A s \in Slot : op[s].pc \notin Rewriting
    BY <1>w, <2>1 DEF Rewriting
  <2>3. AllSound(state, parent, path)
    BY <1>s, <2>2
  <2>4. /\ state' = [state EXCEPT ![op[o].id] = "removed"]
        /\ UNCHANGED <<parent, path, level>> /\ op' = [op EXCEPT ![o] = Idle]
    BY <1>8 DEF RemoveEntity, Return, placeVars
  <2>5. \A e \in Entity : state'[e] = "active" => state[e] = "active"
    BY <1>a, <2>4
  <2>6. AllSound(state', parent', path')
    BY <2>3, <2>4, <2>5 DEF AllSound
  <2>7. LevelsFollow'
    BY <2>4, <2>5 DEF PathInv, LevelsFollow, Active
  <2>8. ASSUME NEW s \in Slot
        PROVE  PlaceOK(op[s], state', path', level')
               /\ RewriteOK(op[s], state', parent', path')
    <3>1. RewriteOK(op[s], state', parent', path')
      BY <2>2 DEF RewriteOK, Rewriting
    <3>2. op[s].parent # None /\ state'[op[s].parent] = "active" =>
            state[op[s].parent] = "active"
      BY <1>b, <2>5 DEF Operation, Maybe
    <3>3. PlaceOK(op[s], state', path, level)
      BY <1>b, <3>2 DEF PlaceOK
    <3> QED
      BY <2>4, <3>1, <3>3
  <2>9. \A s \in Slot : op'[s] = op[s] \/ op'[s] = Idle
    BY <1>a, <2>4
  <2>10. \A s \in Slot : PlaceOK(op'[s], state', path', level')
                         /\ RewriteOK(op'[s], state', parent', path')
    BY <2>8, <2>9, IdlePaths
  <2> QED
    BY <2>6, <2>7, <2>10 DEF PathInv
<1>9. ASSUME NEW o \in Slot, GetDescendants(o), op[o].pc = "rewalk" PROVE PathInv'
  <2> DEFINE x == op[o]
             y == op'[o]
  <2>1. UNCHANGED <<state, parent, path, level>> /\ op[o].stack # <<>>
    BY <1>9 DEF GetDescendants, treeVars, placeVars
  <2>2. x.kind = "move" /\ x.id \in Entity /\ state[x.id] = "active"
    BY <1>b, <1>9 DEF WellFormed, RewriteOK, Rewriting, Operation, Maybe
  <2> DEFINE ls == IF Head(x.stack)[2] = None \/ Head(x.stack) \in Elements(x.list)
                     THEN x.list ELSE Append(x.list, Head(x.stack))
             st(order) == [i \in 1 .. Len(order) |-> <<order[i], Head(x.stack)[1]>>]
                            \o Tail(x.stack)
  <2>3. PICK order \in Orders(Children(Head(x.stack)[1])) :
          op' = [op EXCEPT ![o].list = ls, ![o].stack = st(order)]
    BY <1>9 DEF GetDescendants, Noted, Descent
  <2>4. PICK s, l : s = st(order) /\ l = ls /\ op' = [op EXCEPT ![o].list = l, ![o].stack = s]
    BY <2>3
  <2>a. s = st(order) /\ l = ls
    BY <2>4
  <2>b. s = [i \in 1 .. Len(order) |-> <<order[i], Head(x.stack)[1]>>] \o Tail(x.stack)
        /\ l = IF Head(x.stack)[2] = None \/ Head(x.stack) \in Elements(x.list)
                 THEN x.list ELSE Append(x.list, Head(x.stack))
    BY <2>a
  <2> HIDE DEF st, ls
  <2>5. y = [x EXCEPT !.list = l, !.stack = s]
    BY <1>a, <2>4
  <2>c. x \in Operation
    BY <1>b
  <2>d. \A z \in Operation : [z EXCEPT !.list = l, !.stack = s].list = l
                            /\ [z EXCEPT !.list = l, !.stack = s].stack = s
    BY DEF Operation
  <2>e. \A z \in Operation : /\ [z EXCEPT !.list = l, !.stack = s].pc = z.pc
                             /\ Same(z, [z EXCEPT !.list = l, !.stack = s])
    BY DEF Operation, Same
  <2>6. y.pc = x.pc /\ Same(x, y) /\ y.list = l /\ y.stack = s
    BY <2>5, <2>c, <2>d, <2>e, Zenon
  <2>7. Descends(x, y)
    BY <2>b, <2>6, Zenon DEF Descends
  <2>8. PendingOK(x, state, parent, path) /\ DescentOK(x, state, parent) /\ Acyclic
    BY <1>b, <1>9, <2>1 DEF RewriteOK, Rewriting, CycleInv
  <2>9. DescentOK(y, state, parent) /\ PendingOK(y, state, parent, path)
    BY <1>b, <2>1, <2>2, <2>6, <2>7, <2>8, RewalkStep
  <2>10. PlaceOK(y, state, path, level)
    BY <1>9, <2>6 DEF PlaceOK, Rewriting
  <2>11. RewriteOK(y, state, parent, path) /\ y.pc \in Rewriting
    BY <1>9, <2>2, <2>6, <2>9 DEF RewriteOK, Rewriting, Same
  <2>12. op' = [op EXCEPT ![o] = op'[o]]
    BY <1>a, <2>4
  <2> QED
    BY <1>d, <2>1, <2>10, <2>11, <2>12
<1>10. ASSUME NEW o \in Slot, RewriteNext(o) PROVE PathInv'
  <2>1. UNCHANGED <<state, parent, path, level>> /\ op[o].stack = <<>> /\ op[o].pc = "rewalk"
    BY <1>10 DEF RewriteNext, treeVars, placeVars
  <2>2. PendingOK(op[o], state, parent, path)
    BY <1>b, <2>1 DEF RewriteOK, Rewriting
  <2>3. CASE op[o].list = <<>> /\ Return(o)
    <3>1. Elements(op[o].list) = {} /\ Elements(op[o].stack) = {}
      BY <2>1, <2>3 DEF Elements
    <3>2. AllSound(state, parent, path)
      BY <2>2, <3>1 DEF PendingOK, AllSound
    <3>3. op' = [op EXCEPT ![o] = op'[o]] /\ op'[o] = Idle
      BY <1>a, <2>3, ReturnFields
    <3> QED
      BY <1>d, <2>1, <3>2, <3>3, IdlePaths
  <2>4. CASE Goto(o, "descPath")
    <3>1. Fields(op[o], op'[o], "descPath", op[o].path, op[o].level, op[o].list, op[o].stack)
      BY <1>a, <2>4, GotoSets
    <3>2. op'[o].pc = "descPath" /\ op'[o].list = op[o].list /\ op'[o].stack = <<>>
          /\ op'[o].id = op[o].id
      BY <2>1, <3>1 DEF Fields, Same
    <3>3. PendingOK(op'[o], state, parent, path)
      BY <2>1, <2>2, <3>2, PendingSame
    <3>4. PlaceOK(op'[o], state, path, level)
      BY <3>2 DEF PlaceOK, Rewriting
    <3>5. RewriteOK(op'[o], state, parent, path) /\ op'[o].pc \in Rewriting
      BY <1>b, <2>1, <3>2, <3>3 DEF RewriteOK, Rewriting
    <3>6. op' = [op EXCEPT ![o] = op'[o]]
      BY <1>a, <2>4, GotoFields
    <3> QED
      BY <1>d, <2>1, <3>4, <3>5, <3>6
  <2> QED
    BY <1>10, <2>3, <2>4 DEF RewriteNext
(* The parent of the next descendant is active, so the list is worked off. *)
<1>f. ASSUME NEW o \in Slot, op[o].pc \in {"descPath", "descLevel"}
      PROVE  /\ PendingOK(op[o], state, parent, path) /\ op[o].stack = <<>>
             /\ Active(Head(op[o].list)[2])
             /\ op[o].pc = "descLevel" => op[o].path = path[Head(op[o].list)[2]]
  <2>1. /\ PendingOK(op[o], state, parent, path) /\ PlaceOK(op[o], state, path, level)
        /\ op[o].list \in Seq(Entity \X Entity) /\ op[o].list # <<>>
    BY <1>b, <1>f DEF RewriteOK, Rewriting, WellFormed, Operation
  <2>2. 1 \in 1 .. Len(op[o].list) /\ Head(op[o].list) = op[o].list[1]
        /\ Head(op[o].list) \in Entity \X Entity
    BY <2>1
  <2>3. Head(op[o].list) \in Elements(op[o].list)
    BY <2>2 DEF Elements
  <2>4. Edge(Head(op[o].list), state, parent)
    BY <2>1, <2>3 DEF PendingOK
  <2>5. Active(Head(op[o].list)[2])
    BY <2>2, <2>4, EntitiesAssumption DEF Edge, OrphanInv, ActiveUnderActive, Active
  <2> QED
    BY <1>f, <2>1, <2>5 DEF PlaceOK, Rewriting
<1>11. ASSUME NEW o \in Slot, ReadDescendantPath(o) PROVE PathInv'
  <2> DEFINE above == Head(op[o].list)[2]
  <2>1. UNCHANGED <<state, parent, path, level>> /\ op[o].pc = "descPath"
    BY <1>11 DEF ReadDescendantPath, treeVars, placeVars
  <2>2. PendingOK(op[o], state, parent, path) /\ op[o].stack = <<>> /\ Active(above)
    BY <1>f, <2>1
  <2>3. op' = [op EXCEPT ![o].pc = "descLevel", ![o].path = path[above]]
    BY <1>11, <2>2 DEF ReadDescendantPath
  <2>4. PICK v : v = path[above] /\ op' = [op EXCEPT ![o].pc = "descLevel", ![o].path = v]
    BY <2>3
  <2>5. op'[o] = [op[o] EXCEPT !.pc = "descLevel", !.path = v]
    BY <1>a, <2>4
  <2>6. op'[o].pc = "descLevel" /\ op'[o].path = v /\ op'[o].list = op[o].list
        /\ op'[o].stack = op[o].stack /\ op'[o].id = op[o].id
    BY <1>b, <2>5 DEF Operation
  <2>7. PendingOK(op'[o], state, parent, path)
    BY <2>2, <2>6, PendingSame
  <2>8. PlaceOK(op'[o], state, path, level)
    BY <2>2, <2>4, <2>6 DEF PlaceOK, Rewriting
  <2>9. RewriteOK(op'[o], state, parent, path) /\ op'[o].pc \in Rewriting
    BY <1>b, <2>1, <2>6, <2>7 DEF RewriteOK, Rewriting
  <2>10. op' = [op EXCEPT ![o] = op'[o]]
    BY <1>a, <2>4, <2>5
  <2> QED
    BY <1>d, <2>1, <2>8, <2>9, <2>10
<1>12. ASSUME NEW o \in Slot, ReadDescendantLevel(o) PROVE PathInv'
  <2> DEFINE above == Head(op[o].list)[2]
  <2>1. UNCHANGED <<state, parent, path, level>> /\ op[o].pc = "descLevel"
    BY <1>12 DEF ReadDescendantLevel, treeVars, placeVars
  <2>2. PendingOK(op[o], state, parent, path) /\ op[o].stack = <<>> /\ Active(above)
        /\ op[o].path = path[above]
    BY <1>f, <2>1
  <2>3. PICK v : v = LevelBelow(above)
                 /\ op' = [op EXCEPT ![o].pc = "descWrite", ![o].level = v]
    BY <1>12 DEF ReadDescendantLevel
  <2>4. v = level[above] + 1
    BY <2>2, <2>3 DEF LevelBelow
  <2>5. op'[o] = [op[o] EXCEPT !.pc = "descWrite", !.level = v]
    BY <1>a, <2>3
  <2>6. op'[o].pc = "descWrite" /\ op'[o].path = op[o].path /\ op'[o].list = op[o].list
        /\ op'[o].stack = op[o].stack /\ op'[o].id = op[o].id /\ op'[o].level = v
    BY <1>b, <2>5 DEF Operation
  <2>7. PendingOK(op'[o], state, parent, path)
    BY <2>2, <2>6, PendingSame
  <2>8. PlaceOK(op'[o], state, path, level)
    BY <2>2, <2>4, <2>6 DEF PlaceOK, Rewriting
  <2>9. RewriteOK(op'[o], state, parent, path) /\ op'[o].pc \in Rewriting
    BY <1>b, <2>1, <2>6, <2>7 DEF RewriteOK, Rewriting
  <2>10. op' = [op EXCEPT ![o] = op'[o]]
    BY <1>a, <2>3, <2>5
  <2> QED
    BY <1>d, <2>1, <2>8, <2>9, <2>10
<1>13. CASE UNCHANGED vars
  <2>1. UNCHANGED <<state, parent, path, level, op>>
    BY <1>13 DEF vars, treeVars, placeVars
  <2>2. LevelsFollow'
    BY <2>1 DEF PathInv, LevelsFollow, Active
  <2> QED
    BY <2>1, <2>2 DEF PathInv, AllSound
<1> QED
  <2>1. ASSUME NEW o \in Slot, Serve(o) PROVE PathInv'
    <3>1. CASE op[o].pc = "rewalk"
      <4>1. ~WriteDescendant(o) /\ ~ReadDescendantPath(o) /\ ~ReadDescendantLevel(o)
            /\ ~Authorize(o) /\ ~GeneratePath(o) /\ ~CalculateLevel(o)
        BY <3>1 DEF WriteDescendant, ReadDescendantPath, ReadDescendantLevel, Authorize,
                    GeneratePath, CalculateLevel
      <4>2. ~GenerateEntityPath(o) /\ ~AuthorizeParent(o) /\ ~FindNewParent(o)
            /\ ~CheckCircular(o) /\ ~DescendantsKnown(o)
        BY <3>1 DEF GenerateEntityPath, AuthorizeParent, FindNewParent, CheckCircular,
                    DescendantsKnown
      <4>3. ~WriteMove(o) /\ ~CountDependents(o) /\ ~RemoveEntity(o)
        BY <3>1 DEF WriteMove, CountDependents, RemoveEntity
      <4> QED
        BY <1>9, <1>10, <2>1, <3>1, <4>1, <4>2, <4>3 DEF Serve
    <3>2. CASE op[o].pc \in {"descPath", "descLevel", "descWrite"}
      <4>1. ~Authorize(o) /\ ~GeneratePath(o) /\ ~CalculateLevel(o) /\ ~RewriteNext(o)
        BY <3>2 DEF Authorize, GeneratePath, CalculateLevel, RewriteNext
      <4>2. ~GenerateEntityPath(o) /\ ~AuthorizeParent(o) /\ ~FindNewParent(o)
            /\ ~CheckCircular(o) /\ ~DescendantsKnown(o)
        BY <3>2 DEF GenerateEntityPath, AuthorizeParent, FindNewParent, CheckCircular,
                    DescendantsKnown
      <4>3. ~WriteMove(o) /\ ~CountDependents(o) /\ ~RemoveEntity(o)
        BY <3>2 DEF WriteMove, CountDependents, RemoveEntity
      <4>4. ~GetDescendants(o)
        BY <3>2 DEF GetDescendants
      <4> QED
        BY <1>6, <1>11, <1>12, <2>1, <4>1, <4>2, <4>3, <4>4 DEF Serve
    <3>3. CASE op[o].pc \in {"write", "remove"}
      BY <1>5, <1>8, <2>1, <3>3, WritingSteps
    <3> QED
      BY <1>4, <2>1, <3>1, <3>2, <3>3 DEF Rewriting
  <2> QED
    BY <1>1, <1>2, <1>3, <1>7, <1>13, <2>1 DEF Next

(* Between requests, the path and the level of every active entity are one step
   longer than those of its parent: move has put right its whole subtree, each
   descendant after its parent.  Besides what loses entities or makes cycles, only
   requests that write, or go by, paths while a subtree is rewritten break it. *)
THEOREM PathsFollowParents ==
  Spec /\ []NothingLost /\ []~PlacesCross => []PathFollowsParent
<1>1. Init => PathInv
  <2> SUFFICES ASSUME Init PROVE PathInv
    OBVIOUS
  <2>1. LevelsFollow /\ AllSound(state, parent, path)
    BY DEF Init, LevelsFollow, AllSound, Active
  <2>2. \A o \in Slot : op[o] = Idle
    BY DEF Init
  <2> QED
    BY <2>1, <2>2, IdlePaths DEF PathInv
<1>2. NothingLost /\ ~PlacesCross /\ TypeOK /\ RequestInv /\ OwnInv /\ CycleInv
        /\ OrphanInv /\ MovingInv /\ PathInv /\ [Next]_vars
        /\ TypeOK' /\ RequestInv' => PathInv'
  BY PathStep
<1>3. PathInv => PathFollowsParent
  <2> SUFFICES ASSUME PathInv, \A o \in Slot : op[o] = Idle, NEW e \in Entity, Active(e)
               PROVE  /\ path[e] = Append(IF parent[e] = None THEN <<>> ELSE path[parent[e]], e)
                      /\ level[e] + 1 = Len(path[e])
    BY DEF PathFollowsParent
  <2>1. \A o \in Slot : op[o].pc \notin Rewriting
    BY DEF Idle, Rewriting
  <2>2. Sound(e, parent, path)
    BY <2>1 DEF PathInv, AllSound, Active
  <2> QED
    BY <2>2 DEF PathInv, LevelsFollow, Sound
<1>4. NothingLost => ~MovesCross /\ ~SelfMoved /\ ~RemovedUnder /\ ~RemovedInMove
  BY DEF NothingLost
<1> QED
  BY <1>1, <1>2, <1>3, <1>4, Typed, Owned, CycleInvariant, OrphanInvariant, MovingInvariant,
     PTL DEF Spec
=============================================================================
