----------------------------- MODULE Reports_proofs -----------------------------
(***************************************************************************)
(* Theorems about Reports, for any page sizes, any lengths of the feed and *)
(* any bounds.                                                             *)
(***************************************************************************)
EXTENDS Reports, FiniteSetTheorems, FunctionTheorems, TLAPS

DocType == [coll : Coll, tags : SUBSET Tag, at : Nat]

LEMMA FoundFinite ==
  ASSUME docs \in Seq(DocType), NEW q
  PROVE  /\ Found(q) \subseteq DOMAIN docs /\ Found(q) \subseteq Nat
         /\ Cardinality(Found(q)) \in Nat
<1>1. Found(q) \subseteq DOMAIN docs
  BY DEF Found
<1>2. DOMAIN docs = 1..Len(docs) /\ Len(docs) \in Nat
  OBVIOUS
<1>3. IsFiniteSet(1..Len(docs))
  BY <1>2, FS_Interval
<1>4. IsFiniteSet(Found(q))
  BY <1>1, <1>2, <1>3, FS_Subset
<1> QED
  BY <1>1, <1>2, <1>4, FS_CardinalityType

LEMMA SmallNumbers ==
  /\ \A n \in Nat : n <= 3 => n \in {0, 1, 2, 3}
  /\ \A n \in Nat : n <= 2 => n \in {0, 1, 2}
  /\ \A n \in Nat : n <= 3 /\ n # 3 => n <= 2
OBVIOUS

LEMMA EmptyIsShort == Len(<<>>) = 0 /\ 0 # 1 /\ 0 # 2
OBVIOUS

LEMMA LeastType ==
  ASSUME NEW a \in Nat, NEW b \in Nat
  PROVE  Least(a, b) \in Nat /\ Least(a, b) <= a
  BY DEF Least

LEMMA Appended ==
  ASSUME NEW s \in Seq(Nat), NEW n \in Nat
  PROVE  /\ Append(s, n) \in Seq(Nat)
         /\ Len(Append(s, n)) = Len(s) + 1
         /\ Append(s, n)[Len(s) + 1] = n
         /\ \A i \in 1..Len(s) : Append(s, n)[i] = s[i]
  OBVIOUS

LEMMA Numbers ==
  ASSUME NEW s \in Seq(Nat)
  PROVE  Len(s) \in Nat /\ \A i \in 1..Len(s) : s[i] \in Nat
  OBVIOUS

(* What is found for the feed fits into it, unless no item is asked for. *)
FeedInv ==
  kind = "activity" => Len(answers) <= 3 /\ (limit > 0 => FeedSum <= limit)

LEMMA FeedSums ==
  ASSUME answers \in Seq(Nat), Len(answers) <= 3
  PROVE  /\ FeedSum \in Nat
         /\ Len(answers) = 0 => FeedSum = 0
         /\ Len(answers) = 1 => FeedSum = answers[1]
         /\ Len(answers) = 2 => FeedSum = answers[1] + answers[2]
         /\ Len(answers) = 3 => FeedSum = answers[1] + answers[2] + answers[3]
<1>1. Len(answers) \in {0, 1, 2, 3} /\ \A i \in 1..Len(answers) : answers[i] \in Nat
  <2>1. Len(answers) \in Nat /\ \A i \in 1..Len(answers) : answers[i] \in Nat
    BY Numbers
  <2> QED
    BY <2>1, SmallNumbers
<1>2. CASE Len(answers) = 0
  BY <1>2 DEF FeedSum
<1>3. CASE Len(answers) = 1
  <2>1. answers[1] \in Nat
    BY <1>1, <1>3
  <2> QED
    BY <1>3, <2>1 DEF FeedSum
<1>4. CASE Len(answers) = 2
  <2>1. answers[1] \in Nat /\ answers[2] \in Nat
    BY <1>1, <1>4
  <2> QED
    BY <1>4, <2>1 DEF FeedSum
<1>5. CASE Len(answers) = 3
  <2>1. answers[1] \in Nat /\ answers[2] \in Nat /\ answers[3] \in Nat
    BY <1>1, <1>5
  <2> QED
    BY <1>5, <2>1 DEF FeedSum
<1> QED
  BY <1>1, <1>2, <1>3, <1>4, <1>5

(* One more answer adds to the sum. *)
LEMMA FeedGrows ==
  ASSUME answers \in Seq(Nat), Len(answers) <= 2, NEW n \in Nat,
         answers' = Append(answers, n)
  PROVE  /\ answers' \in Seq(Nat) /\ Len(answers') = Len(answers) + 1
         /\ FeedSum \in Nat /\ FeedSum' = FeedSum + n
<1> DEFINE l == Len(answers)
<1>1. /\ answers' \in Seq(Nat) /\ Len(answers') = l + 1 /\ answers'[l + 1] = n
      /\ \A i \in 1..l : answers'[i] = answers[i]
      /\ l \in {0, 1, 2}
  <2>1. l \in Nat
    BY Numbers
  <2>2. l \in {0, 1, 2}
    BY <2>1, SmallNumbers
  <2> QED
    BY <2>2, Appended
<1>2. \A i \in 1..l : answers[i] \in Nat
  BY Numbers
<1>3. /\ FeedSum \in Nat
      /\ l = 0 => FeedSum = 0
      /\ l = 1 => FeedSum = answers[1]
      /\ l = 2 => FeedSum = answers[1] + answers[2]
  BY <1>1, FeedSums
<1>4. /\ Len(answers') = 1 => FeedSum' = answers'[1]
      /\ Len(answers') = 2 => FeedSum' = answers'[1] + answers'[2]
      /\ Len(answers') = 3 => FeedSum' = answers'[1] + answers'[2] + answers'[3]
  <2>1. answers' \in Seq(Nat) /\ Len(answers') <= 3
    BY <1>1
  <2>2. (answers \in Seq(Nat) /\ Len(answers) <= 3 =>
           /\ Len(answers) = 1 => FeedSum = answers[1]
           /\ Len(answers) = 2 => FeedSum = answers[1] + answers[2]
           /\ Len(answers) = 3 => FeedSum = answers[1] + answers[2] + answers[3])'
    BY FeedSums, PTL
  <2> QED
    BY <2>1, <2>2
<1>5. CASE l = 0
  BY <1>1, <1>3, <1>4, <1>5
<1>6. CASE l = 1
  <2>1. 1 \in 1..l
    BY <1>6
  <2>2. FeedSum' = answers'[1] + answers'[2] /\ answers'[1] = answers[1] /\ answers'[2] = n
    BY <1>1, <1>4, <1>6, <2>1
  <2> QED
    BY <1>1, <1>3, <1>6, <2>2
<1>7. CASE l = 2
  <2>1. 1 \in 1..l /\ 2 \in 1..l
    BY <1>7
  <2>2. /\ FeedSum' = answers'[1] + answers'[2] + answers'[3]
        /\ answers'[1] = answers[1] /\ answers'[2] = answers[2] /\ answers'[3] = n
    BY <1>1, <1>4, <1>7, <2>1
  <2> QED
    BY <1>1, <1>3, <1>7, <2>2
<1> QED
  BY <1>1, <1>5, <1>6, <1>7, <1>3

LEMMA FeedStep ==
  ASSUME TypeOK, FeedInv, ReadActivity
  PROVE  answers' \in Seq(Nat) /\ FeedInv'
<1> DEFINE l == Len(answers)
           rows == IF Queries[l + 1].coll = "auditLogs" /\ viewer = "tenant" THEN 0
                   ELSE Cardinality(Found(Queries[l + 1]))
           most == IF l + 1 = 1 THEN IF limit = 0 THEN rows ELSE limit
                   ELSE Least(Room, IF l + 1 = 2 THEN 3 ELSE 2)
           n == Least(most, rows)
<1>1. answers \in Seq(Nat) /\ docs \in Seq(DocType) /\ limit \in Nat /\ l \in Nat
  BY DEF TypeOK, DocType
<1>2. kind = "activity" /\ kind' = kind /\ limit' = limit
  BY DEF ReadActivity
<1>3. l <= 2
  <2>1. Len(Queries) = 3
    BY <1>2 DEF Queries, RecentActivity
  <2>2. l # 3 /\ l <= 3
    BY <1>2, <2>1 DEF FeedInv, ReadActivity, Done
  <2> QED
    BY <1>1, <2>2, SmallNumbers
<1>4. rows \in Nat
  BY <1>1, FoundFinite
<1>5. FeedSum \in Nat /\ (l = 0 => FeedSum = 0)
  BY <1>1, <1>3, FeedSums
<1>6. Room \in Nat /\ (FeedSum <= limit => Room = limit - FeedSum)
  BY <1>1, <1>5 DEF Room
<1>7. answers' = Append(answers, n)
  BY DEF ReadActivity
<1> HIDE DEF rows, l
<1>8. most \in Nat /\ (limit > 0 /\ FeedSum <= limit => most <= limit - FeedSum)
  <2>1. CASE l = 0
    BY <1>1, <1>4, <1>5, <2>1
  <2>2. CASE l # 0
    <3>1. most = Least(Room, 3) \/ most = Least(Room, 2)
      BY <1>1, <2>2
    <3> QED
      BY <3>1, <1>1, <1>5, <1>6 DEF Least
  <2> QED
    BY <2>1, <2>2
<1> HIDE DEF most
<1>9. n \in Nat /\ n <= most
  BY <1>4, <1>8 DEF Least
<1> HIDE DEF n
<1>10. /\ answers' \in Seq(Nat) /\ Len(answers') = l + 1 /\ FeedSum' = FeedSum + n
  BY <1>1, <1>3, <1>7, <1>9, FeedGrows DEF l
<1>11. limit > 0 => FeedSum' <= limit
  <2>1. limit > 0 => FeedSum <= limit
    BY <1>2 DEF FeedInv
  <2> QED
    BY <2>1, <1>1, <1>5, <1>8, <1>9, <1>10
<1> QED
  BY <1>1, <1>2, <1>3, <1>10, <1>11 DEF FeedInv

LEMMA FeedFailed ==
  ASSUME TypeOK, FeedFails
  PROVE  answers' \in Seq(Nat) /\ FeedInv'
<1>1. answers' = <<0, 0, 0>> /\ limit' \in Nat
  BY DEF FeedFails, TypeOK
<1>2. answers' \in Seq(Nat) /\ Len(answers') = 3
  BY <1>1
<1>3. FeedSum' = 0
  BY <1>1 DEF FeedSum
<1> QED
  BY <1>1, <1>2, <1>3 DEF FeedInv

(* The writes to a document that is there. *)
Write(i) ==
  \/ ChangeStatus(i) \/ TouchSession(i) \/ UpdateUser(i) \/ UpdateEntity(i)
  \/ SoftDelete(i)

TypeTag == {"entity", "company", "department"}

(* The tags a write exchanges that takes no document away. *)
FreeTag == {"failed", "pending", "ready", "registered", "phone"} \cup TypeTag

(* What is left of document i when t are its tags. *)
Spared(i, t) ==
  /\ \A g : g \notin FreeTag \cup {"user"} => (g \in t <=> g \in docs[i].tags)
  /\ "user" \in docs[i].tags => "user" \in t

LEMMA WriteRetags ==
  ASSUME docs \in Seq(DocType), NEW i \in DOMAIN docs, Write(i)
  PROVE  \E t \in SUBSET Tag, removal \in BOOLEAN :
           /\ Retag(i, t) /\ Noted(removal)
           /\ removal => docs[i].coll \in {"users", "entities"}
           /\ docs[i].coll = "sessions" \/ removal \/ Spared(i, t)
           /\ "old" \in t <=> "old" \in docs[i].tags
           /\ (\A a, b \in TypeTag : a \in docs[i].tags /\ b \in docs[i].tags => a = b)
                => \A a, b \in TypeTag : a \in t /\ b \in t => a = b
<1> DEFINE own == docs[i].tags
<1>0. own \in SUBSET Tag
  <2>1. docs[i] \in DocType
    OBVIOUS
  <2> QED
    BY <2>1 DEF DocType
<1> HIDE DEF own
<1>1. CASE ChangeStatus(i)
  <2>1. PICK old \in SUBSET {"failed", "pending", "ready", "registered"},
             st \in SUBSET {"failed", "pending", "ready", "registered"} :
          Retag(i, (own \ old) \cup st) /\ Noted(FALSE)
    BY <1>1, Zenon DEF ChangeStatus, Exchange, own
  <2> DEFINE t == (own \ old) \cup st
  <2>2. t \in SUBSET Tag
    BY <1>0 DEF Tag
  <2>3. /\ \A g : g \notin FreeTag \cup {"user"} => (g \in t <=> g \in own)
        /\ "user" \in own => "user" \in t
        /\ "old" \in t <=> "old" \in own
        /\ \A a \in TypeTag : a \in t <=> a \in own
    BY DEF FreeTag, TypeTag
  <2> HIDE DEF t
  <2>4. Retag(i, t)
    BY <2>1 DEF t
  <2> QED
    BY <2>1, <2>2, <2>3, <2>4 DEF own, Spared
<1>2. CASE TouchSession(i)
  <2>1. PICK mine \in SUBSET {"mine"} :
          Retag(i, (own \ {"mine"}) \cup mine) /\ Noted(FALSE)
    BY <1>2 DEF TouchSession, Exchange, own
  <2> DEFINE t == (own \ {"mine"}) \cup mine
  <2>2. t \in SUBSET Tag
    BY <1>0 DEF Tag
  <2>3. /\ "old" \in t <=> "old" \in own
        /\ \A a \in TypeTag : a \in t <=> a \in own
    BY DEF TypeTag
  <2>5. docs[i].coll = "sessions"
    BY <1>2 DEF TouchSession
  <2> HIDE DEF t
  <2>4. Retag(i, t)
    BY <2>1 DEF t
  <2> QED
    BY <2>1, <2>2, <2>3, <2>4, <2>5 DEF own
<1>3. CASE UpdateUser(i)
  <2>1. PICK new \in SUBSET {"user", "phone"} :
          /\ Retag(i, (own \ {"user", "phone"}) \cup new)
          /\ Noted("user" \in own /\ "user" \notin new)
    BY <1>3 DEF UpdateUser, Exchange, own
  <2> DEFINE t == (own \ {"user", "phone"}) \cup new
             removal == "user" \in own /\ "user" \notin new
  <2>2. t \in SUBSET Tag
    BY <1>0 DEF Tag
  <2>3. /\ \A g : g \notin FreeTag \cup {"user"} => (g \in t <=> g \in own)
        /\ removal \/ ("user" \in own => "user" \in t)
        /\ "old" \in t <=> "old" \in own
        /\ \A a \in TypeTag : a \in t <=> a \in own
    BY DEF FreeTag, TypeTag
  <2>5. docs[i].coll = "users" /\ removal \in BOOLEAN
    BY <1>3 DEF UpdateUser
  <2> HIDE DEF t, removal
  <2>4. Retag(i, t) /\ Noted(removal)
    BY <2>1 DEF t, removal
  <2> QED
    BY <2>2, <2>3, <2>4, <2>5 DEF own, Spared
<1>4. CASE UpdateEntity(i)
  <2>1. PICK type \in Kinds("entities") :
          Retag(i, (own \ TypeTag) \cup type) /\ Noted(FALSE)
    BY <1>4 DEF UpdateEntity, Exchange, own, TypeTag
  <2> DEFINE t == (own \ TypeTag) \cup type
  <2>0. type \in {{"entity"}, {"company"}, {"department"}, {}}
    BY DEF Kinds
  <2>2. t \in SUBSET Tag
    BY <1>0, <2>0 DEF Tag
  <2>3. /\ \A g : g \notin FreeTag \cup {"user"} => (g \in t <=> g \in own)
        /\ "user" \in own => "user" \in t
        /\ "old" \in t <=> "old" \in own
        /\ \A a, b \in TypeTag : a \in t /\ b \in t => a = b
    BY <2>0 DEF FreeTag, TypeTag
  <2> HIDE DEF t
  <2>4. Retag(i, t)
    BY <2>1 DEF t
  <2> QED
    BY <2>1, <2>2, <2>3, <2>4 DEF own, Spared
<1>5. CASE SoftDelete(i)
  <2> DEFINE t == own \cup {"inactive"}
  <2>1. Retag(i, t) /\ Noted(TRUE) /\ docs[i].coll \in {"users", "entities"}
    BY <1>5 DEF SoftDelete, own
  <2>2. t \in SUBSET Tag
    BY <1>0 DEF Tag
  <2>3. /\ "old" \in t <=> "old" \in own
        /\ \A a \in TypeTag : a \in t <=> a \in own
    BY DEF TypeTag
  <2> HIDE DEF t
  <2> QED
    BY <2>1, <2>2, <2>3 DEF own
<1> QED
  BY <1>1, <1>2, <1>3, <1>4, <1>5 DEF Write

LEMMA DocsStep ==
  ASSUME TypeOK, [Next]_vars
  PROVE  docs' \in Seq(DocType)
<1>c. docs \in Seq(DocType)
  BY DEF TypeOK, DocType
<1>a. docs \in Seq(DocType) /\ \A i \in DOMAIN docs : docs[i] \in DocType
  BY <1>c
<1>1. ASSUME NEW i \in DOMAIN docs, NEW tags \in SUBSET Tag, Retag(i, tags)
      PROVE  docs' \in Seq(DocType)
  <2>1. [docs[i] EXCEPT !.tags = tags \cap TagsRead] \in DocType
    BY <1>1, <1>a DEF DocType
  <2> DEFINE d == [docs[i] EXCEPT !.tags = tags \cap TagsRead]
  <2>2. docs' = [docs EXCEPT ![i] = d]
    BY <1>1 DEF Retag
  <2> HIDE DEF d
  <2> QED
    BY <2>1, <2>2, <1>a DEF d
<1>2. ASSUME NEW i \in DOMAIN docs, Write(i)
      PROVE  docs' \in Seq(DocType)
  BY <1>1, <1>2, <1>a, WriteRetags
<1>3. ASSUME NEW coll \in Coll, NEW tags \in Kinds(coll), NEW mine \in SUBSET {"mine"},
             Insert(coll, tags \cup mine) \/ Insert(coll, tags \cup mine \cup {"old"})
      PROVE  docs' \in Seq(DocType)
  <2>1. tags \subseteq Tag /\ mine \subseteq Tag /\ {"old"} \subseteq Tag
    BY DEF Kinds, Tag
  <2>2. PICK t \in SUBSET Tag, at \in Nat :
          docs' = Append(docs, [coll |-> coll, tags |-> t \cap TagsRead, at |-> at])
    BY <1>3, <2>1, ReportsAssumption DEF Insert
  <2>3. [coll |-> coll, tags |-> t \cap TagsRead, at |-> at] \in DocType
    BY <2>2 DEF DocType
  <2> QED
    BY <2>2, <2>3, <1>a
<1>4. ASSUME UNCHANGED docs PROVE docs' \in Seq(DocType)
  BY <1>4, <1>a
<1> QED
  BY <1>2, <1>3, <1>4
     DEF Next, StartReport, Count, FinishReport, ReportFails, EndReport, ReadActivity,
         FeedFails, CountListed, ReadPage, Write, vars

LEMMA TypeStep == TypeOK /\ FeedInv /\ [Next]_vars => TypeOK' /\ FeedInv'
<1> SUFFICES ASSUME TypeOK, FeedInv, [Next]_vars PROVE TypeOK' /\ FeedInv'
  OBVIOUS
<1>a. docs \in Seq(DocType) /\ Len(docs) \in Nat /\ DOMAIN docs \subseteq Nat
      /\ answers \in Seq(Nat)
  BY DEF TypeOK, DocType
<1>b. docs' \in Seq([coll : Coll, tags : SUBSET Tag, at : Nat])
  BY DocsStep DEF DocType
<1>1. CASE StartReport \/ EndReport
  <2>1. answers' = <<>> /\ limit' = limit
    BY <1>1 DEF StartReport, EndReport
  <2>2. answers' \in Seq(Nat) /\ FeedInv'
    <3>1. FeedSum' = 0
      BY <2>1 DEF FeedSum
    <3> QED
      BY <2>1, <3>1, EmptyIsShort DEF FeedInv, TypeOK
  <2>3. kind' = kind /\ viewer' = viewer /\ running' \in BOOLEAN /\ seen' = {}
    BY <1>1 DEF StartReport, EndReport
  <2>4. CASE StartReport
    BY <1>a, <1>b, <2>1, <2>2, <2>3, <2>4 DEF StartReport, TypeOK
  <2>5. CASE EndReport
    BY <1>b, <2>1, <2>2, <2>3, <2>5 DEF EndReport, TypeOK
  <2> QED
    BY <1>1, <2>4, <2>5
<1>2. CASE Count
  <2>1. answers' \in Seq(Nat)
    BY <1>2, <1>a, FoundFinite DEF Count
  <2>2. FeedInv'
    BY <1>2 DEF Count, FeedInv, ReportKind
  <2> QED
    BY <1>2, <1>a, <1>b, <2>1, <2>2 DEF Count, TypeOK
<1>3. CASE ReadActivity
  BY <1>3, <1>b, FeedStep DEF ReadActivity, TypeOK
<1>8. CASE FeedFails
  BY <1>8, <1>b, FeedFailed DEF FeedFails, TypeOK
<1>4. CASE CountListed
  <2>1. answers' \in Seq(Nat)
    BY <1>4, <1>a, FoundFinite DEF CountListed
  <2>2. FeedInv'
    BY <1>4 DEF CountListed, FeedInv, ListKind
  <2> QED
    BY <1>4, <1>b, <2>1, <2>2 DEF CountListed, TypeOK
<1>5. CASE ReadPage
  <2>1. PICK rows \in SUBSET Found(Queries[1]) :
          seen' = seen \cup rows /\ page' \in {page + 1, 0}
    BY <1>5 DEF ReadPage, Pages
  <2>2. seen' \subseteq Nat /\ page' \in Nat
    <3>1. seen \subseteq Nat /\ page \in Nat /\ rows \subseteq Nat
      BY <1>a, FoundFinite DEF TypeOK
    <3> QED
      BY <2>1, <3>1
  <2>3. answers' \in Seq(Nat) /\ FeedInv'
    BY <1>5 DEF ReadPage, FeedInv, ListKind
  <2> QED
    BY <1>5, <1>b, <2>2, <2>3 DEF ReadPage, TypeOK
<1>6. ASSUME NEW removal, Noted(removal) PROVE TypeOK' /\ FeedInv'
  BY <1>6, <1>b DEF Noted, TypeOK, FeedInv, FeedSum
<1>7. CASE UNCHANGED vars
  BY <1>7 DEF vars, TypeOK, FeedInv, FeedSum
<1>9. ASSUME NEW i \in DOMAIN docs, Write(i) PROVE TypeOK' /\ FeedInv'
  BY <1>6, <1>9, <1>a, WriteRetags
<1> QED
  BY <1>1, <1>2, <1>3, <1>4, <1>5, <1>6, <1>7, <1>8, <1>9
     DEF Next, Insert, Write, FinishReport, ReportFails

LEMMA TypeInit == Init => TypeOK /\ FeedInv
<1> SUFFICES ASSUME Init PROVE TypeOK /\ FeedInv
  OBVIOUS
<1>1. docs = <<>> /\ answers = <<>>
  BY DEF Init
<1>2. docs \in Seq([coll : Coll, tags : SUBSET Tag, at : Nat]) /\ answers \in Seq(Nat)
  BY <1>1
<1>3. FeedInv
  <2>1. FeedSum = 0
    BY <1>1 DEF FeedSum
  <2>2. limit \in Nat
    BY ReportsAssumption DEF Init
  <2> QED
    BY <1>1, <2>1, <2>2, EmptyIsShort DEF FeedInv
<1>4. kind \in Kind /\ viewer \in {"system", "tenant"} /\ limit \in Nat
      /\ (kind \in ListKind => limit > 0)
  BY ReportsAssumption DEF Init
<1> QED
  BY <1>2, <1>3, <1>4 DEF Init, TypeOK

(* Every reachable state is well typed: no answer and no room left for the feed is
   ever negative. *)
THEOREM TypeCorrect == Spec => []TypeOK
<1> QED
  BY TypeInit, TypeStep, PTL DEF Spec

LEMMA FeedKept == TypeOK /\ FeedInv /\ Done => FeedFits
<1> SUFFICES ASSUME TypeOK, FeedInv, kind = "activity"
             PROVE  /\ limit > 0 => FeedSum <= limit
                    /\ Shown > limit => limit = 0 /\ FeedSum = 0
  BY DEF FeedFits
<1>1. limit \in Nat /\ answers \in Seq(Nat) /\ Len(answers) <= 3
  BY DEF TypeOK, FeedInv
<1>2. FeedSum \in Nat
  BY <1>1, FeedSums
<1>3. Shown > limit => limit = 0 /\ FeedSum = 0
  BY <1>1, <1>2 DEF Shown, Least
<1> QED
  BY <1>3 DEF FeedInv

(* The activity feed shows no more items than were asked for, whatever their
   number, and cuts none of those it found off; only a request for no items gets
   one, the fallback item, when nothing is found. *)
THEOREM FeedNeverTooLong == Spec => [](Done => FeedFits)
<1> QED
  BY TypeInit, TypeStep, FeedKept, PTL DEF Spec

-----------------------------------------------------------------------------
(* Listings: what one finds among the documents d, and what of it is newer than i. *)
Listing(d, k, v) ==
  {i \in DOMAIN d : /\ d[i].coll = k
                    /\ v # "system" => "mine" \in d[i].tags
                    /\ "inactive" \notin d[i].tags}

Newer(d, S, i) == {j \in S : d[j].at > d[i].at}

Unshared(d, S, i) == \A j \in S \ {i} : d[j].at # d[i].at

(* While pages are read and nothing is taken away, a document that was there at
   the start, shares its millisecond with none and has not been read stands on the
   page to read next, or on a later one: what is added in between only moves it
   further back. *)
PageInv ==
  running /\ kind \in ListKind =>
    /\ started <= Len(docs)
    /\ lost = 0 =>
         LET S == Listing(docs, kind, viewer) IN
         \A i \in S :
           i <= started /\ i \notin seen /\ Unshared(docs, S, i) =>
             page > 0 /\ Cardinality(Newer(docs, S, i)) >= (page - 1) * limit

LEMMA ListedFound ==
  kind \in ListKind =>
    /\ Found(Queries[1]) = Listing(docs, kind, viewer)
    /\ "inactive" \in TagsRead
    /\ viewer # "system" => "mine" \in TagsRead
<1> SUFFICES ASSUME kind \in ListKind
             PROVE  /\ Found(Queries[1]) = Listing(docs, kind, viewer)
                    /\ "inactive" \in TagsRead
                    /\ viewer # "system" => "mine" \in TagsRead
  OBVIOUS
<1>1. Queries = <<Active(kind, {})>>
  BY DEF Queries, ListKind, Listed
<1>2. Queries[1] = Active(kind, {}) /\ 1 \in DOMAIN Queries
  BY <1>1
<1>3. Active(kind, {}) = [coll |-> kind, has |-> Mine, lacks |-> {"inactive"},
                          upto |-> FALSE]
  BY DEF Active, Every
<1>4. Found(Queries[1]) = Listing(docs, kind, viewer)
  BY <1>2, <1>3 DEF Found, Listing, Mine
<1>5. Mine \subseteq TagsRead /\ "inactive" \in TagsRead
  BY <1>2, <1>3 DEF TagsRead
<1> QED
  BY <1>4, <1>5 DEF Mine

LEMMA ListingFinite ==
  ASSUME NEW d \in Seq(DocType), NEW k, NEW v
  PROVE  /\ Listing(d, k, v) \subseteq 1..Len(d) /\ Len(d) \in Nat
         /\ Listing(d, k, v) \in SUBSET Nat /\ IsFiniteSet(Listing(d, k, v))
         /\ \A i \in Listing(d, k, v) : d[i].at \in Nat
<1>1. DOMAIN d = 1..Len(d) /\ Len(d) \in Nat /\ \A i \in DOMAIN d : d[i] \in DocType
  OBVIOUS
<1>2. IsFiniteSet(1..Len(d))
  BY <1>1, FS_Interval
<1>3. \A i \in DOMAIN d : d[i].at \in Nat
  BY <1>1 DEF DocType
<1> QED
  BY <1>1, <1>2, <1>3, FS_Subset DEF Listing

LEMMA NewerFinite ==
  ASSUME NEW S, IsFiniteSet(S), NEW d, NEW i
  PROVE  IsFiniteSet(Newer(d, S, i)) /\ Cardinality(Newer(d, S, i)) \in Nat
  BY FS_Subset, FS_CardinalityType DEF Newer

(* A page without a document that has p newer ones and shares its millisecond with
   none, after p skipped ones, is full, and all it shows and skips is newer. *)
LEMMA PageBefore ==
  ASSUME NEW S, IsFiniteSet(S), \A i \in S : docs[i].at \in Nat,
         NEW p \in Nat, NEW l \in Nat, NEW P \in SUBSET S, NEW B \in SUBSET (S \ P),
         Cardinality(B) = Least(p, Cardinality(S)),
         Cardinality(P) = Least(l, Cardinality(S \ B)),
         Before(B, S \ B), Before(P, S \ (B \cup P)),
         NEW x \in S \ P, Unshared(docs, S, x),
         Cardinality(Newer(docs, S, x)) >= p
  PROVE  Cardinality(P) = l /\ Cardinality(Newer(docs, S, x)) >= p + l
<1> DEFINE N == Newer(docs, S, x)
<1>1. /\ IsFiniteSet(B) /\ IsFiniteSet(P) /\ IsFiniteSet(S \ B) /\ IsFiniteSet(N)
      /\ Cardinality(B) \in Nat /\ Cardinality(P) \in Nat /\ Cardinality(S) \in Nat
      /\ Cardinality(S \ B) \in Nat /\ Cardinality(N) \in Nat
  BY FS_Subset, FS_CardinalityType, NewerFinite
<1>2. x \notin B
  <2> SUFFICES ASSUME x \in B PROVE FALSE
    OBVIOUS
  <2>1. ASSUME NEW j \in N PROVE j \in B /\ j # x
    <3>1. j \in S /\ docs[j].at > docs[x].at
      BY DEF Newer
    <3>2. docs[j].at \in Nat /\ docs[x].at \in Nat
      BY <3>1
    <3>3. j \in S \ B => docs[x].at >= docs[j].at
      BY DEF Before
    <3> QED
      BY <3>1, <3>2, <3>3
  <2>2. N \subseteq B \ {x}
    BY <2>1
  <2>3. IsFiniteSet(B \ {x}) /\ Cardinality(B \ {x}) = Cardinality(B) - 1
    BY <1>1, FS_RemoveElement
  <2>4. Cardinality(N) <= Cardinality(B \ {x})
    BY <2>2, <2>3, FS_Subset
  <2>5. Cardinality(B) <= p
    BY <1>1 DEF Least
  <2> HIDE DEF N
  <2> QED
    BY <1>1, <2>3, <2>4, <2>5 DEF N
<1>3. ASSUME NEW j \in B \cup P PROVE j \in N
  <2>1. j \in S /\ j # x
    BY <1>2
  <2>2. docs[j].at >= docs[x].at
    <3>1. CASE j \in B
      <4>1. x \in S \ B
        BY <1>2
      <4> QED
        BY <3>1, <4>1 DEF Before
    <3>2. CASE j \in P
      <4>1. x \in S \ (B \cup P)
        BY <1>2
      <4> QED
        BY <3>2, <4>1 DEF Before
    <3> QED
      BY <3>1, <3>2
  <2>3. docs[j].at # docs[x].at
    BY <2>1 DEF Unshared
  <2>4. docs[j].at \in Nat /\ docs[x].at \in Nat
    BY <2>1
  <2>5. docs[j].at > docs[x].at
    BY <2>2, <2>3, <2>4
  <2> QED
    BY <2>1, <2>5 DEF Newer
<1>4. Cardinality(P) = l
  <2>1. /\ IsFiniteSet(P \cup {x}) /\ Cardinality(P \cup {x}) = Cardinality(P) + 1
    BY <1>1, FS_AddElement
  <2>2. P \cup {x} \subseteq S \ B
    BY <1>2
  <2>3. Cardinality(P) + 1 <= Cardinality(S \ B)
    BY <1>1, <2>1, <2>2, FS_Subset
  <2> QED
    BY <1>1, <2>3 DEF Least
<1>5. Cardinality(B) = p
  <2>1. /\ IsFiniteSet(B \cup {x}) /\ Cardinality(B \cup {x}) = Cardinality(B) + 1
    BY <1>1, <1>2, FS_AddElement
  <2>2. B \cup {x} \subseteq S
    OBVIOUS
  <2>3. Cardinality(B) + 1 <= Cardinality(S)
    BY <1>1, <2>1, <2>2, FS_Subset
  <2> QED
    BY <1>1, <2>3 DEF Least
<1>6. /\ IsFiniteSet(B \cup P)
      /\ Cardinality(B \cup P) = Cardinality(B) + Cardinality(P)
  <2>1. B \cap P = {} /\ Cardinality(B \cap P) = 0
    BY FS_EmptySet
  <2>2. /\ IsFiniteSet(B \cup P)
        /\ Cardinality(B \cup P) = Cardinality(B) + Cardinality(P) - Cardinality(B \cap P)
    BY <1>1, FS_Union
  <2> QED
    BY <1>1, <2>1, <2>2
<1>7. Cardinality(B \cup P) <= Cardinality(N)
  <2>1. B \cup P \subseteq N
    BY <1>3
  <2> QED
    BY <1>1, <2>1, FS_Subset
<1> QED
  BY <1>4, <1>5, <1>6, <1>7

(* A document added to the store leaves those found as they are, makes none less
   old, and can only have one more share their millisecond. *)
LEMMA AppendedNewer ==
  ASSUME NEW d \in Seq(DocType), NEW e \in DocType, NEW k, NEW v
  PROVE  /\ Len(Append(d, e)) = Len(d) + 1
         /\ \A i \in Listing(Append(d, e), k, v) :
              i <= Len(d) =>
                LET S == Listing(d, k, v)
                    T == Listing(Append(d, e), k, v)
                IN /\ i \in S
                   /\ Unshared(Append(d, e), T, i) => Unshared(d, S, i)
                   /\ Cardinality(Newer(Append(d, e), T, i)) >= Cardinality(Newer(d, S, i))
<1> DEFINE f == Append(d, e)
           S == Listing(d, k, v)
           T == Listing(f, k, v)
<1>1. /\ f \in Seq(DocType) /\ Len(f) = Len(d) + 1 /\ Len(d) \in Nat
      /\ DOMAIN d = 1..Len(d) /\ DOMAIN f = 1..(Len(d) + 1)
      /\ \A i \in 1..Len(d) : f[i] = d[i]
  OBVIOUS
<1>2. S \subseteq T /\ (\A i \in T : i <= Len(d) => i \in S) /\ \A i \in S : f[i] = d[i]
  BY <1>1 DEF Listing
<1>3. IsFiniteSet(S) /\ IsFiniteSet(T)
  BY <1>1, ListingFinite
<1> HIDE DEF S, T, f
<1>4. ASSUME NEW i \in T, i \in S
      PROVE  /\ Unshared(f, T, i) => Unshared(d, S, i)
             /\ Cardinality(Newer(f, T, i)) >= Cardinality(Newer(d, S, i))
  <2>1. /\ IsFiniteSet(Newer(f, T, i)) /\ Cardinality(Newer(f, T, i)) \in Nat
        /\ Cardinality(Newer(d, S, i)) \in Nat
    BY <1>3, NewerFinite
  <2>2. Newer(d, S, i) \subseteq Newer(f, T, i)
    BY <1>2, <1>4 DEF Newer
  <2>3. Cardinality(Newer(d, S, i)) <= Cardinality(Newer(f, T, i))
    BY <2>1, <2>2, FS_Subset
  <2>4. Unshared(f, T, i) => Unshared(d, S, i)
    BY <1>2, <1>4 DEF Unshared
  <2> QED
    BY <2>1, <2>3, <2>4
<1> QED
  BY <1>1, <1>2, <1>4 DEF S, T, f

(* What is written to a document of the store, unless it takes one away, leaves the
   listing as it was. *)
LEMMA ListingKept ==
  ASSUME TypeOK, kind \in ListKind, NEW i \in DOMAIN docs, NEW t, Retag(i, t),
         docs[i].coll = "sessions" \/ Spared(i, t)
  PROVE  /\ Listing(docs', kind, viewer) = Listing(docs, kind, viewer)
         /\ Len(docs') = Len(docs) /\ \A j \in DOMAIN docs : docs'[j].at = docs[j].at
<1>1. docs \in Seq(DocType)
  BY DEF TypeOK, DocType
<1>2. kind # "sessions"
  BY DEF ListKind
<1>3. /\ "inactive" \in TagsRead
      /\ viewer # "system" => "mine" \in TagsRead
  BY ListedFound
<1> DEFINE s == t \cap TagsRead
<1>4. docs' = [docs EXCEPT ![i].tags = s]
  BY DEF Retag
<1>5. docs[i].coll # "sessions" =>
        /\ "inactive" \in s <=> "inactive" \in docs[i].tags
        /\ viewer # "system" => ("mine" \in s <=> "mine" \in docs[i].tags)
  BY <1>3 DEF Spared, FreeTag, TypeTag
<1> HIDE DEF s
<1>6. docs[i] \in DocType
  BY <1>1
<1>7. /\ DOMAIN docs' = DOMAIN docs /\ Len(docs') = Len(docs)
      /\ docs'[i].coll = docs[i].coll /\ docs'[i].tags = s /\ docs'[i].at = docs[i].at
      /\ \A j \in DOMAIN docs : j # i => docs'[j] = docs[j]
  BY <1>1, <1>4, <1>6 DEF DocType
<1>8. \A j \in DOMAIN docs : j \in Listing(docs', kind, viewer) <=> j \in Listing(docs, kind, viewer)
  BY <1>2, <1>5, <1>7 DEF Listing
<1> QED
  BY <1>7, <1>8 DEF Listing

LEMMA PageRead ==
  ASSUME TypeOK, PageInv, ReadPage
  PROVE  PageInv'
<1> DEFINE S == Listing(docs, kind, viewer)
           p == (page - 1) * limit
<1>1. /\ running /\ kind \in ListKind /\ limit \in Nat /\ page \in Nat
      /\ docs \in Seq(DocType)
  BY DEF ReadPage, TypeOK, DocType
<1>2. Found(Queries[1]) = S
  BY <1>1, ListedFound
<1>3. IsFiniteSet(S) /\ \A i \in S : docs[i].at \in Nat
  BY <1>1, ListingFinite
<1>4. PICK P \in Pages(S) :
        /\ seen' = seen \cup P
        /\ page' = IF Cardinality(P) = limit THEN page + 1 ELSE 0
  BY <1>2 DEF ReadPage
<1>5. PICK B \in SUBSET (S \ P) :
        /\ Cardinality(B) = Least(p, Cardinality(S))
        /\ Cardinality(P) = Least(limit, Cardinality(S \ B))
        /\ Before(B, S \ B) /\ Before(P, S \ (B \cup P))
  BY DEF Pages
<1>6. P \in SUBSET S
  BY DEF Pages
<1>7. UNCHANGED <<kind, viewer, limit, docs, running, started, lost>>
  BY DEF ReadPage
<1>8. ASSUME lost = 0, NEW i \in S, i <= started, i \notin seen', Unshared(docs, S, i)
      PROVE  page' > 0 /\ Cardinality(Newer(docs, S, i)) >= (page' - 1) * limit
  <2>1. page > 0 /\ Cardinality(Newer(docs, S, i)) >= p
    BY <1>1, <1>4, <1>8 DEF PageInv
  <2>2. p \in Nat /\ page * limit = p + limit
    BY <1>1, <2>1
  <2>3. i \in S \ P
    BY <1>4, <1>8
  <2> HIDE DEF p, S
  <2>4. Cardinality(P) = limit /\ Cardinality(Newer(docs, S, i)) >= p + limit
    BY <1>1, <1>3, <1>5, <1>6, <1>8, <2>1, <2>2, <2>3, PageBefore
  <2>5. page' = page + 1
    BY <1>4, <2>4
  <2> QED
    BY <1>1, <2>2, <2>4, <2>5
<1>9. started <= Len(docs)
  BY <1>1 DEF PageInv
<1> HIDE DEF S
<1>10. Listing(docs', kind', viewer') = S /\ docs' = docs
  BY <1>7 DEF S
<1> QED
  BY <1>7, <1>8, <1>9, <1>10 DEF PageInv, S

LEMMA PageStep == TypeOK /\ PageInv /\ [Next]_vars => PageInv'
<1> SUFFICES ASSUME TypeOK, PageInv, [Next]_vars PROVE PageInv'
  OBVIOUS
<1>a. docs \in Seq(DocType) /\ Len(docs) \in Nat /\ docs' \in Seq(DocType)
  BY DocsStep DEF TypeOK, DocType
<1>b. lost \in Nat /\ started \in Nat /\ limit \in Nat /\ page \in Nat
  BY DEF TypeOK
<1>1. CASE StartReport
  <2>1. /\ started' = Len(docs) /\ docs' = docs /\ page' = 1 /\ limit' = limit
    BY <1>1 DEF StartReport
  <2> DEFINE S == Listing(docs', kind', viewer')
  <2>2. IsFiniteSet(S)
    BY <1>a, ListingFinite
  <2> HIDE DEF S
  <2>3. \A i : Cardinality(Newer(docs', S, i)) >= (page' - 1) * limit'
    <3>1. \A i : Cardinality(Newer(docs', S, i)) \in Nat
      BY <2>2, NewerFinite
    <3>2. (page' - 1) * limit' = 0
      BY <1>b, <2>1
    <3> QED
      BY <3>1, <3>2
  <2> QED
    BY <1>a, <2>1, <2>3 DEF PageInv, S
<1>2. CASE EndReport
  BY <1>2 DEF EndReport, PageInv
<1>3. CASE Count \/ ReadActivity \/ FeedFails
  BY <1>3 DEF Count, ReadActivity, FeedFails, PageInv, ReportKind, ListKind
<1>4. CASE CountListed
  BY <1>4 DEF CountListed, PageInv
<1>5. CASE ReadPage
  BY <1>5, PageRead
<1>6. ASSUME NEW coll \in Coll, NEW tags, Insert(coll, tags) PROVE PageInv'
  <2>1. PICK e : docs' = Append(docs, e)
    BY <1>6 DEF Insert
  <2>2. e \in DocType
    <3>1. Len(docs') = Len(docs) + 1 /\ docs'[Len(docs) + 1] = e
      BY <1>a, <2>1
    <3> QED
      BY <1>a, <3>1
  <2>3. UNCHANGED <<kind, viewer, limit, running, page, seen, started>> /\ lost' = lost
    BY <1>6 DEF Insert, Noted
  <2> SUFFICES ASSUME running, kind \in ListKind
               PROVE  PageInv'
    BY <2>3 DEF PageInv
  <2>4. started <= Len(docs) /\ Len(docs') = Len(docs) + 1
    BY <1>a, <2>1 DEF PageInv
  <2> DEFINE S == Listing(docs, kind, viewer)
             T == Listing(docs', kind, viewer)
  <2>5. ASSUME lost = 0, NEW i \in T, i <= started, i \notin seen, Unshared(docs', T, i)
        PROVE  page > 0 /\ Cardinality(Newer(docs', T, i)) >= (page - 1) * limit
    <3>1. i \in Nat /\ i <= Len(docs)
      BY <1>a, <1>b, <2>4, <2>5, ListingFinite
    <3>2. /\ i \in S /\ Unshared(docs, S, i)
          /\ Cardinality(Newer(docs', T, i)) >= Cardinality(Newer(docs, S, i))
      BY <1>a, <2>1, <2>2, <2>5, <3>1, AppendedNewer
    <3>3. page > 0 /\ Cardinality(Newer(docs, S, i)) >= (page - 1) * limit
      BY <2>5, <3>2 DEF PageInv
    <3>4. /\ Cardinality(Newer(docs, S, i)) \in Nat
          /\ Cardinality(Newer(docs', T, i)) \in Nat
          /\ (page - 1) * limit \in Int
      BY <1>a, <1>b, ListingFinite, NewerFinite
    <3> HIDE DEF S, T
    <3> QED
      BY <3>2, <3>3, <3>4
  <2> QED
    BY <1>a, <1>b, <2>3, <2>4, <2>5 DEF PageInv
<1>7. ASSUME NEW i \in DOMAIN docs, Write(i) PROVE PageInv'
  <2>1. PICK t \in SUBSET Tag, removal \in BOOLEAN :
          /\ Retag(i, t) /\ Noted(removal)
          /\ docs[i].coll = "sessions" \/ removal \/ Spared(i, t)
    BY <1>7, <1>a, WriteRetags
  <2>2. UNCHANGED <<kind, viewer, limit, running, page, seen, started>>
    BY <2>1 DEF Noted
  <2> SUFFICES ASSUME running, kind \in ListKind
               PROVE  PageInv'
    BY <2>2 DEF PageInv
  <2>3. CASE removal
    <3>1. lost' = lost + 1
      BY <2>1, <2>3 DEF Noted
    <3>2. Len(docs') = Len(docs)
      BY <2>1, <1>a DEF Retag
    <3>3. lost' # 0
      BY <1>b, <3>1
    <3> QED
      BY <2>2, <3>2, <3>3 DEF PageInv
  <2>4. CASE ~removal
    <3> DEFINE S == Listing(docs, kind, viewer)
    <3>1. /\ Listing(docs', kind, viewer) = S /\ Len(docs') = Len(docs)
          /\ \A j \in S : docs'[j].at = docs[j].at
      BY <2>1, <2>4, ListingKept DEF Listing
    <3>2. lost' = lost
      BY <2>1, <2>4 DEF Noted
    <3> HIDE DEF S
    <3>3. ASSUME NEW j \in S
          PROVE  Newer(docs', S, j) = Newer(docs, S, j) /\ (Unshared(docs', S, j) <=> Unshared(docs, S, j))
      BY <3>1 DEF Newer, Unshared
    <3> QED
      BY <2>2, <3>1, <3>2, <3>3 DEF PageInv, S
  <2> QED
    BY <2>3, <2>4
<1>8. CASE UNCHANGED vars
  BY <1>8 DEF vars, PageInv
<1> QED
  BY <1>1, <1>2, <1>3, <1>4, <1>5, <1>6, <1>7, <1>8
     DEF Next, Write, FinishReport, ReportFails

(* A client that reads page after page until one comes short misses no document
   that was there when it began and shares its millisecond with no other, for any
   page size, any number of documents, any order of those of one millisecond and
   whatever is added or changed meanwhile, as long as none is taken away. *)
THEOREM PagingComplete == Spec => []PagingMissesNothing
<1>1. Init => PageInv
  BY DEF Init, PageInv
<1>2. TypeOK /\ PageInv => PagingMissesNothing
  <2> SUFFICES ASSUME PageInv, running, kind \in ListKind, page = 0, lost = 0,
                      NEW i \in Found(Queries[1]), i <= started,
                      \A j \in Found(Queries[1]) \ {i} : docs[j].at # docs[i].at
               PROVE  i \in seen
    BY DEF PagingMissesNothing
  <2>1. Unshared(docs, Listing(docs, kind, viewer), i)
    BY ListedFound DEF Unshared
  <2> QED
    BY <2>1, ListedFound DEF PageInv
<1> QED
  BY TypeInit, TypeStep, PageStep, <1>1, <1>2, PTL DEF Spec

-----------------------------------------------------------------------------
(* Reports of several counts: each answer, read or still to be read, stays within
   what was written while the report ran. *)

(* What a query finds among the documents d up to n. *)
Matches(d, n, q) ==
  {i \in DOMAIN d : /\ d[i].coll = q.coll
                    /\ q.has \subseteq d[i].tags
                    /\ q.lacks \cap d[i].tags = {}
                    /\ q.upto => i <= n}

(* The answer of a query, or what it would answer now. *)
Value(k) ==
  IF k <= Len(answers) THEN answers[k] ELSE Cardinality(Matches(docs, now, Queries[k]))

(* No document has two of the types that are counted apart. *)
Apart(d) ==
  \A i \in DOMAIN d : \A a, b \in TypeTag : a \in d[i].tags /\ b \in d[i].tags => a = b

(* The time is taken after the report began, and what is old was there before. *)
ClockInv ==
  running /\ kind \in ReportKind =>
    /\ started <= now /\ now <= Len(docs)
    /\ \A i \in DOMAIN docs : "old" \in docs[i].tags => i <= started

AddInv ==
  running /\ kind \in ReportKind =>
    /\ \A p \in Parts : Value(p[1]) <= Value(p[2]) + writes
    /\ kind = "messageStats" =>
         /\ Value(1) <= Value(3) + Value(4)
         /\ Value(3) + Value(4) <= Value(1) + writes
    /\ kind = "entityStats" =>
         /\ Value(2) + Value(3) + Value(4) <= Value(1) + writes
         /\ Value(8) <= Value(9) + lost
    /\ kind = "userStats" => Value(3) <= Value(4) + lost

LEMMA FoundMatches == \A q : Found(q) = Matches(docs, now, q)
  BY DEF Found, Matches

LEMMA MatchesFinite ==
  ASSUME NEW d \in Seq(DocType), NEW n, NEW q
  PROVE  /\ Matches(d, n, q) \subseteq 1..Len(d)
         /\ IsFiniteSet(Matches(d, n, q)) /\ Cardinality(Matches(d, n, q)) \in Nat
<1>1. DOMAIN d = 1..Len(d) /\ Len(d) \in Nat
  OBVIOUS
<1>2. IsFiniteSet(1..Len(d))
  BY <1>1, FS_Interval
<1>3. Matches(d, n, q) \subseteq 1..Len(d)
  BY <1>1 DEF Matches
<1> QED
  BY <1>2, <1>3, FS_Subset, FS_CardinalityType

(* The queries of the reports whose numbers are compared. *)
LEMMA EntityQueries ==
  ASSUME kind = "entityStats"
  PROVE  /\ Queries = EntityStats /\ DOMAIN Queries = 1..9
         /\ Queries[1] = Active("entities", {}) /\ Queries[2] = Active("entities", {"entity"})
         /\ Queries[3] = Active("entities", {"company"})
         /\ Queries[4] = Active("entities", {"department"})
         /\ Queries[5] = Active("users", {"user", "phone"})
         /\ Queries[6] = Active("users", {"user"})
         /\ Queries[7] = Active("users", {"user", "registered"})
         /\ Queries[8] = Active("entities", {"old"})
         /\ Queries[9] = UpTo(Active("entities", {}))
<1>1. Queries = EntityStats
  BY DEF Queries
<1> QED
  BY <1>1 DEF EntityStats

LEMMA MessageQueries ==
  ASSUME kind = "messageStats"
  PROVE  /\ Queries = MessageStats /\ DOMAIN Queries = 1..4
         /\ Queries[1] = Active("messages", {})
         /\ Queries[2] = UpTo(Every("messages", {}, {"inactive", "old"}))
         /\ Queries[3] = Every("messages", {}, {"inactive", "external"})
         /\ Queries[4] = Active("messages", {"external"})
<1>1. Queries = MessageStats
  BY DEF Queries
<1> QED
  BY <1>1 DEF MessageStats

LEMMA UserQueries ==
  ASSUME kind = "userStats"
  PROVE  /\ Queries = UserStats /\ DOMAIN Queries = 1..4
         /\ Queries[1] = Active("users", {"user"})
         /\ Queries[2] = Active("users", {"user", "phone"})
         /\ Queries[3] = Active("users", {"user", "old"})
         /\ Queries[4] = UpTo(Active("users", {"user"}))
<1>1. Queries = UserStats
  BY DEF Queries
<1> QED
  BY <1>1 DEF UserStats

LEMMA QueriesKept ==
  ASSUME kind' = kind, viewer' = viewer
  PROVE  Queries' = Queries /\ TagsRead' = TagsRead /\ Parts' = Parts
<1>1. Mine' = Mine
  BY DEF Mine
<1>2. /\ EntityStats' = EntityStats /\ MessageStats' = MessageStats
      /\ UserStats' = UserStats
  BY <1>1 DEF EntityStats, MessageStats, UserStats, Active, Every, UpTo
<1>3. /\ SessionsReady' = SessionsReady /\ Throughput' = Throughput
      /\ ErrorRate' = ErrorRate /\ QueueBacklog' = QueueBacklog
      /\ RecentActivity' = RecentActivity /\ Listed' = Listed
  BY <1>1 DEF SessionsReady, Throughput, ErrorRate, QueueBacklog, RecentActivity, Listed,
              Active, Every
<1>4. Queries' = Queries
  BY <1>2, <1>3 DEF Queries
<1>5. Parts' = Parts
  BY DEF Parts
<1> QED
  BY <1>4, <1>5 DEF TagsRead

(* What a part counts, its whole counts too. *)
LEMMA PartIncluded ==
  ASSUME NEW p \in Parts, NEW d, NEW n
  PROVE  /\ p[1] \in Nat /\ p[2] \in Nat
         /\ Matches(d, n, Queries[p[1]]) \subseteq Matches(d, n, Queries[p[2]])
<1> DEFINE q == Queries[p[1]]
           w == Queries[p[2]]
<1>1. /\ p[1] \in Nat /\ p[2] \in Nat
      /\ q.coll = w.coll /\ w.has \subseteq q.has /\ w.lacks \subseteq q.lacks /\ ~w.upto
  <2>1. CASE kind = "entityStats"
    <3>1. p = <<5, 6>> \/ p = <<7, 6>>
      BY <2>1 DEF Parts
    <3> QED
      BY <2>1, <3>1, EntityQueries DEF Active, Every
  <2>2. CASE kind = "messageStats"
    <3>1. p = <<2, 1>> \/ p = <<3, 1>> \/ p = <<4, 1>>
      BY <2>2 DEF Parts
    <3> QED
      BY <2>2, <3>1, MessageQueries DEF Active, Every, UpTo
  <2>3. CASE kind = "userStats"
    <3>1. p = <<2, 1>>
      BY <2>3 DEF Parts
    <3> QED
      BY <2>3, <3>1, UserQueries DEF Active, Every
  <2>4. CASE kind \in {"systemHealth", "sessionHealth", "errorRate"}
    <3>1. p = <<2, 1>>
      BY <2>4 DEF Parts
    <3>2. Queries = SessionsReady \/ Queries = ErrorRate
      BY <2>4 DEF Queries
    <3> QED
      BY <3>1, <3>2 DEF SessionsReady, ErrorRate, Every
  <2> QED
    BY <2>1, <2>2, <2>3, <2>4 DEF Parts
<1> HIDE DEF q, w
<1>2. Matches(d, n, q) \subseteq Matches(d, n, w)
  BY <1>1 DEF Matches
<1> QED
  BY <1>1, <1>2 DEF q, w

(* Parts that do not overlap, of the same whole. *)
LEMMA TwoApart ==
  ASSUME NEW W, IsFiniteSet(W), NEW A \in SUBSET W, NEW B \in SUBSET W, A \cap B = {}
  PROVE  /\ Cardinality(A) + Cardinality(B) <= Cardinality(W)
         /\ A \cup B = W => Cardinality(A) + Cardinality(B) = Cardinality(W)
<1>1. IsFiniteSet(A) /\ IsFiniteSet(B)
  BY FS_Subset
<1>2. /\ IsFiniteSet(A \cup B)
      /\ Cardinality(A \cup B) = Cardinality(A) + Cardinality(B) - Cardinality(A \cap B)
  BY <1>1, FS_Union
<1>3. Cardinality(A \cap B) = 0
  BY FS_EmptySet
<1>4. Cardinality(A \cup B) <= Cardinality(W)
  BY FS_Subset
<1>5. Cardinality(A) \in Nat /\ Cardinality(B) \in Nat /\ Cardinality(W) \in Nat
  BY <1>1, FS_CardinalityType
<1>6. Cardinality(A \cup B) = Cardinality(A) + Cardinality(B)
  BY <1>2, <1>3, <1>5
<1> QED
  BY <1>4, <1>6

(* What the filters of the reports mean. *)
LEMMA MatchesActive ==
  ASSUME NEW d, NEW n, NEW c, NEW h, NEW i
  PROVE  /\ i \in Matches(d, n, Active(c, h)) <=>
              /\ i \in DOMAIN d /\ d[i].coll = c /\ "inactive" \notin d[i].tags
              /\ Mine \subseteq d[i].tags /\ h \subseteq d[i].tags
         /\ i \in Matches(d, n, UpTo(Active(c, h))) <=>
              i \in Matches(d, n, Active(c, h)) /\ i <= n
<1>1. Active(c, h) = [coll |-> c, has |-> h \cup Mine, lacks |-> {"inactive"}, upto |-> FALSE]
  BY DEF Active, Every
<1> DEFINE q == Active(c, h)
           u == UpTo(Active(c, h))
<1>2. q.coll = c /\ q.has = h \cup Mine /\ q.lacks = {"inactive"}
  BY <1>1
<1>3. ~q.upto
  BY <1>1
<1>6. u.coll = c /\ u.has = h \cup Mine /\ u.lacks = {"inactive"}
  BY DEF UpTo, Active, Every
<1>7. u.upto
  BY DEF UpTo, Active, Every
<1> HIDE DEF q, u
<1>4. i \in Matches(d, n, q) <=>
        /\ i \in DOMAIN d /\ d[i].coll = c /\ "inactive" \notin d[i].tags
        /\ Mine \subseteq d[i].tags /\ h \subseteq d[i].tags
  BY <1>2, <1>3 DEF Matches
<1>5. i \in Matches(d, n, u) <=> i \in Matches(d, n, q) /\ i <= n
  BY <1>2, <1>3, <1>6, <1>7 DEF Matches
<1> QED
  BY <1>4, <1>5 DEF q, u

LEMMA ThreeApart ==
  ASSUME NEW W, IsFiniteSet(W), NEW A \in SUBSET W, NEW B \in SUBSET W, NEW C \in SUBSET W,
         A \cap B = {}, A \cap C = {}, B \cap C = {}
  PROVE  Cardinality(A) + Cardinality(B) + Cardinality(C) <= Cardinality(W)
<1>1. IsFiniteSet(A) /\ IsFiniteSet(B) /\ IsFiniteSet(C) /\ IsFiniteSet(A \cup B)
  BY FS_Subset
<1>2. Cardinality(A \cup B) = Cardinality(A) + Cardinality(B)
  BY <1>1, TwoApart
<1>3. (A \cup B) \cap C = {} /\ A \cup B \in SUBSET W
  OBVIOUS
<1>4. Cardinality(A \cup B) + Cardinality(C) <= Cardinality(W)
  BY <1>3, TwoApart
<1> QED
  BY <1>2, <1>4

(* With nothing read yet the numbers of one moment add up. *)
LEMMA SplitNow ==
  ASSUME kind = "messageStats", NEW d \in Seq(DocType), NEW n
  PROVE  Cardinality(Matches(d, n, Queries[3])) + Cardinality(Matches(d, n, Queries[4]))
           = Cardinality(Matches(d, n, Queries[1]))
<1> DEFINE W == Matches(d, n, Queries[1])
           A == Matches(d, n, Queries[3])
           B == Matches(d, n, Queries[4])
<1>0. Every("messages", {}, {"inactive", "external"})
        = [coll |-> "messages", has |-> Mine, lacks |-> {"inactive", "external"}, upto |-> FALSE]
  BY DEF Every
<1>3. \A i : i \in A <=> i \in W /\ "external" \notin d[i].tags
  <2>1. \A i : i \in A <=> /\ i \in DOMAIN d /\ d[i].coll = "messages"
                           /\ "inactive" \notin d[i].tags /\ "external" \notin d[i].tags
                           /\ Mine \subseteq d[i].tags
    BY <1>0, MessageQueries DEF Matches
  <2> QED
    BY <2>1, MessageQueries, MatchesActive
<1>4. \A i : i \in B <=> i \in W /\ "external" \in d[i].tags
  BY MessageQueries, MatchesActive
<1>2. IsFiniteSet(W)
  BY MatchesFinite
<1> HIDE DEF W, A, B
<1>1. A \subseteq W /\ B \subseteq W /\ A \cap B = {} /\ A \cup B = W
  BY <1>3, <1>4
<1>5. Cardinality(A) + Cardinality(B) = Cardinality(W)
  BY <1>1, <1>2, TwoApart
<1> QED
  BY <1>5 DEF W, A, B

LEMMA TypesNow ==
  ASSUME kind = "entityStats", NEW d \in Seq(DocType), Apart(d), NEW n
  PROVE  Cardinality(Matches(d, n, Queries[2])) + Cardinality(Matches(d, n, Queries[3]))
           + Cardinality(Matches(d, n, Queries[4]))
         <= Cardinality(Matches(d, n, Queries[1]))
<1> DEFINE W == Matches(d, n, Queries[1])
           A == Matches(d, n, Queries[2])
           B == Matches(d, n, Queries[3])
           C == Matches(d, n, Queries[4])
<1>0. \A i : /\ (i \in A <=> i \in W /\ "entity" \in d[i].tags)
            /\ (i \in B <=> i \in W /\ "company" \in d[i].tags)
            /\ (i \in C <=> i \in W /\ "department" \in d[i].tags)
            /\ (i \in W => i \in DOMAIN d)
  BY EntityQueries, MatchesActive
<1>a. \A i \in DOMAIN d :
        /\ ~("entity" \in d[i].tags /\ "company" \in d[i].tags)
        /\ ~("entity" \in d[i].tags /\ "department" \in d[i].tags)
        /\ ~("company" \in d[i].tags /\ "department" \in d[i].tags)
  BY DEF Apart, TypeTag
<1>3. IsFiniteSet(W)
  BY MatchesFinite
<1> HIDE DEF W, A, B, C
<1>1. A \subseteq W /\ B \subseteq W /\ C \subseteq W
  BY <1>0
<1>2. A \cap B = {} /\ A \cap C = {} /\ B \cap C = {}
  BY <1>0, <1>a
<1>4. Cardinality(A) + Cardinality(B) + Cardinality(C) <= Cardinality(W)
  BY <1>1, <1>2, <1>3, ThreeApart
<1> QED
  BY <1>4 DEF W, A, B, C

LEMMA OldNow ==
  ASSUME NEW d \in Seq(DocType), NEW n \in Nat,
         \A i \in DOMAIN d : "old" \in d[i].tags => i <= n
  PROVE  /\ kind = "entityStats" => Matches(d, n, Queries[8]) \subseteq Matches(d, n, Queries[9])
         /\ kind = "userStats" => Matches(d, n, Queries[3]) \subseteq Matches(d, n, Queries[4])
<1>1. CASE kind = "entityStats"
  <2>1. \A i : i \in Matches(d, n, Queries[8]) => i \in DOMAIN d /\ "old" \in d[i].tags
                 /\ i \in Matches(d, n, Active("entities", {}))
    BY <1>1, EntityQueries, MatchesActive
  <2> QED
    BY <1>1, <2>1, EntityQueries, MatchesActive
<1>2. CASE kind = "userStats"
  <2>1. \A i : i \in Matches(d, n, Queries[3]) => i \in DOMAIN d /\ "old" \in d[i].tags
                 /\ i \in Matches(d, n, Active("users", {"user"}))
    BY <1>2, UserQueries, MatchesActive
  <2> QED
    BY <1>2, <2>1, UserQueries, MatchesActive
<1> QED
  BY <1>1, <1>2

LEMMA ValueType ==
  ASSUME TypeOK, NEW k \in Nat \ {0}
  PROVE  Value(k) \in Nat
<1>1. docs \in Seq(DocType) /\ answers \in Seq(Nat)
  BY DEF TypeOK, DocType
<1>2. Len(answers) \in Nat /\ \A i \in 1..Len(answers) : answers[i] \in Nat
  BY <1>1, Numbers
<1>3. k <= Len(answers) => k \in 1..Len(answers)
  BY <1>2
<1> QED
  BY <1>1, <1>2, <1>3, MatchesFinite DEF Value

LEMMA PartsPositive ==
  ASSUME NEW p \in Parts
  PROVE  p[1] \in Nat \ {0} /\ p[2] \in Nat \ {0}
  BY DEF Parts

(* All that is said of the answers holds of what they would be now. *)
LEMMA AddStart ==
  TypeOK /\ running /\ kind \in ReportKind /\ ClockInv /\ Apart(docs) /\ answers = <<>>
    => AddInv
<1> SUFFICES ASSUME TypeOK, running, kind \in ReportKind, ClockInv, Apart(docs),
                    answers = <<>>
             PROVE  AddInv
  OBVIOUS
<1> DEFINE C(k) == Cardinality(Matches(docs, now, Queries[k]))
<1>1. /\ docs \in Seq(DocType) /\ now \in Nat /\ started \in Nat
      /\ writes \in Nat /\ lost \in Nat
  BY DEF TypeOK, DocType
<1>2. \A k \in Nat \ {0} : Value(k) = C(k)
  BY EmptyIsShort DEF Value
<1>3. \A k : IsFiniteSet(Matches(docs, now, Queries[k])) /\ C(k) \in Nat
  BY <1>1, MatchesFinite
<1>4. \A k, m : Matches(docs, now, Queries[k]) \subseteq Matches(docs, now, Queries[m])
                => C(k) <= C(m)
  BY <1>3, FS_Subset
<1>5. ASSUME NEW p \in Parts PROVE Value(p[1]) <= Value(p[2]) + writes
  <2>1. C(p[1]) <= C(p[2])
    BY <1>4, PartIncluded
  <2>2. Value(p[1]) = C(p[1]) /\ Value(p[2]) = C(p[2])
    BY <1>2, PartsPositive
  <2>3. C(p[1]) \in Nat /\ C(p[2]) \in Nat
    BY <1>3
  <2> HIDE DEF C
  <2> QED
    BY <1>1, <2>1, <2>2, <2>3
<1>6. kind = "messageStats" => C(3) + C(4) = C(1)
  BY <1>1, SplitNow
<1>7. kind = "entityStats" => C(2) + C(3) + C(4) <= C(1)
  BY <1>1, TypesNow
<1>8. /\ kind = "entityStats" => C(8) <= C(9)
      /\ kind = "userStats" => C(3) <= C(4)
  <2>1. \A i \in DOMAIN docs : "old" \in docs[i].tags => i <= now
    <3>1. \A i \in DOMAIN docs : i \in Nat
      BY <1>1
    <3> QED
      BY <1>1, <3>1 DEF ClockInv
  <2> QED
    BY <1>1, <1>4, <2>1, OldNow
<1>9. /\ C(1) \in Nat /\ C(2) \in Nat /\ C(3) \in Nat /\ C(4) \in Nat
      /\ C(8) \in Nat /\ C(9) \in Nat
  BY <1>3
<1>10. /\ Value(1) = C(1) /\ Value(2) = C(2) /\ Value(3) = C(3) /\ Value(4) = C(4)
       /\ Value(8) = C(8) /\ Value(9) = C(9)
  BY <1>2
<1> HIDE DEF C
<1>11. kind = "messageStats" =>
         Value(1) <= Value(3) + Value(4) /\ Value(3) + Value(4) <= Value(1) + writes
  BY <1>1, <1>6, <1>9, <1>10
<1>12. kind = "entityStats" =>
         Value(2) + Value(3) + Value(4) <= Value(1) + writes /\ Value(8) <= Value(9) + lost
  BY <1>1, <1>7, <1>8, <1>9, <1>10, SMTT(30)
<1>13. kind = "userStats" => Value(3) <= Value(4) + lost
  BY <1>1, <1>8, <1>9, <1>10
<1> QED
  BY <1>5, <1>11, <1>12, <1>13 DEF AddInv

(* A query that is answered answers what it would have answered; taking the time
   can only add to the queries that end there. *)
LEMMA CountKeeps ==
  ASSUME TypeOK, Count, ClockInv, NEW k \in Nat \ {0}
  PROVE  /\ Value(k)' \in Nat
         /\ Value(k) <= Value(k)'
         /\ ~Queries[k].upto \/ kind \notin {"entityStats", "userStats"} => Value(k)' = Value(k)
<1> DEFINE l == Len(answers)
           size == Cardinality(Found(Queries[l + 1]))
<1>1. /\ docs \in Seq(DocType) /\ answers \in Seq(Nat) /\ l \in Nat
      /\ now \in Nat /\ Len(docs) \in Nat
  BY DEF TypeOK, DocType
<1>2. /\ running /\ kind \in ReportKind /\ answers' = Append(answers, size)
      /\ docs' = docs /\ kind' = kind /\ viewer' = viewer
      /\ now' = IF Len(answers') = ClockAt THEN Len(docs) ELSE now
  BY DEF Count
<1>3. Queries' = Queries
  BY <1>2, QueriesKept
<1>4. size = Cardinality(Matches(docs, now, Queries[l + 1])) /\ size \in Nat
  BY <1>1, FoundMatches, MatchesFinite
<1> HIDE DEF size
<1>5. Len(answers') = l + 1 /\ answers'[l + 1] = size /\ \A i \in 1..l : answers'[i] = answers[i]
  BY <1>1, <1>2, <1>4, Appended
<1> HIDE DEF l
<1>6. CASE k <= l
  <2>1. Value(k) = answers[k] /\ answers'[k] = answers[k] /\ answers[k] \in Nat
    BY <1>1, <1>5, <1>6, Numbers DEF Value, l
  <2>2. Value(k)' = answers'[k]
    BY <1>1, <1>5, <1>6 DEF Value
  <2> QED
    BY <2>1, <2>2
<1>7. CASE k = l + 1
  <2>1. ~(k <= Len(answers)) /\ k <= Len(answers')
    BY <1>1, <1>5, <1>7 DEF l
  <2>2. Value(k) = size
    BY <2>1, <1>4, <1>7 DEF Value
  <2>3. Value(k)' = size
    BY <2>1, <1>5, <1>7 DEF Value
  <2> QED
    BY <2>2, <2>3, <1>4
<1>8. CASE k > l + 1
  <2>1. ~(k <= Len(answers)) /\ ~(k <= Len(answers'))
    BY <1>1, <1>5, <1>8 DEF l
  <2> DEFINE q == Queries[k]
             M == Matches(docs, now, q)
             N == Matches(docs, now', q)
  <2>2. Value(k) = Cardinality(M) /\ Value(k)' = Cardinality(N)
    BY <2>1, <1>2, <1>3 DEF Value
  <2>3. now' \in Nat /\ now <= now'
    BY <1>1, <1>2 DEF ClockInv
  <2>4. \A i \in DOMAIN docs : i \in Nat
    BY <1>1
  <2>5. M \subseteq N
    BY <1>1, <2>3, <2>4 DEF Matches
  <2>6. IsFiniteSet(N) /\ Cardinality(N) \in Nat /\ Cardinality(M) \in Nat
    BY <1>1, MatchesFinite
  <2>7. Cardinality(M) <= Cardinality(N)
    BY <2>5, <2>6, FS_Subset
  <2>8. kind \notin {"entityStats", "userStats"} => now' = now
    BY <1>1, <1>2, <1>5 DEF ClockAt
  <2>9. ~q.upto \/ kind \notin {"entityStats", "userStats"} => N = M
    BY <2>8 DEF Matches
  <2> QED
    BY <2>2, <2>6, <2>7, <2>9
<1> QED
  BY <1>1, <1>6, <1>7, <1>8

LEMMA AddCount ==
  ASSUME TypeOK, ClockInv, AddInv, Count
  PROVE  AddInv'
<1>1. /\ running /\ kind \in ReportKind /\ kind' = kind /\ viewer' = viewer
      /\ writes' = writes /\ lost' = lost /\ writes \in Nat /\ lost \in Nat
  BY DEF Count, TypeOK
<1>2. Queries' = Queries /\ Parts' = Parts
  BY <1>1, QueriesKept
<1>3. \A k \in Nat \ {0} : Value(k) \in Nat /\ Value(k)' \in Nat /\ Value(k) <= Value(k)'
  BY ValueType, CountKeeps
<1>4. \A k \in Nat \ {0} : ~Queries[k].upto \/ kind \notin {"entityStats", "userStats"}
                           => Value(k)' = Value(k)
  BY CountKeeps
<1>5. ASSUME NEW p \in Parts PROVE Value(p[1])' <= Value(p[2])' + writes
  <2>1. Value(p[1])' = Value(p[1])
    <3>1. kind \in {"entityStats", "userStats"} => ~Queries[p[1]].upto
      <4>1. CASE kind = "entityStats"
        <5>1. p = <<5, 6>> \/ p = <<7, 6>>
          BY <4>1 DEF Parts
        <5> QED
          BY <4>1, <5>1, EntityQueries DEF Active, Every
      <4>2. CASE kind = "userStats"
        <5>1. p = <<2, 1>>
          BY <4>2 DEF Parts
        <5> QED
          BY <4>2, <5>1, UserQueries DEF Active, Every
      <4> QED
        BY <4>1, <4>2
    <3> QED
      BY <3>1, <1>4, PartsPositive
  <2>2. Value(p[1]) <= Value(p[2]) + writes
    BY <1>1 DEF AddInv
  <2>3. /\ Value(p[1]) \in Nat /\ Value(p[2]) \in Nat /\ Value(p[2])' \in Nat
        /\ Value(p[2]) <= Value(p[2])'
    BY <1>3, PartsPositive
  <2> QED
    BY <1>1, <2>1, <2>2, <2>3
<1>6. CASE kind = "messageStats"
  <2>1. Value(1)' = Value(1) /\ Value(3)' = Value(3) /\ Value(4)' = Value(4)
    BY <1>4, <1>6
  <2> QED
    BY <1>1, <1>2, <1>5, <1>6, <2>1 DEF AddInv
<1>7. CASE kind = "entityStats"
  <2>1. /\ ~Queries[1].upto /\ ~Queries[2].upto /\ ~Queries[3].upto /\ ~Queries[4].upto
        /\ ~Queries[8].upto
    BY <1>7, EntityQueries DEF Active, Every
  <2>2. /\ Value(1)' = Value(1) /\ Value(2)' = Value(2) /\ Value(3)' = Value(3)
        /\ Value(4)' = Value(4) /\ Value(8)' = Value(8)
    BY <1>4, <2>1
  <2>3. /\ Value(8) \in Nat /\ Value(9) \in Nat /\ Value(9)' \in Nat
        /\ Value(9) <= Value(9)'
    BY <1>3
  <2>4. /\ Value(2) + Value(3) + Value(4) <= Value(1) + writes
        /\ Value(8) <= Value(9) + lost
    BY <1>1, <1>7 DEF AddInv
  <2>5. Value(8)' <= Value(9)' + lost'
    BY <1>1, <2>2, <2>3, <2>4
  <2> QED
    BY <1>1, <1>2, <1>5, <1>7, <2>2, <2>4, <2>5 DEF AddInv
<1>8. CASE kind = "userStats"
  <2>1. ~Queries[3].upto
    BY <1>8, UserQueries DEF Active, Every
  <2>2. Value(3)' = Value(3)
    BY <1>4, <2>1
  <2>3. /\ Value(3) \in Nat /\ Value(4) \in Nat /\ Value(4)' \in Nat
        /\ Value(4) <= Value(4)'
    BY <1>3
  <2>4. Value(3) <= Value(4) + lost
    BY <1>1, <1>8 DEF AddInv
  <2>5. Value(3)' <= Value(4)' + lost'
    BY <1>1, <2>2, <2>3, <2>4
  <2> QED
    BY <1>1, <1>2, <1>5, <1>8, <2>5 DEF AddInv
<1> QED
  BY <1>1, <1>2, <1>5, <1>6, <1>7, <1>8 DEF AddInv

(* Queries that lose nothing they find, unless a document is taken away from them. *)
Lasting(q, removal) ==
  /\ q.coll # "sessions" /\ (removal => q.coll = "messages")
  /\ q.has \cap FreeTag = {} /\ q.lacks \cap (FreeTag \cup {"user"}) = {}

(* One write: nothing but document i is another for any query. *)
Written(i, removal) ==
  /\ docs' \in Seq(DocType)
  /\ \A n, q : \A j : j # i => (j \in Matches(docs', n, q) <=> j \in Matches(docs, n, q))
  /\ \A n : \A k \in DOMAIN Queries :
       Lasting(Queries[k], removal)
         => Matches(docs, n, Queries[k]) \subseteq Matches(docs', n, Queries[k])

LEMMA InsertWrites ==
  ASSUME TypeOK, [Next]_vars, NEW e, docs' = Append(docs, e)
  PROVE  /\ Written(Len(docs) + 1, FALSE)
         /\ DOMAIN docs' = 1..(Len(docs) + 1) /\ docs'[Len(docs) + 1] = e
         /\ \A j \in DOMAIN docs : docs'[j] = docs[j]
<1>1. docs \in Seq(DocType) /\ docs' \in Seq(DocType)
  BY DocsStep DEF TypeOK, DocType
<1>2. /\ DOMAIN docs = 1..Len(docs) /\ Len(docs) \in Nat
      /\ DOMAIN docs' = 1..(Len(docs) + 1) /\ docs'[Len(docs) + 1] = e
      /\ \A j \in DOMAIN docs : docs'[j] = docs[j]
  BY <1>1
<1>3. \A n, q : \A j : j # Len(docs) + 1 =>
        (j \in Matches(docs', n, q) <=> j \in Matches(docs, n, q))
  <2> SUFFICES ASSUME NEW n, NEW q, NEW j, j # Len(docs) + 1
               PROVE  j \in Matches(docs', n, q) <=> j \in Matches(docs, n, q)
    OBVIOUS
  <2>1. j \in DOMAIN docs' <=> j \in DOMAIN docs
    BY <1>2
  <2> QED
    BY <1>2, <2>1 DEF Matches
<1>4. \A n, q : Matches(docs, n, q) \subseteq Matches(docs', n, q)
  <2> SUFFICES ASSUME NEW n, NEW q, NEW j \in Matches(docs, n, q)
               PROVE  j \in Matches(docs', n, q)
    OBVIOUS
  <2>1. j \in DOMAIN docs /\ j # Len(docs) + 1
    BY <1>2 DEF Matches
  <2> QED
    BY <1>3, <2>1
<1> QED
  BY <1>1, <1>2, <1>3, <1>4 DEF Written

LEMMA RetagWrites ==
  ASSUME TypeOK, [Next]_vars, NEW i \in DOMAIN docs, NEW t, Retag(i, t)
  PROVE  /\ docs' \in Seq(DocType) /\ DOMAIN docs' = DOMAIN docs /\ Len(docs') = Len(docs)
         /\ docs'[i].coll = docs[i].coll /\ docs'[i].tags = t \cap TagsRead
         /\ \A j \in DOMAIN docs : j # i => docs'[j] = docs[j]
         /\ \A n, q : \A j : j # i => (j \in Matches(docs', n, q) <=> j \in Matches(docs, n, q))
<1>1. docs \in Seq(DocType) /\ docs' \in Seq(DocType)
  BY DocsStep DEF TypeOK, DocType
<1> DEFINE s == t \cap TagsRead
<1>2. docs' = [docs EXCEPT ![i].tags = s]
  BY DEF Retag
<1>3. docs[i] \in DocType
  BY <1>1
<1> HIDE DEF s
<1>4. /\ DOMAIN docs' = DOMAIN docs /\ Len(docs') = Len(docs)
      /\ docs'[i].coll = docs[i].coll /\ docs'[i].tags = s
      /\ \A j \in DOMAIN docs : j # i => docs'[j] = docs[j]
  BY <1>1, <1>2, <1>3 DEF DocType
<1>5. \A n, q : \A j : j # i => (j \in Matches(docs', n, q) <=> j \in Matches(docs, n, q))
  <2> SUFFICES ASSUME NEW n, NEW q, NEW j, j # i
               PROVE  j \in Matches(docs', n, q) <=> j \in Matches(docs, n, q)
    OBVIOUS
  <2> QED
    BY <1>4 DEF Matches
<1> QED
  BY <1>1, <1>4, <1>5 DEF s

LEMMA RetagWritten ==
  ASSUME TypeOK, [Next]_vars, NEW i \in DOMAIN docs, NEW t, NEW removal \in BOOLEAN,
         Retag(i, t), removal => docs[i].coll \in {"users", "entities"},
         docs[i].coll = "sessions" \/ removal \/ Spared(i, t)
  PROVE  Written(i, removal)
<1>1. /\ docs' \in Seq(DocType) /\ DOMAIN docs' = DOMAIN docs
      /\ docs'[i].coll = docs[i].coll /\ docs'[i].tags = t \cap TagsRead
      /\ \A n, q : \A j : j # i => (j \in Matches(docs', n, q) <=> j \in Matches(docs, n, q))
  BY RetagWrites
<1>2. ASSUME NEW n, NEW k \in DOMAIN Queries, Lasting(Queries[k], removal)
      PROVE  Matches(docs, n, Queries[k]) \subseteq Matches(docs', n, Queries[k])
  <2> DEFINE q == Queries[k]
  <2>1. q.has \subseteq TagsRead
    BY DEF TagsRead
  <2> SUFFICES ASSUME NEW j \in Matches(docs, n, q) PROVE j \in Matches(docs', n, q)
    OBVIOUS
  <2>2. CASE j # i
    BY <1>1, <2>2
  <2>3. CASE j = i
    <3>1. /\ docs[i].coll = q.coll /\ q.has \subseteq docs[i].tags
          /\ q.lacks \cap docs[i].tags = {} /\ (q.upto => i <= n)
      BY <2>3 DEF Matches
    <3>2. Spared(i, t)
      BY <1>2, <3>1 DEF Lasting
    <3>3. q.has \subseteq t /\ q.lacks \cap t = {}
      BY <1>2, <3>1, <3>2 DEF Lasting, Spared
    <3> HIDE DEF q
    <3> QED
      BY <1>1, <2>1, <2>3, <3>1, <3>3 DEF Matches
  <2> QED
    BY <2>2, <2>3
<1> QED
  BY <1>1, <1>2 DEF Written

LEMMA OneElement ==
  ASSUME NEW A, IsFiniteSet(A), NEW B, IsFiniteSet(B), NEW i,
         \A j : j # i => (j \in A <=> j \in B)
  PROVE  /\ Cardinality(A) <= Cardinality(B) + 1 /\ Cardinality(B) <= Cardinality(A) + 1
         /\ i \notin A => Cardinality(A) <= Cardinality(B)
         /\ B \subseteq A => Cardinality(B) <= Cardinality(A)
<1>1. A \subseteq B \cup {i} /\ B \subseteq A \cup {i} /\ (i \notin A => A \subseteq B)
  OBVIOUS
<1>2. /\ Cardinality(A) \in Nat /\ Cardinality(B) \in Nat
      /\ IsFiniteSet(A \cup {i}) /\ Cardinality(A \cup {i}) <= Cardinality(A) + 1
      /\ IsFiniteSet(B \cup {i}) /\ Cardinality(B \cup {i}) <= Cardinality(B) + 1
      /\ Cardinality(A \cup {i}) \in Nat /\ Cardinality(B \cup {i}) \in Nat
  <2>1. Cardinality(A) \in Nat /\ Cardinality(B) \in Nat
    BY FS_CardinalityType
  <2>2. /\ IsFiniteSet(A \cup {i})
        /\ Cardinality(A \cup {i}) = IF i \in A THEN Cardinality(A) ELSE Cardinality(A) + 1
    BY FS_AddElement
  <2>3. /\ IsFiniteSet(B \cup {i})
        /\ Cardinality(B \cup {i}) = IF i \in B THEN Cardinality(B) ELSE Cardinality(B) + 1
    BY FS_AddElement
  <2> QED
    BY <2>1, <2>2, <2>3
<1>3. Cardinality(A) <= Cardinality(B \cup {i}) /\ Cardinality(B) <= Cardinality(A \cup {i})
  BY <1>1, <1>2, FS_Subset
<1>4. A \subseteq B => Cardinality(A) <= Cardinality(B)
  BY FS_Subset
<1>5. B \subseteq A => Cardinality(B) <= Cardinality(A)
  BY FS_Subset
<1> QED
  BY <1>1, <1>2, <1>3, <1>4, <1>5

(* What a write does to one answer. *)
LEMMA ValueMoves ==
  ASSUME TypeOK, NEW i, NEW removal, Written(i, removal), NEW k \in Nat \ {0},
         UNCHANGED <<kind, viewer, answers, now>>
  PROVE  /\ Value(k)' \in Nat
         /\ Value(k)' <= Value(k) + 1 /\ Value(k) <= Value(k)' + 1
         /\ i \notin Matches(docs', now, Queries[k]) => Value(k)' <= Value(k)
         /\ Matches(docs, now, Queries[k]) \subseteq Matches(docs', now, Queries[k])
              => Value(k) <= Value(k)'
         /\ k <= Len(answers) => Value(k)' = Value(k)
         /\ ~(k <= Len(answers)) => Value(k)' = Cardinality(Matches(docs', now, Queries[k]))
<1> DEFINE A == Matches(docs', now, Queries[k])
           B == Matches(docs, now, Queries[k])
<1>1. docs \in Seq(DocType) /\ docs' \in Seq(DocType)
  BY DEF TypeOK, DocType, Written
<1>2. Queries' = Queries /\ answers' = answers /\ now' = now
  BY QueriesKept
<1>3. /\ IsFiniteSet(A) /\ IsFiniteSet(B)
      /\ Cardinality(A) \in Nat /\ Cardinality(B) \in Nat
  BY <1>1, MatchesFinite
<1>4. \A j : j # i => (j \in A <=> j \in B)
  BY DEF Written
<1>5. CASE k <= Len(answers)
  <2>1. Value(k) = answers[k] /\ Value(k)' = answers[k]
    BY <1>2, <1>5 DEF Value
  <2>2. Value(k) \in Nat
    BY ValueType
  <2> QED
    BY <1>5, <2>1, <2>2
<1>6. CASE ~(k <= Len(answers))
  <2>1. Value(k) = Cardinality(B) /\ Value(k)' = Cardinality(A)
    BY <1>2, <1>6 DEF Value
  <2> HIDE DEF A, B
  <2>2. /\ Cardinality(A) <= Cardinality(B) + 1 /\ Cardinality(B) <= Cardinality(A) + 1
        /\ i \notin A => Cardinality(A) <= Cardinality(B)
        /\ B \subseteq A => Cardinality(B) <= Cardinality(A)
    BY <1>3, <1>4, OneElement
  <2> QED
    BY <1>3, <1>6, <2>1, <2>2 DEF A, B
<1> QED
  BY <1>5, <1>6

LEMMA AddWrite ==
  ASSUME TypeOK, AddInv, NEW i, NEW removal \in BOOLEAN, Written(i, removal),
         UNCHANGED <<kind, viewer, running, answers, now>>, Apart(docs'),
         running => /\ writes' = writes + 1
                    /\ lost' = IF removal THEN lost + 1 ELSE lost
                    /\ kind \in ReportKind =>
                         \A j \in DOMAIN docs' : "old" \in docs'[j].tags => j <= now
  PROVE  AddInv'
<1> SUFFICES ASSUME running, kind \in ReportKind PROVE AddInv'
  BY DEF AddInv
<1> DEFINE M(k) == Matches(docs', now, Queries[k])
           l == Len(answers)
<1>1. /\ docs' \in Seq(DocType) /\ l \in Nat /\ now \in Nat
      /\ writes \in Nat /\ lost \in Nat
      /\ writes' = writes + 1 /\ lost' = IF removal THEN lost + 1 ELSE lost
      /\ Queries' = Queries /\ Parts' = Parts /\ kind' = kind
  BY QueriesKept DEF TypeOK, DocType, Written
<1>2. \A k \in Nat \ {0} :
        /\ Value(k) \in Nat /\ Value(k)' \in Nat
        /\ Value(k)' <= Value(k) + 1 /\ Value(k) <= Value(k)' + 1
        /\ i \notin M(k) => Value(k)' <= Value(k)
        /\ Matches(docs, now, Queries[k]) \subseteq M(k) => Value(k) <= Value(k)'
        /\ k <= l => Value(k)' = Value(k)
        /\ ~(k <= l) => Value(k)' = Cardinality(M(k))
  BY ValueType, ValueMoves
<1>3. \A k : IsFiniteSet(M(k)) /\ Cardinality(M(k)) \in Nat
  BY <1>1, MatchesFinite
<1>4. \A k, m : M(k) \subseteq M(m) => Cardinality(M(k)) <= Cardinality(M(m))
  BY <1>3, FS_Subset
<1>5. ASSUME NEW p \in Parts PROVE Value(p[1])' <= Value(p[2])' + writes'
  <2> DEFINE a == p[1]
             b == p[2]
  <2>1. a \in Nat \ {0} /\ b \in Nat \ {0} /\ M(a) \subseteq M(b)
    BY PartsPositive, PartIncluded
  <2>2. Value(a) <= Value(b) + writes
    BY DEF AddInv
  <2>3. Cardinality(M(a)) <= Cardinality(M(b))
    BY <1>4, <2>1
  <2>4. /\ Value(a) \in Nat /\ Value(b) \in Nat /\ Value(a)' \in Nat /\ Value(b)' \in Nat
        /\ Value(a)' <= Value(a) + 1 /\ Value(b) <= Value(b)' + 1
        /\ a <= l => Value(a)' = Value(a)
        /\ b <= l => Value(b)' = Value(b)
        /\ ~(a <= l) => Value(a)' = Cardinality(M(a))
        /\ ~(b <= l) => Value(b)' = Cardinality(M(b))
    BY <1>2, <2>1
  <2>5. Cardinality(M(a)) \in Nat /\ Cardinality(M(b)) \in Nat
    BY <1>3
  <2> HIDE DEF M, a, b, l
  <2>6. Value(a)' <= Value(b)' + writes'
    BY <1>1, <2>2, <2>3, <2>4, <2>5, SMTT(30)
  <2> QED
    BY <2>6 DEF a, b
<1>6. CASE kind = "messageStats"
  <2>1. Value(1)' <= Value(3)' + Value(4)' /\ Value(3)' + Value(4)' <= Value(1)' + writes'
    <3>1. CASE l = 0
      <4>1. Cardinality(M(3)) + Cardinality(M(4)) = Cardinality(M(1))
        BY <1>1, <1>6, SplitNow
      <4>2. ~(1 <= l) /\ ~(3 <= l) /\ ~(4 <= l)
        BY <3>1
      <4>3. /\ Value(1)' = Cardinality(M(1)) /\ Value(3)' = Cardinality(M(3))
            /\ Value(4)' = Cardinality(M(4))
        BY <1>2, <4>2
      <4> HIDE DEF M, l
      <4> QED
        BY <1>1, <1>3, <4>1, <4>3
    <3>2. CASE l > 0
      <4>1. Value(1)' = Value(1)
        BY <1>1, <1>2, <3>2
      <4>2. \A k \in {3, 4} : Matches(docs, now, Queries[k]) \subseteq M(k)
        <5>1. \A k \in {3, 4} : k \in DOMAIN Queries /\ Lasting(Queries[k], removal)
          BY <1>6, MessageQueries DEF Active, Every, Lasting, FreeTag, TypeTag, Mine
        <5> QED
          BY <5>1 DEF Written
      <4>3. i \notin M(3) \/ i \notin M(4)
        <5>1. i \in M(3) => "external" \notin docs'[i].tags
          BY <1>6, MessageQueries DEF Matches, Every
        <5>2. i \in M(4) => "external" \in docs'[i].tags
          BY <1>6, MessageQueries, MatchesActive
        <5> QED
          BY <5>1, <5>2
      <4>4. /\ Value(1) <= Value(3) + Value(4)
            /\ Value(3) + Value(4) <= Value(1) + writes
        BY <1>6 DEF AddInv
      <4>5. /\ Value(3) <= Value(3)' /\ Value(3)' <= Value(3) + 1
            /\ Value(4) <= Value(4)' /\ Value(4)' <= Value(4) + 1
            /\ i \notin M(3) => Value(3)' <= Value(3)
            /\ i \notin M(4) => Value(4)' <= Value(4)
            /\ Value(1) \in Nat /\ Value(3) \in Nat /\ Value(4) \in Nat
            /\ Value(3)' \in Nat /\ Value(4)' \in Nat
        BY <1>2, <4>2
      <4> HIDE DEF M, l
      <4> QED
        BY <1>1, <4>1, <4>3, <4>4, <4>5, SMTT(30)
    <3> QED
      BY <1>1, <3>1, <3>2
  <2> QED
    BY <1>1, <1>5, <1>6, <2>1 DEF AddInv
<1>7. ASSUME NEW a \in Nat \ {0}, NEW b \in Nat \ {0}, a <= b,
             M(a) \subseteq M(b), Value(a) <= Value(b) + lost,
             ~removal => Matches(docs, now, Queries[b]) \subseteq M(b)
      PROVE  Value(a)' <= Value(b)' + lost'
  <2>1. /\ Value(a) \in Nat /\ Value(b) \in Nat /\ Value(a)' \in Nat /\ Value(b)' \in Nat
        /\ Value(b) <= Value(b)' + 1
        /\ Matches(docs, now, Queries[b]) \subseteq M(b) => Value(b) <= Value(b)'
        /\ a <= l => Value(a)' = Value(a)
        /\ ~(a <= l) => Value(a)' = Cardinality(M(a))
        /\ ~(b <= l) => Value(b)' = Cardinality(M(b))
    BY <1>2
  <2>2. CASE a <= l
    <3>1. removal \/ Value(b) <= Value(b)'
      BY <1>7, <2>1
    <3> HIDE DEF M, l
    <3> QED
      BY <1>1, <1>7, <2>1, <2>2, <3>1, SMTT(30)
  <2>3. CASE ~(a <= l)
    <3>1. ~(b <= l)
      BY <1>1, <1>7, <2>3
    <3>2. Cardinality(M(a)) <= Cardinality(M(b))
      BY <1>4, <1>7
    <3>3. Cardinality(M(a)) \in Nat /\ Cardinality(M(b)) \in Nat
      BY <1>3
    <3>4. lost' \in Nat
      BY <1>1
    <3> HIDE DEF M, l
    <3> QED
      BY <2>1, <2>3, <3>1, <3>2, <3>3, <3>4
  <2> QED
    BY <2>2, <2>3
<1>8. \A j \in DOMAIN docs' : "old" \in docs'[j].tags => j <= now
  OBVIOUS
<1>9. CASE kind = "entityStats"
  <2>1. Value(2)' + Value(3)' + Value(4)' <= Value(1)' + writes'
    <3>1. CASE l = 0
      <4>1. Cardinality(M(2)) + Cardinality(M(3)) + Cardinality(M(4)) <= Cardinality(M(1))
        BY <1>1, <1>9, TypesNow
      <4>2. ~(1 <= l) /\ ~(2 <= l) /\ ~(3 <= l) /\ ~(4 <= l)
        BY <3>1
      <4>3. /\ Value(1)' = Cardinality(M(1)) /\ Value(2)' = Cardinality(M(2))
            /\ Value(3)' = Cardinality(M(3)) /\ Value(4)' = Cardinality(M(4))
        BY <1>2, <4>2
      <4>4. /\ Cardinality(M(1)) \in Nat /\ Cardinality(M(2)) \in Nat
            /\ Cardinality(M(3)) \in Nat /\ Cardinality(M(4)) \in Nat
        BY <1>3
      <4> HIDE DEF M, l
      <4> QED
        BY <1>1, <4>1, <4>3, <4>4
    <3>2. CASE l > 0
      <4>1. Value(1)' = Value(1)
        BY <1>1, <1>2, <3>2
      <4>2. /\ i \notin M(2) \/ i \notin M(3)
            /\ i \notin M(2) \/ i \notin M(4)
            /\ i \notin M(3) \/ i \notin M(4)
        <5>1. /\ i \in M(2) => i \in DOMAIN docs' /\ "entity" \in docs'[i].tags
              /\ i \in M(3) => i \in DOMAIN docs' /\ "company" \in docs'[i].tags
              /\ i \in M(4) => i \in DOMAIN docs' /\ "department" \in docs'[i].tags
          BY <1>9, EntityQueries, MatchesActive
        <5>2. i \in DOMAIN docs' =>
                /\ ~("entity" \in docs'[i].tags /\ "company" \in docs'[i].tags)
                /\ ~("entity" \in docs'[i].tags /\ "department" \in docs'[i].tags)
                /\ ~("company" \in docs'[i].tags /\ "department" \in docs'[i].tags)
          BY DEF Apart, TypeTag
        <5> HIDE DEF M
        <5> QED
          BY <5>1, <5>2
      <4>3. Value(2) + Value(3) + Value(4) <= Value(1) + writes
        BY <1>9 DEF AddInv
      <4>4. /\ Value(2)' <= Value(2) + 1 /\ Value(3)' <= Value(3) + 1
            /\ Value(4)' <= Value(4) + 1
            /\ i \notin M(2) => Value(2)' <= Value(2)
            /\ i \notin M(3) => Value(3)' <= Value(3)
            /\ i \notin M(4) => Value(4)' <= Value(4)
            /\ Value(1) \in Nat /\ Value(2) \in Nat /\ Value(3) \in Nat /\ Value(4) \in Nat
            /\ Value(2)' \in Nat /\ Value(3)' \in Nat /\ Value(4)' \in Nat
        BY <1>2
      <4> HIDE DEF M, l
      <4>5. \/ Value(2)' <= Value(2) /\ Value(3)' <= Value(3)
            \/ Value(2)' <= Value(2) /\ Value(4)' <= Value(4)
            \/ Value(3)' <= Value(3) /\ Value(4)' <= Value(4)
        BY <4>2, <4>4
      <4>6. Value(2)' + Value(3)' + Value(4)' <= Value(2) + Value(3) + Value(4) + 1
        BY <4>4, <4>5
      <4>7. writes' = writes + 1 /\ writes \in Nat
        BY <1>1
      <4>8. Value(2) + Value(3) + Value(4) + 1 <= Value(1) + writes'
        BY <4>3, <4>4, <4>7
      <4>9. Value(2)' + Value(3)' + Value(4)' <= Value(1) + writes'
        BY <4>4, <4>6, <4>7, <4>8
      <4> QED
        BY <4>1, <4>9
    <3> QED
      BY <1>1, <3>1, <3>2
  <2>2. Value(8)' <= Value(9)' + lost'
    <3>1. Value(8) <= Value(9) + lost
      BY <1>9 DEF AddInv
    <3>2. M(8) \subseteq M(9)
      BY <1>1, <1>8, <1>9, OldNow
    <3>3. ~removal => Matches(docs, now, Queries[9]) \subseteq M(9)
      <4>1. 9 \in DOMAIN Queries /\ Lasting(Queries[9], FALSE)
        BY <1>9, EntityQueries DEF Active, Every, UpTo, Lasting, FreeTag, TypeTag, Mine
      <4> QED
        BY <4>1 DEF Written
    <3> QED
      BY <1>7, <3>1, <3>2, <3>3
  <2> QED
    BY <1>1, <1>5, <1>9, <2>1, <2>2 DEF AddInv
<1>10. CASE kind = "userStats"
  <2>1. Value(3) <= Value(4) + lost
    BY <1>10 DEF AddInv
  <2>2. M(3) \subseteq M(4)
    BY <1>1, <1>8, <1>10, OldNow
  <2>3. ~removal => Matches(docs, now, Queries[4]) \subseteq M(4)
    <3>1. 4 \in DOMAIN Queries /\ Lasting(Queries[4], FALSE)
      BY <1>10, UserQueries DEF Active, Every, UpTo, Lasting, FreeTag, TypeTag, Mine
    <3> QED
      BY <3>1 DEF Written
  <2>4. Value(3)' <= Value(4)' + lost'
    BY <1>7, <2>1, <2>2, <2>3
  <2> QED
    BY <1>1, <1>5, <1>10, <2>4 DEF AddInv
<1> QED
  BY <1>1, <1>5, <1>6, <1>9, <1>10 DEF AddInv

(* What the other two invariants say of a write. *)
LEMMA ApartStep == TypeOK /\ Apart(docs) /\ [Next]_vars => Apart(docs)'
<1> SUFFICES ASSUME TypeOK, Apart(docs), [Next]_vars PROVE Apart(docs')
  OBVIOUS
<1>1. ASSUME NEW coll \in Coll, NEW tags \in Kinds(coll), NEW mine \in SUBSET {"mine"},
             Insert(coll, tags \cup mine) \/ Insert(coll, tags \cup mine \cup {"old"})
      PROVE  Apart(docs')
  <2>1. PICK t \in SUBSET {"mine", "old"}, at \in Nat :
          docs' = Append(docs, [coll |-> coll, tags |-> (tags \cup t) \cap TagsRead,
                                at |-> at])
    <3>1. CASE Insert(coll, tags \cup mine)
      <4>1. mine \in SUBSET {"mine", "old"}
        OBVIOUS
      <4> QED
        BY <3>1, <4>1, ReportsAssumption DEF Insert
    <3>2. CASE Insert(coll, tags \cup mine \cup {"old"})
      <4>1. mine \cup {"old"} \in SUBSET {"mine", "old"}
        OBVIOUS
      <4>2. tags \cup mine \cup {"old"} = tags \cup (mine \cup {"old"})
        OBVIOUS
      <4> QED
        BY <3>2, <4>1, <4>2, ReportsAssumption DEF Insert
    <3> QED
      BY <1>1, <3>1, <3>2
  <2> DEFINE e == [coll |-> coll, tags |-> (tags \cup t) \cap TagsRead, at |-> at]
  <2>2. \A a, b \in TypeTag : a \in tags /\ b \in tags => a = b
    BY DEF Kinds, TypeTag
  <2>3. \A a, b \in TypeTag : a \in e.tags /\ b \in e.tags => a = b
    BY <2>2 DEF TypeTag
  <2> HIDE DEF e
  <2>4. /\ DOMAIN docs' = 1..(Len(docs) + 1) /\ docs'[Len(docs) + 1] = e
        /\ \A j \in DOMAIN docs : docs'[j] = docs[j]
    BY <2>1, InsertWrites DEF e
  <2>5. \A j \in DOMAIN docs' : j = Len(docs) + 1 \/ j \in DOMAIN docs
    <3>1. DOMAIN docs = 1..Len(docs) /\ Len(docs) \in Nat
      BY DEF TypeOK
    <3> QED
      BY <2>4, <3>1
  <2> QED
    BY <2>3, <2>4, <2>5 DEF Apart
<1>2. ASSUME NEW i \in DOMAIN docs, NEW t, Retag(i, t),
             \A a, b \in TypeTag : a \in t /\ b \in t => a = b
      PROVE  Apart(docs')
  <2>1. /\ DOMAIN docs' = DOMAIN docs /\ docs'[i].tags \subseteq t
        /\ \A j \in DOMAIN docs : j # i => docs'[j] = docs[j]
    BY <1>2, RetagWrites
  <2> QED
    BY <1>2, <2>1 DEF Apart
<1>3. ASSUME NEW i \in DOMAIN docs, Write(i) PROVE Apart(docs')
  <2>1. docs \in Seq(DocType)
    BY DEF TypeOK, DocType
  <2>2. \A a, b \in TypeTag : a \in docs[i].tags /\ b \in docs[i].tags => a = b
    BY DEF Apart
  <2>3. PICK t \in SUBSET Tag, removal \in BOOLEAN :
          /\ Retag(i, t)
          /\ (\A a, b \in TypeTag : a \in docs[i].tags /\ b \in docs[i].tags => a = b)
               => \A a, b \in TypeTag : a \in t /\ b \in t => a = b
    BY <1>3, <2>1, WriteRetags
  <2> QED
    BY <1>2, <2>2, <2>3
<1>5. CASE UNCHANGED docs
  BY <1>5
<1> QED
  BY <1>1, <1>3, <1>5
     DEF Next, StartReport, Count, FinishReport, ReportFails, EndReport, ReadActivity,
         FeedFails, CountListed, ReadPage, Write, vars

(* A write while a report runs makes nothing old. *)
LEMMA OldKept ==
  ASSUME TypeOK, ClockInv, running, kind \in ReportKind, [Next]_vars,
         \/ \E coll \in Coll : \E tags \in Kinds(coll), mine \in SUBSET {"mine"} :
              Insert(coll, tags \cup mine)
         \/ \E i \in DOMAIN docs : Write(i)
  PROVE  /\ Len(docs) <= Len(docs')
         /\ \A j \in DOMAIN docs' : "old" \in docs'[j].tags => j <= started
<1>a. /\ docs \in Seq(DocType) /\ DOMAIN docs = 1..Len(docs) /\ Len(docs) \in Nat
      /\ docs' \in Seq(DocType) /\ Len(docs') \in Nat /\ DOMAIN docs' = 1..Len(docs')
  BY DocsStep DEF TypeOK, DocType
<1>b. \A j \in DOMAIN docs : "old" \in docs[j].tags => j <= started
  BY DEF ClockInv
<1>1. ASSUME NEW coll \in Coll, NEW tags \in Kinds(coll), NEW mine \in SUBSET {"mine"},
             Insert(coll, tags \cup mine)
      PROVE  /\ Len(docs) <= Len(docs')
             /\ \A j \in DOMAIN docs' : "old" \in docs'[j].tags => j <= started
  <2>1. PICK at : docs' = Append(docs, [coll |-> coll, tags |-> (tags \cup mine) \cap TagsRead,
                                        at |-> at])
    BY <1>1 DEF Insert
  <2> DEFINE e == [coll |-> coll, tags |-> (tags \cup mine) \cap TagsRead, at |-> at]
  <2>2. "old" \notin e.tags
    BY DEF Kinds
  <2> HIDE DEF e
  <2>3. /\ DOMAIN docs' = 1..(Len(docs) + 1) /\ docs'[Len(docs) + 1] = e
        /\ \A j \in DOMAIN docs : docs'[j] = docs[j]
    BY <2>1, InsertWrites DEF e
  <2>4. Len(docs') = Len(docs) + 1
    BY <1>a, <2>1
  <2>5. \A j \in DOMAIN docs' : j = Len(docs) + 1 \/ j \in DOMAIN docs
    BY <1>a, <2>3
  <2> QED
    BY <1>a, <1>b, <2>2, <2>3, <2>4, <2>5
<1>2. ASSUME NEW i \in DOMAIN docs, NEW t, Retag(i, t), "old" \in t => "old" \in docs[i].tags
      PROVE  /\ Len(docs) <= Len(docs')
             /\ \A j \in DOMAIN docs' : "old" \in docs'[j].tags => j <= started
  <2>1. /\ DOMAIN docs' = DOMAIN docs /\ Len(docs') = Len(docs) /\ docs'[i].tags \subseteq t
        /\ \A j \in DOMAIN docs : j # i => docs'[j] = docs[j]
    BY <1>2, RetagWrites
  <2> QED
    BY <1>a, <1>b, <1>2, <2>1
<1>3. ASSUME NEW i \in DOMAIN docs, Write(i)
      PROVE  \E t : Retag(i, t) /\ ("old" \in t => "old" \in docs[i].tags)
  BY <1>3, <1>a, WriteRetags
<1> QED
  BY <1>1, <1>2, <1>3

RunInv == Apart(docs) /\ ClockInv /\ AddInv

LEMMA RunStep == TypeOK /\ TypeOK' /\ RunInv /\ [Next]_vars => RunInv'
<1> SUFFICES ASSUME TypeOK, TypeOK', RunInv, [Next]_vars PROVE RunInv'
  OBVIOUS
<1>a. Apart(docs) /\ Apart(docs)' /\ ClockInv /\ AddInv
  BY ApartStep DEF RunInv
<1>b. /\ docs \in Seq(DocType) /\ DOMAIN docs = 1..Len(docs) /\ Len(docs) \in Nat
      /\ now \in Nat /\ started \in Nat
  BY DEF TypeOK, DocType
<1>1. CASE StartReport
  <2>1. /\ running' /\ answers' = <<>> /\ now' = Len(docs) /\ started' = Len(docs)
        /\ docs' = docs
    BY <1>1 DEF StartReport
  <2>2. ClockInv'
    BY <1>b, <2>1 DEF ClockInv
  <2>3. CASE kind' \in ReportKind
    <3>1. AddInv'
      <4>1. (TypeOK /\ running /\ kind \in ReportKind /\ ClockInv /\ Apart(docs)
               /\ answers = <<>> => AddInv)'
        BY AddStart, PTL
      <4> QED
        BY <1>a, <2>1, <2>2, <2>3, <4>1
    <3> QED
      BY <1>a, <2>2, <3>1 DEF RunInv
  <2>4. CASE kind' \notin ReportKind
    BY <1>a, <2>2, <2>4 DEF RunInv, AddInv
  <2> QED
    BY <2>3, <2>4
<1>2. CASE Count
  <2>1. /\ running /\ kind \in ReportKind /\ docs' = docs /\ started' = started
        /\ now' \in {now, Len(docs)}
    BY <1>2 DEF Count
  <2>2. ClockInv'
    BY <1>a, <1>b, <2>1 DEF ClockInv
  <2> QED
    BY <1>2, <1>a, <2>2, AddCount DEF RunInv
<1>3. CASE EndReport
  BY <1>3, <1>a DEF EndReport, RunInv, ClockInv, AddInv
<1>4. CASE ReadActivity \/ FeedFails \/ CountListed \/ ReadPage
  <2>1. kind \notin ReportKind /\ kind' = kind
    BY <1>4 DEF ReadActivity, FeedFails, CountListed, ReadPage, ReportKind, ListKind
  <2> QED
    BY <1>a, <2>1 DEF RunInv, ClockInv, AddInv
<1>5. ASSUME NEW i, NEW removal \in BOOLEAN, Written(i, removal), Noted(removal),
             \/ ~running
             \/ \E coll \in Coll : \E tags \in Kinds(coll), mine \in SUBSET {"mine"} :
                  Insert(coll, tags \cup mine)
             \/ \E j \in DOMAIN docs : Write(j)
      PROVE  RunInv'
  <2>1. /\ UNCHANGED <<kind, viewer, running, answers, now, started>>
        /\ running => writes' = writes + 1 /\ lost' = IF removal THEN lost + 1 ELSE lost
    BY <1>5 DEF Noted
  <2>2. running /\ kind \in ReportKind =>
          /\ Len(docs) <= Len(docs')
          /\ \A j \in DOMAIN docs' : "old" \in docs'[j].tags => j <= started
    BY <1>5, <1>a, OldKept
  <2>3. docs' \in Seq(DocType) /\ DOMAIN docs' = 1..Len(docs') /\ Len(docs') \in Nat
    BY <1>5 DEF Written
  <2>4. ClockInv'
    BY <1>a, <1>b, <2>1, <2>2, <2>3 DEF ClockInv
  <2>5. running /\ kind \in ReportKind =>
          \A j \in DOMAIN docs' : "old" \in docs'[j].tags => j <= now
    BY <1>a, <1>b, <2>2, <2>3 DEF ClockInv
  <2>6. AddInv'
    BY <1>5, <1>a, <2>1, <2>5, AddWrite
  <2> QED
    BY <1>a, <2>4, <2>6 DEF RunInv
<1>6. ASSUME NEW coll \in Coll, NEW tags \in Kinds(coll), NEW mine \in SUBSET {"mine"},
             \/ Insert(coll, tags \cup mine)
             \/ ~running /\ Insert(coll, tags \cup mine \cup {"old"})
      PROVE  RunInv'
  <2>1. PICK e : docs' = Append(docs, e)
    BY <1>6 DEF Insert
  <2>2. Written(Len(docs) + 1, FALSE)
    BY <2>1, InsertWrites
  <2>3. Noted(FALSE)
    BY <1>6 DEF Insert
  <2> QED
    BY <1>5, <1>6, <2>2, <2>3
<1>7. ASSUME NEW i \in DOMAIN docs, Write(i) PROVE RunInv'
  <2>1. PICK t \in SUBSET Tag, removal \in BOOLEAN :
          /\ Retag(i, t) /\ Noted(removal)
          /\ removal => docs[i].coll \in {"users", "entities"}
          /\ docs[i].coll = "sessions" \/ removal \/ Spared(i, t)
    BY <1>7, <1>b, WriteRetags
  <2>2. Written(i, removal)
    BY <2>1, RetagWritten
  <2> QED
    BY <1>5, <1>7, <2>1, <2>2
<1>9. CASE UNCHANGED vars
  <2>1. Queries' = Queries /\ Parts' = Parts
    BY <1>9, QueriesKept DEF vars
  <2>2. \A k : Value(k)' = Value(k)
    BY <1>9, <2>1 DEF Value, vars
  <2>3. AddInv'
    BY <1>9, <1>a, <2>1, <2>2 DEF AddInv, vars
  <2> QED
    BY <1>9, <1>a, <2>3 DEF RunInv, ClockInv, vars
<1> QED
  BY <1>1, <1>2, <1>3, <1>4, <1>6, <1>7, <1>9 DEF Next, Write, FinishReport, ReportFails

(* The figures of one dashboard or metric belong together, for any store and
   whatever is written while the report is put together: a part exceeds its whole,
   the types the total, and the two halves of the messages their sum, by no more
   than was written; a decrease is shown only when something was removed, or a user
   got another role, while the report ran; and the feed is no longer than was asked
   for. *)
THEOREM FiguresAddUp == Spec => []ReportsAddUp
<1>1. Init => RunInv
  BY DEF Init, RunInv, Apart, ClockInv, AddInv
<1>2. TypeOK /\ FeedInv /\ RunInv => ReportsAddUp
  <2> SUFFICES ASSUME TypeOK, FeedInv, RunInv, running, kind \notin ListKind, Done
               PROVE  /\ PartsWithinWhole /\ SplitCoversTotal /\ TypesAddUp
                      /\ DecreaseIsARace /\ FeedFits
    BY DEF ReportsAddUp
  <2>1. FeedFits
    BY FeedKept
  <2>2. CASE kind \notin ReportKind
    BY <2>1, <2>2 DEF ReportKind, PartsWithinWhole, Parts, SplitCoversTotal, TypesAddUp,
                      DecreaseIsARace
  <2>3. CASE kind \in ReportKind
    <3>1. AddInv /\ Len(answers) = Len(Queries)
      BY DEF RunInv, Done
    <3>2. PartsWithinWhole
      <4> SUFFICES ASSUME NEW p \in Parts
                   PROVE  answers[p[1]] <= answers[p[2]] + writes
        BY DEF PartsWithinWhole
      <4>1. Value(p[1]) <= Value(p[2]) + writes
        BY <2>3, <3>1 DEF AddInv
      <4>2. p[1] <= Len(Queries) /\ p[2] <= Len(Queries)
        BY DEF Parts, Queries, EntityStats, MessageStats, UserStats, SessionsReady, ErrorRate
      <4> QED
        BY <3>1, <4>1, <4>2 DEF Value
    <3>3. SplitCoversTotal
      <4> SUFFICES ASSUME kind = "messageStats" PROVE SplitCoversTotal
        BY DEF SplitCoversTotal
      <4>1. Len(Queries) = 4
        BY DEF Queries, MessageStats
      <4>2. Value(1) = answers[1] /\ Value(3) = answers[3] /\ Value(4) = answers[4]
        BY <3>1, <4>1 DEF Value
      <4> QED
        BY <2>3, <3>1, <4>2 DEF AddInv, SplitCoversTotal, Sum2
    <3>4. kind = "entityStats" =>
            /\ answers[2] + answers[3] + answers[4] <= answers[1] + writes
            /\ answers[8] <= answers[9] + lost
      <4> SUFFICES ASSUME kind = "entityStats"
                   PROVE  /\ answers[2] + answers[3] + answers[4] <= answers[1] + writes
                          /\ answers[8] <= answers[9] + lost
        OBVIOUS
      <4>1. Len(Queries) = 9
        BY DEF Queries, EntityStats
      <4>2. /\ Value(1) = answers[1] /\ Value(2) = answers[2] /\ Value(3) = answers[3]
            /\ Value(4) = answers[4] /\ Value(8) = answers[8] /\ Value(9) = answers[9]
        BY <3>1, <4>1 DEF Value
      <4> QED
        BY <2>3, <3>1, <4>2 DEF AddInv
    <3>5. kind = "userStats" => answers[3] <= answers[4] + lost
      <4> SUFFICES ASSUME kind = "userStats" PROVE answers[3] <= answers[4] + lost
        OBVIOUS
      <4>1. Len(Queries) = 4
        BY DEF Queries, UserStats
      <4>2. Value(3) = answers[3] /\ Value(4) = answers[4]
        BY <3>1, <4>1 DEF Value
      <4> QED
        BY <2>3, <3>1, <4>2 DEF AddInv
    <3> QED
      BY <2>1, <3>2, <3>3, <3>4, <3>5 DEF TypesAddUp, DecreaseIsARace
  <2> QED
    BY <2>2, <2>3
<1> QED
  BY TypeInit, TypeStep, RunStep, <1>1, <1>2, PTL DEF Spec

(* The index computed for the 95th percentile of n latencies, Math.ceil(n * 0.95)
   - 1, is inside the array and is the nearest rank: at least 95 percent of the
   latencies are at it or before it, and less than 95 percent are before it. *)
THEOREM P95IsNearestRank ==
  ASSUME NEW n \in Nat \ {0}
  PROVE  /\ P95Index(n) \in 0..(n - 1)
         /\ 100 * (P95Index(n) + 1) >= 95 * n
         /\ 100 * P95Index(n) < 95 * n
BY DEF P95Index
=============================================================================
