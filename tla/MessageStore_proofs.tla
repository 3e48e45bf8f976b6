-------------------------- MODULE MessageStore_proofs --------------------------
(***************************************************************************)
(* Theorems about MessageStore, for any sets of sessions, messages and     *)
(* handlers and any bounds.                                                *)
(***************************************************************************)
EXTENDS MessageStore, FiniteSetTheorems, TLAPS

OpType == [pc : Label, msg : Msg \cup {None}, sess : Session \cup {None},
           ack : Ack \cup {0}, media : BOOLEAN]

CountType == [received : Nat, sent : Nat, delivered : Nat, failed : Nat]

LEMMA IdleType == Idle \in OpType
  BY DEF Idle, OpType, Label

(* Ending a handler, and moving it to another label, leave it well typed. *)
LEMMA ReturnType ==
  ASSUME op \in [Handler -> OpType], NEW h \in Handler, Return(h)
  PROVE  op' \in [Handler -> OpType]
  BY IdleType DEF Return

LEMMA GotoType ==
  ASSUME op \in [Handler -> OpType], NEW h \in Handler, NEW l \in Label, Goto(h, l)
  PROVE  op' \in [Handler -> OpType]
<1>1. [op[h] EXCEPT !.pc = l] \in OpType
  BY DEF OpType
<1> QED
  BY <1>1 DEF Goto

LEMMA AckStatus == \A a : StatusOfAck(a) \in MessageStatus
  BY DEF StatusOfAck, MessageStatus

(* An acknowledgement changes statuses only. *)
LEMMA SetStatusKeeps ==
  ASSUME stored \in Seq(MessageDoc), NEW h, SetStatus(h)
  PROVE  /\ stored' \in Seq(MessageDoc)
         /\ DOMAIN stored' = DOMAIN stored
         /\ \A i \in DOMAIN stored :
              /\ stored'[i].msg = stored[i].msg
              /\ stored'[i].media = stored[i].media
              /\ stored'[i].sess = stored[i].sess
<1>1. \A i \in DOMAIN stored : stored[i] \in MessageDoc
  OBVIOUS
<1>2. \A i \in DOMAIN stored :
        [stored[i] EXCEPT !.status = StatusOfAck(op[h].ack)] \in MessageDoc
  BY <1>1, AckStatus DEF MessageDoc
<1>3. DOMAIN stored' = 1..Len(stored) /\ DOMAIN stored = 1..Len(stored)
  BY DEF SetStatus
<1>4. \A i \in DOMAIN stored : stored'[i] \in MessageDoc
  BY <1>1, <1>2 DEF SetStatus
<1>5. \A i \in DOMAIN stored : /\ stored'[i].msg = stored[i].msg
                               /\ stored'[i].media = stored[i].media
                               /\ stored'[i].sess = stored[i].sess
  BY <1>1 DEF SetStatus, MessageDoc
<1>6. stored' \in [1..Len(stored) -> MessageDoc]
  BY <1>3, <1>4 DEF SetStatus
<1> QED
  BY <1>3, <1>5, <1>6

(* A counter of a session goes up by one. *)
LEMMA CountType1 ==
  ASSUME counts \in [Session -> CountType], NEW s \in Session
  PROVE  /\ [counts EXCEPT ![s].received = @ + 1] \in [Session -> CountType]
         /\ [counts EXCEPT ![s].sent = @ + 1] \in [Session -> CountType]
         /\ [counts EXCEPT ![s].delivered = @ + 1] \in [Session -> CountType]
         /\ [counts EXCEPT ![s].failed = @ + 1] \in [Session -> CountType]
<1>1. counts[s] \in CountType
  OBVIOUS
<1>2. /\ [counts[s] EXCEPT !.received = @ + 1] \in CountType
      /\ [counts[s] EXCEPT !.sent = @ + 1] \in CountType
      /\ [counts[s] EXCEPT !.delivered = @ + 1] \in CountType
      /\ [counts[s] EXCEPT !.failed = @ + 1] \in CountType
  BY <1>1 DEF CountType
<1> QED
  BY <1>2

(* A handler that runs has a message and one of the sessions that see it. *)
Assigned ==
  \A h \in Handler :
    /\ op[h].pc = "idle" => op[h].msg = None
    /\ op[h].pc # "idle" => /\ op[h].msg \in Msg
                            /\ op[h].sess \in SessionsOf[op[h].msg]
    /\ op[h].pc \in {"ack", "ackcount"} => op[h].ack \in Ack

LEMMA SessionOfMessage ==
  ASSUME TypeOK, Assigned, NEW h \in Handler, op[h].pc # "idle"
  PROVE  op[h].msg \in Msg /\ op[h].sess \in Session
  BY MessageAssumption DEF Assigned

TypeInv == TypeOK /\ Assigned

(* The type invariant: every reachable state is well typed, and every handler
   that runs works on a message of one of its sessions. *)
LEMMA TypeStep == TypeInv /\ [Next]_vars => TypeInv'
<1> SUFFICES ASSUME TypeOK, Assigned, [Next]_vars PROVE TypeOK' /\ Assigned'
  BY DEF TypeInv
<1>a. /\ op \in [Handler -> OpType]
      /\ counts \in [Session -> CountType]
      /\ stored \in Seq(MessageDoc)
  BY DEF TypeOK, OpType, CountType
<1>b. \A h \in Handler : op[h] \in OpType
  BY <1>a
<1>c. None \notin Msg /\ Idle.msg = None /\ Idle.pc = "idle"
  BY MessageAssumption DEF Idle
<1>d. Label = {"idle", "exists", "entity", "media", "sender", "insert", "count",
               "ack", "ackcount"}
  BY DEF Label
<1>e. \A m : AfterMedia(m) \in {"sender", "insert"}
  BY DEF AfterMedia
<1>1. ASSUME NEW h \in Handler, NEW m \in Msg, NEW s \in Session,
             NEW l \in {"exists", "ack"}, NEW a \in Ack \cup {0},
             Take(h, l, m, s, a), s \in SessionsOf[m], l = "ack" => a \in Ack
      PROVE  op' \in [Handler -> OpType] /\ Assigned' /\ disturbed' \subseteq Msg
  <2>1. [Idle EXCEPT !.pc = l, !.msg = m, !.sess = s, !.ack = a] \in OpType
    BY <1>d, IdleType DEF OpType
  <2>2. op' \in [Handler -> OpType]
    BY <1>1, <1>a, <2>1 DEF Take
  <2>3. Assigned'
    BY <1>1, <1>a, <1>b, <1>d DEF Take, Assigned, Idle, OpType
  <2> QED
    BY <1>1, <2>2, <2>3 DEF Take, TypeOK
<1>2. ASSUME NEW h \in Handler, Return(h)
      PROVE  op' \in [Handler -> OpType] /\ Assigned'
  BY <1>2, <1>a, <1>c, ReturnType DEF Return, Assigned
<1>3. ASSUME NEW h \in Handler, NEW l \in Label \ {"idle"}, Goto(h, l),
             op[h].pc # "idle", l \in {"ack", "ackcount"} => op[h].ack \in Ack
      PROVE  op' \in [Handler -> OpType] /\ Assigned'
  <2>1. op' \in [Handler -> OpType]
    BY <1>3, <1>a, GotoType
  <2> QED
    BY <1>3, <2>1, <1>a, <1>b DEF Goto, Assigned, OpType
<1>4. ASSUME NEW h \in Handler, NEW m \in Msg, NEW s \in Session,
             EmitMessage(h, m, s)
      PROVE  TypeOK' /\ Assigned'
  <2>1. op' \in [Handler -> OpType] /\ Assigned' /\ disturbed' \subseteq Msg
    BY <1>4, <1>1 DEF EmitMessage
  <2>2. emits' \in [Msg -> [Session -> Nat]]
    BY <1>4 DEF EmitMessage, TypeOK
  <2> QED
    BY <1>4, <2>1, <2>2 DEF EmitMessage, TypeOK, OpType
<1>5. ASSUME NEW h \in Handler, NEW m \in Msg, NEW s \in Session, NEW a \in Ack,
             EmitAck(h, m, s, a)
      PROVE  TypeOK' /\ Assigned'
  <2>1. op' \in [Handler -> OpType] /\ Assigned' /\ disturbed' \subseteq Msg
    BY <1>5, <1>1 DEF EmitAck
  <2>2. acked' \in [Msg -> Ack \cup {0}]
    BY <1>5 DEF EmitAck, TypeOK
  <2> QED
    BY <1>5, <2>1, <2>2 DEF EmitAck, TypeOK, OpType
<1>6. ASSUME NEW h \in Handler, FindExisting(h) \/ ReadEntity(h)
      PROVE  TypeOK' /\ Assigned'
  <2>1. Return(h) \/ (op[h].pc # "idle" /\ (Goto(h, "entity") \/ Goto(h, "media")))
    BY <1>6 DEF FindExisting, ReadEntity
  <2>2. op' \in [Handler -> OpType] /\ Assigned'
    BY <2>1, <1>2, <1>3, <1>d
  <2> QED
    BY <1>6, <2>2 DEF FindExisting, ReadEntity, TypeOK, OpType
<1>7. ASSUME NEW h \in Handler, HandleMediaUpload(h)
      PROVE  TypeOK' /\ Assigned'
  <2> DEFINE next == AfterMedia(op[h].msg)
  <2>1. next \in {"sender", "insert"}
    BY <1>e
  <2> HIDE DEF next
  <2>2. [op[h] EXCEPT !.pc = next, !.media = TRUE] \in OpType
    BY <1>b, <2>1, <1>d DEF OpType
  <2>3. CASE op' = [op EXCEPT ![h].pc = next, ![h].media = TRUE]
    <3>1. op' \in [Handler -> OpType]
      BY <2>3, <2>2, <1>a
    <3>2. Assigned'
      BY <1>7, <2>3, <2>1, <1>a, <1>b DEF HandleMediaUpload, Assigned, OpType
    <3> QED
      BY <1>7, <3>1, <3>2
         DEF HandleMediaUpload, UploadFile, TypeOK, OpType
  <2>4. CASE Goto(h, next) /\ UNCHANGED blobs
    <3>1. op' \in [Handler -> OpType] /\ Assigned'
      BY <1>7, <2>4, <2>1, <1>3, <1>d DEF HandleMediaUpload
    <3> QED
      BY <1>7, <2>4, <3>1 DEF HandleMediaUpload, TypeOK, OpType
  <2> QED
    BY <1>7, <2>3, <2>4 DEF HandleMediaUpload, next
<1>8. ASSUME NEW h \in Handler, ResolveSender(h)
      PROVE  TypeOK' /\ Assigned'
  <2>1. op' \in [Handler -> OpType] /\ Assigned'
    BY <1>8, <1>3, <1>d DEF ResolveSender
  <2> QED
    BY <1>8, <2>1 DEF ResolveSender, TypeOK, OpType
<1>9. ASSUME NEW h \in Handler, CreateMessage(h)
      PROVE  TypeOK' /\ Assigned'
  <2>1. op' \in [Handler -> OpType] /\ Assigned'
    BY <1>9, <1>3, <1>d DEF CreateMessage
  <2>2. op[h].msg \in Msg /\ op[h].sess \in Session
    BY <1>9, SessionOfMessage DEF CreateMessage
  <2>3. InitialStatus(op[h].msg) \in MessageStatus
    BY DEF InitialStatus, MessageStatus
  <2>4. Document(h) \in MessageDoc
    BY <2>2, <2>3, <1>b DEF Document, MessageDoc, OpType
  <2>5. stored' \in Seq(MessageDoc)
    BY <1>9, <2>4, <1>a DEF CreateMessage
  <2> QED
    BY <1>9, <2>1, <2>5 DEF CreateMessage, TypeOK, OpType
<1>10. ASSUME NEW h \in Handler, CountMessage(h) \/ CountAck(h)
       PROVE  TypeOK' /\ Assigned'
  <2>1. op' \in [Handler -> OpType] /\ Assigned'
    BY <1>10, <1>2 DEF CountMessage, CountAck
  <2>2. op[h].sess \in Session
    BY <1>10, SessionOfMessage DEF CountMessage, CountAck
  <2>3. counts' \in [Session -> CountType]
    BY <1>10, <2>2, <1>a, CountType1 DEF CountMessage, CountAck
  <2> QED
    BY <1>10, <2>1, <2>3 DEF CountMessage, CountAck, TypeOK, OpType, CountType
<1>11. ASSUME NEW h \in Handler, ApplyAck(h)
       PROVE  TypeOK' /\ Assigned'
  <2>1. Return(h) \/ Goto(h, "ackcount")
    BY <1>11 DEF ApplyAck
  <2>2. op[h].ack \in Ack
    BY <1>11 DEF ApplyAck, Assigned
  <2>3. op' \in [Handler -> OpType] /\ Assigned'
    BY <1>11, <2>1, <2>2, <1>2, <1>3, <1>d DEF ApplyAck
  <2>4. stored' \in Seq(MessageDoc)
    BY <1>11, <1>a, SetStatusKeeps DEF ApplyAck
  <2> QED
    BY <1>11, <2>3, <2>4 DEF ApplyAck, TypeOK, OpType
<1>12. ASSUME NEW s \in Session, RemoveEntity(s)
       PROVE  TypeOK' /\ Assigned'
  BY <1>12 DEF RemoveEntity, TypeOK, Assigned
<1>13. ASSUME NEW h \in Handler, CallFails(h)
       PROVE  TypeOK' /\ Assigned'
  <2>1. op[h].msg \in Msg
    BY <1>13, SessionOfMessage DEF CallFails
  <2>2. Return(h) \/ (op[h].pc # "idle" /\ Goto(h, AfterMedia(op[h].msg)))
    BY <1>13 DEF CallFails
  <2>3. op' \in [Handler -> OpType] /\ Assigned'
    BY <2>2, <1>2, <1>3, <1>d, <1>e
  <2>4. disturbed' \subseteq Msg
    BY <1>13, <2>1 DEF CallFails, TypeOK
  <2> QED
    BY <1>13, <2>3, <2>4 DEF CallFails, TypeOK, OpType
<1>14. ASSUME Crash PROVE TypeOK' /\ Assigned'
  <2>1. op' \in [Handler -> OpType]
    BY <1>14, IdleType DEF Crash
  <2>2. Assigned'
    BY <1>14, <1>c DEF Crash, Assigned
  <2> QED
    BY <1>14, <2>1, <2>2 DEF Crash, TypeOK, OpType
<1>15. ASSUME UNCHANGED vars PROVE TypeOK' /\ Assigned'
  BY <1>15 DEF vars, TypeOK, Assigned
<1> QED
  BY <1>4, <1>5, <1>6, <1>7, <1>8, <1>9, <1>10, <1>11, <1>12, <1>13, <1>14, <1>15
     DEF Next, Handle

LEMMA TypeInit == Init => TypeInv
<1> SUFFICES ASSUME Init PROVE TypeInv
  OBVIOUS
<1>1. op \in [Handler -> OpType] /\ Assigned
  BY IdleType DEF Init, Assigned, Idle
<1> QED
  BY <1>1 DEF Init, TypeInv, TypeOK, OpType

(* Every reachable state is well typed. *)
THEOREM TypeCorrect == Spec => []TypeOK
<1>1. TypeInv => TypeOK
  BY DEF TypeInv
<1> QED
  BY TypeInit, TypeStep, <1>1, PTL DEF Spec

-----------------------------------------------------------------------------
(* StoredOnce: between the look-up and the insert of a handler the message is
   not stored by another one, unless the message is marked as disturbed. *)

Overlap ==
  \A g, h \in Handler :
    g # h /\ op[g].msg = op[h].msg /\ op[h].msg # None => op[h].msg \in disturbed

Pending ==
  \A h \in Handler :
    /\ op[h].pc \in {"entity", "media", "sender", "insert"} /\ IsStored(op[h].msg)
         => op[h].msg \in disturbed
    /\ op[h].pc = "count" => IsStored(op[h].msg)

OnceInv == Overlap /\ Pending /\ StoredOnce

(* What a step of a handler leaves alone. *)
LEMMA HandlerStep ==
  ASSUME TypeInv, NEW h \in Handler, Handle(h) \/ CallFails(h)
  PROVE  /\ \A g \in Handler \ {h} : op'[g] = op[g]
         /\ op'[h].msg \in {op[h].msg, None}
         /\ disturbed \subseteq disturbed'
         /\ op[h].pc # "idle"
<1>1. \A g \in Handler : op[g] \in OpType
  BY DEF TypeInv, TypeOK, OpType
<1>2. op \in [Handler -> OpType]
  BY DEF TypeInv, TypeOK, OpType
<1>3. Idle.msg = None
  BY DEF Idle
<1>4. CASE CallFails(h)
  BY <1>4, <1>1, <1>2, <1>3 DEF CallFails, Goto, Return, OpType
<1>5. CASE FindExisting(h) \/ ReadEntity(h)
  BY <1>5, <1>1, <1>2, <1>3 DEF FindExisting, ReadEntity, Goto, Return, OpType
<1>6. CASE HandleMediaUpload(h) \/ ResolveSender(h)
  BY <1>6, <1>1, <1>2, <1>3
     DEF HandleMediaUpload, ResolveSender, Goto, OpType
<1>7. CASE CreateMessage(h)
  BY <1>7, <1>1, <1>2, <1>3 DEF CreateMessage, Goto, OpType
<1>8. CASE CountMessage(h)
  BY <1>8, <1>2, <1>3 DEF CountMessage, Return
<1>9. CASE ApplyAck(h)
  BY <1>9, <1>1, <1>2, <1>3 DEF ApplyAck, Goto, Return, OpType
<1>10. CASE CountAck(h)
  BY <1>10, <1>2, <1>3 DEF CountAck, Return
<1> QED
  BY <1>4, <1>5, <1>6, <1>7, <1>8, <1>9, <1>10 DEF Handle

(* Only an insert changes which messages are stored. *)
LEMMA StoredKept ==
  ASSUME TypeInv, [Next]_vars, \A h \in Handler : ~CreateMessage(h)
  PROVE  /\ DOMAIN stored' = DOMAIN stored
         /\ \A i \in DOMAIN stored : /\ stored'[i].msg = stored[i].msg
                                      /\ stored'[i].media = stored[i].media
                                      /\ stored'[i].sess = stored[i].sess
<1>1. stored \in Seq(MessageDoc)
  BY DEF TypeInv, TypeOK
<1>2. ASSUME NEW h \in Handler, ApplyAck(h)
      PROVE  /\ DOMAIN stored' = DOMAIN stored
             /\ \A i \in DOMAIN stored : /\ stored'[i].msg = stored[i].msg
                                          /\ stored'[i].media = stored[i].media
                                          /\ stored'[i].sess = stored[i].sess
  BY <1>1, <1>2, SetStatusKeeps DEF ApplyAck
<1>3. stored' = stored \/ \E h \in Handler : ApplyAck(h)
  BY DEF Next, Handle, EmitMessage, EmitAck, FindExisting, ReadEntity,
         HandleMediaUpload, ResolveSender, CountMessage, CountAck, CallFails,
         RemoveEntity, Crash, vars
<1> QED
  BY <1>2, <1>3

(* An insert appends a document of the handler's message. *)
LEMMA StoredNew ==
  ASSUME TypeInv, NEW h \in Handler, CreateMessage(h)
  PROVE  /\ DOMAIN stored' = DOMAIN stored \cup {Len(stored) + 1}
         /\ Len(stored) + 1 \notin DOMAIN stored
         /\ \A i \in DOMAIN stored : stored'[i] = stored[i]
         /\ stored'[Len(stored) + 1] = Document(h)
         /\ stored'[Len(stored) + 1].msg = op[h].msg
         /\ stored'[Len(stored) + 1].status = InitialStatus(op[h].msg)
<1>1. stored \in Seq(MessageDoc)
  BY DEF TypeInv, TypeOK
<1>2. op[h].msg \in Msg /\ op[h].sess \in Session
  BY SessionOfMessage DEF TypeInv, CreateMessage
<1>3. InitialStatus(op[h].msg) \in MessageStatus
  BY DEF InitialStatus, MessageStatus
<1>4. Document(h) \in MessageDoc
  BY <1>2, <1>3 DEF Document, MessageDoc, TypeInv, TypeOK
<1>5. stored' = Append(stored, Document(h))
  BY DEF CreateMessage
<1>6. Document(h).msg = op[h].msg /\ Document(h).status = InitialStatus(op[h].msg)
  BY DEF Document
<1> HIDE DEF Document
<1> QED
  BY <1>1, <1>4, <1>5, <1>6

LEMMA OverlapStep == TypeInv /\ Overlap /\ [Next]_vars => Overlap'
<1> SUFFICES ASSUME TypeInv, Overlap, [Next]_vars PROVE Overlap'
  OBVIOUS
<1>1. ASSUME NEW h \in Handler, Handle(h) \/ CallFails(h) PROVE Overlap'
  BY <1>1, HandlerStep DEF Overlap
<1>2. ASSUME NEW h \in Handler, NEW l, NEW m \in Msg, NEW s, NEW a, Take(h, l, m, s, a)
      PROVE  Overlap'
  <2>1. op' = [op EXCEPT ![h] = [Idle EXCEPT !.pc = l, !.msg = m, !.sess = s,
                                             !.ack = a]]
    BY <1>2 DEF Take
  <2>2. op \in [Handler -> OpType]
    BY DEF TypeInv, TypeOK, OpType
  <2>3. op'[h].msg = m /\ \A g \in Handler \ {h} : op'[g] = op[g]
    BY <2>1, <2>2 DEF Idle
  <2>4. /\ disturbed \subseteq disturbed'
        /\ InFlight(m) => m \in disturbed'
    BY <1>2 DEF Take
  <2> QED
    BY <2>3, <2>4 DEF Overlap, InFlight
<1>3. ASSUME Crash PROVE Overlap'
  BY <1>3 DEF Crash, Overlap, Idle
<1>4. ASSUME UNCHANGED <<op, disturbed>> PROVE Overlap'
  BY <1>4 DEF Overlap
<1> QED
  BY <1>1, <1>2, <1>3, <1>4 DEF Next, EmitMessage, EmitAck, RemoveEntity, vars

LEMMA PendingStep == TypeInv /\ Overlap /\ Pending /\ [Next]_vars => Pending'
<1> SUFFICES ASSUME TypeInv, Overlap, Pending, [Next]_vars PROVE Pending'
  OBVIOUS
<1>a. op \in [Handler -> OpType] /\ \A h \in Handler : op[h] \in OpType
  BY DEF TypeInv, TypeOK, OpType
<1>b. Idle.pc = "idle"
  BY DEF Idle
<1>1. ASSUME NEW h \in Handler, CreateMessage(h) PROVE Pending'
  <2>1. \A m : (IsStored(m))' <=> IsStored(m) \/ m = op[h].msg
    BY <1>1, StoredNew DEF IsStored
  <2>2. /\ \A g \in Handler \ {h} : op'[g] = op[g]
        /\ op'[h].pc = "count" /\ op'[h].msg = op[h].msg
        /\ disturbed' = disturbed
    BY <1>1, <1>a DEF CreateMessage, Goto, OpType
  <2>3. op[h].msg # None
    BY <1>1, SessionOfMessage, MessageAssumption DEF TypeInv, CreateMessage
  <2>4. \A g \in Handler \ {h} : op[g].msg = op[h].msg => op[g].msg \in disturbed
    BY <2>3 DEF Overlap
  <2> QED
    BY <2>1, <2>2, <2>4 DEF Pending
<1>2. ASSUME \A h \in Handler : ~CreateMessage(h) PROVE Pending'
  <2>1. \A m : (IsStored(m))' <=> IsStored(m)
    BY <1>2, StoredKept DEF IsStored
  <2>2. ASSUME NEW h \in Handler, Handle(h) \/ CallFails(h) PROVE Pending'
    <3>1. \A g \in Handler \ {h} : op'[g] = op[g]
      BY <2>2, HandlerStep
    <3>2. disturbed \subseteq disturbed'
      BY <2>2, HandlerStep
    <3>3. \/ op'[h].pc \in {"idle", "ack", "ackcount"}
          \/ op'[h].pc = "entity" /\ ~IsStored(op[h].msg) /\ op'[h].msg = op[h].msg
          \/ /\ op'[h].pc \in {"media", "sender", "insert"}
             /\ op[h].pc \in {"entity", "media", "sender"}
             /\ op'[h].msg = op[h].msg
      BY <2>2, <1>2, <1>a, <1>b
         DEF Handle, CallFails, FindExisting, ReadEntity, HandleMediaUpload,
             ResolveSender, CountMessage, ApplyAck, CountAck, Goto, Return,
             OpType, AfterMedia
    <3> QED
      BY <2>1, <3>1, <3>2, <3>3 DEF Pending
  <2>3. ASSUME NEW h \in Handler, NEW l \in {"exists", "ack"}, NEW m, NEW s, NEW a,
               Take(h, l, m, s, a)
        PROVE  Pending'
    <3>1. op'[h].pc = l /\ \A g \in Handler \ {h} : op'[g] = op[g]
      BY <2>3, <1>a DEF Take, Idle
    <3>2. disturbed \subseteq disturbed'
      BY <2>3 DEF Take
    <3> QED
      BY <2>1, <3>1, <3>2 DEF Pending
  <2>4. ASSUME Crash PROVE Pending'
    BY <2>4, <1>b DEF Crash, Pending
  <2>5. ASSUME UNCHANGED <<op, disturbed>> PROVE Pending'
    BY <2>5, <2>1 DEF Pending
  <2> QED
    BY <2>2, <2>3, <2>4, <2>5 DEF Next, EmitMessage, EmitAck, RemoveEntity, vars
<1> QED
  BY <1>1, <1>2

LEMMA OnceStep == TypeInv /\ OnceInv /\ [Next]_vars => OnceInv'
<1> SUFFICES ASSUME TypeInv, OnceInv, [Next]_vars PROVE StoredOnce'
  BY OverlapStep, PendingStep DEF OnceInv
<1>1. disturbed \subseteq disturbed'
  <2>1. ASSUME NEW h \in Handler, Handle(h) \/ CallFails(h)
        PROVE  disturbed \subseteq disturbed'
    BY <2>1, HandlerStep
  <2> QED
    BY <2>1 DEF Next, EmitMessage, EmitAck, Take, RemoveEntity, Crash, vars
<1>2. ASSUME NEW h \in Handler, CreateMessage(h) PROVE StoredOnce'
  <2>1. IsStored(op[h].msg) => op[h].msg \in disturbed
    BY <1>2 DEF OnceInv, Pending, CreateMessage
  <2>2. stored'[Len(stored) + 1].msg = op[h].msg
    BY <1>2, StoredNew
  <2>3. \A i \in DOMAIN stored : stored[i].msg = op[h].msg => op[h].msg \in disturbed
    BY <2>1 DEF IsStored
  <2> QED
    BY <1>1, <1>2, <2>2, <2>3, StoredNew DEF OnceInv, StoredOnce
<1>3. ASSUME \A h \in Handler : ~CreateMessage(h) PROVE StoredOnce'
  BY <1>1, <1>3, StoredKept DEF OnceInv, StoredOnce
<1> QED
  BY <1>2, <1>3

(* A message is stored once, by whichever session sees it first and however
   often it is emitted, unless its handlers overlap or one is cut short. *)
THEOREM MessagesStoredOnce == Spec => []StoredOnce
<1>1. Init => OnceInv
  BY DEF Init, OnceInv, Overlap, Pending, StoredOnce, Idle
<1>2. OnceInv => StoredOnce
  BY DEF OnceInv
<1> QED
  BY TypeInit, TypeStep, OnceStep, <1>1, <1>2, PTL DEF Spec

-----------------------------------------------------------------------------
(* MediaUrlResolves: a handler that holds a URL has uploaded the file. *)

MediaInv ==
  /\ \A h \in Handler : op[h].media => op[h].msg \in blobs
  /\ MediaUrlResolves

LEMMA MediaStep == TypeInv /\ MediaInv /\ [Next]_vars => MediaInv'
<1> SUFFICES ASSUME TypeInv, MediaInv, [Next]_vars PROVE MediaInv'
  OBVIOUS
<1>a. op \in [Handler -> OpType] /\ \A h \in Handler : op[h] \in OpType
  BY DEF TypeInv, TypeOK, OpType
<1>b. Idle.media = FALSE
  BY DEF Idle
<1>c. blobs \subseteq blobs'
  BY DEF Next, Handle, EmitMessage, EmitAck, FindExisting, ReadEntity,
         HandleMediaUpload, UploadFile, ResolveSender, CreateMessage, CountMessage,
         ApplyAck, CountAck, CallFails, RemoveEntity, Crash, vars
<1>1. \A h \in Handler : op'[h].media => op'[h].msg \in blobs'
  <2>1. ASSUME NEW h \in Handler, Handle(h) \/ CallFails(h)
        PROVE  \A g \in Handler : op'[g].media => op'[g].msg \in blobs'
    <3>1. \A g \in Handler \ {h} : op'[g] = op[g]
      BY <2>1, HandlerStep
    <3>2. CASE HandleMediaUpload(h)
      BY <3>1, <3>2, <1>a, <1>c
         DEF HandleMediaUpload, UploadFile, Goto, MediaInv, OpType
    <3>3. CASE ~HandleMediaUpload(h)
      <4>1. \/ op'[h].media = FALSE
            \/ op'[h].media = op[h].media /\ op'[h].msg = op[h].msg
        BY <2>1, <3>3, <1>a, <1>b
           DEF Handle, CallFails, FindExisting, ReadEntity, ResolveSender,
               CreateMessage, CountMessage, ApplyAck, CountAck, Goto, Return,
               OpType
      <4> QED
        BY <3>1, <4>1, <1>c DEF MediaInv
    <3> QED
      BY <3>2, <3>3
  <2>2. ASSUME NEW h \in Handler, NEW l, NEW m, NEW s, NEW a, Take(h, l, m, s, a)
        PROVE  \A g \in Handler : op'[g].media => op'[g].msg \in blobs'
    BY <2>2, <1>a, <1>c DEF Take, Idle, MediaInv
  <2>3. ASSUME Crash PROVE \A h \in Handler : op'[h].media => op'[h].msg \in blobs'
    BY <2>3, <1>b DEF Crash
  <2>4. ASSUME UNCHANGED op
        PROVE  \A h \in Handler : op'[h].media => op'[h].msg \in blobs'
    BY <2>4, <1>c DEF MediaInv
  <2> QED
    BY <2>1, <2>2, <2>3, <2>4 DEF Next, EmitMessage, EmitAck, RemoveEntity, vars
<1>2. MediaUrlResolves'
  <2>1. ASSUME NEW h \in Handler, CreateMessage(h) PROVE MediaUrlResolves'
    <3>1. Document(h).media => Document(h).msg \in blobs'
      BY <1>c DEF Document, MediaInv
    <3> HIDE DEF Document
    <3> QED
      BY <2>1, <3>1, <1>c, StoredNew DEF MediaInv, MediaUrlResolves
  <2>2. ASSUME \A h \in Handler : ~CreateMessage(h) PROVE MediaUrlResolves'
    BY <2>2, <1>c, StoredKept DEF MediaInv, MediaUrlResolves
  <2> QED
    BY <2>1, <2>2
<1> QED
  BY <1>1, <1>2 DEF MediaInv

(* A message never points to a file that was not uploaded, whatever fails. *)
THEOREM MediaUrlsResolve == Spec => []MediaUrlResolves
<1>1. Init => MediaInv
  BY DEF Init, MediaInv, MediaUrlResolves, Idle
<1>2. MediaInv => MediaUrlResolves
  BY DEF MediaInv
<1> QED
  BY TypeInit, TypeStep, MediaStep, <1>1, <1>2, PTL DEF Spec

(* The documents are well typed, and so are their messages. *)
LEMMA DocType ==
  ASSUME TypeInv
  PROVE  \A i \in DOMAIN stored : stored[i] \in MessageDoc /\ stored[i].msg \in Msg
<1>1. stored \in Seq(MessageDoc)
  BY DEF TypeInv, TypeOK
<1>2. \A i \in DOMAIN stored : stored[i] \in MessageDoc
  BY <1>1
<1> QED
  BY <1>2 DEF MessageDoc

-----------------------------------------------------------------------------
(* StatusFollowsAcks: what has to be known of a message whose handlers did not
   overlap, while they run and after they are done. *)

Expected(m) ==
  IF acked[m] = 0 THEN InitialStatus(m) ELSE StatusOfAck(acked[m])

(* The messages stored, those a handler works on, those being acknowledged. *)
Seen   == {stored[i].msg : i \in DOMAIN stored}
Flying == {op[h].msg : h \in Handler}
Acking == {op[h].msg : h \in {g \in Handler : op[g].pc = "ack"}}

(* Acknowledgements come after the message was emitted. *)
AckedEmitted ==
  \A m \in Msg : acked[m] # 0 =>
    m \in Acked /\ \A s \in SessionsOf[m] : emits[m][s] > 0

(* A message that was handled and is not stored was lost with its entity. *)
LostWithEntity ==
  \A m \in Acked : \A s \in SessionsOf[m] :
    m \notin disturbed /\ emits[m][s] > 0 /\ m \notin Flying /\ m \notin Seen
      => s \notin active

(* What handler record o may rely on when its message was not disturbed (D): k is
   the last acknowledgement of the message, S the messages stored, A the sessions
   whose entity is active.  Unless the entity is gone, a handler that may yet
   store the message finds no acknowledgement of it. *)
Knows(o, D, S, A, k) ==
  o.msg \notin D =>
    /\ o.pc \in {"ack", "ackcount"} /\ o.msg \notin S => o.sess \notin A
    /\ o.pc \in {"exists", "entity"} /\ o.msg \notin S /\ k # 0 => o.sess \notin A
    /\ o.pc \in {"media", "sender", "insert"} => k = 0
    /\ o.pc = "ack" => o.ack = k

LEMMA KnowsIdle ==
  ASSUME NEW o, NEW D, NEW S, NEW A, NEW k, o.pc = "idle"
  PROVE  Knows(o, D, S, A, k)
BY DEF Knows

LEMMA KnowsKept ==
  ASSUME NEW o, NEW D, NEW S, NEW A, NEW k, NEW D2, NEW S2, NEW A2,
         Knows(o, D, S, A, k), D \subseteq D2, S \subseteq S2, A2 \subseteq A
  PROVE  Knows(o, D2, S2, A2, k)
BY DEF Knows

LEMMA KnowsDisturbed ==
  ASSUME NEW o, NEW D, NEW S, NEW A, NEW k, o.msg \in D
  PROVE  Knows(o, D, S, A, k)
BY DEF Knows

(* A step from record o to record q of the same handler, D before and D2 after. *)
LEMMA KnowsAdvances ==
  ASSUME NEW o, NEW q, NEW D, NEW S, NEW A, NEW k, NEW D2, NEW S2,
         Knows(o, D, S, A, k), D \subseteq D2, S \subseteq S2,
         q.msg = o.msg, q.sess = o.sess,
         \/ q.pc = "entity" /\ o.pc = "exists"
         \/ /\ q.pc = "media" /\ o.pc = "entity"
            /\ o.sess \in A /\ (o.msg \in S => o.msg \in D)
         \/ q.pc \in {"sender", "insert"} /\ o.pc \in {"media", "sender"}
         \/ q.pc = "count"
         \/ q.pc = "ackcount" /\ o.pc = "ack"
  PROVE  Knows(q, D2, S2, A, k)
<1>1. CASE q.pc = "entity" /\ o.pc = "exists"
  BY <1>1 DEF Knows
<1>2. CASE /\ q.pc = "media" /\ o.pc = "entity"
           /\ o.sess \in A /\ (o.msg \in S => o.msg \in D)
  BY <1>2 DEF Knows
<1>3. CASE q.pc \in {"sender", "insert"} /\ o.pc \in {"media", "sender"}
  BY <1>3 DEF Knows
<1>4. CASE q.pc = "count"
  BY <1>4 DEF Knows
<1>5. CASE q.pc = "ackcount" /\ o.pc = "ack"
  BY <1>5 DEF Knows
<1> QED
  BY <1>1, <1>2, <1>3, <1>4, <1>5

HandlerKnows ==
  \A h \in Handler : Knows(op[h], disturbed, Seen, active, acked[op[h].msg])

StatusUpToAck ==
  \A i \in DOMAIN stored :
    stored[i].msg \notin disturbed /\ stored[i].msg \notin Acking =>
      stored[i].status = Expected(stored[i].msg)

AckInv == AckedEmitted /\ LostWithEntity /\ HandlerKnows /\ StatusUpToAck

StatusInv == OnceInv /\ AckInv

LEMMA StatusStepEmit ==
  ASSUME TypeInv, StatusInv, NEW h \in Handler, NEW m \in Msg, NEW s \in Session,
         EmitMessage(h, m, s)
  PROVE  AckInv'
<1>a. op \in [Handler -> OpType] /\ emits \in [Msg -> [Session -> Nat]]
  BY DEF TypeInv, TypeOK, OpType
<1>1. /\ op'[h].pc = "exists" /\ op'[h].msg = m /\ op'[h].sess = s
      /\ \A g \in Handler \ {h} : op'[g] = op[g]
      /\ op[h].pc = "idle" /\ op[h].msg = None
  BY <1>a DEF EmitMessage, Take, Idle, TypeInv, Assigned
<1>2. disturbed \subseteq disturbed' /\ (m \in Flying => m \in disturbed')
  BY DEF EmitMessage, Take, InFlight, Flying
<1>3. stored' = stored /\ acked' = acked /\ active' = active
  BY DEF EmitMessage
<1>4. Seen' = Seen
  BY <1>3 DEF Seen
<1>5. \A n \in Msg, t \in Session :
        /\ emits'[n][t] >= emits[n][t]
        /\ n # m => emits'[n][t] = emits[n][t]
  BY <1>a DEF EmitMessage
<1>6. \A n \in Msg : n # m => (n \in Flying' <=> n \in Flying)
  BY <1>1, MessageAssumption DEF Flying
<1>7. \A n \in Msg : n \in Acking' <=> n \in Acking
  BY <1>1 DEF Acking
<1>8. SessionsOf \in [Msg -> SUBSET Session] /\ Acked \subseteq Msg
  BY MessageAssumption
<1>9. AckedEmitted'
  <2> SUFFICES ASSUME NEW n \in Msg, acked[n] # 0
               PROVE  n \in Acked /\ \A t \in SessionsOf[n] : emits'[n][t] > 0
    BY <1>3 DEF AckedEmitted
  <2>1. n \in Acked /\ \A t \in SessionsOf[n] : t \in Session /\ emits[n][t] > 0
    BY <1>8 DEF StatusInv, AckInv, AckedEmitted
  <2>2. \A t \in Session : emits'[n][t] \in Nat /\ emits[n][t] \in Nat
    BY <1>a, TypeStep DEF EmitMessage
  <2> QED
    BY <2>1, <2>2, <1>5
<1>10. LostWithEntity'
  <2> SUFFICES ASSUME NEW n \in Acked, NEW t \in SessionsOf[n], n \notin disturbed',
                      emits'[n][t] > 0, n \notin Flying', n \notin Seen'
               PROVE  t \notin active'
    BY DEF LostWithEntity
  <2>1. n # m
    BY <1>1 DEF Flying
  <2> QED
    BY <2>1, <1>2, <1>3, <1>4, <1>5, <1>6, <1>8 DEF StatusInv, AckInv, LostWithEntity
<1>11. HandlerKnows'
  <2>1. m \notin disturbed' /\ m \notin Seen /\ acked[m] # 0 => s \notin active
    BY <1>2 DEF StatusInv, AckInv, AckedEmitted, LostWithEntity, EmitMessage
  <2>2. Knows(op'[h], disturbed', Seen, active, acked[m])
    BY <2>1, <1>1 DEF Knows
  <2>3. ASSUME NEW g \in Handler \ {h}
        PROVE  Knows(op[g], disturbed', Seen, active, acked[op[g].msg])
    <3>1. Knows(op[g], disturbed, Seen, active, acked[op[g].msg])
      BY DEF StatusInv, AckInv, HandlerKnows
    <3> QED
      BY <3>1, <1>2, KnowsKept
  <2> QED
    BY <2>2, <2>3, <1>1, <1>3, <1>4 DEF HandlerKnows
<1>12. StatusUpToAck'
  <2>1. \A i \in DOMAIN stored : stored[i].msg \in Msg
    BY DocType
  <2>2. \A n : (Expected(n))' = Expected(n)
    BY <1>3 DEF Expected
  <2> QED
    BY <2>1, <2>2, <1>2, <1>3, <1>7 DEF StatusInv, AckInv, StatusUpToAck
<1> QED
  BY <1>9, <1>10, <1>11, <1>12 DEF AckInv

LEMMA StatusStepAck ==
  ASSUME TypeInv, StatusInv, NEW h \in Handler, NEW m \in Msg, NEW s \in Session,
         NEW a \in Ack, EmitAck(h, m, s, a)
  PROVE  AckInv'
<1>a. op \in [Handler -> OpType] /\ acked \in [Msg -> Ack \cup {0}]
  BY DEF TypeInv, TypeOK, OpType
<1>1. /\ op'[h].pc = "ack" /\ op'[h].msg = m /\ op'[h].sess = s /\ op'[h].ack = a
      /\ \A g \in Handler \ {h} : op'[g] = op[g]
      /\ op[h].pc = "idle" /\ op[h].msg = None
  BY <1>a DEF EmitAck, Take, Idle, TypeInv, Assigned
<1>2. disturbed \subseteq disturbed' /\ (m \in Flying => m \in disturbed')
  BY DEF EmitAck, Take, InFlight, Flying
<1>3. stored' = stored /\ emits' = emits /\ active' = active
  BY DEF EmitAck
<1>4. Seen' = Seen
  BY <1>3 DEF Seen
<1>5. acked'[m] = a /\ \A n \in Msg : n # m => acked'[n] = acked[n]
  BY <1>a DEF EmitAck
<1>6. \A n \in Msg : n # m => (n \in Flying' <=> n \in Flying)
  BY <1>1, MessageAssumption DEF Flying
<1>7. \A n \in Msg : n # m => (n \in Acking' <=> n \in Acking)
  BY <1>1 DEF Acking
<1>8. SessionsOf[m] = {s} /\ m \in Acked /\ Acked \subseteq Msg /\ emits[m][s] > 0
  BY MessageAssumption DEF EmitAck
<1>9. AckedEmitted'
  BY <1>3, <1>5, <1>8 DEF StatusInv, AckInv, AckedEmitted
<1>10. LostWithEntity'
  <2> SUFFICES ASSUME NEW n \in Acked, NEW t \in SessionsOf[n], n \notin disturbed',
                      emits'[n][t] > 0, n \notin Flying', n \notin Seen'
               PROVE  t \notin active'
    BY DEF LostWithEntity
  <2>1. n # m
    BY <1>1 DEF Flying
  <2> QED
    BY <2>1, <1>2, <1>3, <1>4, <1>6, <1>8 DEF StatusInv, AckInv, LostWithEntity
<1>11. HandlerKnows'
  <2>1. m \notin disturbed' /\ m \notin Seen => s \notin active
    BY <1>2, <1>8 DEF StatusInv, AckInv, LostWithEntity
  <2>2. Knows(op'[h], disturbed', Seen, active, a)
    BY <2>1, <1>1 DEF Knows
  <2>3. ASSUME NEW g \in Handler \ {h}
        PROVE  Knows(op[g], disturbed', Seen, active, acked'[op[g].msg])
    <3>1. CASE op[g].pc = "idle"
      BY <3>1, KnowsIdle
    <3>2. CASE op[g].msg = m
      BY <3>2, <1>2, KnowsDisturbed DEF Flying
    <3>3. CASE op[g].pc # "idle" /\ op[g].msg # m
      <4>1. Knows(op[g], disturbed, Seen, active, acked[op[g].msg])
        BY DEF StatusInv, AckInv, HandlerKnows
      <4>2. acked'[op[g].msg] = acked[op[g].msg]
        BY <3>3, <1>5 DEF TypeInv, Assigned
      <4> QED
        BY <4>1, <4>2, <1>2, KnowsKept
    <3> QED
      BY <3>1, <3>2, <3>3
  <2> QED
    BY <2>2, <2>3, <1>1, <1>3, <1>4, <1>5 DEF HandlerKnows
<1>12. StatusUpToAck'
  <2>1. \A i \in DOMAIN stored : stored[i].msg \in Msg
    BY DocType
  <2>2. \A n \in Msg : n # m => (Expected(n))' = Expected(n)
    BY <1>5 DEF Expected
  <2>3. m \in Acking'
    BY <1>1 DEF Acking
  <2> QED
    BY <2>1, <2>2, <2>3, <1>2, <1>3, <1>7 DEF StatusInv, AckInv, StatusUpToAck
<1> QED
  BY <1>9, <1>10, <1>11, <1>12 DEF AckInv

LEMMA StatusStepHandle ==
  ASSUME TypeInv, StatusInv, NEW h \in Handler, Handle(h) \/ CallFails(h)
  PROVE  AckInv'
<1>a. op \in [Handler -> OpType] /\ \A g \in Handler : op[g] \in OpType
  BY DEF TypeInv, TypeOK, OpType
<1>b. Idle.pc = "idle" /\ Idle.msg = None /\ None \notin Msg
  BY MessageAssumption DEF Idle
<1> DEFINE m == op[h].msg
<1>m. Knows(op[h], disturbed, Seen, active, acked[m])
  BY DEF StatusInv, AckInv, HandlerKnows
<1>c. /\ \A g \in Handler \ {h} : op'[g] = op[g]
      /\ disturbed \subseteq disturbed'
      /\ op[h].pc # "idle"
  BY HandlerStep
<1>d. m \in Msg /\ op[h].sess \in SessionsOf[m] /\ m # None
  BY <1>c, <1>b DEF TypeInv, Assigned
<1>e. acked' = acked /\ emits' = emits /\ active' = active
  BY DEF Handle, CallFails, FindExisting, ReadEntity, HandleMediaUpload,
         ResolveSender, CreateMessage, CountMessage, ApplyAck, CountAck
<1>f. \A g \in Handler \ {h} : op[g].msg = m => m \in disturbed
  BY <1>d DEF StatusInv, OnceInv, Overlap
<1>g. \A n : (Expected(n))' = Expected(n)
  BY <1>e DEF Expected
<1>h. \A i \in DOMAIN stored : stored[i] \in MessageDoc /\ stored[i].msg \in Msg
  BY DocType
<1>i. \A n \in Msg : n # m => /\ n \in Flying' <=> n \in Flying
                             /\ n \in Acking' <=> n \in Acking
  BY HandlerStep, <1>b, <1>c DEF Flying, Acking
<1>n. \A n \in Msg \ {m} : n \in Flying => n \in Flying'
  BY HandlerStep, <1>b, <1>c DEF Flying
<1>j. Seen' = IF CreateMessage(h) THEN Seen \cup {m} ELSE Seen
  <2>1. CASE CreateMessage(h)
    BY <2>1, StoredNew DEF Seen
  <2>2. CASE ApplyAck(h)
    <3>1. ~CreateMessage(h)
      BY <2>2 DEF ApplyAck, CreateMessage
    <3>2. stored \in Seq(MessageDoc)
      BY DEF TypeInv, TypeOK
    <3> QED
      BY <2>2, <3>1, <3>2, SetStatusKeeps DEF ApplyAck, Seen
  <2>3. CASE ~CreateMessage(h) /\ ~ApplyAck(h)
    <3>1. stored' = stored
      BY <2>3 DEF Handle, CallFails, FindExisting, ReadEntity, HandleMediaUpload,
                  ResolveSender, CountMessage, CountAck
    <3> QED
      BY <2>3, <3>1 DEF Seen
  <2> QED
    BY <2>1, <2>2, <2>3
<1>l. CreateMessage(h) /\ m \notin disturbed => m \notin Seen /\ op[h].pc = "insert"
  BY DEF CreateMessage, StatusInv, OnceInv, Pending, IsStored, Seen
(* What becomes of the handler itself. *)
<1>k. \/ m \in disturbed'
      \/ /\ op'[h] = Idle
         /\ \/ m \in Seen \/ op[h].sess \notin active
      \/ /\ op'[h].msg = m /\ op'[h].sess = op[h].sess
         /\ \/ op'[h].pc = "entity" /\ op[h].pc = "exists"
            \/ /\ op'[h].pc = "media" /\ op[h].pc = "entity"
               /\ op[h].sess \in active
            \/ op'[h].pc \in {"sender", "insert"} /\ op[h].pc \in {"media", "sender"}
            \/ op'[h].pc = "count"
            \/ op'[h].pc = "ackcount" /\ op[h].pc = "ack"
  <2>1. CASE CallFails(h)
    BY <2>1, <1>a DEF CallFails, Goto, AfterMedia, OpType
  <2>2. CASE FindExisting(h) \/ ReadEntity(h)
    BY <2>2, <1>a DEF FindExisting, ReadEntity, Goto, Return, OpType, IsStored, Seen
  <2>3. CASE HandleMediaUpload(h) \/ ResolveSender(h)
    BY <2>3, <1>a DEF HandleMediaUpload, ResolveSender, Goto, AfterMedia, OpType
  <2>4. CASE CreateMessage(h)
    BY <2>4, <1>a DEF CreateMessage, Goto, OpType
  <2>5. CASE CountMessage(h)
    BY <2>5, <1>a DEF CountMessage, Return, StatusInv, OnceInv, Pending, IsStored, Seen
  <2>6. CASE ApplyAck(h)
    BY <2>6, <1>a, <1>c, <1>m
       DEF ApplyAck, Goto, Return, OpType, Knows
  <2>7. CASE CountAck(h)
    BY <2>7, <1>a, <1>c, <1>m
       DEF CountAck, Return, Knows
  <2> QED
    BY <2>1, <2>2, <2>3, <2>4, <2>5, <2>6, <2>7 DEF Handle
<1> HIDE DEF m
<1>1. AckedEmitted'
  BY <1>e DEF StatusInv, AckInv, AckedEmitted
<1>2. LostWithEntity'
  <2> SUFFICES ASSUME NEW n \in Acked, NEW t \in SessionsOf[n], n \notin disturbed',
                      emits'[n][t] > 0, n \notin Flying', n \notin Seen'
               PROVE  t \notin active'
    BY DEF LostWithEntity
  <2>1. CASE n # m
    <3>1. n \in Msg
      BY MessageAssumption
    <3>2. n \notin disturbed
      BY <1>c
    <3>8. n \in Flying => n \in Flying'
      BY <2>1, <3>1, <1>n
    <3>4. n \notin Flying
      BY <3>8
    <3>3. Seen \subseteq Seen'
      BY <1>j
    <3>5. n \notin Seen
      BY <3>3
    <3>6. emits[n][t] > 0
      BY <1>e
    <3>7. t \notin active
      BY <3>2, <3>4, <3>5, <3>6 DEF StatusInv, AckInv, LostWithEntity
    <3> QED
      BY <3>7, <1>e
  <2>2. CASE n = m
    <3>1. op'[h].msg # m
      BY <2>2 DEF Flying
    <3>2. op[h].sess \notin active
      BY <2>2, <3>1, <1>j, <1>k
    <3>3. t = op[h].sess
      BY <2>2, <1>d, MessageAssumption
    <3> QED
      BY <3>2, <3>3, <1>e
  <2> QED
    BY <2>1, <2>2
<1>3. HandlerKnows'
  <2>1. ASSUME NEW g \in Handler \ {h}, op[g].msg \notin disturbed'
        PROVE  op[g].msg # m
    BY <2>1, <1>c, <1>f
  <2>3. m \in Seen /\ op[h].pc = "entity" => m \in disturbed
    BY DEF StatusInv, OnceInv, Pending, IsStored, Seen, m
  <2>6. op'[h].msg \in {m, None} /\ (op'[h].msg = None => op'[h].pc = "idle")
    <3>1. op'[h].msg \in {m, None}
      BY HandlerStep DEF m
    <3>2. Assigned'
      BY TypeStep DEF TypeInv, Next
    <3> QED
      BY <3>1, <3>2, <1>b DEF Assigned
  <2>7. Knows(op'[h], disturbed', Seen', active, acked[op'[h].msg])
    <3>1. CASE op'[h].msg = m /\ m \notin disturbed'
      <4>1. /\ op'[h].sess = op[h].sess
            /\ \/ op'[h].pc = "entity" /\ op[h].pc = "exists"
               \/ /\ op'[h].pc = "media" /\ op[h].pc = "entity"
                  /\ op[h].sess \in active
               \/ /\ op'[h].pc \in {"sender", "insert"}
                  /\ op[h].pc \in {"media", "sender"}
               \/ op'[h].pc = "count"
               \/ op'[h].pc = "ackcount" /\ op[h].pc = "ack"
        BY <3>1, <1>b, <1>d, <1>k
      <4>2. Seen \subseteq Seen'
        BY <1>j
      <4>3. op'[h].msg = op[h].msg /\ m = op[h].msg
        BY <3>1 DEF m
      <4> HIDE DEF m
      <4> QED
        BY <4>1, <4>2, <4>3, <2>3, <1>c, <1>m, KnowsAdvances
    <3>2. CASE op'[h].msg = m /\ m \in disturbed'
      BY <3>2, KnowsDisturbed
    <3>3. CASE op'[h].msg = None
      BY <3>3, <2>6, KnowsIdle
    <3> QED
      BY <2>6, <3>1, <3>2, <3>3
  <2>8. ASSUME NEW g \in Handler \ {h}
        PROVE  Knows(op[g], disturbed', Seen', active, acked[op[g].msg])
    <3>1. Knows(op[g], disturbed, Seen, active, acked[op[g].msg])
      BY DEF StatusInv, AckInv, HandlerKnows
    <3>2. Seen \subseteq Seen'
      BY <1>j
    <3> QED
      BY <3>1, <3>2, <1>c, KnowsKept
  <2> QED
    BY <2>7, <2>8, <1>c, <1>e DEF HandlerKnows
<1>4. StatusUpToAck'
  <2>1. CASE CreateMessage(h)
    <3>1. m \in disturbed \/ acked[m] = 0
      BY <2>1, <1>m DEF CreateMessage, Knows, m
    <3>2. m \in Seen => m \in disturbed
      BY <2>1, <1>l
    <3>3. /\ stored'[Len(stored) + 1].msg = m
          /\ stored'[Len(stored) + 1].status = InitialStatus(m)
      BY <2>1, StoredNew DEF m
    <3>4. \A i \in DOMAIN stored : stored[i].msg = m => m \in disturbed
      BY <3>2 DEF Seen
    <3>5. \A i \in DOMAIN stored : stored[i].msg \in Msg
      BY <1>h DEF MessageDoc
    <3>6. acked[m] = 0 => Expected(m) = InitialStatus(m)
      BY DEF Expected
    <3>7. /\ DOMAIN stored' = DOMAIN stored \cup {Len(stored) + 1}
          /\ \A i \in DOMAIN stored : stored'[i] = stored[i]
      BY <2>1, StoredNew
    <3> QED
      BY <3>1, <3>3, <3>4, <3>5, <3>6, <3>7, <1>c, <1>g, <1>i
         DEF StatusInv, AckInv, StatusUpToAck
  <2>2. CASE ApplyAck(h)
    <3>1. /\ DOMAIN stored' = DOMAIN stored
          /\ \A i \in DOMAIN stored : stored'[i].msg = stored[i].msg
      BY <2>2, SetStatusKeeps DEF ApplyAck, TypeInv, TypeOK
    <3>2. ASSUME NEW i \in DOMAIN stored, stored[i].msg # m
          PROVE  stored'[i] = stored[i]
      BY <2>2, <3>2 DEF ApplyAck, SetStatus, m
    <3>3. ASSUME NEW i \in DOMAIN stored, stored[i].msg = m, m \notin disturbed'
          PROVE  stored'[i].status = Expected(m)
      <4>1. \A j \in DOMAIN stored : stored[j].msg = m => j = i
        BY <3>3, <1>c DEF StatusInv, OnceInv, StoredOnce
      <4>2. \A j \in 1..(i - 1) : j \in DOMAIN stored /\ j # i
        BY DEF TypeInv, TypeOK
      <4>3. \A j \in 1..(i - 1) : stored[j].msg # m
        BY <4>1, <4>2
      <4>4. stored'[i] = [stored[i] EXCEPT !.status = StatusOfAck(op[h].ack)]
        BY <2>2, <3>3, <4>3 DEF ApplyAck, SetStatus, m
      <4>5. stored'[i].status = StatusOfAck(op[h].ack)
        BY <4>4, <1>h DEF MessageDoc
      <4>6. op[h].ack = acked[m] /\ op[h].ack \in Ack
        BY <2>2, <3>3, <1>c, <1>m
           DEF ApplyAck, Knows, TypeInv, Assigned, m
      <4>7. 0 \notin Ack
        BY MessageAssumption
      <4> QED
        BY <4>5, <4>6, <4>7 DEF Expected
    <3>4. \A i \in DOMAIN stored : stored[i].msg \in Msg
      BY <1>h DEF MessageDoc
    <3> QED
      BY <3>1, <3>2, <3>3, <3>4, <1>c, <1>g, <1>i
         DEF StatusInv, AckInv, StatusUpToAck
  <2>3. CASE ~CreateMessage(h) /\ ~ApplyAck(h)
    <3>1. stored' = stored
      BY <2>3 DEF Handle, CallFails, FindExisting, ReadEntity, HandleMediaUpload,
                  ResolveSender, CountMessage, CountAck
    <3>2. op[h].pc = "ack" => m \in disturbed'
      BY <2>3 DEF Handle, CallFails, FindExisting, ReadEntity, HandleMediaUpload,
                  ResolveSender, CountMessage, CountAck, m
    <3>3. m \in Acking => m \in Acking' \/ m \in disturbed'
      BY <3>2, <1>c, <1>f DEF Acking, m
    <3>4. \A i \in DOMAIN stored : stored[i].msg \in Msg
      BY <1>h DEF MessageDoc
    <3> QED
      BY <3>1, <3>3, <3>4, <1>c, <1>g, <1>i DEF StatusInv, AckInv, StatusUpToAck
  <2> QED
    BY <2>1, <2>2, <2>3
<1> QED
  BY <1>1, <1>2, <1>3, <1>4 DEF AckInv

LEMMA StatusStep == TypeInv /\ StatusInv /\ [Next]_vars => StatusInv'
<1> SUFFICES ASSUME TypeInv, StatusInv, [Next]_vars PROVE AckInv'
  BY OnceStep DEF StatusInv
<1>1. ASSUME NEW s \in Session, RemoveEntity(s) PROVE AckInv'
  <2>1. (AckedEmitted /\ LostWithEntity /\ StatusUpToAck)'
    BY <1>1 DEF RemoveEntity, StatusInv, AckInv, AckedEmitted, LostWithEntity,
                StatusUpToAck, Expected, Seen, Flying, Acking
  <2>2. /\ op' = op /\ disturbed' = disturbed /\ Seen' = Seen /\ acked' = acked
        /\ active' \subseteq active
    BY <1>1 DEF RemoveEntity, Seen
  <2>3. HandlerKnows'
    BY <2>2, KnowsKept DEF StatusInv, AckInv, HandlerKnows
  <2> QED
    BY <2>1, <2>3 DEF AckInv
<1>2. ASSUME Crash PROVE AckInv'
  <2>1. /\ stored' = stored /\ acked' = acked /\ emits' = emits
        /\ active' = active /\ disturbed \subseteq disturbed'
        /\ \A m \in Msg : m \in Flying => m \in disturbed'
        /\ \A h \in Handler : op'[h].pc = "idle"
    BY <1>2 DEF Crash, Idle, InFlight, Flying
  <2>2. AckedEmitted'
    BY <2>1 DEF StatusInv, AckInv, AckedEmitted
  <2>3. LostWithEntity'
    <3>1. Seen' = Seen /\ Acked \subseteq Msg
      BY <2>1, MessageAssumption DEF Seen
    <3> QED
      BY <2>1, <3>1 DEF StatusInv, AckInv, LostWithEntity
  <2>4. HandlerKnows'
    BY <2>1, KnowsIdle DEF HandlerKnows
  <2>5. \A i \in DOMAIN stored : stored[i].msg \in Msg
    BY DocType
  <2>6. Acking \subseteq Flying
    BY DEF Acking, Flying
  <2>7. \A m : (Expected(m))' = Expected(m)
    BY <2>1 DEF Expected
  <2>8. StatusUpToAck'
    BY <2>1, <2>5, <2>6, <2>7 DEF StatusInv, AckInv, StatusUpToAck
  <2> QED
    BY <2>2, <2>3, <2>4, <2>8 DEF AckInv
<1>3. ASSUME UNCHANGED vars PROVE AckInv'
  BY <1>3 DEF vars, StatusInv, AckInv, AckedEmitted, LostWithEntity,
              HandlerKnows, StatusUpToAck, Expected, Seen, Flying, Acking
<1> QED
  BY <1>1, <1>2, <1>3, StatusStepEmit, StatusStepAck, StatusStepHandle DEF Next

(* As long as the handlers of a message do not overlap and none is cut short,
   its status is what the last acknowledgement said. *)
THEOREM StatusFollows == Spec => []StatusFollowsAcks
<1>1. Init => StatusInv
  <2> SUFFICES ASSUME Init PROVE StatusInv
    OBVIOUS
  <2>1. OnceInv
    BY DEF Init, OnceInv, Overlap, Pending, StoredOnce, Idle
  <2>5. AckedEmitted /\ StatusUpToAck
    BY DEF Init, AckedEmitted, StatusUpToAck
  <2>2. HandlerKnows
    <3>1. \A h \in Handler : op[h].pc = "idle"
      BY DEF Init, Idle
    <3> QED
      BY <3>1, KnowsIdle DEF HandlerKnows
  <2>3. \A m \in Acked : \A s \in SessionsOf[m] : emits[m][s] = 0
    BY MessageAssumption DEF Init
  <2>4. LostWithEntity
    BY <2>3 DEF LostWithEntity
  <2> QED
    BY <2>1, <2>2, <2>4, <2>5 DEF StatusInv, AckInv
<1>2. TypeInv /\ StatusInv => StatusFollowsAcks
  <2> SUFFICES ASSUME StatusInv, NEW i \in DOMAIN stored,
                      stored[i].msg \notin disturbed, ~InFlight(stored[i].msg)
               PROVE  stored[i].status = Expected(stored[i].msg)
    BY DEF StatusFollowsAcks, Expected
  <2> QED
    BY DEF StatusInv, AckInv, StatusUpToAck, Acking, InFlight
<1> QED
  BY TypeInit, TypeStep, StatusStep, <1>1, <1>2, PTL DEF Spec

-----------------------------------------------------------------------------
(* CountersMatchStore: what is counted and what is about to be counted, against
   the documents, by direction. *)

Of(d)       == IF d = "in" THEN Incoming ELSE Outgoing
Tally(s, d) == IF d = "in" THEN counts[s].received ELSE counts[s].sent

(* There may be any number of handlers: that only finitely many are about to
   count is part of the invariant. *)
Balanced(s, d) ==
  /\ IsFiniteSet(Counting(s, Of(d)))
  /\ Tally(s, d) + Cardinality(Counting(s, Of(d))) <= Cardinality(Docs(s, Of(d)))
  /\ failures = 0 =>
       Tally(s, d) + Cardinality(Counting(s, Of(d))) = Cardinality(Docs(s, Of(d)))

CountInv == \A s \in Session, d \in {"in", "out"} : Balanced(s, d)

LEMMA DocsFinite ==
  ASSUME TypeInv, NEW s, NEW M
  PROVE  IsFiniteSet(Docs(s, M)) /\ Cardinality(Docs(s, M)) \in Nat
<1>1. stored \in Seq(MessageDoc)
  BY DEF TypeInv, TypeOK
<1>2. DOMAIN stored = 1..Len(stored) /\ Len(stored) \in Nat
  BY <1>1
<1>3. IsFiniteSet(1..Len(stored))
  BY <1>2, FS_Interval
<1>4. Docs(s, M) \subseteq 1..Len(stored)
  BY <1>2 DEF Docs
<1>5. IsFiniteSet(Docs(s, M))
  BY <1>3, <1>4, FS_Subset
<1> QED
  BY <1>5, FS_CardinalityType

LEMMA TallyType ==
  ASSUME TypeInv, NEW s \in Session, NEW d
  PROVE  Tally(s, d) \in Nat
<1>1. counts[s] \in CountType
  BY DEF TypeInv, TypeOK, CountType
<1> QED
  BY <1>1 DEF Tally, CountType

(* Nothing is counted, stored or about to be counted. *)
LEMMA BalanceKept ==
  ASSUME NEW s \in Session, NEW d \in {"in", "out"}, Balanced(s, d),
         Counting(s, Of(d))' = Counting(s, Of(d)), Docs(s, Of(d))' = Docs(s, Of(d)),
         Tally(s, d)' = Tally(s, d), failures' = 0 => failures = 0
  PROVE  Balanced(s, d)'
<1> DEFINE C == Counting(s, Of(d))
           D == Docs(s, Of(d))
           T == Tally(s, d)
<1>1. C' = C /\ D' = D /\ T' = T
  OBVIOUS
<1>2. /\ IsFiniteSet(C) /\ T + Cardinality(C) <= Cardinality(D)
      /\ failures = 0 => T + Cardinality(C) = Cardinality(D)
  BY DEF Balanced
<1>3. /\ IsFiniteSet(C') /\ T' + Cardinality(C') <= Cardinality(D')
      /\ failures' = 0 => T' + Cardinality(C') = Cardinality(D')
  BY <1>1, <1>2
<1> QED
  BY <1>3 DEF Balanced

LEMMA CountersStep == TypeInv /\ CountInv /\ [Next]_vars => CountInv'
<1> SUFFICES ASSUME TypeInv, CountInv, [Next]_vars,
                    NEW s \in Session, NEW d \in {"in", "out"}
             PROVE  Balanced(s, d)'
  BY DEF CountInv
<1> DEFINE M == Of(d)
           C == Counting(s, M)
           D == Docs(s, M)
           T == Tally(s, d)
<1>a. /\ op \in [Handler -> OpType] /\ \A h \in Handler : op[h] \in OpType
      /\ counts \in [Session -> CountType] /\ counts[s] \in CountType
      /\ failures \in Nat
  BY DEF TypeInv, TypeOK, OpType, CountType
<1>b. Idle.pc = "idle"
  BY DEF Idle
<1>c. /\ IsFiniteSet(C) /\ T + Cardinality(C) <= Cardinality(D)
      /\ failures = 0 => T + Cardinality(C) = Cardinality(D)
      /\ T \in Nat /\ Cardinality(C) \in Nat /\ Cardinality(D) \in Nat
  BY DocsFinite, TallyType, FS_CardinalityType DEF CountInv, Balanced
<1>1. ASSUME NEW h \in Handler, CreateMessage(h) PROVE Balanced(s, d)'
  <2>1. /\ \A g \in Handler \ {h} : op'[g] = op[g]
        /\ op[h].pc = "insert" /\ op'[h].pc = "count"
        /\ op'[h].msg = op[h].msg /\ op'[h].sess = op[h].sess
        /\ counts' = counts /\ failures' = failures
    BY <1>1, <1>a DEF CreateMessage, Goto, OpType
  <2>2. /\ DOMAIN stored' = DOMAIN stored \cup {Len(stored) + 1}
        /\ Len(stored) + 1 \notin DOMAIN stored
        /\ \A i \in DOMAIN stored : stored'[i] = stored[i]
        /\ stored'[Len(stored) + 1] = Document(h)
    BY <1>1, StoredNew
  <2>3. Document(h).msg = op[h].msg /\ Document(h).sess = op[h].sess
    BY DEF Document
  <2>4. T' = T
    BY <2>1 DEF Tally
  <2>5. CASE op[h].sess = s /\ op[h].msg \in M
    <3>1. C' = C \cup {h} /\ h \notin C
      BY <2>1, <2>5 DEF Counting
    <3>2. D' = D \cup {Len(stored) + 1} /\ Len(stored) + 1 \notin D
      BY <2>2, <2>3, <2>5 DEF Docs
    <3>3. /\ IsFiniteSet(C') /\ Cardinality(C') = Cardinality(C) + 1
          /\ Cardinality(D') = Cardinality(D) + 1
      <4>1. IsFiniteSet(D)
        BY DocsFinite
      <4> HIDE DEF C, D
      <4>2. IsFiniteSet(C') /\ Cardinality(C') = Cardinality(C) + 1
        BY <3>1, <1>c, FS_AddElement
      <4>3. Cardinality(D') = Cardinality(D) + 1
        BY <3>2, <4>1, FS_AddElement
      <4> QED
        BY <4>2, <4>3
    <3> HIDE DEF C, D, T
    <3>4. /\ IsFiniteSet(C') /\ T' + Cardinality(C') <= Cardinality(D')
          /\ failures' = 0 => T' + Cardinality(C') = Cardinality(D')
      BY <3>3, <2>1, <2>4, <1>c
    <3> QED
      BY <3>4 DEF Balanced, C, D, T
  <2>6. CASE ~(op[h].sess = s /\ op[h].msg \in M)
    <3>1. C' = C
      BY <2>1, <2>6 DEF Counting
    <3>2. D' = D
      BY <2>2, <2>3, <2>6 DEF Docs
    <3> QED
      BY <3>1, <3>2, <2>1, <2>4, BalanceKept DEF CountInv
  <2> QED
    BY <2>5, <2>6
<1>2. ASSUME \A h \in Handler : ~CreateMessage(h) PROVE D' = D
  BY <1>2, StoredKept DEF Docs
<1>3. ASSUME NEW h \in Handler, CountMessage(h) PROVE Balanced(s, d)'
  <2>1. /\ \A g \in Handler \ {h} : op'[g] = op[g]
        /\ op[h].pc = "count" /\ op'[h].pc = "idle" /\ failures' = failures
        /\ stored' = stored
    BY <1>3, <1>a, <1>b DEF CountMessage, Return
  <2>2. D' = D
    BY <2>1 DEF Docs
  <2>3. op[h].msg \in Incoming \cup Outgoing /\ op[h].sess \in Session
    BY <2>1, SessionOfMessage DEF TypeInv, Msg
  <2>4. CASE op[h].sess = s /\ op[h].msg \in M
    <3>1. C' = C \ {h} /\ h \in C
      BY <2>1, <2>4 DEF Counting
    <3>2. IsFiniteSet(C') /\ Cardinality(C') = Cardinality(C) - 1
      BY <3>1, <1>c, FS_RemoveElement
    <3>3. T' = T + 1
      <4>1. CASE d = "in"
        <5>1. counts' = [counts EXCEPT ![s].received = @ + 1]
          BY <1>3, <2>4, <4>1 DEF CountMessage, Of
        <5> QED
          BY <5>1, <4>1, <1>a DEF Tally, CountType
      <4>2. CASE d = "out"
        <5>1. counts' = [counts EXCEPT ![s].sent = @ + 1]
          BY <1>3, <2>4, <4>2, MessageAssumption DEF CountMessage, Of
        <5> QED
          BY <5>1, <4>2, <1>a DEF Tally, CountType
      <4> QED
        BY <4>1, <4>2
    <3> HIDE DEF C, D, T
    <3>4. /\ IsFiniteSet(C') /\ T' + Cardinality(C') <= Cardinality(D')
          /\ failures' = 0 => T' + Cardinality(C') = Cardinality(D')
      BY <3>2, <3>3, <2>1, <2>2, <1>c
    <3> QED
      BY <3>4 DEF Balanced, C, D, T
  <2>5. CASE ~(op[h].sess = s /\ op[h].msg \in M)
    <3>1. C' = C
      BY <2>1, <2>5 DEF Counting
    <3>2. T' = T
      <4>1. CASE op[h].sess # s
        <5>1. counts'[s] = counts[s]
          BY <1>3, <4>1, <1>a DEF CountMessage
        <5> QED
          BY <5>1 DEF Tally
      <4>2. CASE op[h].sess = s /\ d = "in"
        <5>1. counts' = [counts EXCEPT ![s].sent = @ + 1]
          BY <1>3, <2>5, <4>2 DEF CountMessage, Of
        <5> QED
          BY <5>1, <4>2, <1>a DEF Tally, CountType
      <4>3. CASE op[h].sess = s /\ d = "out"
        <5>1. counts' = [counts EXCEPT ![s].received = @ + 1]
          BY <1>3, <2>3, <2>5, <4>3 DEF CountMessage, Of
        <5> QED
          BY <5>1, <4>3, <1>a DEF Tally, CountType
      <4> QED
        BY <4>1, <4>2, <4>3
    <3> QED
      BY <3>1, <3>2, <2>1, <2>2, BalanceKept DEF CountInv
  <2> QED
    BY <2>4, <2>5
<1>4. ASSUME NEW h \in Handler, CallFails(h), op[h].pc = "count"
      PROVE  Balanced(s, d)'
  <2>1. /\ \A g \in Handler \ {h} : op'[g] = op[g]
        /\ op'[h].pc = "idle" /\ failures' # 0
        /\ stored' = stored /\ counts' = counts
    BY <1>4, <1>a, <1>b DEF CallFails, Return
  <2>2. D' = D /\ T' = T
    BY <2>1 DEF Docs, Tally
  <2>3. C' = C \ {h}
    BY <2>1 DEF Counting
  <2>4. IsFiniteSet(C') /\ Cardinality(C') <= Cardinality(C) /\ Cardinality(C') \in Nat
    BY <2>3, <1>c, FS_Subset, FS_CardinalityType
  <2> HIDE DEF C, D, T
  <2>5. /\ IsFiniteSet(C') /\ T' + Cardinality(C') <= Cardinality(D')
        /\ failures' # 0
    BY <2>1, <2>2, <2>4, <1>c
  <2> QED
    BY <2>5 DEF Balanced, C, D, T
<1>5. ASSUME Crash PROVE Balanced(s, d)'
  <2>1. /\ \A h \in Handler : op'[h].pc = "idle"
        /\ failures' # 0 /\ stored' = stored /\ counts' = counts
    BY <1>5, <1>a, <1>b DEF Crash
  <2>2. D' = D /\ T' = T /\ C' = {}
    BY <2>1 DEF Docs, Tally, Counting
  <2>3. IsFiniteSet(C') /\ Cardinality(C') = 0
    BY <2>2, FS_EmptySet
  <2> HIDE DEF C, D, T
  <2>4. /\ IsFiniteSet(C') /\ T' + Cardinality(C') <= Cardinality(D')
        /\ failures' # 0
    BY <2>1, <2>2, <2>3, <1>c
  <2> QED
    BY <2>4 DEF Balanced, C, D, T
<1>6. ASSUME NEW h \in Handler, Handle(h) \/ CallFails(h),
             ~CreateMessage(h), ~CountMessage(h), op[h].pc = "count" => ~CallFails(h)
      PROVE  Balanced(s, d)'
  <2>1. \A g \in Handler \ {h} : op'[g] = op[g]
    BY <1>6, HandlerStep
  <2>2. op[h].pc # "count" /\ op'[h].pc # "count"
    BY <1>6, <1>a, <1>b
       DEF Handle, CallFails, FindExisting, ReadEntity, HandleMediaUpload,
           ResolveSender, ApplyAck, CountAck, Goto, Return, OpType, AfterMedia
  <2>3. C' = C
    BY <2>1, <2>2 DEF Counting
  <2>4. \A g \in Handler : ~CreateMessage(g)
    <3>1. \A g \in Handler \ {h} : ~CreateMessage(g)
      BY <2>1, <1>a DEF CreateMessage, Goto, OpType
    <3> QED
      BY <3>1, <1>6
  <2>5. T' = T /\ (failures' = 0 => failures = 0)
    <3>1. CASE CountAck(h)
      <4>1. op[h].sess \in Session
        BY <3>1, SessionOfMessage DEF TypeInv, CountAck
      <4>2. counts'[s].received = counts[s].received /\ counts'[s].sent = counts[s].sent
        BY <3>1, <4>1, <1>a DEF CountAck, CountType
      <4> QED
        BY <3>1, <4>2 DEF Tally, CountAck
    <3>2. CASE ~CountAck(h)
      <4>1. counts' = counts
        BY <1>6, <3>2 DEF Handle, CallFails, FindExisting, ReadEntity,
                          HandleMediaUpload, ResolveSender, ApplyAck
      <4>2. failures' = failures \/ failures' = failures + 1
        BY <1>6, <3>2 DEF Handle, CallFails, FindExisting, ReadEntity,
                          HandleMediaUpload, ResolveSender, ApplyAck
      <4> QED
        BY <4>1, <4>2, <1>a DEF Tally
    <3> QED
      BY <3>1, <3>2
  <2> QED
    BY <2>3, <2>4, <2>5, <1>2, BalanceKept DEF CountInv
<1>7. ASSUME NEW h \in Handler, NEW l \in {"exists", "ack"}, NEW m, NEW r, NEW a,
             Take(h, l, m, r, a), UNCHANGED <<stored, counts, failures>>
      PROVE  Balanced(s, d)'
  <2>1. /\ \A g \in Handler \ {h} : op'[g] = op[g]
        /\ op[h].pc = "idle" /\ op'[h].pc = l
    BY <1>7, <1>a DEF Take, Idle
  <2>2. C' = C
    BY <2>1 DEF Counting
  <2>3. D' = D /\ T' = T
    BY <1>7 DEF Docs, Tally
  <2> QED
    BY <2>2, <2>3, <1>7, BalanceKept DEF CountInv
<1>8. ASSUME UNCHANGED <<op, stored, counts, failures>> PROVE Balanced(s, d)'
  <2>1. C' = C /\ D' = D /\ T' = T
    BY <1>8 DEF Counting, Docs, Tally
  <2> QED
    BY <2>1, <1>8, BalanceKept DEF CountInv
<1>9. ASSUME NEW h \in Handler, Handle(h) \/ CallFails(h) PROVE Balanced(s, d)'
  BY <1>1, <1>3, <1>4, <1>6, <1>9
<1>10. ASSUME NEW h \in Handler, NEW m \in Msg, NEW r \in Session,
              EmitMessage(h, m, r) \/ \E a \in Ack : EmitAck(h, m, r, a)
       PROVE  Balanced(s, d)'
  BY <1>7, <1>10 DEF EmitMessage, EmitAck
<1> QED
  BY <1>5, <1>8, <1>9, <1>10 DEF Next, RemoveEntity, vars

LEMMA CountersInit == Init => CountInv
<1> SUFFICES ASSUME Init, NEW s \in Session, NEW d \in {"in", "out"}
             PROVE  Balanced(s, d)
  BY DEF CountInv
<1>1. Counting(s, Of(d)) = {} /\ Docs(s, Of(d)) = {} /\ Tally(s, d) = 0
  BY DEF Init, Counting, Docs, Tally, Idle
<1> QED
  BY <1>1, FS_EmptySet DEF Balanced

(* A session never counts a message it has not stored, and while nothing fails the
   counters lag behind the documents by the handlers about to count, exactly. *)
THEOREM CountersMatch == Spec => []CountersMatchStore
<1>1. CountInv => CountersMatchStore
  <2> SUFFICES ASSUME CountInv, NEW s \in Session
               PROVE  /\ counts[s].received + Cardinality(Counting(s, Incoming))
                           <= Cardinality(Docs(s, Incoming))
                      /\ counts[s].sent + Cardinality(Counting(s, Outgoing))
                           <= Cardinality(Docs(s, Outgoing))
                      /\ failures = 0 =>
                           /\ counts[s].received + Cardinality(Counting(s, Incoming))
                                = Cardinality(Docs(s, Incoming))
                           /\ counts[s].sent + Cardinality(Counting(s, Outgoing))
                                = Cardinality(Docs(s, Outgoing))
    BY DEF CountersMatchStore
  <2>1. Balanced(s, "in") /\ Balanced(s, "out")
    BY DEF CountInv
  <2> QED
    BY <2>1 DEF Balanced, Of, Tally
<1> QED
  BY TypeInit, TypeStep, CountersInit, CountersStep, <1>1, PTL DEF Spec
=============================================================================
