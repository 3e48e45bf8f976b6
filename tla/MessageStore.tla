----------------------------- MODULE MessageStore ------------------------------
(***************************************************************************)
(* The message side of WhatsAppService: what the 'message',                *)
(* 'message_create' and 'message_ack' handlers of the managed clients      *)
(* write.  Each handler is a run of awaits, nothing orders the handlers of *)
(* one message, and what one of them throws is caught and logged: the      *)
(* library has delivered the event and does not deliver it again for that. *)
(*                                                                         *)
(* A session document exists as long as its client does, so the look-up of *)
(* the session, whose fields read here never change, is part of the start  *)
(* of a handler.                                                           *)
(***************************************************************************)
EXTENDS Integers, Sequences, FiniteSets

CONSTANTS
  Session,            \* managed sessions
  Incoming, Outgoing, \* WhatsApp ids of messages, by direction
  SessionsOf,         \* SessionsOf[m]: the sessions whose clients see m
  WithMedia,          \* messages that carry media
  Acked,              \* messages whose acknowledgements are observed
  Ack,                \* the acknowledgements that occur
  Handler,            \* bound: event handlers running at the same time
  None,               \* no message, no session
  MaxEmits,           \* bound: events of one message a client emits
  MaxFailures         \* bound: calls that throw and deaths of the process

Msg == Incoming \cup Outgoing

(* A message id names the chat and the sender: clients of the same group see
   one id, so two sessions may both receive m; a message is sent by one. *)
ASSUME MessageAssumption ==
  /\ Incoming \cap Outgoing = {}
  /\ SessionsOf \in [Msg -> (SUBSET Session) \ {{}}]
  /\ WithMedia \subseteq Msg /\ Acked \subseteq Msg
  /\ \A m \in Outgoing \cup Acked : \E s \in Session : SessionsOf[m] = {s}
  /\ Ack \subseteq {-1, 1, 2, 3, 4}
  /\ None \notin Msg \cup Session
  /\ MaxEmits \in Nat /\ MaxFailures \in Nat

VARIABLES
  stored,    \* the message documents, oldest first
  counts,    \* counts[s]: the statistics in the session document
  blobs,     \* the files in cloud storage, by message
  active,    \* the sessions whose entity is active
  op,        \* program counter and locals of each handler
  emits,     \* emits[m][s]: message events of m emitted by the client of s
  acked,     \* acked[m]: the last acknowledgement emitted, 0 before any
  disturbed, \* history: messages whose handlers overlapped or were cut short
  failures   \* calls that have thrown, deaths of the process

vars == <<stored, counts, blobs, active, op, emits, acked, disturbed, failures>>

MessageStatus == {"pending", "sent", "delivered", "read", "failed"}

(* media: there is a mediaUrl. *)
MessageDoc == [msg : Msg, sess : Session, status : MessageStatus,
               media : BOOLEAN]

Label == {"idle", "exists", "entity", "media", "sender", "insert", "count",
          "ack", "ackcount"}
Idle  == [pc |-> "idle", msg |-> None, sess |-> None, ack |-> 0,
          media |-> FALSE]

TypeOK ==
  /\ stored \in Seq(MessageDoc)
  /\ counts \in [Session -> [received : Nat, sent : Nat, delivered : Nat,
                             failed : Nat]]
  /\ blobs \subseteq WithMedia
  /\ active \subseteq Session
  /\ op \in [Handler -> [pc : Label, msg : Msg \cup {None},
                         sess : Session \cup {None}, ack : Ack \cup {0},
                         media : BOOLEAN]]
  /\ emits \in [Msg -> [Session -> Nat]]
  /\ acked \in [Msg -> Ack \cup {0}]
  /\ disturbed \subseteq Msg
  /\ failures \in Nat

Init ==
  /\ stored = <<>>
  /\ counts = [s \in Session |->
                 [received |-> 0, sent |-> 0, delivered |-> 0, failed |-> 0]]
  /\ blobs = {}
  /\ active = Session
  /\ op = [h \in Handler |-> Idle]
  /\ emits = [m \in Msg |-> [s \in Session |-> 0]]
  /\ acked = [m \in Msg |-> 0]
  /\ disturbed = {}
  /\ failures = 0

-----------------------------------------------------------------------------
Goto(h, label) == op' = [op EXCEPT ![h].pc = label]
Return(h)      == op' = [op EXCEPT ![h] = Idle]
InFlight(m)    == \E h \in Handler : op[h].msg = m
IsStored(m)    == \E i \in DOMAIN stored : stored[i].msg = m

(* An event of m arrives: a free handler takes it up. *)
Take(h, label, m, s, a) ==
  /\ op[h].pc = "idle"
  /\ op' = [op EXCEPT ![h] = [Idle EXCEPT !.pc = label, !.msg = m, !.sess = s,
                                          !.ack = a]]
  /\ disturbed' = disturbed \cup (IF InFlight(m) THEN {m} ELSE {})

(* client.on('message'), and client.on('message_create') for messages from me;
   an event may be emitted again, as after a reconnection. *)
EmitMessage(h, m, s) ==
  /\ s \in SessionsOf[m]
  /\ emits[m][s] < MaxEmits
  /\ emits' = [emits EXCEPT ![m][s] = @ + 1]
  /\ Take(h, "exists", m, s, 0)
  /\ UNCHANGED <<stored, counts, blobs, active, acked, failures>>

(* client.on('message_ack'): the phone reports progress in order; an error ends
   a message that had not left. *)
EmitAck(h, m, s, a) ==
  /\ m \in Acked /\ s \in SessionsOf[m]
  /\ emits[m][s] > 0
  /\ acked[m] >= 0
  /\ IF a = -1 THEN acked[m] = 0 ELSE a > acked[m]
  /\ acked' = [acked EXCEPT ![m] = a]
  /\ Take(h, "ack", m, s, a)
  /\ UNCHANGED <<stored, counts, blobs, active, emits, failures>>

-----------------------------------------------------------------------------
(* handleIncomingMessage and handleOutgoingMessage *)

(* Broken variant: each session looks for a message of its own. *)
FindExistingOfSession(h) ==
  /\ op[h].pc = "exists"
  /\ \/ /\ \E i \in DOMAIN stored : /\ stored[i].msg = op[h].msg
                                    /\ stored[i].sess = op[h].sess
        /\ Return(h)
     \/ /\ \A i \in DOMAIN stored : \/ stored[i].msg # op[h].msg
                                    \/ stored[i].sess # op[h].sess
        /\ Goto(h, "entity")
  /\ UNCHANGED <<stored, counts, blobs, active, emits, acked, disturbed,
                 failures>>

(* "Check if message already exists" *)
FindExisting(h) ==
  /\ op[h].pc = "exists"
  /\ \/ IsStored(op[h].msg) /\ Return(h)
     \/ ~IsStored(op[h].msg) /\ Goto(h, "entity")
  /\ UNCHANGED <<stored, counts, blobs, active, emits, acked, disturbed,
                 failures>>

(* Broken variant: one removed entity stops the handlers of all sessions. *)
ReadAllEntities(h) ==
  /\ op[h].pc = "entity"
  /\ \/ active = Session /\ Goto(h, "media")
     \/ active # Session /\ Return(h)
  /\ UNCHANGED <<stored, counts, blobs, active, emits, acked, disturbed,
                 failures>>

(* findOne of EntitiesService throws for an entity that was removed: the
   handler ends there and the message is not stored. *)
ReadEntity(h) ==
  /\ op[h].pc = "entity"
  /\ \/ op[h].sess \in active /\ Goto(h, "media")
     \/ op[h].sess \notin active /\ Return(h)
  /\ UNCHANGED <<stored, counts, blobs, active, emits, acked, disturbed,
                 failures>>

(* Only the handler of received messages asks who the sender is. *)
AfterMedia(m) == IF m \in Incoming THEN "sender" ELSE "insert"

(* uploadFile: the file is there before its URL is known. *)
UploadFile(m) == blobs' = blobs \cup {m}

(* Broken variant: the URL is made up before the upload is known to have
   succeeded. *)
AssumeUploaded(h) ==
  /\ op[h].pc = "media"
  /\ op' = [op EXCEPT ![h].pc = AfterMedia(op[h].msg),
                      ![h].media = op[h].msg \in WithMedia]
  /\ UNCHANGED <<stored, counts, blobs, active, emits, acked, disturbed,
                 failures>>

(* The URL is null when there is no media, when downloadMedia finds none, and
   when a call throws: handleMediaUpload catches what it meets. *)
HandleMediaUpload(h) ==
  /\ op[h].pc = "media"
  /\ \/ /\ op[h].msg \in WithMedia
        /\ UploadFile(op[h].msg)
        /\ op' = [op EXCEPT ![h].pc = AfterMedia(op[h].msg), ![h].media = TRUE]
     \/ /\ Goto(h, AfterMedia(op[h].msg))
        /\ UNCHANGED blobs
  /\ UNCHANGED <<stored, counts, active, emits, acked, disturbed,
                 failures>>

(* checkIfRegisteredUser, getContactInfo and getContact: what they find is only
   shown, the first two catch what they meet, the third throws (CallFails). *)
ResolveSender(h) ==
  /\ op[h].pc = "sender"
  /\ Goto(h, "insert")
  /\ UNCHANGED <<stored, counts, blobs, active, emits, acked, disturbed,
                 failures>>

InitialStatus(m) == IF m \in Incoming THEN "delivered" ELSE "sent"

Document(h) ==
  [msg |-> op[h].msg, sess |-> op[h].sess, status |-> InitialStatus(op[h].msg),
   media |-> op[h].media]

(* messageModel.create: the index on whatsappMessageId is not unique. *)
CreateMessage(h) ==
  /\ op[h].pc = "insert"
  /\ stored' = Append(stored, Document(h))
  /\ Goto(h, "count")
  /\ UNCHANGED <<counts, blobs, active, emits, acked, disturbed, failures>>

(* Broken variant: the statistics of the sender count what is received. *)
CountAllAsSent(h) ==
  /\ op[h].pc = "count"
  /\ counts' = [counts EXCEPT ![op[h].sess].sent = @ + 1]
  /\ Return(h)
  /\ UNCHANGED <<stored, blobs, active, emits, acked, disturbed, failures>>

CountMessage(h) ==
  /\ op[h].pc = "count"
  /\ counts' = IF op[h].msg \in Incoming
               THEN [counts EXCEPT ![op[h].sess].received = @ + 1]
               ELSE [counts EXCEPT ![op[h].sess].sent = @ + 1]
  /\ Return(h)
  /\ UNCHANGED <<stored, blobs, active, emits, acked, disturbed, failures>>

-----------------------------------------------------------------------------
(* handleMessageAck *)

(* Broken variant: an acknowledgement the map does not know is kept as it is. *)
StatusOfAckUnmapped(a) ==
  CASE a = 1 -> "sent"
    [] a = 2 -> "delivered"
    [] a = 3 -> "read"
    [] a = -1 -> "failed"
    [] OTHER -> "played"

(* An acknowledgement the map does not know (4, played) counts as pending. *)
StatusOfAck(a) ==
  CASE a = 1 -> "sent"
    [] a = 2 -> "delivered"
    [] a = 3 -> "read"
    [] a = -1 -> "failed"
    [] OTHER -> "pending"

(* Broken variant: only a message that is still SENT is updated. *)
SetStatusOfSent(h) ==
  stored' = [i \in DOMAIN stored |->
    IF stored[i].msg = op[h].msg /\ stored[i].status = "sent"
    THEN [stored[i] EXCEPT !.status = StatusOfAck(op[h].ack)] ELSE stored[i]]

(* findOneAndUpdate changes one document, the oldest of the message. *)
SetStatus(h) ==
  stored' = [i \in DOMAIN stored |->
    IF /\ stored[i].msg = op[h].msg
       /\ \A j \in 1..(i - 1) : stored[j].msg # op[h].msg
    THEN [stored[i] EXCEPT !.status = StatusOfAck(op[h].ack)] ELSE stored[i]]

Counted(a) == StatusOfAck(a) \in {"delivered", "failed"}

ApplyAck(h) ==
  /\ op[h].pc = "ack"
  /\ SetStatus(h)
  /\ \/ Counted(op[h].ack) /\ Goto(h, "ackcount")
     \/ ~Counted(op[h].ack) /\ Return(h)
  /\ UNCHANGED <<counts, blobs, active, emits, acked, disturbed, failures>>

(* The session counts the acknowledgement whether or not a message matched. *)
CountAck(h) ==
  /\ op[h].pc = "ackcount"
  /\ counts' = IF StatusOfAck(op[h].ack) = "delivered"
               THEN [counts EXCEPT ![op[h].sess].delivered = @ + 1]
               ELSE [counts EXCEPT ![op[h].sess].failed = @ + 1]
  /\ Return(h)
  /\ UNCHANGED <<stored, blobs, active, emits, acked, disturbed, failures>>

-----------------------------------------------------------------------------
(* EntitiesService removes the entity of a session. *)
RemoveEntity(s) ==
  /\ s \in active
  /\ active' = active \ {s}
  /\ UNCHANGED <<stored, counts, blobs, op, emits, acked, disturbed,
                 failures>>

(* A call outside handleMediaUpload throws: the handler ends, and what it has
   written is left as it is. *)
CallFails(h) ==
  /\ op[h].pc \notin {"idle", "media"}
  /\ failures < MaxFailures
  /\ failures' = failures + 1
  /\ Return(h)
  /\ disturbed' = disturbed \cup {op[h].msg}
  /\ UNCHANGED <<stored, counts, blobs, active, emits, acked>>

Crash ==
  /\ failures < MaxFailures
  /\ failures' = failures + 1
  /\ op' = [h \in Handler |-> Idle]
  /\ disturbed' = disturbed \cup {m \in Msg : InFlight(m)}
  /\ UNCHANGED <<stored, counts, blobs, active, emits, acked>>

Handle(h) ==
  \/ FindExisting(h) \/ ReadEntity(h) \/ HandleMediaUpload(h)
  \/ ResolveSender(h) \/ CreateMessage(h) \/ CountMessage(h)
  \/ ApplyAck(h) \/ CountAck(h)

Next ==
  \/ \E h \in Handler, m \in Msg, s \in Session :
       EmitMessage(h, m, s) \/ \E a \in Ack : EmitAck(h, m, s, a)
  \/ \E h \in Handler : Handle(h) \/ CallFails(h)
  \/ \E s \in Session : RemoveEntity(s)
  \/ Crash

(* The event loop resumes every handler whose call has been answered. *)
Spec == Init /\ [][Next]_vars /\ \A h \in Handler : WF_vars(Handle(h))

-----------------------------------------------------------------------------
(* Docs(s, M): the documents session s has stored of messages in M. *)
Docs(s, M) == {i \in DOMAIN stored : stored[i].sess = s /\ stored[i].msg \in M}

Counting(s, M) ==
  {h \in Handler : op[h].pc = "count" /\ op[h].sess = s /\ op[h].msg \in M}

(* "Skipping duplicate message": neither a repeated event nor a second session
   of the same group stores a message again, unless the handlers overlapped or
   one was cut short (the look-up and the insert are several awaits apart). *)
StoredOnce ==
  \A i, j \in DOMAIN stored :
    stored[i].msg = stored[j].msg => i = j \/ stored[i].msg \in disturbed

(* The status of a message is what its last acknowledgement said as soon as its
   handlers are done, unless two of them overlapped: then a late write may move
   it back, and an acknowledgement that overtakes the insert is lost. *)
StatusFollowsAcks ==
  \A i \in DOMAIN stored :
    stored[i].msg \notin disturbed /\ ~InFlight(stored[i].msg) =>
      stored[i].status = IF acked[stored[i].msg] = 0
                         THEN InitialStatus(stored[i].msg)
                         ELSE StatusOfAck(acked[stored[i].msg])

(* messagesReceived and messagesSent never run ahead of the documents, and
   without errors and crashes they lag only by the handlers about to count. *)
CountersMatchStore ==
  \A s \in Session :
    LET received == counts[s].received + Cardinality(Counting(s, Incoming))
        sent     == counts[s].sent + Cardinality(Counting(s, Outgoing))
    IN  /\ received <= Cardinality(Docs(s, Incoming))
        /\ sent <= Cardinality(Docs(s, Outgoing))
        /\ failures = 0 =>
             /\ received = Cardinality(Docs(s, Incoming))
             /\ sent = Cardinality(Docs(s, Outgoing))

(* A media URL is only stored for a file that is in the cloud storage. *)
MediaUrlResolves ==
  \A i \in DOMAIN stored : stored[i].media => stored[i].msg \in blobs

(* What a client has delivered is stored in the end: a message is lost only with
   its entity, or to a call that throws, or to a crash. *)
EveryMessageIsKept ==
  \A m \in Msg, s \in Session :
    emits[m][s] > 0 ~>
      IsStored(m) \/ s \notin active \/ failures > 0
=============================================================================
