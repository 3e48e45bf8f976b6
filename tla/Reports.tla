-------------------------------- MODULE Reports --------------------------------
(***************************************************************************)
(* Answers put together from several queries, with no snapshot over them:  *)
(* the dashboard, the metrics collectors, and the paged listings of        *)
(* messages, users and audit logs.  Between two awaits of a report every   *)
(* other request and every event handler may write.                        *)
(*                                                                         *)
(* A document is its collection, the tags the filters tell apart: "mine"   *)
(* (it belongs to the viewer's entity or tenant), "old" (created before    *)
(* the window), "inactive" (soft-deleted), "user" (of role USER), a type,  *)
(* a status; and, for the listings, the millisecond of its createdAt.      *)
(***************************************************************************)
EXTENDS Naturals, Sequences, FiniteSets

CONSTANTS
  Kind,       \* the reports of this instance
  Limits,     \* for each report: the page sizes, or lengths of the feed, asked for
  Viewers,    \* for each report: who asks for it, "system" or "tenant"
  Stamps,     \* the milliseconds documents are created in
  MaxDocs,    \* bound, for each report: documents ever stored
  MaxWrites   \* bound: writes while one report runs

ReportKind == {"entityStats", "messageStats", "userStats", "systemHealth",
               "throughput", "errorRate", "sessionHealth", "queueBacklog"}
ListKind   == {"messages", "users", "auditLogs"}

ASSUME ReportsAssumption ==
  /\ Kind \subseteq ReportKind \cup ListKind \cup {"activity"}
  /\ Limits \in [Kind -> SUBSET Nat] /\ \A k \in Kind \cap ListKind : 0 \notin Limits[k]
  /\ Viewers \in [Kind -> SUBSET {"system", "tenant"}] /\ Stamps \subseteq Nat
  /\ MaxDocs \in [Kind -> Nat] /\ MaxWrites \in Nat

VARIABLES
  kind, viewer,  \* what is asked for, and by whom: "system" or "tenant"
  limit,         \* the page size of a listing, the length asked of the feed
  docs,          \* the documents, in the order they were stored
  running,       \* the report is between its first and its last query
  answers,       \* what its queries have answered so far
  now,           \* number of documents when the report took the time
  page, seen,    \* the page to read next, 0 after the last, and what was read
  started,       \* history: number of documents when the report began
  writes, lost   \* history: writes since then, and those among them that take
                 \* a document away: soft deletions, users that change role

vars == <<kind, viewer, limit, docs, running, answers, now, page, seen, started,
          writes, lost>>

Coll == {"messages", "sessions", "users", "entities", "auditLogs"}
Tag  == {"mine", "old", "inactive", "external", "inbound", "failed", "pending",
         "ready", "user", "phone", "registered", "entity", "company", "department"}

TypeOK ==
  /\ kind \in Kind /\ viewer \in {"system", "tenant"}
  /\ limit \in Nat /\ (kind \in ListKind => limit > 0)
  /\ docs \in Seq([coll : Coll, tags : SUBSET Tag, at : Nat])
  /\ running \in BOOLEAN
  /\ answers \in Seq(Nat)
  /\ now \in Nat /\ page \in Nat /\ seen \subseteq Nat
  /\ started \in Nat /\ writes \in Nat /\ lost \in Nat

-----------------------------------------------------------------------------
(* Queries *)

Mine == IF viewer = "system" THEN {} ELSE {"mine"}

(* A filter: tags to have and to lack; upto: created before "now". *)
Every(coll, has, lacks) ==
  [coll |-> coll, has |-> has \cup Mine, lacks |-> lacks, upto |-> FALSE]
(* Broken variant: only a count of everything leaves out the deleted. *)
ActiveIfWhole(coll, has) ==
  Every(coll, has, IF has = {} THEN {"inactive"} ELSE {})

Active(coll, has) == Every(coll, has, {"inactive"})
UpTo(q) == [q EXCEPT !.upto = TRUE]

Found(q) ==
  {i \in DOMAIN docs : /\ docs[i].coll = q.coll
                       /\ q.has \subseteq docs[i].tags
                       /\ q.lacks \cap docs[i].tags = {}
                       /\ q.upto => i <= now}

(* The queries of each report in their order.  Counts no other number of the
   report is compared with are left out. *)
EntityStats ==
  <<Active("entities", {}), Active("entities", {"entity"}),
    Active("entities", {"company"}), Active("entities", {"department"}),
    Active("users", {"user", "phone"}), Active("users", {"user"}),
    Active("users", {"user", "registered"}), Active("entities", {"old"}),
    UpTo(Active("entities", {}))>>

MessageStats ==
  <<Active("messages", {}),
    UpTo(Every("messages", {}, {"inactive", "old"})),
    Every("messages", {}, {"inactive", "external"}),
    Active("messages", {"external"})>>

UserStats ==
  <<Active("users", {"user"}), Active("users", {"user", "phone"}),
    Active("users", {"user", "old"}), UpTo(Active("users", {"user"}))>>

SessionsReady == <<Every("sessions", {}, {}), Every("sessions", {"ready"}, {})>>

Throughput ==
  <<Every("messages", {}, {"old", "inbound"}),
    Every("messages", {"inbound"}, {"old"})>>

ErrorRate ==
  <<Every("messages", {}, {"old"}), Every("messages", {"failed"}, {"old"})>>

QueueBacklog == <<Every("messages", {"pending"}, {})>>

RecentActivity ==
  <<Active("auditLogs", {}), Every("sessions", {}, {}), Active("users", {})>>

(* A listing; of users and audit logs alike, without its further filters. *)
Listed == <<Active(kind, {})>>

Queries ==
  CASE kind = "entityStats"   -> EntityStats
    [] kind = "messageStats"  -> MessageStats
    [] kind = "userStats"     -> UserStats
    [] kind = "systemHealth"  -> SessionsReady
    [] kind = "sessionHealth" -> SessionsReady
    [] kind = "throughput"    -> Throughput
    [] kind = "errorRate"     -> ErrorRate
    [] kind = "queueBacklog"  -> QueueBacklog
    [] kind = "activity"      -> RecentActivity
    [] OTHER                  -> Listed

(* The number of answers after which a report takes the time. *)
ClockAt == CASE kind = "entityStats" -> 7 [] kind = "userStats" -> 2 [] OTHER -> 0

Done == Len(answers) = Len(Queries)

Least(a, b) == IF a <= b THEN a ELSE b
Sum2(i, j) == answers[i] + answers[j]

-----------------------------------------------------------------------------
Init ==
  /\ kind \in Kind
  /\ viewer \in Viewers[kind] /\ limit \in Limits[kind]
  /\ docs = <<>>
  /\ running = FALSE
  /\ answers = <<>>
  /\ now = 0 /\ page = 0 /\ seen = {}
  /\ started = 0 /\ writes = 0 /\ lost = 0

StartReport ==
  /\ ~running
  /\ running' = TRUE
  /\ answers' = <<>> /\ page' = 1 /\ seen' = {}
  /\ now' = Len(docs) /\ started' = Len(docs)
  /\ writes' = 0 /\ lost' = 0
  /\ UNCHANGED <<kind, viewer, limit, docs>>

(* One countDocuments, awaited before the next one is sent. *)
Count ==
  /\ running /\ kind \in ReportKind /\ ~Done
  /\ answers' = Append(answers, Cardinality(Found(Queries[Len(answers) + 1])))
  /\ now' = IF Len(answers') = ClockAt THEN Len(docs) ELSE now
  /\ UNCHANGED <<kind, viewer, limit, docs, running, page, seen, started, writes,
                 lost>>

EndReport ==
  /\ running /\ running' = FALSE
  /\ answers' = <<>> /\ page' = 0 /\ seen' = {}
  /\ now' = 0 /\ started' = 0 /\ writes' = 0 /\ lost' = 0
  /\ UNCHANGED <<kind, viewer, limit, docs>>

(* The caller gets the report, or a metric is recorded that nothing here reads. *)
FinishReport ==
  /\ IF kind \in ListKind THEN page = 0 ELSE Done
  /\ EndReport

(* A query that rejects ends a report: the caller gets the error, a collector
   logs it. *)
ReportFails == kind # "activity" /\ EndReport

-----------------------------------------------------------------------------
(* getRecentActivity: audit logs, filled up with sessions and users.  Audit
   logs have no entityIdPath, so only the system administrator finds any. *)

FeedSum == LET at(i) == IF i <= Len(answers) THEN answers[i] ELSE 0
            IN at(1) + at(2) + at(3)

(* Broken variant: the users are not limited to the room the sessions left. *)
RoomForBoth ==
  LET taken == IF answers = <<>> THEN 0 ELSE answers[1]
  IN IF taken < limit THEN limit - taken ELSE 0

Room == IF FeedSum < limit THEN limit - FeedSum ELSE 0

(* limit(0) is no limit: all the audit logs are read then.  The sessions and the
   users are asked for only while there is room. *)
ReadActivity ==
  /\ running /\ kind = "activity" /\ ~Done
  /\ LET n    == Len(answers) + 1
         q    == Queries[n]
         rows == IF q.coll = "auditLogs" /\ viewer = "tenant" THEN 0
                 ELSE Cardinality(Found(q))
         most == IF n = 1 THEN IF limit = 0 THEN rows ELSE limit
                 ELSE Least(Room, IF n = 2 THEN 3 ELSE 2)
     IN answers' = Append(answers, Least(most, rows))
  /\ UNCHANGED <<kind, viewer, limit, docs, running, now, page, seen, started,
                 writes, lost>>

(* A query that rejects: the feed is the fallback item, as if nothing was found. *)
FeedFails ==
  /\ running /\ kind = "activity" /\ ~Done
  /\ answers' = <<0, 0, 0>>
  /\ UNCHANGED <<kind, viewer, limit, docs, running, now, page, seen, started,
                 writes, lost>>

(* What the caller gets: the fallback item, or what was found, sliced. *)
Shown == IF FeedSum = 0 THEN 1 ELSE Least(FeedSum, limit)

-----------------------------------------------------------------------------
(* getMessages, findAll, getAuditLogs: a count, then one page; and a client
   that asks for the next page until one comes short. *)

CountListed ==
  /\ running /\ kind \in ListKind /\ page > 0 /\ answers = <<>>
  /\ answers' = <<Cardinality(Found(Queries[1]))>>
  /\ UNCHANGED <<kind, viewer, limit, docs, running, now, page, seen, started, writes,
                 lost>>

(* No document of B is newer than one of A. *)
Before(A, B) == \A i \in A, j \in B : docs[i].at >= docs[j].at

(* Broken variant: the first page is skipped twice. *)
PagesSkipAhead(S) ==
  {P \in SUBSET S : \E skipped \in SUBSET (S \ P) :
     /\ Cardinality(skipped) = Least(page * limit, Cardinality(S))
     /\ Cardinality(P) = Least(limit, Cardinality(S \ skipped))
     /\ Before(skipped, S \ skipped) /\ Before(P, S \ (skipped \cup P))}

(* sort({ createdAt: -1 }).skip((page - 1) * limit).limit(limit): documents of the
   same millisecond come in any order, in another one for the next page. *)
Pages(S) ==
  {P \in SUBSET S : \E skipped \in SUBSET (S \ P) :
     /\ Cardinality(skipped) = Least((page - 1) * limit, Cardinality(S))
     /\ Cardinality(P) = Least(limit, Cardinality(S \ skipped))
     /\ Before(skipped, S \ skipped) /\ Before(P, S \ (skipped \cup P))}

ReadPage ==
  /\ running /\ kind \in ListKind /\ answers # <<>>
  /\ \E rows \in Pages(Found(Queries[1])) :
       /\ seen' = seen \cup rows
       /\ page' = IF Cardinality(rows) = limit THEN page + 1 ELSE 0
  /\ answers' = <<>>
  /\ UNCHANGED <<kind, viewer, limit, docs, running, now, started, writes, lost>>

-----------------------------------------------------------------------------
(* The writers: message and session handlers, user and entity requests, the
   audit log.  Only collections the report reads are written here, and only tags
   its filters look at are kept: the others change none of its answers. *)

Read(coll) == LET q == Queries IN \E n \in DOMAIN q : q[n].coll = coll
TagsRead   == LET q == Queries IN UNION {q[n].has \cup q[n].lacks : n \in DOMAIN q}

(* What documents are created with; "mine" and "old" are added to it.  An entity
   without a type of these three is the system's or a custom one; a person of role
   USER is created registered, or invited with a phone. *)
Kinds(coll) ==
  CASE coll = "messages" -> {{}, {"external", "inbound"}, {"inbound"}, {"pending"}}
    [] coll = "users"    ->
         {t \in SUBSET {"user", "phone", "registered"} :
            "user" \in t => t \cap {"phone", "registered"} # {}}
    [] coll = "entities" -> {{"entity"}, {"company"}, {"department"}, {}}
    [] OTHER             -> {{}}

Noted(removal) ==
  /\ running => writes < MaxWrites
  /\ writes' = IF running THEN writes + 1 ELSE writes
  /\ lost' = IF running /\ removal THEN lost + 1 ELSE lost
  /\ UNCHANGED <<kind, viewer, limit, running, answers, now, page, seen, started>>

Insert(coll, tags) ==
  /\ Len(docs) < MaxDocs[kind]
  /\ Read(coll)
  /\ \E at \in IF kind \in ListKind THEN Stamps ELSE {0} :
       docs' = Append(docs, [coll |-> coll, tags |-> tags \cap TagsRead, at |-> at])
  /\ Noted(FALSE)

Retag(i, tags) == docs' = [docs EXCEPT ![i].tags = tags \cap TagsRead]

(* The tags own are replaced by the others. *)
Exchange(i, own, tags) == Retag(i, (docs[i].tags \ own) \cup tags)

(* An acknowledgement, a client that becomes ready or leaves, a change of the
   registration. *)
ChangeStatus(i) ==
  /\ \/ /\ docs[i].coll = "messages"
        /\ \E st \in {{}, {"failed"}, {"pending"}} :
             Exchange(i, {"failed", "pending"}, st)
     \/ /\ docs[i].coll = "sessions"
        /\ \E st \in SUBSET {"ready"} : Exchange(i, {"ready"}, st)
     \/ /\ docs[i].coll = "users"
        /\ \E st \in SUBSET {"registered"} : Exchange(i, {"registered"}, st)
  /\ docs' # docs
  /\ Noted(FALSE)

(* createSession gives the session it finds the entities of its caller. *)
TouchSession(i) ==
  /\ docs[i].coll = "sessions"
  /\ \E mine \in SUBSET {"mine"} : Exchange(i, {"mine"}, mine)
  /\ docs' # docs
  /\ Noted(FALSE)

(* PATCH users/:id sets or clears the role and the phone in one write. *)
UpdateUser(i) ==
  /\ docs[i].coll = "users"
  /\ \E new \in SUBSET {"user", "phone"} :
       /\ Exchange(i, {"user", "phone"}, new)
       /\ docs' # docs
       /\ Noted("user" \in docs[i].tags /\ "user" \notin new)

(* PATCH entities/:id changes the type. *)
UpdateEntity(i) ==
  /\ docs[i].coll = "entities"
  /\ \E type \in Kinds("entities") :
       Exchange(i, {"entity", "company", "department"}, type)
  /\ docs' # docs
  /\ Noted(FALSE)

SoftDelete(i) ==
  /\ docs[i].coll \in {"users", "entities"}
  /\ "inactive" \notin docs[i].tags
  /\ Retag(i, docs[i].tags \cup {"inactive"})
  /\ Noted(TRUE)

Next ==
  \/ StartReport \/ Count \/ FinishReport \/ ReportFails
  \/ ReadActivity \/ FeedFails \/ CountListed \/ ReadPage
  \/ \E coll \in Coll : \E tags \in Kinds(coll), mine \in SUBSET {"mine"} :
       \/ Insert(coll, tags \cup mine)
       \/ /\ ~running /\ \A i \in DOMAIN docs : "old" \in docs[i].tags
          /\ Insert(coll, tags \cup mine \cup {"old"})
  \/ \E i \in DOMAIN docs :
       \/ ChangeStatus(i) \/ TouchSession(i) \/ UpdateUser(i) \/ UpdateEntity(i)
       \/ SoftDelete(i)

Spec == Init /\ [][Next]_vars

-----------------------------------------------------------------------------
(* The numbers of a report that has read everything *)

(* <<p, w>>: answer p counts a part of what answer w counts. *)
Parts ==
  CASE kind = "entityStats"  -> {<<5, 6>>, <<7, 6>>}
    [] kind = "messageStats" -> {<<2, 1>>, <<3, 1>>, <<4, 1>>}
    [] kind = "userStats"    -> {<<2, 1>>}
    [] kind \in {"systemHealth", "sessionHealth", "errorRate"} -> {<<2, 1>>}
    [] OTHER -> {}

(* Percentages (registration rate, error rate, session health) are a part over
   a whole read by another query: they pass 100 by no more than was written in
   between. *)
PartsWithinWhole ==
  \A p \in Parts : answers[p[1]] <= answers[p[2]] + writes

(* Every message is inbound or outbound: nothing counted in the total, which is
   read first, is missing from the two. *)
SplitCoversTotal ==
  kind = "messageStats" =>
    /\ answers[1] <= Sum2(3, 4)
    /\ Sum2(3, 4) <= answers[1] + writes

(* No entity is counted under two types: the counts by type are a part of the
   total, which has the system's and the custom entities as well. *)
TypesAddUp ==
  kind = "entityStats" =>
    answers[2] + answers[3] + answers[4] <= answers[1] + writes

(* "vs last week": what was there a week ago and still is counts in both
   numbers, so a decrease is shown only when, between the two queries, something
   was removed or a user got another role, never because of the week before. *)
DecreaseIsARace ==
  /\ kind = "entityStats" => answers[8] <= answers[9] + lost
  /\ kind = "userStats"   => answers[3] <= answers[4] + lost

(* What is found fits into the feed, the slice cuts nothing off, unless no item
   was asked for: then all audit logs are read and none is shown.  The feed is
   longer than asked for only by the fallback item of such a request. *)
FeedFits ==
  kind = "activity" =>
    /\ limit > 0 => FeedSum <= limit
    /\ Shown > limit => limit = 0 /\ FeedSum = 0

(* The figures of one dashboard or metric belong together, whatever is written
   while it is put together: they differ by no more than those writes. *)
ReportsAddUp ==
  running /\ kind \notin ListKind /\ Done =>
    /\ PartsWithinWhole /\ SplitCoversTotal /\ TypesAddUp
    /\ DecreaseIsARace /\ FeedFits

(* A client that reads page after page until one comes short has read every
   document that was there when it began, still is, and shares its millisecond
   with no other of the listing, whatever the order of those that do and however
   many are added while it reads; users can be skipped when one is removed. *)
PagingMissesNothing ==
  running /\ kind \in ListKind /\ page = 0 /\ lost = 0 =>
    LET listed == Found(Queries[1]) IN
      \A i \in listed :
        i <= started /\ (\A j \in listed \ {i} : docs[j].at # docs[i].at) =>
          i \in seen

(* The pages of a listing have all of it ("total" and "totalPages" of the answer):
   false of documents created in one millisecond. *)
PagingReadsAll ==
  running /\ kind \in ListKind /\ page = 0 /\ lost = 0 =>
    \A i \in Found(Queries[1]) : i <= started => i \in seen

-----------------------------------------------------------------------------
(* collectLatencyMetrics: the index of the 95th percentile among n latencies. *)
P95Index(n) == (95 * n + 99) \div 100 - 1
=============================================================================
