----------------------------- MODULE SessionHealth -----------------------------
(***************************************************************************)
(* WhatsAppHealthCheckService: the cron round over the session documents,  *)
(* the manual checks, the streak of failures kept in the check records and *)
(* the alerts raised and resolved from it.  Cron rounds and manual checks  *)
(* of one session run at the same time and interleave at every await.      *)
(*                                                                         *)
(* The session documents belong to WhatsAppService; here they change on    *)
(* their own, within what that service can write.                          *)
(***************************************************************************)
EXTENDS Naturals, FiniteSets

CONSTANTS
  Session,      \* session documents
  Cron, Manual, \* slots of scheduled rounds and of manual checks
  Alert,        \* identities of alert documents (bounds their number)
  None,         \* no session, no alert
  EnvStatus,    \* bound: the statuses sessions take in this instance
  Ageing,       \* whether connections grow older than a day, codes stale
  Threshold,    \* CONSECUTIVE_FAILURE_THRESHOLD
  MaxChecks,    \* bound: check records that are created
  MaxCrashes,   \* bound: deaths of the process
  MaxDbFaults   \* bound: database calls that throw

SessionStatus == {"connecting", "qr_required", "authenticated", "ready",
                  "disconnected", "failed"}

ASSUME HealthAssumption ==
  /\ Cron \cap Manual = {}
  /\ None \notin Session \cup Alert
  /\ EnvStatus \subseteq SessionStatus
  /\ Ageing \in BOOLEAN
  /\ Threshold \in Nat \ {0}
  /\ MaxChecks \in Nat /\ MaxCrashes \in Nat /\ MaxDbFaults \in Nat

VARIABLES
  doc,       \* doc[s]: the session document
  last,      \* last[s]: the check record of s with the greatest checkedAt
  failures,  \* failures[s]: how many FAILED records of s are stored
  alerts,    \* the alert documents
  chk,       \* program counter and locals of each slot
  round,     \* round[k]: documents a cron round has selected and not reached
  clock,     \* source of checkedAt
  crashes,
  dbFaults

vars == <<doc, last, failures, alerts, chk, round, clock, crashes, dbFaults>>

Slot == Cron \cup Manual

(* phone: phoneNumber is set, which handleReady does first.  longAgo: what
   performHealthCheck measures is above its limit (connectedAt of a day ago, or
   a QR code of ten minutes ago). *)
Doc == {d \in [status : SessionStatus, phone : BOOLEAN, longAgo : BOOLEAN] :
          /\ d.status = "connecting" => ~d.phone
          /\ d.status = "ready" => d.phone
          /\ d.longAgo => d.phone \/ d.status = "qr_required"}

Verdict == {"success", "warning", "failed"}
Label   == {"idle", "next", "read", "save", "find", "bump", "create", "flag",
            "query", "resolve", "rescue"}
Blank   == [status |-> "connecting", phone |-> FALSE, longAgo |-> FALSE]
Idle    == [pc |-> "idle", sess |-> None, doc |-> Blank, verdict |-> "success",
            prev |-> 0, streak |-> 0, seq |-> 0, alert |-> None, seen |-> 0,
            open |-> {}]

TypeOK ==
  /\ doc \in [Session -> Doc]
  /\ last \in [Session -> [verdict : Verdict, streak : Nat, seq : Nat,
                           alertTriggered : BOOLEAN]]
  /\ failures \in [Session -> Nat]
  /\ alerts \in [Alert -> [sess : Session \cup {None},
                           status : {"none", "open", "resolved"}, count : Nat]]
  /\ chk \in [Slot -> [pc : Label, sess : Session \cup {None}, doc : Doc,
                       verdict : Verdict, prev : Nat, streak : Nat, seq : Nat,
                       alert : Alert \cup {None}, seen : Nat,
                       open : SUBSET Alert]]
  /\ round \in [Cron -> SUBSET (Session \X Doc)]
  /\ clock \in Nat /\ crashes \in Nat /\ dbFaults \in Nat

Init ==
  /\ doc = [s \in Session |-> Blank]
  /\ last = [s \in Session |-> [verdict |-> "success", streak |-> 0, seq |-> 0,
                                alertTriggered |-> FALSE]]
  /\ failures = [s \in Session |-> 0]
  /\ alerts = [a \in Alert |-> [sess |-> None, status |-> "none", count |-> 0]]
  /\ chk = [k \in Slot |-> Idle]
  /\ round = [k \in Cron |-> {}]
  /\ clock = 0
  /\ crashes = 0
  /\ dbFaults = 0

-----------------------------------------------------------------------------
(* The result of performHealthCheck on the document it is given. *)
PerformHealthCheck(d) ==
  CASE d.status \in {"disconnected", "failed"} -> "failed"
    [] d.status \notin {"disconnected", "failed"} /\ d.longAgo -> "warning"
    [] OTHER -> "success"

OpenAlerts(s) == {a \in Alert : alerts[a].sess = s /\ alerts[a].status = "open"}

Goto(k, label) == chk' = [chk EXCEPT ![k].pc = label]

(* A check is over: a round goes on, a manual check returns. *)
Done(k) == chk' = [chk EXCEPT ![k] =
             [Idle EXCEPT !.pc = IF k \in Cron THEN "next" ELSE "idle"]]

(* checkSessionHealth rejects: a round is over, its loop has no catch. *)
Reject(k) ==
  /\ chk' = [chk EXCEPT ![k] = Idle]
  /\ round' = [c \in Cron |-> IF c = k THEN {} ELSE round[c]]

(* Broken variant: the flag is stored before there is an alert. *)
NewRecordFlagged(verdict, streak, seq) ==
  [verdict |-> verdict, streak |-> streak, seq |-> seq,
   alertTriggered |-> streak >= Threshold]

NewRecord(verdict, streak, seq) ==
  [verdict |-> verdict, streak |-> streak, seq |-> seq, alertTriggered |-> FALSE]

(* A record becomes the last one if its checkedAt is the greatest. *)
Store(s, verdict, streak, seq) ==
  /\ last' = [last EXCEPT ![s] =
       IF seq > @.seq THEN NewRecord(verdict, streak, seq) ELSE @]
  /\ failures' = [failures EXCEPT ![s] =
       IF verdict = "failed" THEN @ + 1 ELSE @]

-----------------------------------------------------------------------------
(* What WhatsAppService and time do to a session document. *)
SessionChanges(s) ==
  /\ \E d \in Doc :
       /\ d.status \in EnvStatus \ {"connecting"}
       /\ doc[s].phone => d.phone
       /\ d.phone => doc[s].phone \/ d.status = "ready"
       /\ d.longAgo => Ageing
       /\ doc' = [doc EXCEPT ![s] = d]
  /\ UNCHANGED <<last, failures, alerts, chk, round, clock, crashes, dbFaults>>

(* performScheduledHealthCheck reads its documents once. *)
StartRound(k) ==
  /\ chk[k].pc = "idle"
  /\ round' = [round EXCEPT ![k] =
       {<<s, doc[s]>> : s \in {t \in Session :
                                 doc[t].status \in {"ready", "connecting"}}}]
  /\ Goto(k, "next")
  /\ UNCHANGED <<doc, last, failures, alerts, clock, crashes, dbFaults>>

RoundNext(k) ==
  /\ chk[k].pc = "next"
  /\ \/ \E sd \in round[k] :
          /\ round' = [round EXCEPT ![k] = @ \ {sd}]
          /\ chk' = [chk EXCEPT ![k].pc = "read", ![k].sess = sd[1],
                                ![k].doc = sd[2]]
     \/ round[k] = {} /\ Goto(k, "idle") /\ UNCHANGED round
  /\ UNCHANGED <<doc, last, failures, alerts, clock, crashes, dbFaults>>

(* triggerManualHealthCheck, triggerManualHealthCheckByUserId *)
StartManual(k, s) ==
  /\ chk[k].pc = "idle"
  /\ chk' = [chk EXCEPT ![k].pc = "read", ![k].sess = s, ![k].doc = doc[s]]
  /\ UNCHANGED <<doc, last, failures, alerts, round, clock, crashes, dbFaults>>

-----------------------------------------------------------------------------
(* checkSessionHealth *)

(* Broken variant: warnings lengthen the streak. *)
StreakCountsWarnings(verdict, prev) ==
  IF verdict # "success" THEN prev + 1 ELSE 0

Streak(verdict, prev) == IF verdict = "failed" THEN prev + 1 ELSE 0

(* The verdict, the previous record, and the new record's fields. *)
ReadLastCheck(k) ==
  /\ chk[k].pc = "read"
  /\ clock < MaxChecks
  /\ clock' = clock + 1
  /\ LET verdict == PerformHealthCheck(chk[k].doc)
         prev    == last[chk[k].sess].streak
     IN  chk' = [chk EXCEPT ![k].pc = "save", ![k].verdict = verdict,
                   ![k].prev = prev, ![k].seq = clock + 1,
                   ![k].streak = Streak(verdict, prev)]
  /\ UNCHANGED <<doc, last, failures, alerts, round, crashes, dbFaults>>

(* Broken variant: the threshold has to be exceeded. *)
AboveThreshold(k) == chk[k].streak > Threshold

AlertDue(k) == chk[k].streak >= Threshold

(* Broken variant: the new streak is taken for the previous one. *)
NewStreakEnded(k) == chk[k].verdict = "success" /\ chk[k].streak > 0

FailuresEnded(k) == chk[k].verdict = "success" /\ chk[k].prev > 0

(* A record without phoneNumber is refused by validation. *)
SaveCheck(k) ==
  /\ chk[k].pc = "save"
  /\ \/ /\ ~chk[k].doc.phone
        /\ Goto(k, "rescue")
        /\ UNCHANGED <<last, failures>>
     \/ /\ chk[k].doc.phone
        /\ Store(chk[k].sess, chk[k].verdict, chk[k].streak, chk[k].seq)
        /\ \/ AlertDue(k) /\ Goto(k, "find")
           \/ ~AlertDue(k) /\ FailuresEnded(k) /\ Goto(k, "query")
           \/ ~AlertDue(k) /\ ~FailuresEnded(k) /\ Done(k)
  /\ UNCHANGED <<doc, alerts, round, clock, crashes, dbFaults>>

(* Broken variant: a status the schema does not know. *)
RescueVerdictError == "error"

RescueVerdict == "failed"

(* The catch block stores a FAILED record with a streak of one; when that is
   refused too, the check rejects. *)
RescueCheck(k) ==
  /\ chk[k].pc = "rescue"
  /\ \/ /\ ~chk[k].doc.phone
        /\ Reject(k)
        /\ UNCHANGED <<last, failures, clock>>
     \/ /\ chk[k].doc.phone
        /\ clock' = clock + 1
        /\ Store(chk[k].sess, RescueVerdict, 1, clock + 1)
        /\ Done(k)
        /\ UNCHANGED round
  /\ UNCHANGED <<doc, alerts, crashes, dbFaults>>

-----------------------------------------------------------------------------
(* createHealthAlert, then the second save of the record *)

(* Broken variant: nobody looks for an open alert. *)
FindNoAlert(k) ==
  /\ chk[k].pc = "find"
  /\ Goto(k, "create")
  /\ UNCHANGED <<doc, last, failures, alerts, round, clock, crashes, dbFaults>>

FindOpenAlert(k) ==
  /\ chk[k].pc = "find"
  /\ \/ \E a \in OpenAlerts(chk[k].sess) :
          chk' = [chk EXCEPT ![k].pc = "bump", ![k].alert = a,
                             ![k].seen = alerts[a].count]
     \/ OpenAlerts(chk[k].sess) = {} /\ Goto(k, "create")
  /\ UNCHANGED <<doc, last, failures, alerts, round, clock, crashes, dbFaults>>

(* Broken variant: the document that was read is written back whole. *)
BumpWholeAlert(k) ==
  /\ chk[k].pc = "bump"
  /\ alerts' = [alerts EXCEPT ![chk[k].alert].count = chk[k].seen + 1,
                              ![chk[k].alert].status = "open"]
  /\ Goto(k, "flag")
  /\ UNCHANGED <<doc, last, failures, round, clock, crashes, dbFaults>>

(* save() writes the fields that were changed: the status is not one. *)
BumpAlert(k) ==
  /\ chk[k].pc = "bump"
  /\ alerts' = [alerts EXCEPT ![chk[k].alert].count = chk[k].seen + 1]
  /\ Goto(k, "flag")
  /\ UNCHANGED <<doc, last, failures, round, clock, crashes, dbFaults>>

(* Broken variant: the new alert is counted a second time. *)
CreateAlertThenBump(k) ==
  /\ chk[k].pc = "create"
  /\ \E a \in Alert :
       /\ alerts[a].status = "none"
       /\ alerts' = [alerts EXCEPT ![a] =
            [sess |-> chk[k].sess, status |-> "open", count |-> 1]]
  /\ Goto(k, "find")
  /\ UNCHANGED <<doc, last, failures, round, clock, crashes, dbFaults>>

CreateAlert(k) ==
  /\ chk[k].pc = "create"
  /\ \E a \in Alert :
       /\ alerts[a].status = "none"
       /\ alerts' = [alerts EXCEPT ![a] =
            [sess |-> chk[k].sess, status |-> "open", count |-> 1]]
  /\ Goto(k, "flag")
  /\ UNCHANGED <<doc, last, failures, round, clock, crashes, dbFaults>>

FlagCheck(k) ==
  /\ chk[k].pc = "flag"
  /\ last' = [last EXCEPT ![chk[k].sess].alertTriggered =
                @ \/ last[chk[k].sess].seq = chk[k].seq]
  /\ Done(k)
  /\ UNCHANGED <<doc, failures, alerts, round, clock, crashes, dbFaults>>

-----------------------------------------------------------------------------
(* resolveHealthAlerts *)

QueryOpenAlerts(k) ==
  /\ chk[k].pc = "query"
  /\ chk' = [chk EXCEPT ![k].pc = "resolve", ![k].open = OpenAlerts(chk[k].sess)]
  /\ UNCHANGED <<doc, last, failures, alerts, round, clock, crashes, dbFaults>>

ResolveNext(k) ==
  /\ chk[k].pc = "resolve"
  /\ \/ \E a \in chk[k].open :
          /\ alerts' = [alerts EXCEPT ![a].status = "resolved"]
          /\ chk' = [chk EXCEPT ![k].open = @ \ {a}]
     \/ chk[k].open = {} /\ Done(k) /\ UNCHANGED alerts
  /\ UNCHANGED <<doc, last, failures, round, clock, crashes, dbFaults>>

-----------------------------------------------------------------------------
(* Failures *)

(* createHealthAlert and resolveHealthAlerts swallow what they catch: the
   record is flagged all the same.  Elsewhere the catch block takes over. *)
DbError(k) ==
  /\ dbFaults < MaxDbFaults
  /\ dbFaults' = dbFaults + 1
  /\ \/ chk[k].pc \in {"read", "save", "flag"} /\ Goto(k, "rescue")
                                               /\ UNCHANGED round
     \/ chk[k].pc \in {"find", "bump", "create"} /\ Goto(k, "flag")
                                                 /\ UNCHANGED round
     \/ chk[k].pc \in {"query", "resolve"} /\ Done(k) /\ UNCHANGED round
     \/ chk[k].pc = "rescue" /\ Reject(k)
  /\ UNCHANGED <<doc, last, failures, alerts, clock, crashes>>

Crash ==
  /\ crashes < MaxCrashes
  /\ crashes' = crashes + 1
  /\ chk' = [k \in Slot |-> Idle]
  /\ round' = [k \in Cron |-> {}]
  /\ UNCHANGED <<doc, last, failures, alerts, clock, dbFaults>>

Check(k) ==
  \/ ReadLastCheck(k) \/ SaveCheck(k) \/ RescueCheck(k)
  \/ FindOpenAlert(k) \/ BumpAlert(k) \/ CreateAlert(k) \/ FlagCheck(k)
  \/ QueryOpenAlerts(k) \/ ResolveNext(k)

Next ==
  \/ \E s \in Session : SessionChanges(s)
  \/ \E k \in Cron : StartRound(k) \/ RoundNext(k)
  \/ \E k \in Manual, s \in Session : StartManual(k, s)
  \/ \E k \in Slot : Check(k) \/ DbError(k)
  \/ Crash

Spec == Init /\ [][Next]_vars

-----------------------------------------------------------------------------
(* Quiet(s): no check of s is under way. *)
Quiet(s) == \A k \in Slot : chk[k].sess # s

(* An alert says that the session failed Threshold checks.  However checks
   overlap, and whatever errors they meet, that many FAILED records are
   stored: a streak read before another check's record was stored may be out
   of date but never counts a failure that did not happen. *)
AlertBackedByFailures ==
  \A a \in Alert :
    alerts[a].status # "none" => failures[alerts[a].sess] >= Threshold

(* Updates of occurrenceCount can be lost (read, then set) but no failure is
   counted twice, by one check or by two. *)
OccurrencesNotOvercounted ==
  \A a \in Alert :
    alerts[a].status # "none" =>
      alerts[a].count + Threshold <= failures[alerts[a].sess] + 1

(* A check that read an alert while it was open and saves it after another
   check resolved it does not open it again. *)
ResolvedStaysResolved ==
  [][\A a \in Alert :
       alerts[a].status = "resolved" => alerts'[a].status = "resolved"]_vars

(* alertTriggered, which the user statistics report, is backed by an alert as
   long as the database answers (createHealthAlert swallows its errors). *)
FlaggedCheckHasAlert ==
  dbFaults = 0 =>
    \A s \in Session :
      last[s].alertTriggered =>
        \E a \in Alert : alerts[a].sess = s /\ alerts[a].status # "none"

(* "Check if there's already an open alert for this session" (createHealthAlert). *)
AtMostOneOpenAlert ==
  \A s \in Session : Cardinality(OpenAlerts(s)) <= 1

(* "If check succeeded after failures, resolve any open alerts": once the
   check that stored the last record is over, a session whose last check
   succeeded has no open alert. *)
RecoveredSessionHasNoOpenAlert ==
  \A s \in Session :
    Quiet(s) /\ last[s].verdict = "success" => OpenAlerts(s) = {}

(* "Create an alert when consecutive failures threshold is reached". *)
SustainedFailureHasOpenAlert ==
  \A s \in Session :
    Quiet(s) /\ last[s].streak >= Threshold => OpenAlerts(s) # {}

(* "Get all active WhatsApp sessions", then check each: a round ends when it
   has reached every session it selected. *)
RoundReachesEverySession ==
  [][\A k \in Cron :
       chk[k].pc # "idle" /\ chk'[k].pc = "idle" /\ crashes' = crashes =>
         round[k] = {}]_vars
=============================================================================
