-------------------------- MODULE SessionHealth_proofs --------------------------
(***************************************************************************)
(* Theorems about SessionHealth, for any sets of sessions, slots and       *)
(* alerts, any threshold and any bounds.                                   *)
(***************************************************************************)
EXTENDS SessionHealth, FiniteSetTheorems, TLAPS

CheckType == [pc : Label, sess : Session \cup {None}, doc : Doc,
              verdict : Verdict, prev : Nat, streak : Nat, seq : Nat,
              alert : Alert \cup {None}, seen : Nat, open : SUBSET Alert]

AlertType == [sess : Session \cup {None}, status : {"none", "open", "resolved"},
              count : Nat]

(* The locals of a slot that is not checking. *)
LEMMA IdleType == Idle \in CheckType
<1>1. Blank \in Doc
  BY DEF Blank, Doc, SessionStatus
<1> QED
  BY <1>1 DEF Idle, CheckType, Label, Verdict

(* A check that ends leaves its slot well typed. *)
LEMMA DoneType ==
  ASSUME TypeOK, NEW k \in Slot, Done(k)
  PROVE  chk' \in [Slot -> CheckType]
<1>1. \A l \in {"next", "idle"} : [Idle EXCEPT !.pc = l] \in CheckType
  BY IdleType DEF CheckType, Label
<1> QED
  BY <1>1 DEF Done, TypeOK, CheckType

(* So does a step to another label. *)
LEMMA GotoType ==
  ASSUME chk \in [Slot -> CheckType], NEW k \in Slot, NEW l \in Label, Goto(k, l)
  PROVE  chk' \in [Slot -> CheckType]
<1>1. [chk[k] EXCEPT !.pc = l] \in CheckType
  BY DEF CheckType
<1> QED
  BY <1>1 DEF Goto

(* Storing a record keeps the records and their count well typed. *)
LEMMA StoreType ==
  ASSUME TypeOK, NEW s, NEW v \in Verdict, NEW streak \in Nat, NEW seq \in Nat,
         Store(s, v, streak, seq)
  PROVE  /\ last' \in [Session -> [verdict : Verdict, streak : Nat, seq : Nat,
                                   alertTriggered : BOOLEAN]]
         /\ failures' \in [Session -> Nat]
<1>1. NewRecord(v, streak, seq) \in [verdict : Verdict, streak : Nat, seq : Nat,
                                     alertTriggered : BOOLEAN]
  BY DEF NewRecord
<1>2. /\ last \in [Session -> [verdict : Verdict, streak : Nat, seq : Nat,
                               alertTriggered : BOOLEAN]]
      /\ failures \in [Session -> Nat]
  BY DEF TypeOK
<1>3. \A n \in Nat : n + 1 \in Nat
  OBVIOUS
<1>4. failures' \in [Session -> Nat]
  BY <1>2, <1>3 DEF Store
<1> QED
  BY <1>1, <1>2, <1>4 DEF Store

(* The result of a check is one of the three the schema knows. *)
LEMMA CheckResult == \A d : PerformHealthCheck(d) \in Verdict
  BY DEF PerformHealthCheck, Verdict

(* The type invariant: every reachable state is well typed. *)
THEOREM TypeCorrect == Spec => []TypeOK
<1>1. Init => TypeOK
  BY IdleType DEF Init, TypeOK, CheckType, Verdict, Blank, Doc, SessionStatus
<1>2. TypeOK /\ [Next]_vars => TypeOK'
  <2> SUFFICES ASSUME TypeOK, [Next]_vars PROVE TypeOK'
    OBVIOUS
  <2>a. Label = {"idle", "next", "read", "save", "find", "bump", "create", "flag",
                 "query", "resolve", "rescue"}
    BY DEF Label
  <2>b. chk \in [Slot -> CheckType]
    BY DEF TypeOK, CheckType
  <2>d. \A k \in Slot : chk[k] \in CheckType
    BY <2>b
  <2>e. alerts \in [Alert -> AlertType]
    BY DEF TypeOK, AlertType
  <2>c. Cron \subseteq Slot /\ Manual \subseteq Slot
    BY DEF Slot
  <2>1. ASSUME NEW s \in Session, SessionChanges(s) PROVE TypeOK'
    BY <2>1 DEF SessionChanges, TypeOK
  <2>2. ASSUME NEW k \in Cron, StartRound(k) PROVE TypeOK'
    <3>1. chk' \in [Slot -> CheckType]
      BY <2>2, <2>a, <2>b, <2>c, GotoType DEF StartRound
    <3>2. round' \in [Cron -> SUBSET (Session \X Doc)]
      BY <2>2 DEF StartRound, TypeOK
    <3> QED
      BY <2>2, <3>1, <3>2 DEF StartRound, TypeOK, CheckType
  <2>3. ASSUME NEW k \in Cron, RoundNext(k) PROVE TypeOK'
    <3>1. CASE round[k] = {} /\ Goto(k, "idle") /\ UNCHANGED round
      <4>1. chk' \in [Slot -> CheckType]
        BY <3>1, <2>a, <2>b, <2>c, GotoType
      <4> QED
        BY <2>3, <3>1, <4>1 DEF RoundNext, TypeOK, CheckType
    <3>2. CASE \E sd \in round[k] :
                 /\ round' = [round EXCEPT ![k] = round[k] \ {sd}]
                 /\ chk' = [chk EXCEPT ![k].pc = "read", ![k].sess = sd[1],
                                       ![k].doc = sd[2]]
      <4>1. PICK sd \in Session \X Doc :
              /\ round' = [round EXCEPT ![k] = round[k] \ {sd}]
              /\ chk' = [chk EXCEPT ![k].pc = "read", ![k].sess = sd[1],
                                    ![k].doc = sd[2]]
        BY <3>2 DEF TypeOK
      <4>2. chk' \in [Slot -> CheckType]
        BY <4>1, <2>a, <2>b, <2>c DEF CheckType
      <4>3. round' \in [Cron -> SUBSET (Session \X Doc)]
        BY <4>1 DEF TypeOK
      <4> QED
        BY <2>3, <4>2, <4>3 DEF RoundNext, TypeOK, CheckType
    <3> QED
      BY <2>3, <3>1, <3>2 DEF RoundNext
  <2>4. ASSUME NEW k \in Manual, NEW s \in Session, StartManual(k, s)
        PROVE  TypeOK'
    <3>1. doc[s] \in Doc
      BY DEF TypeOK
    <3>2. chk' \in [Slot -> CheckType]
      BY <2>4, <3>1, <2>a, <2>b, <2>c DEF StartManual, CheckType
    <3> QED
      BY <2>4, <3>2 DEF StartManual, TypeOK, CheckType
  <2>5. ASSUME NEW k \in Slot, ReadLastCheck(k) PROVE TypeOK'
    <3>1. chk[k].sess \in Session \cup {None} /\ clock + 1 \in Nat
      BY <2>b DEF TypeOK, CheckType
    <3>2. last[chk[k].sess].streak \in Nat
      BY <2>5, <3>1 DEF ReadLastCheck, TypeOK
    <3> DEFINE verdict == PerformHealthCheck(chk[k].doc)
               streak  == Streak(verdict, last[chk[k].sess].streak)
    <3>3. verdict \in Verdict
      BY CheckResult
    <3>4. streak \in Nat
      BY <3>2 DEF Streak
    <3>5. chk' = [chk EXCEPT ![k].pc = "save", ![k].verdict = verdict,
                    ![k].prev = last[chk[k].sess].streak, ![k].seq = clock + 1,
                    ![k].streak = streak]
      BY <2>5 DEF ReadLastCheck
    <3> HIDE DEF verdict, streak
    <3>6. [chk[k] EXCEPT !.pc = "save", !.verdict = verdict,
                !.prev = last[chk[k].sess].streak, !.seq = clock + 1,
                !.streak = streak] \in CheckType
      BY <3>1, <3>2, <3>3, <3>4, <2>d DEF CheckType, Label
    <3>7. chk' \in [Slot -> CheckType]
      BY <3>5, <3>6, <2>b
    <3> QED
      BY <2>5, <3>1, <3>7 DEF ReadLastCheck, TypeOK, CheckType
  <2>6. ASSUME NEW k \in Slot, SaveCheck(k) PROVE TypeOK'
    <3>1. chk' \in [Slot -> CheckType]
      BY <2>6, <2>a, <2>b, GotoType, DoneType DEF SaveCheck
    <3>2. chk[k].verdict \in Verdict /\ chk[k].streak \in Nat /\ chk[k].seq \in Nat
      BY <2>b DEF CheckType
    <3>3. /\ last' \in [Session -> [verdict : Verdict, streak : Nat, seq : Nat,
                                    alertTriggered : BOOLEAN]]
          /\ failures' \in [Session -> Nat]
      BY <2>6, <3>2, StoreType DEF SaveCheck, TypeOK
    <3> QED
      BY <2>6, <3>1, <3>3 DEF SaveCheck, TypeOK, CheckType
  <2>7. ASSUME NEW k \in Slot, RescueCheck(k) PROVE TypeOK'
    <3>1. CASE Reject(k) /\ UNCHANGED <<last, failures, clock>>
      <4>1. chk' \in [Slot -> CheckType]
        BY <3>1, <2>b, IdleType DEF Reject
      <4>2. round' \in [Cron -> SUBSET (Session \X Doc)]
        BY <3>1 DEF Reject, TypeOK
      <4> QED
        BY <2>7, <3>1, <4>1, <4>2 DEF RescueCheck, TypeOK, CheckType
    <3>2. CASE /\ clock' = clock + 1
               /\ Store(chk[k].sess, RescueVerdict, 1, clock + 1)
               /\ Done(k)
               /\ UNCHANGED round
      <4>1. chk' \in [Slot -> CheckType]
        BY <3>2, DoneType
      <4>2. RescueVerdict \in Verdict /\ 1 \in Nat /\ clock + 1 \in Nat
        BY DEF RescueVerdict, Verdict, TypeOK
      <4>3. /\ last' \in [Session -> [verdict : Verdict, streak : Nat, seq : Nat,
                                      alertTriggered : BOOLEAN]]
            /\ failures' \in [Session -> Nat]
        BY <3>2, <4>2, StoreType
      <4> QED
        BY <2>7, <3>2, <4>1, <4>2, <4>3 DEF RescueCheck, TypeOK, CheckType
    <3> QED
      BY <2>7, <3>1, <3>2 DEF RescueCheck
  <2>8. ASSUME NEW k \in Slot, FindOpenAlert(k) PROVE TypeOK'
    <3>1. \A a \in Alert : alerts[a].count \in Nat
      BY DEF TypeOK
    <3>2. chk' \in [Slot -> CheckType]
      <4>1. CASE Goto(k, "create")
        BY <4>1, <2>a, <2>b, GotoType
      <4>2. CASE \E a \in OpenAlerts(chk[k].sess) :
                   chk' = [chk EXCEPT ![k].pc = "bump", ![k].alert = a,
                                      ![k].seen = alerts[a].count]
        <5>1. PICK a \in Alert :
                chk' = [chk EXCEPT ![k].pc = "bump", ![k].alert = a,
                                   ![k].seen = alerts[a].count]
          BY <4>2 DEF OpenAlerts
        <5>2. [chk[k] EXCEPT !.pc = "bump", !.alert = a,
                             !.seen = alerts[a].count] \in CheckType
          BY <3>1, <2>d DEF CheckType, Label
        <5> QED
          BY <5>1, <5>2, <2>b
      <4> QED
        BY <2>8, <4>1, <4>2 DEF FindOpenAlert
    <3> QED
      BY <2>8, <3>2 DEF FindOpenAlert, TypeOK, CheckType
  <2>9. ASSUME NEW k \in Slot, BumpAlert(k) PROVE TypeOK'
    <3>1. chk' \in [Slot -> CheckType]
      BY <2>9, <2>a, <2>b, GotoType DEF BumpAlert
    <3>2. chk[k].seen + 1 \in Nat
      BY <2>b DEF CheckType
    <3>3. alerts' \in [Alert -> AlertType]
      <4>1. \A x \in AlertType : [x EXCEPT !.count = chk[k].seen + 1] \in AlertType
        BY <3>2 DEF AlertType
      <4> QED
        BY <2>9, <4>1, <2>e DEF BumpAlert
    <3> QED
      BY <2>9, <3>1, <3>3 DEF BumpAlert, TypeOK, CheckType, AlertType
  <2>10. ASSUME NEW k \in Slot, CreateAlert(k) PROVE TypeOK'
    <3>1. chk' \in [Slot -> CheckType]
      BY <2>10, <2>a, <2>b, GotoType DEF CreateAlert
    <3>2. chk[k].sess \in Session \cup {None}
      BY <2>b DEF CheckType
    <3> QED
      BY <2>10, <3>1, <3>2 DEF CreateAlert, TypeOK, CheckType
  <2>11. ASSUME NEW k \in Slot, FlagCheck(k) PROVE TypeOK'
    <3>1. chk' \in [Slot -> CheckType]
      BY <2>11, DoneType DEF FlagCheck
    <3>2. last' \in [Session -> [verdict : Verdict, streak : Nat, seq : Nat,
                                alertTriggered : BOOLEAN]]
      <4>1. \A s \in Session :
              (last[s].alertTriggered \/ last[s].seq = chk[k].seq) \in BOOLEAN
        OBVIOUS
      <4>2. last \in [Session -> [verdict : Verdict, streak : Nat, seq : Nat,
                                  alertTriggered : BOOLEAN]]
        BY DEF TypeOK
      <4> QED
        BY <2>11, <4>1, <4>2 DEF FlagCheck
    <3> QED
      BY <2>11, <3>1, <3>2 DEF FlagCheck, TypeOK, CheckType
  <2>12. ASSUME NEW k \in Slot, QueryOpenAlerts(k) PROVE TypeOK'
    <3>1. OpenAlerts(chk[k].sess) \in SUBSET Alert
      BY DEF OpenAlerts
    <3>2. [chk[k] EXCEPT !.pc = "resolve",
                         !.open = OpenAlerts(chk[k].sess)] \in CheckType
      BY <3>1, <2>d DEF CheckType, Label
    <3>3. chk' \in [Slot -> CheckType]
      BY <2>12, <3>2, <2>b DEF QueryOpenAlerts
    <3> QED
      BY <2>12, <3>3 DEF QueryOpenAlerts, TypeOK, CheckType
  <2>13. ASSUME NEW k \in Slot, ResolveNext(k) PROVE TypeOK'
    <3>1. CASE chk[k].open = {} /\ Done(k) /\ UNCHANGED alerts
      BY <2>13, <3>1, DoneType DEF ResolveNext, TypeOK, CheckType
    <3>2. CASE \E a \in chk[k].open :
                 /\ alerts' = [alerts EXCEPT ![a].status = "resolved"]
                 /\ chk' = [chk EXCEPT ![k].open = chk[k].open \ {a}]
      <4>1. PICK a \in Alert :
              /\ alerts' = [alerts EXCEPT ![a].status = "resolved"]
              /\ chk' = [chk EXCEPT ![k].open = chk[k].open \ {a}]
        BY <3>2, <2>b DEF CheckType
      <4>2. chk' \in [Slot -> CheckType]
        BY <4>1, <2>b DEF CheckType
      <4>3. \A x \in AlertType : [x EXCEPT !.status = "resolved"] \in AlertType
        BY DEF AlertType
      <4>4. alerts' \in [Alert -> AlertType]
        BY <4>1, <4>3, <2>e
      <4> QED
        BY <2>13, <4>2, <4>4 DEF ResolveNext, TypeOK, CheckType, AlertType
    <3> QED
      BY <2>13, <3>1, <3>2 DEF ResolveNext
  <2>14. ASSUME NEW k \in Slot, DbError(k) PROVE TypeOK'
    <3>1. chk' \in [Slot -> CheckType]
      BY <2>14, <2>a, <2>b, GotoType, DoneType, IdleType DEF DbError, Reject
    <3>2. round' \in [Cron -> SUBSET (Session \X Doc)]
      BY <2>14 DEF DbError, Reject, TypeOK
    <3> QED
      BY <2>14, <3>1, <3>2 DEF DbError, TypeOK, CheckType
  <2>15. CASE Crash
    <3>1. chk' \in [Slot -> CheckType]
      BY <2>15, IdleType DEF Crash
    <3> QED
      BY <2>15, <3>1 DEF Crash, TypeOK, CheckType
  <2>16. CASE UNCHANGED vars
    BY <2>16 DEF vars, TypeOK
  <2> QED
    BY <2>1, <2>2, <2>3, <2>4, <2>5, <2>6, <2>7, <2>8, <2>9, <2>10, <2>11,
       <2>12, <2>13, <2>14, <2>15, <2>16 DEF Next, Check
<1> QED
  BY <1>1, <1>2, PTL DEF Spec

-----------------------------------------------------------------------------
(* What backs an alert.  A streak is read from the last record and stored later,
   so it may be out of date by then, but records are never deleted: it stays a
   lower bound of the failures stored, its own one excluded until the save. *)
BackedCheck(k) ==
  /\ chk[k].pc \notin {"idle", "next"} => chk[k].sess \in Session
  /\ chk[k].pc = "save" =>
       IF chk[k].verdict = "failed"
         THEN chk[k].streak <= failures[chk[k].sess] + 1
         ELSE chk[k].streak = 0
  /\ chk[k].pc \in {"find", "bump", "create"} =>
       failures[chk[k].sess] >= Threshold
  /\ chk[k].pc = "resolve" =>
       \A a \in chk[k].open : alerts[a].status # "none"

BackedAlert(a) ==
  alerts[a].status # "none" => /\ alerts[a].sess \in Session
                               /\ failures[alerts[a].sess] >= Threshold

StreakInv ==
  /\ \A s \in Session : last[s].streak <= failures[s]
  /\ \A k \in Slot : BackedCheck(k)
  /\ \A a \in Alert : BackedAlert(a)

(* The number of failures stored never falls. *)
LEMMA StoreGrows ==
  ASSUME TypeOK, NEW s \in Session, NEW v \in Verdict, NEW streak \in Nat, NEW seq,
         Store(s, v, streak, seq),
         v = "failed" => streak <= failures[s] + 1,
         v # "failed" => streak = 0,
         \A t \in Session : last[t].streak <= failures[t]
  PROVE  /\ \A t \in Session : failures'[t] \in Nat /\ failures[t] <= failures'[t]
         /\ \A t \in Session : last'[t].streak <= failures'[t]
         /\ streak <= failures'[s]
<1>1. /\ last \in [Session -> [verdict : Verdict, streak : Nat, seq : Nat,
                               alertTriggered : BOOLEAN]]
      /\ failures \in [Session -> Nat]
  BY DEF TypeOK
<1>2. failures' = [failures EXCEPT ![s] = IF v = "failed" THEN failures[s] + 1
                                                          ELSE failures[s]]
  BY DEF Store
<1>3. \A t \in Session : last'[t] \in {last[t], NewRecord(v, streak, seq)}
                         /\ (t # s => last'[t] = last[t])
  BY <1>1 DEF Store
<1>4. NewRecord(v, streak, seq).streak = streak
  BY DEF NewRecord
<1>5. \A t \in Session : failures'[t] \in Nat /\ failures[t] <= failures'[t]
  BY <1>1, <1>2
<1>6. streak <= failures'[s]
  BY <1>1, <1>2
<1> QED
  BY <1>1, <1>3, <1>4, <1>5, <1>6

LEMMA StreakStep == TypeOK /\ StreakInv /\ [Next]_vars => StreakInv'
<1> SUFFICES ASSUME TypeOK, StreakInv, [Next]_vars PROVE StreakInv'
  OBVIOUS
<1>a. Threshold \in Nat \ {0} /\ None \notin Session \cup Alert
  BY HealthAssumption
<1>b. /\ chk \in [Slot -> CheckType]
      /\ failures \in [Session -> Nat]
      /\ alerts \in [Alert -> AlertType]
      /\ \A s \in Session : last[s].streak \in Nat
  BY DEF TypeOK, CheckType, AlertType
<1>c. Cron \subseteq Slot /\ Manual \subseteq Slot
  BY DEF Slot
<1>d. \A k \in Slot : /\ chk[k].verdict \in Verdict
                      /\ chk[k].streak \in Nat
                      /\ chk[k].alert \in Alert \cup {None}
                      /\ chk[k].open \subseteq Alert
  BY <1>b DEF CheckType
<1>e. \A k \in Slot : Done(k) =>
        /\ chk'[k].pc \in {"idle", "next"}
        /\ \A m \in Slot \ {k} : chk'[m] = chk[m]
  BY <1>b DEF Done, Idle
<1>f. \A k \in Slot : Reject(k) =>
        /\ chk'[k].pc \in {"idle", "next"}
        /\ \A m \in Slot \ {k} : chk'[m] = chk[m]
  BY <1>b DEF Reject, Idle
<1>g. \A k \in Slot : \A l : Goto(k, l) =>
        /\ chk'[k].pc = l
        /\ chk'[k].sess = chk[k].sess
        /\ \A m \in Slot \ {k} : chk'[m] = chk[m]
  BY <1>b DEF Goto, CheckType
<1>h. ASSUME NEW k \in Slot, chk'[k] = chk[k],
             \A a \in Alert : alerts[a].status # "none" => alerts'[a].status # "none",
             \A s \in Session : failures'[s] \in Nat /\ failures[s] <= failures'[s]
      PROVE  BackedCheck(k)'
  <2>1. BackedCheck(k)
    BY DEF StreakInv
  <2> QED
    BY <2>1, <1>a, <1>b, <1>d, <1>h DEF BackedCheck
<1>i. ASSUME NEW a \in Alert, alerts'[a] = alerts[a],
             \A s \in Session : failures'[s] \in Nat /\ failures[s] <= failures'[s]
      PROVE  BackedAlert(a)'
  <2>1. BackedAlert(a)
    BY DEF StreakInv
  <2> QED
    BY <2>1, <1>a, <1>b, <1>i DEF BackedAlert
<1>j. UNCHANGED failures =>
        \A s \in Session : failures'[s] \in Nat /\ failures[s] <= failures'[s]
  BY <1>b
<1>k. \A k \in Slot : BackedCheck(k)
  BY DEF StreakInv
<1>1. ASSUME NEW s \in Session, SessionChanges(s) PROVE StreakInv'
  BY <1>1, <1>h, <1>i, <1>j DEF SessionChanges, StreakInv
<1>2. ASSUME NEW k \in Cron, StartRound(k) PROVE StreakInv'
  <2>1. UNCHANGED <<last, failures, alerts>>
    BY <1>2 DEF StartRound
  <2>2. BackedCheck(k)' /\ \A m \in Slot \ {k} : chk'[m] = chk[m]
    BY <1>2, <1>b, <1>c, <1>g DEF StartRound, BackedCheck
  <2> QED
    BY <2>1, <2>2, <1>h, <1>i, <1>j DEF StreakInv
<1>3. ASSUME NEW k \in Cron, RoundNext(k) PROVE StreakInv'
  <2>1. UNCHANGED <<last, failures, alerts>>
    BY <1>3 DEF RoundNext
  <2>2. BackedCheck(k)' /\ \A m \in Slot \ {k} : chk'[m] = chk[m]
    <3>1. CASE Goto(k, "idle")
      BY <3>1, <1>c, <1>g DEF BackedCheck
    <3>2. CASE \E sd \in round[k] :
                 chk' = [chk EXCEPT ![k].pc = "read", ![k].sess = sd[1],
                                    ![k].doc = sd[2]]
      <4>1. PICK sd \in Session \X Doc :
              chk' = [chk EXCEPT ![k].pc = "read", ![k].sess = sd[1],
                                 ![k].doc = sd[2]]
        BY <3>2 DEF TypeOK
      <4>2. sd[1] \in Session
        OBVIOUS
      <4>3. /\ chk'[k].pc = "read" /\ chk'[k].sess = sd[1]
            /\ \A m \in Slot \ {k} : chk'[m] = chk[m]
        BY <4>1, <1>b, <1>c DEF CheckType
      <4> QED
        BY <4>2, <4>3 DEF BackedCheck
    <3> QED
      BY <1>3, <3>1, <3>2 DEF RoundNext
  <2> QED
    BY <2>1, <2>2, <1>h, <1>i, <1>j DEF StreakInv
<1>4. ASSUME NEW k \in Manual, NEW s \in Session, StartManual(k, s)
      PROVE  StreakInv'
  <2>1. UNCHANGED <<last, failures, alerts>>
    BY <1>4 DEF StartManual
  <2>2. BackedCheck(k)' /\ \A m \in Slot \ {k} : chk'[m] = chk[m]
    <3>1. /\ chk'[k].pc = "read" /\ chk'[k].sess = s
          /\ \A m \in Slot \ {k} : chk'[m] = chk[m]
      BY <1>4, <1>b, <1>c DEF StartManual, CheckType
    <3> QED
      BY <3>1 DEF BackedCheck
  <2> QED
    BY <2>1, <2>2, <1>h, <1>i, <1>j DEF StreakInv
<1>5. ASSUME NEW k \in Slot, ReadLastCheck(k) PROVE StreakInv'
  <2>1. UNCHANGED <<last, failures, alerts>>
    BY <1>5 DEF ReadLastCheck
  <2>2. BackedCheck(k)' /\ \A m \in Slot \ {k} : chk'[m] = chk[m]
    <3> DEFINE v == PerformHealthCheck(chk[k].doc)
               n == Streak(v, last[chk[k].sess].streak)
    <3>1. chk[k].sess \in Session
      BY <1>5, <1>k DEF ReadLastCheck, BackedCheck
    <3>2. last[chk[k].sess].streak <= failures[chk[k].sess]
      BY <3>1 DEF StreakInv
    <3>3. IF v = "failed" THEN n <= failures[chk[k].sess] + 1 ELSE n = 0
      BY <3>1, <3>2, <1>b DEF Streak
    <3>4. chk' = [chk EXCEPT ![k].pc = "save", ![k].verdict = v,
                    ![k].prev = last[chk[k].sess].streak, ![k].seq = clock + 1,
                    ![k].streak = n]
      BY <1>5 DEF ReadLastCheck
    <3> HIDE DEF v, n
    <3>5. /\ chk'[k].pc = "save" /\ chk'[k].sess = chk[k].sess
          /\ chk'[k].verdict = v /\ chk'[k].streak = n
          /\ \A m \in Slot \ {k} : chk'[m] = chk[m]
      BY <3>4, <1>b DEF CheckType
    <3> QED
      BY <2>1, <3>1, <3>3, <3>5 DEF BackedCheck
  <2> QED
    BY <2>1, <2>2, <1>h, <1>i, <1>j DEF StreakInv
<1>6. ASSUME NEW k \in Slot, SaveCheck(k) PROVE StreakInv'
  <2>1. chk[k].sess \in Session
    BY <1>6, <1>k DEF SaveCheck, BackedCheck
  <2>2. UNCHANGED alerts /\ \A m \in Slot \ {k} : chk'[m] = chk[m]
    BY <1>6, <1>e, <1>g DEF SaveCheck
  <2>3. CASE Goto(k, "rescue") /\ UNCHANGED <<last, failures>>
    <3>1. BackedCheck(k)'
      BY <2>1, <2>3, <1>g DEF BackedCheck
    <3> QED
      BY <2>2, <2>3, <3>1, <1>h, <1>i, <1>j DEF StreakInv
  <2>4. CASE /\ Store(chk[k].sess, chk[k].verdict, chk[k].streak, chk[k].seq)
             /\ \/ AlertDue(k) /\ Goto(k, "find")
                \/ Goto(k, "query")
                \/ Done(k)
    <3>1. /\ chk[k].verdict = "failed" =>
               chk[k].streak <= failures[chk[k].sess] + 1
          /\ chk[k].verdict # "failed" => chk[k].streak = 0
      BY <1>6, <1>k DEF SaveCheck, BackedCheck
    <3>2. \A s \in Session : last[s].streak <= failures[s]
      BY DEF StreakInv
    <3>3. /\ \A s \in Session : failures'[s] \in Nat /\ failures[s] <= failures'[s]
          /\ \A s \in Session : last'[s].streak <= failures'[s]
          /\ chk[k].streak <= failures'[chk[k].sess]
      BY <2>1, <2>4, <3>1, <3>2, <1>d, StoreGrows
    <3>4. AlertDue(k) => failures'[chk[k].sess] >= Threshold
      BY <3>3, <2>1, <1>a, <1>d DEF AlertDue
    <3>5. BackedCheck(k)'
      BY <2>1, <2>4, <3>4, <1>e, <1>g DEF BackedCheck
    <3> QED
      BY <2>2, <3>3, <3>5, <1>h, <1>i DEF StreakInv
  <2> QED
    BY <1>6, <2>3, <2>4 DEF SaveCheck
<1>7. ASSUME NEW k \in Slot, RescueCheck(k) PROVE StreakInv'
  <2>1. chk[k].sess \in Session
    BY <1>7, <1>k DEF RescueCheck, BackedCheck
  <2>2. /\ UNCHANGED alerts /\ chk'[k].pc \in {"idle", "next"}
        /\ \A m \in Slot \ {k} : chk'[m] = chk[m]
    BY <1>7, <1>e, <1>f DEF RescueCheck
  <2>3. BackedCheck(k)'
    BY <2>2 DEF BackedCheck
  <2>4. \A s \in Session : last[s].streak <= failures[s]
    BY DEF StreakInv
  <2>5. /\ \A s \in Session : failures'[s] \in Nat /\ failures[s] <= failures'[s]
        /\ \A s \in Session : last'[s].streak <= failures'[s]
    <3>1. CASE UNCHANGED <<last, failures>>
      BY <3>1, <2>4, <1>b
    <3>2. CASE Store(chk[k].sess, RescueVerdict, 1, clock + 1)
      <4>1. 1 <= failures[chk[k].sess] + 1
        BY <2>1, <1>b
      <4>2. RescueVerdict = "failed" /\ RescueVerdict \in Verdict
        BY DEF RescueVerdict, Verdict
      <4> QED
        BY <2>1, <2>4, <3>2, <4>1, <4>2, StoreGrows
    <3> QED
      BY <1>7, <3>1, <3>2 DEF RescueCheck
  <2> QED
    BY <2>2, <2>3, <2>5, <1>h, <1>i DEF StreakInv
<1>8. ASSUME NEW k \in Slot, FindOpenAlert(k) PROVE StreakInv'
  <2>1. UNCHANGED <<last, failures, alerts>>
    BY <1>8 DEF FindOpenAlert
  <2>2. BackedCheck(k)' /\ \A m \in Slot \ {k} : chk'[m] = chk[m]
    <3>1. chk[k].sess \in Session /\ OpenAlerts(chk[k].sess) \subseteq Alert
      BY <1>8, <1>k DEF FindOpenAlert, BackedCheck, OpenAlerts
    <3>2. /\ chk'[k].pc \in {"bump", "create"} /\ chk'[k].sess = chk[k].sess
          /\ \A m \in Slot \ {k} : chk'[m] = chk[m]
      <4>1. CASE Goto(k, "create")
        BY <4>1, <1>g
      <4>2. ASSUME NEW a, chk' = [chk EXCEPT ![k].pc = "bump", ![k].alert = a,
                                             ![k].seen = alerts[a].count]
            PROVE  /\ chk'[k].pc = "bump" /\ chk'[k].sess = chk[k].sess
                   /\ \A m \in Slot \ {k} : chk'[m] = chk[m]
        BY <4>2, <1>b DEF CheckType
      <4> QED
        BY <1>8, <4>1, <4>2 DEF FindOpenAlert
    <3>3. failures[chk[k].sess] >= Threshold
      BY <1>8, <1>k DEF FindOpenAlert, BackedCheck
    <3> QED
      BY <2>1, <3>1, <3>2, <3>3 DEF BackedCheck
  <2> QED
    BY <2>1, <2>2, <1>h, <1>i, <1>j DEF StreakInv
<1>9. ASSUME NEW k \in Slot, BumpAlert(k) PROVE StreakInv'
  <2>1. UNCHANGED <<last, failures>> /\ Goto(k, "flag")
    BY <1>9 DEF BumpAlert
  <2>2. BackedCheck(k)' /\ \A m \in Slot \ {k} : chk'[m] = chk[m]
    BY <1>9, <2>1, <1>g, <1>k DEF BumpAlert, BackedCheck
  <2>3. \A a \in Alert : /\ alerts'[a].status = alerts[a].status
                        /\ alerts'[a].sess = alerts[a].sess
    BY <1>9, <1>b DEF BumpAlert, AlertType
  <2>4. \A a \in Alert : BackedAlert(a)'
    BY <2>1, <2>3 DEF StreakInv, BackedAlert
  <2> QED
    BY <2>1, <2>2, <2>3, <2>4, <1>h, <1>j DEF StreakInv
<1>10. ASSUME NEW k \in Slot, CreateAlert(k) PROVE StreakInv'
  <2>1. UNCHANGED <<last, failures>> /\ Goto(k, "flag")
    BY <1>10 DEF CreateAlert
  <2>2. /\ chk[k].sess \in Session
        /\ failures[chk[k].sess] >= Threshold
    BY <1>10, <1>k DEF CreateAlert, BackedCheck
  <2>3. BackedCheck(k)' /\ \A m \in Slot \ {k} : chk'[m] = chk[m]
    BY <2>1, <2>2, <1>g DEF BackedCheck
  <2>4. PICK a \in Alert : alerts' = [alerts EXCEPT ![a] =
           [sess |-> chk[k].sess, status |-> "open", count |-> 1]]
    BY <1>10 DEF CreateAlert
  <2>5. \A b \in Alert : BackedAlert(b)'
    BY <2>1, <2>2, <2>4, <1>b DEF StreakInv, BackedAlert
  <2>6. \A b \in Alert : alerts[b].status # "none" => alerts'[b].status # "none"
    BY <2>4, <1>b
  <2> QED
    BY <2>1, <2>3, <2>5, <2>6, <1>h, <1>j DEF StreakInv
<1>11. ASSUME NEW k \in Slot, FlagCheck(k) PROVE StreakInv'
  <2>1. UNCHANGED <<failures, alerts>> /\ Done(k)
    BY <1>11 DEF FlagCheck
  <2>2. BackedCheck(k)' /\ \A m \in Slot \ {k} : chk'[m] = chk[m]
    BY <2>1, <1>e DEF BackedCheck
  <2>3. \A s \in Session : last'[s].streak = last[s].streak
    BY <1>11 DEF FlagCheck, TypeOK
  <2> QED
    BY <2>1, <2>2, <2>3, <1>h, <1>i, <1>j DEF StreakInv
<1>12. ASSUME NEW k \in Slot, QueryOpenAlerts(k) PROVE StreakInv'
  <2>1. UNCHANGED <<last, failures, alerts>>
    BY <1>12 DEF QueryOpenAlerts
  <2>2. BackedCheck(k)' /\ \A m \in Slot \ {k} : chk'[m] = chk[m]
    <3>1. /\ chk'[k].pc = "resolve" /\ chk'[k].sess = chk[k].sess
          /\ chk'[k].open = OpenAlerts(chk[k].sess)
          /\ \A m \in Slot \ {k} : chk'[m] = chk[m]
      BY <1>12, <1>b DEF QueryOpenAlerts, CheckType
    <3>2. \A a \in OpenAlerts(chk[k].sess) : alerts[a].status # "none"
      BY DEF OpenAlerts
    <3> QED
      BY <1>12, <2>1, <3>1, <3>2, <1>k DEF QueryOpenAlerts, BackedCheck
  <2> QED
    BY <2>1, <2>2, <1>h, <1>i, <1>j DEF StreakInv
<1>13. ASSUME NEW k \in Slot, ResolveNext(k) PROVE StreakInv'
  <2>1. UNCHANGED <<last, failures>> /\ chk[k].sess \in Session
    BY <1>13, <1>k DEF ResolveNext, BackedCheck
  <2>2. /\ \/ chk'[k].pc \in {"idle", "next"}
           \/ chk'[k].pc = "resolve" /\ chk'[k].sess = chk[k].sess
        /\ \A m \in Slot \ {k} : chk'[m] = chk[m]
    BY <1>13, <1>b, <1>e DEF ResolveNext, CheckType
  <2>4. \A a \in Alert : /\ alerts'[a].status # "none" <=> alerts[a].status # "none"
                        /\ alerts'[a].sess = alerts[a].sess
    <3>1. CASE UNCHANGED alerts
      BY <3>1
    <3>2. CASE \E a \in chk[k].open :
                 alerts' = [alerts EXCEPT ![a].status = "resolved"]
      <4>1. \A a \in chk[k].open : a \in Alert /\ alerts[a].status # "none"
        BY <1>13, <1>d, <1>k DEF ResolveNext, BackedCheck
      <4> QED
        BY <3>2, <4>1, <1>b DEF AlertType
    <3> QED
      BY <1>13, <3>1, <3>2 DEF ResolveNext
  <2>5. chk'[k].pc = "resolve" => chk'[k].open \subseteq chk[k].open
    BY <1>13, <1>b, <1>e DEF ResolveNext, CheckType
  <2>6. BackedCheck(k)'
    BY <1>13, <2>1, <2>2, <2>4, <2>5, <1>d, <1>k DEF BackedCheck, ResolveNext
  <2>7. \A a \in Alert : BackedAlert(a)'
    BY <2>1, <2>4 DEF StreakInv, BackedAlert
  <2> QED
    BY <2>1, <2>2, <2>4, <2>6, <2>7, <1>h, <1>j DEF StreakInv
<1>14. ASSUME NEW k \in Slot, DbError(k) PROVE StreakInv'
  <2>1. UNCHANGED <<last, failures, alerts>>
    BY <1>14 DEF DbError
  <2>2. /\ \/ chk'[k].pc \in {"idle", "next"}
           \/ /\ chk'[k].pc \in {"rescue", "flag"} /\ chk'[k].sess = chk[k].sess
              /\ chk[k].pc \notin {"idle", "next"}
        /\ \A m \in Slot \ {k} : chk'[m] = chk[m]
    BY <1>14, <1>e, <1>f, <1>g DEF DbError
  <2>3. BackedCheck(k)'
    BY <2>1, <2>2, <1>k DEF BackedCheck
  <2> QED
    BY <2>1, <2>2, <2>3, <1>h, <1>i, <1>j DEF StreakInv
<1>15. CASE Crash
  <2>1. UNCHANGED <<last, failures, alerts>>
    BY <1>15 DEF Crash
  <2>2. \A k \in Slot : BackedCheck(k)'
    BY <1>15 DEF Crash, Idle, BackedCheck
  <2> QED
    BY <2>1, <2>2, <1>i, <1>j DEF StreakInv
<1>16. CASE UNCHANGED vars
  BY <1>16, <1>h, <1>i, <1>j DEF vars, StreakInv
<1> QED
  BY <1>1, <1>2, <1>3, <1>4, <1>5, <1>6, <1>7, <1>8, <1>9, <1>10, <1>11,
     <1>12, <1>13, <1>14, <1>15, <1>16 DEF Next, Check

LEMMA StreaksBacked == Spec => []StreakInv
<1>1. Init => StreakInv
  BY DEF Init, StreakInv, BackedCheck, BackedAlert, Idle
<1> QED
  BY <1>1, StreakStep, TypeCorrect, PTL DEF Spec

(* An alert is backed by Threshold stored failures of its session, however the
   checks overlap and whatever errors they meet. *)
THEOREM AlertsBacked == Spec => []AlertBackedByFailures
<1>1. StreakInv => AlertBackedByFailures
  BY DEF StreakInv, BackedAlert, AlertBackedByFailures
<1> QED
  BY <1>1, StreaksBacked, PTL

-----------------------------------------------------------------------------
(* An alert keeps its session, and once resolved it stays resolved: a new alert
   takes an identity that was not in use, and the update of the occurrence
   count does not write the status it was read with. *)
LEMMA AlertsKept ==
  ASSUME TypeOK, [Next]_vars, NEW a \in Alert, alerts[a].status # "none"
  PROVE  /\ alerts'[a].status \in {alerts[a].status, "resolved"}
         /\ alerts'[a].sess = alerts[a].sess
<1> DEFINE Kept == /\ alerts'[a].status \in {alerts[a].status, "resolved"}
                   /\ alerts'[a].sess = alerts[a].sess
<1> SUFFICES Kept
  OBVIOUS
<1>a. alerts \in [Alert -> AlertType]
  BY DEF TypeOK, AlertType
<1>1. CASE UNCHANGED alerts
  BY <1>1
<1>2. ASSUME NEW k \in Slot, BumpAlert(k) PROVE Kept
  BY <1>2, <1>a DEF BumpAlert, AlertType
<1>3. ASSUME NEW k \in Slot, CreateAlert(k) PROVE Kept
  BY <1>3, <1>a DEF CreateAlert
<1>4. ASSUME NEW k \in Slot, ResolveNext(k) PROVE Kept
  <2>1. CASE \E b \in chk[k].open :
               alerts' = [alerts EXCEPT ![b].status = "resolved"]
    BY <2>1, <1>a DEF AlertType
  <2> QED
    BY <1>1, <1>4, <2>1 DEF ResolveNext
<1> HIDE DEF Kept
<1> QED
  BY <1>1, <1>2, <1>3, <1>4, ZenonT(40)
     DEF Next, vars, Check, SessionChanges, StartRound, RoundNext, StartManual,
         ReadLastCheck, SaveCheck, RescueCheck, FindOpenAlert, FlagCheck,
         QueryOpenAlerts, DbError, Crash

(* A check that saves an alert another check has resolved meanwhile does not
   open it again. *)
THEOREM ResolvedKept == Spec => ResolvedStaysResolved
<1>1. TypeOK /\ [Next]_vars =>
        [\A a \in Alert : alerts[a].status = "resolved" =>
                            alerts'[a].status = "resolved"]_vars
  BY AlertsKept
<1> QED
  BY <1>1, TypeCorrect, PTL DEF Spec, ResolvedStaysResolved

-----------------------------------------------------------------------------
(* How the actions change the slots: one slot moves, or all are cleared. *)
LEMMA OneSlotMoves ==
  ASSUME TypeOK, [Next]_vars
  PROVE  \/ \A m \in Slot : chk'[m] = Idle
         \/ UNCHANGED chk
         \/ \E k \in Slot : \A m \in Slot \ {k} : chk'[m] = chk[m]
<1>a. chk \in [Slot -> CheckType] /\ Cron \subseteq Slot /\ Manual \subseteq Slot
  BY DEF TypeOK, CheckType, Slot
<1>1. ASSUME NEW k \in Cron, StartRound(k) \/ RoundNext(k)
      PROVE  \A m \in Slot \ {k} : chk'[m] = chk[m]
  BY <1>1, <1>a DEF StartRound, RoundNext, Goto
<1>2. ASSUME NEW k \in Manual, NEW s \in Session, StartManual(k, s)
      PROVE  \A m \in Slot \ {k} : chk'[m] = chk[m]
  BY <1>2, <1>a DEF StartManual
<1>3. ASSUME NEW k \in Slot, Check(k)
      PROVE  \A m \in Slot \ {k} : chk'[m] = chk[m]
  <2>1. CASE ReadLastCheck(k) \/ SaveCheck(k) \/ RescueCheck(k)
    BY <2>1, <1>a DEF ReadLastCheck, SaveCheck, RescueCheck, Goto, Done, Reject
  <2>2. CASE FindOpenAlert(k) \/ BumpAlert(k) \/ CreateAlert(k) \/ FlagCheck(k)
    BY <2>2, <1>a DEF FindOpenAlert, BumpAlert, CreateAlert, FlagCheck, Goto, Done
  <2>3. CASE QueryOpenAlerts(k) \/ ResolveNext(k)
    BY <2>3, <1>a DEF QueryOpenAlerts, ResolveNext, Done
  <2> QED
    BY <1>3, <2>1, <2>2, <2>3 DEF Check
<1>4. ASSUME NEW k \in Slot, DbError(k)
      PROVE  \A m \in Slot \ {k} : chk'[m] = chk[m]
  BY <1>4, <1>a DEF DbError, Goto, Done, Reject
<1> QED
  BY <1>1, <1>2, <1>3, <1>4, <1>a DEF Next, SessionChanges, Crash, vars

(* Alerting(s): the checks of s that have stored their failure and work on an
   alert with it. *)
Alerting(s) ==
  {k \in Slot : chk[k].sess = s /\ chk[k].pc \in {"find", "bump", "create"}}

(* There is room for n occurrences besides the checks that are alerting. *)
Room(s, n) == n + Threshold + Cardinality(Alerting(s)) <= failures[s] + 1

SeenAlert(k) ==
  chk[k].pc = "bump" =>
    /\ chk[k].alert \in Alert
    /\ alerts[chk[k].alert].status # "none"
    /\ alerts[chk[k].alert].sess = chk[k].sess
    /\ Room(chk[k].sess, chk[k].seen)

CountInv ==
  /\ \A s \in Session : IsFiniteSet(Alerting(s))
  /\ \A s \in Session : Alerting(s) # {} => Room(s, 0)
  /\ \A a \in Alert : alerts[a].status # "none" =>
                        Room(alerts[a].sess, alerts[a].count)
  /\ \A k \in Slot : SeenAlert(k)

(* Failures are never deleted. *)
LEMMA FailuresGrow ==
  ASSUME TypeOK, [Next]_vars, NEW s \in Session
  PROVE  failures'[s] \in Nat /\ failures[s] <= failures'[s]
<1>a. failures \in [Session -> Nat]
  BY DEF TypeOK
<1>1. CASE UNCHANGED failures
  BY <1>1, <1>a
<1>2. ASSUME NEW t, NEW v, NEW n, NEW q, Store(t, v, n, q)
      PROVE  failures'[s] \in Nat /\ failures[s] <= failures'[s]
  BY <1>2, <1>a DEF Store
<1>3. ASSUME NEW k \in Slot, SaveCheck(k)
      PROVE  failures'[s] \in Nat /\ failures[s] <= failures'[s]
  BY <1>1, <1>2, <1>3 DEF SaveCheck
<1>4. ASSUME NEW k \in Slot, RescueCheck(k)
      PROVE  failures'[s] \in Nat /\ failures[s] <= failures'[s]
  BY <1>1, <1>2, <1>4 DEF RescueCheck
<1> QED
  BY <1>1, <1>3, <1>4, ZenonT(40)
     DEF Next, vars, Check, SessionChanges, StartRound, RoundNext, StartManual,
         ReadLastCheck, FindOpenAlert, BumpAlert, CreateAlert, FlagCheck,
         QueryOpenAlerts, ResolveNext, DbError, Crash

(* A check starts alerting with a failure it has just stored. *)
LEMMA AlertingAfterFailing ==
  ASSUME TypeOK, StreakInv, [Next]_vars, NEW s \in Session, NEW k \in Slot,
         k \in Alerting(s)', k \notin Alerting(s)
  PROVE  failures'[s] = failures[s] + 1
<1>a. /\ chk \in [Slot -> CheckType]
      /\ failures \in [Session -> Nat]
      /\ Threshold \in Nat \ {0}
      /\ \A m \in Slot : chk[m] \in CheckType
  BY HealthAssumption DEF TypeOK, CheckType
<1>b. chk'[k].sess = s /\ chk'[k].pc \in {"find", "bump", "create"}
  BY DEF Alerting
<1>c. chk[k].sess # s \/ chk[k].pc \notin {"find", "bump", "create"}
  BY DEF Alerting
<1>d. chk'[k] # chk[k]
  BY <1>b, <1>c
<1>e. Cron \subseteq Slot /\ Manual \subseteq Slot
  BY DEF Slot
<1>1. ~Crash /\ ~UNCHANGED chk
  BY <1>b, <1>d DEF Crash, Idle
<1>2. ASSUME NEW c \in Cron, StartRound(c) \/ RoundNext(c) PROVE FALSE
  <2>1. \A m \in Slot \ {c} : chk'[m] = chk[m]
    BY <1>2, <1>a, <1>e DEF StartRound, RoundNext, Goto
  <2>2. CASE Goto(c, "next") \/ Goto(c, "idle")
    BY <2>1, <2>2, <1>a, <1>b, <1>d, <1>e DEF Goto, CheckType
  <2>3. ASSUME NEW sd, chk' = [chk EXCEPT ![c].pc = "read", ![c].sess = sd[1],
                                          ![c].doc = sd[2]]
        PROVE  FALSE
    BY <2>1, <2>3, <1>a, <1>b, <1>d, <1>e DEF CheckType
  <2> QED
    BY <1>2, <2>2, <2>3 DEF StartRound, RoundNext
<1>3. ASSUME NEW c \in Manual, NEW t \in Session, StartManual(c, t) PROVE FALSE
  <2>1. chk'[c].pc = "read" /\ \A m \in Slot \ {c} : chk'[m] = chk[m]
    BY <1>3, <1>a, <1>e DEF StartManual, CheckType
  <2> QED
    BY <2>1, <1>b, <1>d
<1>4. ASSUME NEW c \in Slot,
             ReadLastCheck(c) \/ RescueCheck(c) \/ BumpAlert(c) \/ CreateAlert(c)
      PROVE  FALSE
  <2>1. /\ chk'[c].pc \in {"save", "flag", "idle", "next"}
        /\ \A m \in Slot \ {c} : chk'[m] = chk[m]
    BY <1>4, <1>a DEF ReadLastCheck, RescueCheck, BumpAlert, CreateAlert, Goto, Done,
                      Reject, Idle, CheckType
  <2> QED
    BY <2>1, <1>b, <1>d
<1>5. ASSUME NEW c \in Slot, FlagCheck(c) \/ QueryOpenAlerts(c) \/ ResolveNext(c)
      PROVE  FALSE
  <2>1. /\ chk'[c].pc \in {"resolve", "idle", "next"}
        /\ \A m \in Slot \ {c} : chk'[m] = chk[m]
    BY <1>5, <1>a DEF FlagCheck, QueryOpenAlerts, ResolveNext, Done, Idle, CheckType
  <2> QED
    BY <2>1, <1>b, <1>d
<1>6. ASSUME NEW c \in Slot, DbError(c) PROVE FALSE
  <2>1. /\ chk'[c].pc \in {"rescue", "flag", "idle", "next"}
        /\ \A m \in Slot \ {c} : chk'[m] = chk[m]
    BY <1>6, <1>a DEF DbError, Goto, Done, Reject, Idle, CheckType
  <2> QED
    BY <2>1, <1>b, <1>d
<1>7. ASSUME NEW c \in Slot, FindOpenAlert(c) PROVE FALSE
  <2>1. chk[c].pc = "find" /\ \A m \in Slot \ {c} : chk'[m] = chk[m]
    BY <1>7, <1>a DEF FindOpenAlert, Goto
  <2>2. CASE Goto(c, "create")
    BY <2>1, <2>2, <1>a, <1>b, <1>c, <1>d DEF Goto, CheckType
  <2>3. ASSUME NEW a, chk' = [chk EXCEPT ![c].pc = "bump", ![c].alert = a,
                                         ![c].seen = alerts[a].count]
        PROVE  FALSE
    BY <2>1, <2>3, <1>a, <1>b, <1>c, <1>d DEF CheckType
  <2> QED
    BY <1>7, <2>2, <2>3 DEF FindOpenAlert
<1>8. ASSUME NEW c \in Slot, SaveCheck(c) PROVE failures'[s] = failures[s] + 1
  <2>1. \A m \in Slot \ {c} : chk'[m] = chk[m]
    BY <1>8, <1>a DEF SaveCheck, Goto, Done
  <2>2. k = c
    BY <2>1, <1>d
  <2>3. /\ AlertDue(c) /\ chk[c].sess = s
        /\ Store(s, chk[c].verdict, chk[c].streak, chk[c].seq)
    BY <1>8, <2>2, <1>a, <1>b DEF SaveCheck, Goto, Done, Idle, CheckType
  <2>4. chk[c].verdict = "failed"
    <3>1. chk[c].verdict # "failed" => chk[c].streak = 0
      BY <1>8 DEF StreakInv, BackedCheck, SaveCheck
    <3> QED
      BY <3>1, <2>3, <1>a DEF AlertDue
  <2> QED
    BY <2>3, <2>4, <1>a DEF Store
<1> QED
  BY <1>1, <1>2, <1>3, <1>4, <1>5, <1>6, <1>7, <1>8
     DEF Next, vars, Check, SessionChanges

(* So the room never shrinks, whatever step is taken. *)
LEMMA RoomStays ==
  ASSUME TypeOK, StreakInv, [Next]_vars, NEW s \in Session,
         IsFiniteSet(Alerting(s))
  PROVE  /\ IsFiniteSet(Alerting(s)')
         /\ Cardinality(Alerting(s)) \in Nat /\ Cardinality(Alerting(s)') \in Nat
         /\ Cardinality(Alerting(s)') + failures[s]
              <= Cardinality(Alerting(s)) + failures'[s]
         /\ Alerting(s) = {} => Cardinality(Alerting(s)') <= 1
<1>a. /\ failures[s] \in Nat /\ failures'[s] \in Nat /\ failures[s] <= failures'[s]
      /\ Cardinality(Alerting(s)) \in Nat
      /\ Cardinality({}) = 0 /\ IsFiniteSet({})
  BY FailuresGrow, FS_CardinalityType, FS_EmptySet DEF TypeOK
<1>1. CASE \A m \in Slot : chk'[m] = Idle
  <2>1. Alerting(s)' = {}
    BY <1>1 DEF Alerting, Idle
  <2> QED
    BY <2>1, <1>a
<1>2. CASE UNCHANGED chk
  <2>1. Alerting(s)' = Alerting(s)
    BY <1>2 DEF Alerting
  <2> QED
    BY <2>1, <1>a
<1>3. ASSUME NEW k \in Slot, \A m \in Slot \ {k} : chk'[m] = chk[m]
      PROVE  /\ IsFiniteSet(Alerting(s)')
             /\ Cardinality(Alerting(s)') \in Nat
             /\ Cardinality(Alerting(s)') + failures[s]
                  <= Cardinality(Alerting(s)) + failures'[s]
             /\ Alerting(s) = {} => Cardinality(Alerting(s)') <= 1
  <2>1. CASE k \in Alerting(s)' /\ k \notin Alerting(s)
    <3>1. Alerting(s)' = Alerting(s) \cup {k}
      BY <1>3, <2>1 DEF Alerting
    <3>2. failures'[s] = failures[s] + 1
      BY <2>1, AlertingAfterFailing
    <3>3. /\ IsFiniteSet(Alerting(s) \cup {k})
          /\ Cardinality(Alerting(s) \cup {k}) = Cardinality(Alerting(s)) + 1
      BY <2>1, FS_AddElement
    <3>4. Alerting(s) = {} => Cardinality(Alerting(s)) = 0
      BY <1>a
    <3> QED
      BY <3>1, <3>2, <3>3, <3>4, <1>a
  <2>2. CASE k \in Alerting(s)' /\ k \in Alerting(s)
    <3>1. Alerting(s)' = Alerting(s)
      BY <1>3, <2>2 DEF Alerting
    <3> QED
      BY <3>1, <2>2, <1>a
  <2>3. CASE k \notin Alerting(s)'
    <3>1. Alerting(s)' = Alerting(s) \ {k}
      BY <1>3, <2>3 DEF Alerting
    <3>2. /\ IsFiniteSet(Alerting(s) \ {k})
          /\ Cardinality(Alerting(s) \ {k}) \in Nat
          /\ Cardinality(Alerting(s) \ {k}) <= Cardinality(Alerting(s))
      BY FS_RemoveElement, FS_CardinalityType, FS_Subset
    <3>3. Alerting(s) = {} => Cardinality(Alerting(s)) = 0
      BY <1>a
    <3> QED
      BY <3>1, <3>2, <3>3, <1>a
  <2> QED
    BY <2>1, <2>2, <2>3
<1> QED
  BY <1>1, <1>2, <1>3, <1>a, OneSlotMoves

(* The locals of a check that works on an alert it has read. *)
LEMMA BumpFromFind ==
  ASSUME TypeOK, [Next]_vars, NEW k \in Slot, chk'[k].pc = "bump"
  PROVE  \/ chk'[k] = chk[k]
         \/ /\ chk[k].pc = "find" /\ UNCHANGED alerts
            /\ chk'[k].sess = chk[k].sess
            /\ chk'[k].alert \in OpenAlerts(chk[k].sess)
            /\ chk'[k].seen = alerts[chk'[k].alert].count
<1>a. /\ chk \in [Slot -> CheckType] /\ Cron \subseteq Slot /\ Manual \subseteq Slot
      /\ \A m \in Slot : chk[m] \in CheckType
  BY DEF TypeOK, CheckType, Slot
<1> DEFINE Kept == chk'[k] = chk[k]
<1>1. CASE UNCHANGED chk
  BY <1>1
<1>2. ASSUME NEW c \in Cron, StartRound(c) \/ RoundNext(c) PROVE Kept
  <2>1. \A m \in Slot \ {c} : chk'[m] = chk[m]
    BY <1>2, <1>a DEF StartRound, RoundNext, Goto
  <2>2. CASE Goto(c, "next") \/ Goto(c, "idle")
    BY <2>1, <2>2, <1>a DEF Goto, CheckType
  <2>3. ASSUME NEW sd, chk' = [chk EXCEPT ![c].pc = "read", ![c].sess = sd[1],
                                          ![c].doc = sd[2]]
        PROVE  Kept
    BY <2>1, <2>3, <1>a DEF CheckType
  <2> QED
    BY <1>2, <2>2, <2>3 DEF StartRound, RoundNext
<1>3. ASSUME NEW c \in Manual, NEW t \in Session, StartManual(c, t) PROVE Kept
  BY <1>3, <1>a DEF StartManual, CheckType
<1>4. ASSUME NEW c \in Slot, ReadLastCheck(c) \/ SaveCheck(c) \/ RescueCheck(c)
      PROVE  Kept
  BY <1>4, <1>a DEF ReadLastCheck, SaveCheck, RescueCheck, Goto, Done, Reject, Idle,
                    CheckType
<1>5. ASSUME NEW c \in Slot, BumpAlert(c) \/ CreateAlert(c) \/ FlagCheck(c)
      PROVE  Kept
  BY <1>5, <1>a DEF BumpAlert, CreateAlert, FlagCheck, Goto, Done, Idle, CheckType
<1>6. ASSUME NEW c \in Slot, QueryOpenAlerts(c) PROVE Kept
  BY <1>6, <1>a DEF QueryOpenAlerts, CheckType
<1>7. ASSUME NEW c \in Slot, ResolveNext(c) PROVE Kept
  BY <1>7, <1>a DEF ResolveNext, Done, Idle, CheckType
<1>8. ASSUME NEW c \in Slot, DbError(c) PROVE Kept
  BY <1>8, <1>a DEF DbError, Goto, Done, Reject, Idle, CheckType
<1>9. CASE Crash
  BY <1>9 DEF Crash, Idle
<1>10. ASSUME NEW c \in Slot, FindOpenAlert(c), c # k PROVE Kept
  BY <1>10, <1>a DEF FindOpenAlert, Goto
<1>11. CASE FindOpenAlert(k)
  <2>1. PICK a \in OpenAlerts(chk[k].sess) :
          chk' = [chk EXCEPT ![k].pc = "bump", ![k].alert = a,
                             ![k].seen = alerts[a].count]
    BY <1>11, <1>a DEF FindOpenAlert, Goto, CheckType
  <2>2. /\ chk'[k].sess = chk[k].sess /\ chk'[k].alert = a
        /\ chk'[k].seen = alerts[a].count
    BY <2>1, <1>a DEF CheckType
  <2> QED
    BY <2>2, <1>11 DEF FindOpenAlert
<1> QED
  BY <1>1, <1>2, <1>3, <1>4, <1>5, <1>6, <1>7, <1>8, <1>9, <1>10, <1>11
     DEF Next, Check, SessionChanges, vars

LEMMA CountStep == TypeOK /\ StreakInv /\ CountInv /\ [Next]_vars => CountInv'
<1> SUFFICES ASSUME TypeOK, StreakInv, CountInv, [Next]_vars PROVE CountInv'
  OBVIOUS
<1>a. /\ chk \in [Slot -> CheckType] /\ \A m \in Slot : chk[m] \in CheckType
      /\ alerts \in [Alert -> AlertType] /\ \A a \in Alert : alerts[a] \in AlertType
      /\ failures \in [Session -> Nat]
      /\ Threshold \in Nat \ {0}
  BY HealthAssumption DEF TypeOK, CheckType, AlertType
<1>b. \A s \in Session : IsFiniteSet(Alerting(s))
  BY DEF CountInv
<1>c. ASSUME NEW s \in Session, NEW n \in Nat, Room(s, n) PROVE Room(s, n)'
  BY <1>a, <1>b, <1>c, FailuresGrow, RoomStays DEF Room
<1>d. \A s \in Session : \A k \in Alerting(s) : Room(s, 0)
  BY DEF CountInv
<1>1. ASSUME NEW s \in Session PROVE IsFiniteSet(Alerting(s)')
  BY <1>b, RoomStays
<1>2. ASSUME NEW s \in Session, Alerting(s)' # {} PROVE Room(s, 0)'
  <2>1. CASE Alerting(s) # {}
    BY <2>1, <1>c, <1>d
  <2>2. CASE Alerting(s) = {}
    <3>1. PICK k \in Slot : k \in Alerting(s)'
      BY <1>2 DEF Alerting
    <3>2. failures[s] >= 0 /\ failures'[s] = failures[s] + 1
      BY <1>a, <2>2, <3>1, AlertingAfterFailing
    <3>3. failures'[s] >= Threshold
      <4>1. StreakInv'
        BY StreakStep
      <4> QED
        BY <3>1, <4>1 DEF StreakInv, BackedCheck, Alerting
    <3>4. Cardinality(Alerting(s)') \in Nat /\ Cardinality(Alerting(s)') <= 1
      BY <1>b, <2>2, RoomStays
    <3> QED
      BY <1>a, <3>2, <3>3, <3>4 DEF Room
  <2> QED
    BY <2>1, <2>2
(* One that leaves without a failure makes room for an occurrence. *)
<1>e. ASSUME NEW s \in Session, NEW k \in Slot, NEW n \in Nat,
             k \in Alerting(s), chk'[k].pc = "flag", UNCHANGED failures,
             \A m \in Slot \ {k} : chk'[m] = chk[m], Room(s, n)
      PROVE  Room(s, n + 1)'
  <2>1. Alerting(s)' = Alerting(s) \ {k}
    BY <1>e DEF Alerting
  <2>2. Cardinality(Alerting(s) \ {k}) = Cardinality(Alerting(s)) - 1
    BY <1>b, <1>e, FS_RemoveElement
  <2>3. Cardinality(Alerting(s)) \in Nat
    BY <1>b, FS_CardinalityType
  <2> QED
    BY <1>a, <1>e, <2>1, <2>2, <2>3 DEF Room
(* An alert of which neither the session nor the count changes. *)
<1>f. ASSUME NEW a \in Alert, alerts[a].status # "none",
             alerts'[a].sess = alerts[a].sess, alerts'[a].count = alerts[a].count
      PROVE  Room(alerts[a].sess, alerts[a].count)'
  <2>1. alerts[a].sess \in Session /\ alerts[a].count \in Nat
    BY <1>a, <1>f DEF StreakInv, BackedAlert, AlertType
  <2>2. Room(alerts[a].sess, alerts[a].count)
    BY <1>f DEF CountInv
  <2>3. PICK s \in Session, n \in Nat : s = alerts[a].sess /\ n = alerts[a].count
    BY <2>1
  <2>4. Room(s, n)'
    BY <2>2, <2>3, <1>c
  <2> QED
    BY <2>3, <2>4, <1>f DEF Room
<1>g. \A k \in Slot : \A l : Goto(k, l) =>
        chk'[k].pc = l /\ \A m \in Slot \ {k} : chk'[m] = chk[m]
  BY <1>a DEF Goto, CheckType
<1>3. ASSUME NEW a \in Alert, alerts'[a].status # "none"
      PROVE  Room(alerts[a].sess, alerts[a].count)'
  <2>1. CASE UNCHANGED alerts
    BY <2>1, <1>3, <1>f
  <2>2. ASSUME NEW k \in Slot, BumpAlert(k)
        PROVE  Room(alerts[a].sess, alerts[a].count)'
    <3>1. /\ chk[k].pc = "bump" /\ UNCHANGED failures
          /\ chk'[k].pc = "flag" /\ \A m \in Slot \ {k} : chk'[m] = chk[m]
          /\ alerts' = [alerts EXCEPT ![chk[k].alert].count = chk[k].seen + 1]
      BY <2>2, <1>g DEF BumpAlert
    <3>2. CASE a # chk[k].alert
      BY <3>1, <3>2, <1>3, <1>a, <1>f
    <3>3. CASE a = chk[k].alert
      <4>1. /\ alerts[a].sess = chk[k].sess /\ Room(chk[k].sess, chk[k].seen)
        BY <3>1, <3>3 DEF CountInv, SeenAlert
      <4>2. PICK s \in Session, n \in Nat : s = chk[k].sess /\ n = chk[k].seen
        BY <3>1, <1>a DEF StreakInv, BackedCheck, CheckType
      <4>3. k \in Alerting(s)
        BY <3>1, <4>2 DEF Alerting
      <4>4. Room(s, n + 1)'
        BY <3>1, <4>1, <4>2, <4>3, <1>e
      <4>5. alerts'[a].sess = s /\ alerts'[a].count = n + 1
        BY <3>1, <3>3, <4>1, <4>2, <1>a DEF AlertType
      <4> QED
        BY <4>4, <4>5 DEF Room
    <3> QED
      BY <3>2, <3>3
  <2>3. ASSUME NEW k \in Slot, CreateAlert(k)
        PROVE  Room(alerts[a].sess, alerts[a].count)'
    <3>1. /\ chk[k].pc = "create" /\ UNCHANGED failures
          /\ chk'[k].pc = "flag" /\ \A m \in Slot \ {k} : chk'[m] = chk[m]
      BY <2>3, <1>g DEF CreateAlert
    <3>2. PICK b \in Alert : alerts' = [alerts EXCEPT ![b] =
             [sess |-> chk[k].sess, status |-> "open", count |-> 1]]
      BY <2>3 DEF CreateAlert
    <3>3. CASE a # b
      BY <3>2, <3>3, <1>3, <1>a, <1>f
    <3>4. CASE a = b
      <4>1. PICK s \in Session : s = chk[k].sess
        BY <3>1 DEF StreakInv, BackedCheck
      <4>2. k \in Alerting(s)
        BY <3>1, <4>1 DEF Alerting
      <4>3. Room(s, 0 + 1)'
        BY <3>1, <4>2, <1>d, <1>e
      <4>4. alerts'[a].sess = s /\ alerts'[a].count = 0 + 1
        BY <3>2, <3>4, <4>1, <1>a
      <4> QED
        BY <4>3, <4>4 DEF Room
    <3> QED
      BY <3>3, <3>4
  <2>4. ASSUME NEW k \in Slot, ResolveNext(k)
        PROVE  Room(alerts[a].sess, alerts[a].count)'
    <3>1. CASE UNCHANGED alerts
      BY <3>1, <2>1
    <3>2. CASE \E b \in chk[k].open :
                 alerts' = [alerts EXCEPT ![b].status = "resolved"]
      <4>1. PICK b \in chk[k].open : alerts' = [alerts EXCEPT ![b].status = "resolved"]
        BY <3>2
      <4>2. b \in Alert /\ alerts[b].status # "none"
        BY <2>4, <4>1, <1>a DEF ResolveNext, StreakInv, BackedCheck, CheckType
      <4>3. /\ alerts'[a].sess = alerts[a].sess /\ alerts'[a].count = alerts[a].count
            /\ alerts[a].status # "none"
        BY <4>1, <4>2, <1>3, <1>a DEF AlertType
      <4> QED
        BY <4>3, <1>f
    <3> QED
      BY <2>4, <3>1, <3>2 DEF ResolveNext
  <2> QED
    BY <2>1, <2>2, <2>3, <2>4, ZenonT(40)
       DEF Next, vars, Check, SessionChanges, StartRound, RoundNext, StartManual,
           ReadLastCheck, SaveCheck, RescueCheck, FindOpenAlert, FlagCheck,
           QueryOpenAlerts, DbError, Crash
<1>4. ASSUME NEW k \in Slot PROVE SeenAlert(k)'
  <2> SUFFICES ASSUME chk'[k].pc = "bump"
               PROVE  /\ chk'[k].alert \in Alert
                      /\ alerts'[chk'[k].alert].status # "none"
                      /\ alerts'[chk'[k].alert].sess = chk'[k].sess
                      /\ Room(chk[k].sess, chk[k].seen)'
    BY DEF SeenAlert
  <2>1. CASE chk'[k] = chk[k]
    <3>1. /\ chk[k].alert \in Alert
          /\ alerts[chk[k].alert].status # "none"
          /\ alerts[chk[k].alert].sess = chk[k].sess
          /\ Room(chk[k].sess, chk[k].seen)
      BY <2>1 DEF CountInv, SeenAlert
    <3>2. /\ alerts'[chk[k].alert].status \in {alerts[chk[k].alert].status, "resolved"}
          /\ alerts'[chk[k].alert].sess = alerts[chk[k].alert].sess
      BY <3>1, AlertsKept
    <3>3. PICK s \in Session, n \in Nat : s = chk[k].sess /\ n = chk[k].seen
      BY <2>1, <1>a DEF StreakInv, BackedCheck, CheckType
    <3>4. Room(s, n)'
      BY <3>1, <3>3, <1>c
    <3>5. Room(chk[k].sess, chk[k].seen)'
      BY <2>1, <3>3, <3>4 DEF Room
    <3> QED
      BY <2>1, <3>1, <3>2, <3>5
  <2>2. CASE /\ chk[k].pc = "find" /\ UNCHANGED alerts
             /\ chk'[k].sess = chk[k].sess
             /\ chk'[k].alert \in OpenAlerts(chk[k].sess)
             /\ chk'[k].seen = alerts[chk'[k].alert].count
    <3>1. PICK a \in Alert : /\ a = chk'[k].alert /\ alerts[a].sess = chk[k].sess
                             /\ alerts[a].status = "open"
      BY <2>2 DEF OpenAlerts
    <3>2. Room(alerts[a].sess, alerts[a].count)'
      BY <2>2, <3>1, <1>f
    <3>3. Room(chk[k].sess, chk[k].seen)'
      BY <2>2, <3>1, <3>2 DEF Room
    <3> QED
      BY <2>2, <3>1, <3>3
  <2> QED
    BY <2>1, <2>2, BumpFromFind
<1> QED
  BY <1>1, <1>2, <1>3, <1>4 DEF CountInv

LEMMA CountAlways == Spec => []CountInv
<1>1. Init => CountInv
  <2> SUFFICES ASSUME Init PROVE CountInv
    OBVIOUS
  <2>1. \A s \in Session : Alerting(s) = {}
    BY DEF Init, Alerting, Idle
  <2>2. \A s \in Session : IsFiniteSet(Alerting(s))
    BY <2>1, FS_EmptySet
  <2> QED
    BY <2>1, <2>2 DEF Init, CountInv, SeenAlert, Idle
<1> QED
  BY <1>1, CountStep, StreaksBacked, TypeCorrect, PTL DEF Spec

(* An alert counts no more occurrences than there were failures beyond the
   threshold: the failure of each check is counted once at most, however checks
   overlap, find the same alert or create two, and whatever is lost. *)
THEOREM OccurrencesBacked == Spec => []OccurrencesNotOvercounted
<1>1. TypeOK /\ StreakInv /\ CountInv => OccurrencesNotOvercounted
  <2> SUFFICES ASSUME TypeOK, StreakInv, CountInv,
                      NEW a \in Alert, alerts[a].status # "none"
               PROVE  alerts[a].count + Threshold <= failures[alerts[a].sess] + 1
    BY DEF OccurrencesNotOvercounted
  <2>1. /\ alerts[a].sess \in Session /\ alerts[a].count \in Nat /\ Threshold \in Nat
        /\ failures[alerts[a].sess] \in Nat
    BY HealthAssumption DEF TypeOK, StreakInv, BackedAlert
  <2>2. Cardinality(Alerting(alerts[a].sess)) \in Nat
    BY <2>1, FS_CardinalityType DEF CountInv
  <2>3. Room(alerts[a].sess, alerts[a].count)
    BY DEF CountInv
  <2> QED
    BY <2>1, <2>2, <2>3 DEF Room
<1> QED
  BY <1>1, CountAlways, StreaksBacked, TypeCorrect, PTL

-----------------------------------------------------------------------------
(* While the database answers, a check comes to the flag only from an alert that
   it created or updated. *)
HasAlert(s) == \E a \in Alert : alerts[a].sess = s /\ alerts[a].status # "none"

FlagInv ==
  dbFaults = 0 =>
    /\ \A k \in Slot : chk[k].pc = "flag" => HasAlert(chk[k].sess)
    /\ \A s \in Session : last[s].alertTriggered => HasAlert(s)

LEMMA HasAlertKept ==
  ASSUME TypeOK, [Next]_vars, NEW s, HasAlert(s)
  PROVE  HasAlert(s)'
<1>1. PICK a \in Alert : alerts[a].sess = s /\ alerts[a].status # "none"
  BY DEF HasAlert
<1>2. alerts'[a].sess = s /\ alerts'[a].status # "none"
  BY <1>1, AlertsKept
<1> QED
  BY <1>2 DEF HasAlert

(* Who comes to the flag without an error of the database has an alert. *)
LEMMA FlagFromAlert ==
  ASSUME TypeOK, StreakInv, CountInv, [Next]_vars, NEW k \in Slot,
         chk'[k].pc = "flag", dbFaults' = 0, dbFaults = 0
  PROVE  chk'[k] = chk[k] \/ HasAlert(chk[k].sess)'
<1>a. /\ chk \in [Slot -> CheckType] /\ Cron \subseteq Slot /\ Manual \subseteq Slot
      /\ \A m \in Slot : chk[m] \in CheckType
      /\ alerts \in [Alert -> AlertType]
  BY DEF TypeOK, CheckType, AlertType, Slot
<1> DEFINE Kept == chk'[k] = chk[k]
<1>1. CASE UNCHANGED chk
  BY <1>1
<1>2. ASSUME NEW c \in Cron, StartRound(c) \/ RoundNext(c) PROVE Kept
  <2>1. \A m \in Slot \ {c} : chk'[m] = chk[m]
    BY <1>2, <1>a DEF StartRound, RoundNext, Goto
  <2>2. CASE Goto(c, "next") \/ Goto(c, "idle")
    BY <2>1, <2>2, <1>a DEF Goto, CheckType
  <2>3. ASSUME NEW sd, chk' = [chk EXCEPT ![c].pc = "read", ![c].sess = sd[1],
                                          ![c].doc = sd[2]]
        PROVE  Kept
    BY <2>1, <2>3, <1>a DEF CheckType
  <2> QED
    BY <1>2, <2>2, <2>3 DEF StartRound, RoundNext
<1>3. ASSUME NEW c \in Manual, NEW t \in Session, StartManual(c, t) PROVE Kept
  BY <1>3, <1>a DEF StartManual, CheckType
<1>4. ASSUME NEW c \in Slot, ReadLastCheck(c) \/ SaveCheck(c) \/ RescueCheck(c)
      PROVE  Kept
  BY <1>4, <1>a DEF ReadLastCheck, SaveCheck, RescueCheck, Goto, Done, Reject, Idle,
                    CheckType
<1>5. ASSUME NEW c \in Slot, FlagCheck(c) \/ QueryOpenAlerts(c) PROVE Kept
  BY <1>5, <1>a DEF FlagCheck, QueryOpenAlerts, Done, Idle, CheckType
<1>6. ASSUME NEW c \in Slot, ResolveNext(c) PROVE Kept
  BY <1>6, <1>a DEF ResolveNext, Done, Idle, CheckType
<1>7. ASSUME NEW c \in Slot, FindOpenAlert(c) PROVE Kept
  <2>1. CASE Goto(c, "create")
    BY <2>1, <1>a DEF Goto, CheckType
  <2>2. ASSUME NEW a, chk' = [chk EXCEPT ![c].pc = "bump", ![c].alert = a,
                                         ![c].seen = alerts[a].count]
        PROVE  Kept
    BY <2>2, <1>a DEF CheckType
  <2> QED
    BY <1>7, <2>1, <2>2 DEF FindOpenAlert
<1>8. ASSUME NEW c \in Slot, DbError(c) PROVE Kept
  BY <1>8 DEF DbError
<1>9. CASE Crash
  BY <1>9 DEF Crash, Idle
<1>10. ASSUME NEW c \in Slot, BumpAlert(c) \/ CreateAlert(c), c # k PROVE Kept
  BY <1>10, <1>a DEF BumpAlert, CreateAlert, Goto
<1>11. CASE BumpAlert(k)
  <2>1. /\ chk[k].alert \in Alert /\ alerts[chk[k].alert].status # "none"
        /\ alerts[chk[k].alert].sess = chk[k].sess
    BY <1>11 DEF BumpAlert, CountInv, SeenAlert
  <2>2. chk'[k].sess = chk[k].sess
    BY <1>11, <1>a DEF BumpAlert, Goto, CheckType
  <2>3. HasAlert(chk[k].sess)
    BY <2>1 DEF HasAlert
  <2>4. PICK s : s = chk[k].sess
    OBVIOUS
  <2>5. HasAlert(s)'
    BY <2>3, <2>4, HasAlertKept
  <2> QED
    BY <2>2, <2>4, <2>5 DEF HasAlert
<1>12. CASE CreateAlert(k)
  <2>1. PICK a \in Alert : alerts' = [alerts EXCEPT ![a] =
           [sess |-> chk[k].sess, status |-> "open", count |-> 1]]
    BY <1>12 DEF CreateAlert
  <2>2. chk'[k].sess = chk[k].sess
    BY <1>12, <1>a DEF CreateAlert, Goto, CheckType
  <2>3. alerts'[a].sess = chk'[k].sess /\ alerts'[a].status # "none"
    BY <2>1, <2>2, <1>a
  <2> QED
    BY <2>3 DEF HasAlert
<1> QED
  BY <1>1, <1>2, <1>3, <1>4, <1>5, <1>6, <1>7, <1>8, <1>9, <1>10, <1>11, <1>12
     DEF Next, Check, SessionChanges, vars

(* A record is flagged by the check that stored it, at the flag. *)
LEMMA TriggeredAtFlag ==
  ASSUME TypeOK, [Next]_vars, NEW s \in Session, last'[s].alertTriggered
  PROVE  \/ last[s].alertTriggered
         \/ \E k \in Slot : chk[k].pc = "flag" /\ chk[k].sess = s
<1>a. last \in [Session -> [verdict : Verdict, streak : Nat, seq : Nat,
                            alertTriggered : BOOLEAN]]
  BY DEF TypeOK
<1>1. CASE UNCHANGED last
  BY <1>1
<1>2. ASSUME NEW t, NEW v, NEW n, NEW q, Store(t, v, n, q)
      PROVE  last[s].alertTriggered
  <2>1. last'[s] \in {last[s], NewRecord(v, n, q)}
    BY <1>2, <1>a DEF Store
  <2> QED
    BY <2>1 DEF NewRecord
<1>3. ASSUME NEW k \in Slot, SaveCheck(k) PROVE last[s].alertTriggered
  BY <1>1, <1>2, <1>3 DEF SaveCheck
<1>4. ASSUME NEW k \in Slot, RescueCheck(k) PROVE last[s].alertTriggered
  BY <1>1, <1>2, <1>4 DEF RescueCheck
<1>5. ASSUME NEW k \in Slot, FlagCheck(k)
      PROVE  last[s].alertTriggered \/ (chk[k].pc = "flag" /\ chk[k].sess = s)
  BY <1>5, <1>a DEF FlagCheck
<1> QED
  BY <1>1, <1>3, <1>4, <1>5, ZenonT(40)
     DEF Next, vars, Check, SessionChanges, StartRound, RoundNext, StartManual,
         ReadLastCheck, FindOpenAlert, BumpAlert, CreateAlert, QueryOpenAlerts,
         ResolveNext, DbError, Crash

(* As long as the database answers, a check record that says an alert was
   triggered belongs to a session that has one, whatever checks overlap. *)
THEOREM FlagsBacked == Spec => []FlaggedCheckHasAlert
<1>1. Init => FlagInv
  BY DEF Init, FlagInv, Idle
<1>2. TypeOK /\ StreakInv /\ CountInv /\ FlagInv /\ [Next]_vars => FlagInv'
  <2> SUFFICES ASSUME TypeOK, StreakInv, CountInv, FlagInv, [Next]_vars,
                      dbFaults' = 0
               PROVE  FlagInv'
    BY DEF FlagInv
  <2>a. dbFaults = 0
    <3>1. dbFaults \in Nat
      BY DEF TypeOK
    <3>2. \A k : DbError(k) => dbFaults' = dbFaults + 1
      BY DEF DbError
    <3>3. UNCHANGED dbFaults \/ dbFaults' = dbFaults + 1
      BY <3>2, ZenonT(40) DEF Next, vars, Check, SessionChanges, StartRound, RoundNext,
                  StartManual, ReadLastCheck, SaveCheck, RescueCheck, FindOpenAlert,
                  BumpAlert, CreateAlert, FlagCheck, QueryOpenAlerts, ResolveNext,
                  Crash
    <3> QED
      BY <3>1, <3>3
  <2>1. ASSUME NEW k \in Slot, chk'[k].pc = "flag" PROVE HasAlert(chk[k].sess)'
    <3>1. CASE chk'[k] = chk[k]
      <4>1. PICK s : s = chk[k].sess
        OBVIOUS
      <4>2. HasAlert(s)
        BY <2>1, <2>a, <3>1, <4>1 DEF FlagInv
      <4>3. HasAlert(s)'
        BY <4>2, HasAlertKept
      <4> QED
        BY <3>1, <4>1, <4>3 DEF HasAlert
    <3> QED
      BY <2>1, <2>a, <3>1, FlagFromAlert
  <2>2. ASSUME NEW s \in Session, last'[s].alertTriggered PROVE HasAlert(s)'
    <3>1. HasAlert(s)
      BY <2>2, <2>a, TriggeredAtFlag DEF FlagInv
    <3> QED
      BY <3>1, HasAlertKept
  <2> QED
    BY <2>1, <2>2 DEF FlagInv
<1>3. FlagInv => FlaggedCheckHasAlert
  BY DEF FlagInv, HasAlert, FlaggedCheckHasAlert
<1> QED
  BY <1>1, <1>2, <1>3, CountAlways, StreaksBacked, TypeCorrect, PTL DEF Spec

-----------------------------------------------------------------------------
(* Checks that do not overlap on a session.  Any number of slots may check, and
   they may check different sessions at the same time. *)
Apart ==
  \A k, l \in Slot : chk[k].sess # None /\ chk[k].sess = chk[l].sess => k = l

(* The process does not die and the database answers. *)
Undisturbed == crashes = 0 /\ dbFaults = 0

NoWarning == \A k \in Slot : chk[k].verdict # "warning"

(* Between checks of a session: a streak that reached the threshold has an open
   alert (O) and, if no check warns (w = "steady"), without a streak there is none. *)
Settled(r, O, w) ==
  /\ w = "steady" /\ r.streak = 0 => O = {}
  /\ r.streak >= Threshold => O # {}

(* The only check of a session: nobody stores a record between its read and its
   save, and nobody opens an alert between its query and its last resolve. *)
CheckOK(x, r, O, w) ==
  /\ x.pc \in {"read", "save", "rescue"} => Settled(r, O, w)
  /\ x.pc = "rescue" => ~x.doc.phone
  /\ x.pc = "save" =>
       /\ x.prev = r.streak /\ r.seq < x.seq
       /\ x.streak = IF x.verdict = "failed" THEN r.streak + 1 ELSE 0
  /\ x.pc \in {"find", "bump", "create", "flag"} => r.streak >= Threshold
  /\ x.pc \in {"bump", "flag"} => O # {}
  /\ x.pc \in {"query", "resolve"} => r.streak = 0
  /\ x.pc = "resolve" => O \subseteq x.open

RecordOK(r, c) == r.seq <= c /\ (r.verdict # "failed" => r.streak = 0)

(* It resolves alerts of its own session only. *)
OwnAlerts(k) ==
  chk[k].pc = "resolve" => \A a \in chk[k].open : alerts[a].sess = chk[k].sess

AloneInv(w) ==
  /\ \A s \in Session : RecordOK(last[s], clock)
  /\ \A k \in Slot : (chk[k].pc \in {"idle", "next"}) <=> (chk[k].sess = None)
  /\ \A k \in Slot : chk[k].seq <= clock /\ OwnAlerts(k)
  /\ \A k \in Slot, s \in Session :
       chk[k].sess = s => CheckOK(chk[k], last[s], OpenAlerts(s), w)
  /\ \A s \in Session : Quiet(s) => Settled(last[s], OpenAlerts(s), w)

(* A step of one check leaves the other sessions, and the checks of them, as they
   are. *)
LEMMA AloneFrame ==
  ASSUME NEW w \in {"any", "steady"}, TypeOK, TypeOK', StreakInv, AloneInv(w), [Next]_vars,
         Apart, Apart',
         NEW k \in Slot, NEW t \in Session,
         chk[k].sess \in {None, t}, chk'[k].sess \in {None, t},
         chk[k].sess = t \/ chk'[k].sess = t,
         \A m \in Slot \ {k} : chk'[m] = chk[m],
         clock <= clock', chk'[k].seq <= clock', OwnAlerts(k)',
         \A s \in Session \ {t} : last'[s] = last[s] /\ OpenAlerts(s)' = OpenAlerts(s),
         RecordOK(last'[t], clock'),
         chk'[k].pc \in {"idle", "next"} <=> chk'[k].sess = None,
         chk'[k].sess = None => Settled(last'[t], OpenAlerts(t)', w),
         chk'[k].sess = t => CheckOK(chk'[k], last'[t], OpenAlerts(t)', w)
  PROVE  AloneInv(w)'
<1>a. clock \in Nat /\ clock' \in Nat /\ (\A s \in Session : last[s].seq \in Nat)
      /\ (\A m \in Slot : chk[m].seq \in Nat)
      /\ t # None /\ \A m \in Slot : chk[m].sess \in Session \cup {None}
  BY HealthAssumption DEF TypeOK
<1>1. ASSUME NEW s \in Session PROVE RecordOK(last'[s], clock')
  <2>1. CASE s = t
    BY <2>1
  <2>2. CASE s # t
    <3>1. last'[s] = last[s] /\ RecordOK(last[s], clock)
      BY <2>2 DEF AloneInv
    <3> QED
      BY <3>1, <1>a DEF RecordOK
  <2> QED
    BY <2>1, <2>2
<1>2. ASSUME NEW m \in Slot PROVE chk'[m].pc \in {"idle", "next"} <=> chk'[m].sess = None
  <2>1. CASE m = k
    BY <2>1
  <2>2. CASE m # k
    BY <2>2 DEF AloneInv
  <2> QED
    BY <2>1, <2>2
<1>3. ASSUME NEW m \in Slot, NEW s \in Session, chk'[m].sess = s
      PROVE  CheckOK(chk'[m], last'[s], OpenAlerts(s)', w)
  <2>1. CASE m = k
    BY <1>3, <1>a, <2>1, HealthAssumption
  <2>2. CASE m # k
    <3>1. chk'[m] = chk[m]
      BY <2>2
    <3>2. s # t
      BY <1>3, <1>a, <2>2, <3>1 DEF Apart
    <3>3. CheckOK(chk[m], last[s], OpenAlerts(s), w)
      BY <1>3, <3>1 DEF AloneInv
    <3> QED
      BY <3>1, <3>2, <3>3
  <2> QED
    BY <2>1, <2>2
<1>4. ASSUME NEW s \in Session, Quiet(s)' PROVE Settled(last'[s], OpenAlerts(s)', w)
  <2>1. CASE s = t
    BY <1>4, <2>1 DEF Quiet
  <2>2. CASE s # t
    <3>1. Quiet(s)
      BY <1>4, <1>a, <2>2, HealthAssumption DEF Quiet
    <3> QED
      BY <2>2, <3>1 DEF AloneInv
  <2> QED
    BY <2>1, <2>2
<1>5. ASSUME NEW m \in Slot PROVE chk'[m].seq <= clock' /\ OwnAlerts(m)'
  <2>1. CASE m = k
    BY <2>1
  <2>2. CASE m # k
    <3>1. chk'[m] = chk[m] /\ chk[m].seq <= clock /\ OwnAlerts(m)
      BY <2>2 DEF AloneInv
    <3>2. chk[m].open \subseteq Alert /\ BackedCheck(m)
      BY DEF TypeOK, StreakInv
    <3>3. ASSUME NEW a \in chk[m].open, chk[m].pc = "resolve"
          PROVE  alerts'[a].sess = chk[m].sess
      <4>1. alerts[a].status # "none" /\ alerts[a].sess = chk[m].sess
        BY <3>1, <3>2, <3>3 DEF BackedCheck, OwnAlerts
      <4> QED
        BY <3>2, <4>1, AlertsKept
    <3>4. OwnAlerts(m)'
      BY <3>1, <3>3 DEF OwnAlerts
    <3> QED
      BY <3>1, <3>4, <1>a
  <2> QED
    BY <2>1, <2>2
<1> QED
  BY <1>1, <1>2, <1>3, <1>4, <1>5 DEF AloneInv

(* How the set of open alerts of a session changes. *)
LEMMA OpenChanges ==
  ASSUME TypeOK, NEW a \in Alert, NEW s \in Session, NEW t \in Session, NEW n
  PROVE  /\ alerts' = [alerts EXCEPT ![a].status = "resolved"] =>
              OpenAlerts(s)' = OpenAlerts(s) \ {a}
         /\ alerts' = [alerts EXCEPT ![a].count = n] => OpenAlerts(s)' = OpenAlerts(s)
         /\ alerts[a].status = "none"
            /\ alerts' = [alerts EXCEPT ![a] = [sess |-> t, status |-> "open", count |-> n]] =>
              OpenAlerts(s)' = IF s = t THEN OpenAlerts(s) \cup {a} ELSE OpenAlerts(s)
<1>a. alerts \in [Alert -> AlertType] /\ \A b \in Alert : alerts[b] \in AlertType
  BY DEF TypeOK, AlertType
<1>1. ASSUME alerts' = [alerts EXCEPT ![a].status = "resolved"]
      PROVE  OpenAlerts(s)' = OpenAlerts(s) \ {a}
  <2>1. \A b \in Alert : /\ alerts'[b].sess = alerts[b].sess
                         /\ alerts'[b].status = IF b = a THEN "resolved" ELSE alerts[b].status
    BY <1>a, <1>1 DEF AlertType
  <2> QED
    BY <2>1 DEF OpenAlerts
<1>2. ASSUME alerts' = [alerts EXCEPT ![a].count = n]
      PROVE  OpenAlerts(s)' = OpenAlerts(s)
  <2>1. \A b \in Alert : alerts'[b].sess = alerts[b].sess /\ alerts'[b].status = alerts[b].status
    BY <1>a, <1>2 DEF AlertType
  <2> QED
    BY <2>1 DEF OpenAlerts
<1>3. ASSUME alerts[a].status = "none",
             alerts' = [alerts EXCEPT ![a] = [sess |-> t, status |-> "open", count |-> n]]
      PROVE  OpenAlerts(s)' = IF s = t THEN OpenAlerts(s) \cup {a} ELSE OpenAlerts(s)
  <2>1. \A b \in Alert : b # a => alerts'[b] = alerts[b]
    BY <1>a, <1>3
  <2>2. alerts'[a].sess = t /\ alerts'[a].status = "open"
    BY <1>a, <1>3
  <2> QED
    BY <2>1, <2>2, <1>3 DEF OpenAlerts
<1> QED
  BY <1>1, <1>2, <1>3

(* A check that works on a session. *)
LEMMA AloneCheck ==
  ASSUME NEW w \in {"any", "steady"}, TypeOK, StreakInv, AloneInv(w),
         NEW k \in Slot, chk[k].pc \notin {"idle", "next"}
  PROVE  \E s \in Session :
           /\ chk[k].sess = s /\ s # None
           /\ CheckOK(chk[k], last[s], OpenAlerts(s), w) /\ RecordOK(last[s], clock)
<1>1. chk[k].sess \in Session
  BY DEF StreakInv, BackedCheck
<1> QED
  BY <1>1, HealthAssumption DEF AloneInv

(* What the actions of a check do to its slot (x before, y after), the last record
   (r, then q) and the open alerts (O, then P) of its session; Ended is Done or
   Reject. *)
Ended(y) == y.sess = None /\ y.pc \in {"idle", "next"}

Same(x, y, r, q, O, P) == q = r /\ P = O /\ y.sess = x.sess

Reads(x, y, r, q, O, P) ==
  /\ x.pc = "read" /\ y.pc = "save" /\ Same(x, y, r, q, O, P)
  /\ y.prev = r.streak /\ r.seq < y.seq
  /\ y.streak = IF y.verdict = "failed" THEN r.streak + 1 ELSE 0

Refused(x, y, r, q, O, P) ==
  /\ x.pc = "save" /\ y.pc = "rescue" /\ ~y.doc.phone /\ Same(x, y, r, q, O, P)

Saves(x, y, r, q, O, P) ==
  /\ x.pc = "save" /\ P = O
  /\ r.seq < x.seq => q.verdict = x.verdict /\ q.streak = x.streak
  /\ \/ x.streak >= Threshold /\ y.pc = "find" /\ y.sess = x.sess
     \/ x.verdict = "success" /\ x.prev > 0 /\ y.pc = "query" /\ y.sess = x.sess
     \/ /\ x.streak < Threshold /\ ~(x.verdict = "success" /\ x.prev > 0)
        /\ Ended(y)

Rescues(x, y, r, q, O, P) ==
  x.pc = "rescue" /\ (x.doc.phone \/ (q = r /\ P = O /\ Ended(y)))

Finds(x, y, r, q, O, P) ==
  /\ x.pc = "find" /\ Same(x, y, r, q, O, P)
  /\ y.pc = "create" \/ (y.pc = "bump" /\ O # {})

Raises(x, y, r, q, O, P) ==
  /\ x.pc \in {"bump", "create"} /\ y.pc = "flag" /\ q = r /\ y.sess = x.sess
  /\ O \subseteq P /\ (x.pc = "create" => P # {})

Flags(x, y, r, q, O, P) ==
  /\ x.pc = "flag" /\ P = O /\ Ended(y)
  /\ q.verdict = r.verdict /\ q.streak = r.streak /\ q.seq = r.seq

Queries(x, y, r, q, O, P) ==
  x.pc = "query" /\ y.pc = "resolve" /\ Same(x, y, r, q, O, P) /\ y.open = O

Resolves(x, y, r, q, O, P) ==
  /\ x.pc = "resolve" /\ q = r
  /\ \/ \E a : y.pc = "resolve" /\ P = O \ {a} /\ y.open = x.open \ {a} /\ y.sess = x.sess
     \/ x.open = {} /\ P = O /\ Ended(y)

CheckMoves(x, y, r, q, O, P) ==
  \/ Reads(x, y, r, q, O, P) \/ Refused(x, y, r, q, O, P) \/ Saves(x, y, r, q, O, P)
  \/ Rescues(x, y, r, q, O, P) \/ Finds(x, y, r, q, O, P) \/ Raises(x, y, r, q, O, P)
  \/ Flags(x, y, r, q, O, P) \/ Queries(x, y, r, q, O, P) \/ Resolves(x, y, r, q, O, P)

(* Each of them keeps what is known of the only check of a session. *)
LEMMA CheckKeeps ==
  ASSUME NEW w \in {"any", "steady"}, NEW c \in Nat, NEW d \in Nat,
         NEW x \in CheckType, NEW y \in CheckType, NEW r, NEW q, NEW O, NEW P,
         r.streak \in Nat, r.seq \in Nat, q.streak \in Nat, q.seq \in Nat,
         CheckMoves(x, y, r, q, O, P), x.sess # None,
         CheckOK(x, r, O, w), RecordOK(r, c), c <= d, q.seq <= d,
         w = "steady" => x.verdict # "warning"
  PROVE  /\ RecordOK(q, d)
         /\ y.sess = None => Settled(q, P, w)
         /\ y.sess # None => CheckOK(y, q, P, w)
<1> DEFINE G == /\ RecordOK(q, d)
                /\ y.sess = None => Settled(q, P, w)
                /\ y.sess # None => CheckOK(y, q, P, w)
<1>a. Threshold \in Nat /\ Threshold > 0
  BY HealthAssumption
<1>b. /\ x.streak \in Nat /\ x.prev \in Nat
      /\ x.verdict \in {"success", "warning", "failed"}
  BY DEF CheckType, Verdict
<1>c. q = r => RecordOK(q, d)
  BY DEF RecordOK
<1>1. CASE Reads(x, y, r, q, O, P)
  BY <1>1, <1>c DEF Reads, Same, CheckOK
<1>2. CASE Refused(x, y, r, q, O, P)
  BY <1>2, <1>c DEF Refused, Same, CheckOK
<1>3. CASE Saves(x, y, r, q, O, P)
  <2>1. /\ x.prev = r.streak /\ Settled(r, O, w) /\ P = O
        /\ q.verdict = x.verdict /\ q.streak = x.streak
        /\ x.streak = IF x.verdict = "failed" THEN r.streak + 1 ELSE 0
    BY <1>3 DEF Saves, CheckOK
  <2>2. RecordOK(q, d)
    BY <2>1 DEF RecordOK
  <2>3. CASE x.streak >= Threshold /\ y.pc = "find" /\ y.sess = x.sess
    BY <2>1, <2>2, <2>3 DEF CheckOK
  <2>4. CASE x.verdict = "success" /\ x.prev > 0 /\ y.pc = "query" /\ y.sess = x.sess
    BY <2>1, <2>2, <2>4 DEF CheckOK
  <2>5. CASE /\ x.streak < Threshold /\ ~(x.verdict = "success" /\ x.prev > 0)
             /\ Ended(y)
    <3>1. w = "steady" /\ q.streak = 0 => O = {}
      BY <1>b, <2>1, <2>5 DEF Settled
    <3>2. Settled(q, P, w)
      BY <1>a, <1>b, <2>1, <2>5, <3>1 DEF Settled
    <3> QED
      BY <2>2, <2>5, <3>2 DEF Ended
  <2> QED
    BY <1>3, <2>3, <2>4, <2>5 DEF Saves
<1>4. CASE Rescues(x, y, r, q, O, P)
  BY <1>4, <1>c DEF Rescues, Ended, CheckOK
<1>5. CASE Finds(x, y, r, q, O, P)
  BY <1>5, <1>c DEF Finds, Same, CheckOK
<1>6. CASE Raises(x, y, r, q, O, P)
  BY <1>6, <1>c DEF Raises, CheckOK
<1>7. CASE Flags(x, y, r, q, O, P)
  <2>1. r.streak >= Threshold /\ O # {}
    BY <1>7 DEF Flags, CheckOK
  <2>2. RecordOK(q, d)
    BY <1>7 DEF Flags, RecordOK
  <2>3. Settled(q, P, w)
    BY <1>7, <1>a, <2>1 DEF Flags, Settled
  <2> QED
    BY <1>7, <2>2, <2>3 DEF Flags, Ended
<1>8. CASE Queries(x, y, r, q, O, P)
  BY <1>8, <1>c DEF Queries, Same, CheckOK
<1>9. CASE Resolves(x, y, r, q, O, P)
  <2>1. r.streak = 0 /\ O \subseteq x.open /\ q = r
    BY <1>9 DEF Resolves, CheckOK
  <2>2. CASE x.open = {} /\ P = O /\ Ended(y)
    <3>1. Settled(q, P, w)
      BY <1>a, <2>1, <2>2 DEF Settled
    <3> QED
      BY <1>c, <2>1, <2>2, <3>1 DEF Ended
  <2>3. ASSUME NEW a, y.pc = "resolve", P = O \ {a}, y.open = x.open \ {a},
               y.sess = x.sess
        PROVE  G
    <3>1. P \subseteq y.open
      BY <2>1, <2>3
    <3> QED
      BY <1>c, <2>1, <2>3, <3>1 DEF CheckOK
  <2> QED
    BY <1>9, <2>2, <2>3 DEF Resolves
<1> QED
  BY <1>1, <1>2, <1>3, <1>4, <1>5, <1>6, <1>7, <1>8, <1>9 DEF CheckMoves

(* What a check does to its session, and that it does nothing to the others. *)
Moved(k, s) ==
  /\ CheckMoves(chk[k], chk'[k], last[s], last'[s], OpenAlerts(s), OpenAlerts(s)')
  /\ last'[s].seq <= clock' /\ clock <= clock' /\ chk'[k].seq <= clock'
  /\ \A m \in Slot \ {k} : chk'[m] = chk[m]
  /\ chk'[k].sess \in {None, s}
  /\ chk'[k].pc \in {"idle", "next"} <=> chk'[k].sess = None
  /\ chk'[k].pc = "resolve" => chk'[k].open \subseteq
       IF chk[k].pc = "resolve" THEN chk[k].open ELSE OpenAlerts(s)
  /\ \A u \in Session \ {s} : last'[u] = last[u] /\ OpenAlerts(u)' = OpenAlerts(u)

(* The end of a check, and a step to the next label. *)
LEMMA DoneMoves ==
  ASSUME chk \in [Slot -> CheckType], NEW k \in Slot, Done(k) \/ Reject(k)
  PROVE  /\ Ended(chk'[k]) /\ chk'[k].seq = 0
         /\ \A m \in Slot \ {k} : chk'[m] = chk[m]
  BY DEF Done, Reject, Ended, Idle

LEMMA GotoMoves ==
  ASSUME chk \in [Slot -> CheckType], NEW k \in Slot, NEW l, Goto(k, l)
  PROVE  /\ chk'[k].pc = l /\ chk'[k].sess = chk[k].sess /\ chk'[k].doc = chk[k].doc
         /\ chk'[k].seq = chk[k].seq
         /\ \A m \in Slot \ {k} : chk'[m] = chk[m]
  BY DEF Goto, CheckType

(* A stored record changes the last one of its session at most. *)
LEMMA StoreMoves ==
  ASSUME TypeOK, NEW s \in Session, NEW v, NEW n, NEW q \in Nat, Store(s, v, n, q)
  PROVE  /\ last[s].seq < q =>
              last'[s].verdict = v /\ last'[s].streak = n /\ last'[s].seq = q
         /\ \A b \in Nat : last[s].seq <= b /\ q <= b => last'[s].seq <= b
         /\ \A u \in Session \ {s} : last'[u] = last[u]
<1>1. /\ \A u \in Session \ {s} : last'[u] = last[u]
      /\ last'[s] = IF q > last[s].seq THEN NewRecord(v, n, q) ELSE last[s]
      /\ last[s].seq \in Nat
  BY DEF TypeOK, Store
<1> QED
  BY <1>1 DEF NewRecord

LEMMA CheckShape ==
  ASSUME TypeOK, StreakInv, NEW w \in {"any", "steady"}, AloneInv(w),
         NEW k \in Slot, NEW s \in Session, chk[k].sess = s, Check(k)
  PROVE  Moved(k, s)
<1>a. /\ chk \in [Slot -> CheckType] /\ chk[k] \in CheckType
      /\ clock \in Nat /\ last[s].seq \in Nat /\ chk[k].seq \in Nat
      /\ last[s].seq <= clock /\ chk[k].seq <= clock
      /\ s # None
  BY HealthAssumption DEF TypeOK, CheckType, AloneInv, RecordOK
<1>b. UNCHANGED alerts => \A u \in Session : OpenAlerts(u)' = OpenAlerts(u)
  BY DEF OpenAlerts
<1>1. CASE ReadLastCheck(k)
  <2> DEFINE v == PerformHealthCheck(chk[k].doc)
             n == Streak(v, last[s].streak)
  <2>1. chk' = [chk EXCEPT ![k].pc = "save", ![k].verdict = v,
                  ![k].prev = last[s].streak, ![k].seq = clock + 1, ![k].streak = n]
        /\ clock' = clock + 1 /\ UNCHANGED <<last, alerts>> /\ chk[k].pc = "read"
    BY <1>1 DEF ReadLastCheck
  <2>2. n = IF v = "failed" THEN last[s].streak + 1 ELSE 0
    BY DEF Streak
  <2> HIDE DEF v, n
  <2>3. /\ chk'[k].pc = "save" /\ chk'[k].sess = s /\ chk'[k].verdict = v
        /\ chk'[k].prev = last[s].streak /\ chk'[k].seq = clock + 1 /\ chk'[k].streak = n
        /\ \A m \in Slot \ {k} : chk'[m] = chk[m]
    BY <2>1, <1>a DEF CheckType
  <2>4. Reads(chk[k], chk'[k], last[s], last'[s], OpenAlerts(s), OpenAlerts(s)')
    BY <1>a, <1>b, <2>1, <2>2, <2>3 DEF Reads, Same
  <2> QED
    BY <1>a, <1>b, <2>1, <2>3, <2>4 DEF Moved, CheckMoves
<1>2. CASE SaveCheck(k)
  <2>1. UNCHANGED <<alerts, clock>> /\ chk[k].pc = "save"
    BY <1>2 DEF SaveCheck
  <2>2. CASE ~chk[k].doc.phone /\ Goto(k, "rescue") /\ UNCHANGED <<last, failures>>
    <3>1. Refused(chk[k], chk'[k], last[s], last'[s], OpenAlerts(s), OpenAlerts(s)')
      BY <1>a, <1>b, <2>1, <2>2, GotoMoves DEF Refused, Same
    <3> QED
      BY <1>a, <1>b, <2>1, <2>2, <3>1, GotoMoves DEF Moved, CheckMoves
  <2>3. CASE /\ Store(s, chk[k].verdict, chk[k].streak, chk[k].seq)
             /\ \/ AlertDue(k) /\ Goto(k, "find")
                \/ ~AlertDue(k) /\ FailuresEnded(k) /\ Goto(k, "query")
                \/ ~AlertDue(k) /\ ~FailuresEnded(k) /\ Done(k)
    <3>1. /\ last[s].seq < chk[k].seq =>
               last'[s].verdict = chk[k].verdict /\ last'[s].streak = chk[k].streak
          /\ last'[s].seq <= clock
          /\ \A u \in Session \ {s} : last'[u] = last[u]
      BY <1>a, <2>3, StoreMoves
    <3>2. \A m \in Slot \ {k} : chk'[m] = chk[m]
      BY <1>a, <2>3, GotoMoves, DoneMoves
    <3>3. \/ chk[k].streak >= Threshold /\ chk'[k].pc = "find" /\ chk'[k].sess = s
             /\ chk'[k].seq = chk[k].seq
          \/ chk[k].verdict = "success" /\ chk[k].prev > 0 /\ chk'[k].pc = "query"
             /\ chk'[k].sess = s /\ chk'[k].seq = chk[k].seq
          \/ ~(chk[k].streak >= Threshold) /\ ~(chk[k].verdict = "success" /\ chk[k].prev > 0)
             /\ Ended(chk'[k]) /\ chk'[k].seq = 0
      BY <1>a, <2>3, GotoMoves, DoneMoves DEF AlertDue, FailuresEnded
    <3>4. Saves(chk[k], chk'[k], last[s], last'[s], OpenAlerts(s), OpenAlerts(s)')
      <4>1. chk[k].streak \in Nat /\ Threshold \in Nat
        BY <1>a, HealthAssumption DEF CheckType
      <4> QED
        BY <1>a, <1>b, <2>1, <3>1, <3>3, <4>1 DEF Saves
    <3> QED
      BY <1>a, <1>b, <2>1, <3>1, <3>2, <3>3, <3>4 DEF Moved, CheckMoves, Ended
  <2> QED
    BY <1>2, <2>2, <2>3 DEF SaveCheck
<1>3. CASE RescueCheck(k)
  <2>1. UNCHANGED alerts /\ chk[k].pc = "rescue"
    BY <1>3 DEF RescueCheck
  <2>2. CASE ~chk[k].doc.phone /\ Reject(k) /\ UNCHANGED <<last, failures, clock>>
    <3>1. Rescues(chk[k], chk'[k], last[s], last'[s], OpenAlerts(s), OpenAlerts(s)')
      BY <1>a, <1>b, <2>1, <2>2, DoneMoves DEF Rescues
    <3> QED
      BY <1>a, <1>b, <2>1, <2>2, <3>1, DoneMoves DEF Moved, CheckMoves, Ended
  <2>3. CASE /\ chk[k].doc.phone /\ clock' = clock + 1 /\ Done(k)
             /\ Store(s, RescueVerdict, 1, clock + 1)
    <3>1. Rescues(chk[k], chk'[k], last[s], last'[s], OpenAlerts(s), OpenAlerts(s)')
      BY <2>1, <2>3 DEF Rescues
    <3>2. last'[s].seq <= clock' /\ \A u \in Session \ {s} : last'[u] = last[u]
      <4>1. clock + 1 \in Nat /\ last[s].seq <= clock + 1
        BY <1>a
      <4> QED
        BY <1>a, <2>3, <4>1, StoreMoves
    <3> QED
      BY <1>a, <1>b, <2>1, <2>3, <3>1, <3>2, DoneMoves DEF Moved, CheckMoves, Ended
  <2> QED
    BY <1>3, <2>2, <2>3 DEF RescueCheck
<1>4. CASE FindOpenAlert(k)
  <2>1. UNCHANGED <<alerts, clock, last>> /\ chk[k].pc = "find"
    BY <1>4, Zenon DEF FindOpenAlert
  <2>2. /\ chk'[k].pc = "create" \/ (chk'[k].pc = "bump" /\ OpenAlerts(s) # {})
        /\ chk'[k].sess = s /\ chk'[k].seq = chk[k].seq
        /\ \A m \in Slot \ {k} : chk'[m] = chk[m]
    <3>1. CASE Goto(k, "create")
      BY <1>a, <3>1, GotoMoves
    <3>2. ASSUME NEW a \in OpenAlerts(s),
                 chk' = [chk EXCEPT ![k].pc = "bump", ![k].alert = a,
                                    ![k].seen = alerts[a].count]
          PROVE  /\ chk'[k].pc = "bump" /\ OpenAlerts(s) # {}
                 /\ chk'[k].sess = s /\ chk'[k].seq = chk[k].seq
                 /\ \A m \in Slot \ {k} : chk'[m] = chk[m]
      <4>1. PICK n : chk' = [chk EXCEPT ![k].pc = "bump", ![k].alert = a, ![k].seen = n]
        BY <3>2
      <4> QED
        BY <1>a, <3>2, <4>1 DEF CheckType
    <3> QED
      BY <1>4, <3>1, <3>2, Zenon DEF FindOpenAlert
  <2>3. Finds(chk[k], chk'[k], last[s], last'[s], OpenAlerts(s), OpenAlerts(s)')
    BY <1>b, <2>1, <2>2 DEF Finds, Same
  <2> QED
    BY <1>a, <1>b, <2>1, <2>2, <2>3 DEF Moved, CheckMoves
<1>5. CASE BumpAlert(k)
  <2>1. UNCHANGED <<clock, last>> /\ chk[k].pc = "bump" /\ Goto(k, "flag")
    BY <1>5 DEF BumpAlert
  <2>2. \A u \in Session : OpenAlerts(u)' = OpenAlerts(u)
    <3>1. PICK a, n : alerts' = [alerts EXCEPT ![a].count = n]
      BY <1>5 DEF BumpAlert
    <3>2. CASE a \in Alert
      BY <3>1, <3>2, OpenChanges
    <3>3. CASE a \notin Alert
      <4>1. \A b \in Alert : alerts'[b] = alerts[b]
        BY <3>1, <3>3 DEF TypeOK
      <4> QED
        BY <4>1 DEF OpenAlerts
    <3> QED
      BY <3>2, <3>3
  <2>3. Raises(chk[k], chk'[k], last[s], last'[s], OpenAlerts(s), OpenAlerts(s)')
    BY <1>a, <2>1, <2>2, GotoMoves DEF Raises
  <2> QED
    BY <1>a, <2>1, <2>2, <2>3, GotoMoves DEF Moved, CheckMoves
<1>6. CASE CreateAlert(k)
  <2>1. UNCHANGED <<clock, last>> /\ chk[k].pc = "create" /\ Goto(k, "flag")
    BY <1>6 DEF CreateAlert
  <2>2. PICK a \in Alert :
          /\ alerts[a].status = "none"
          /\ alerts' = [alerts EXCEPT ![a] = [sess |-> s, status |-> "open", count |-> 1]]
    BY <1>6 DEF CreateAlert
  <2>3. \A u \in Session :
          OpenAlerts(u)' = IF u = s THEN OpenAlerts(u) \cup {a} ELSE OpenAlerts(u)
    BY <2>2, OpenChanges
  <2>4. Raises(chk[k], chk'[k], last[s], last'[s], OpenAlerts(s), OpenAlerts(s)')
    BY <1>a, <2>1, <2>3, GotoMoves DEF Raises
  <2> QED
    BY <1>a, <2>1, <2>3, <2>4, GotoMoves DEF Moved, CheckMoves
<1>7. CASE FlagCheck(k)
  <2>1. UNCHANGED <<clock, alerts>> /\ chk[k].pc = "flag" /\ Done(k)
    BY <1>7 DEF FlagCheck
  <2>2. PICK v : last' = [last EXCEPT ![s].alertTriggered = v]
    BY <1>7 DEF FlagCheck
  <2>3. /\ last'[s].verdict = last[s].verdict /\ last'[s].streak = last[s].streak
        /\ last'[s].seq = last[s].seq /\ \A u \in Session \ {s} : last'[u] = last[u]
    BY <2>2 DEF TypeOK
  <2>4. Flags(chk[k], chk'[k], last[s], last'[s], OpenAlerts(s), OpenAlerts(s)')
    BY <1>a, <1>b, <2>1, <2>3, DoneMoves DEF Flags
  <2> QED
    BY <1>a, <1>b, <2>1, <2>3, <2>4, DoneMoves DEF Moved, CheckMoves, Ended
<1>8. CASE QueryOpenAlerts(k)
  <2>1. UNCHANGED <<clock, alerts, last>> /\ chk[k].pc = "query"
    BY <1>8 DEF QueryOpenAlerts
  <2>2. PICK v : v = OpenAlerts(s) /\ chk' = [chk EXCEPT ![k].pc = "resolve", ![k].open = v]
    BY <1>8 DEF QueryOpenAlerts
  <2>3. /\ chk'[k].pc = "resolve" /\ chk'[k].open = v /\ chk'[k].sess = s
        /\ chk'[k].seq = chk[k].seq /\ \A m \in Slot \ {k} : chk'[m] = chk[m]
    BY <1>a, <2>2 DEF CheckType
  <2>4. Queries(chk[k], chk'[k], last[s], last'[s], OpenAlerts(s), OpenAlerts(s)')
    BY <1>b, <2>1, <2>2, <2>3 DEF Queries, Same
  <2> QED
    BY <1>a, <1>b, <2>1, <2>2, <2>3, <2>4 DEF Moved, CheckMoves
<1>9. CASE ResolveNext(k)
  <2>1. UNCHANGED <<clock, last>> /\ chk[k].pc = "resolve"
    BY <1>9 DEF ResolveNext
  <2>2. CASE chk[k].open = {} /\ Done(k) /\ UNCHANGED alerts
    <3>1. Resolves(chk[k], chk'[k], last[s], last'[s], OpenAlerts(s), OpenAlerts(s)')
      BY <1>a, <1>b, <2>1, <2>2, DoneMoves DEF Resolves
    <3> QED
      BY <1>a, <1>b, <2>1, <2>2, <3>1, DoneMoves DEF Moved, CheckMoves, Ended
  <2>3. ASSUME NEW a \in chk[k].open, alerts' = [alerts EXCEPT ![a].status = "resolved"],
               chk' = [chk EXCEPT ![k].open = @ \ {a}]
        PROVE  Moved(k, s)
    <3>1. a \in Alert /\ alerts[a].sess = s
      BY <1>a, <2>1, <2>3 DEF CheckType, AloneInv, OwnAlerts
    <3>2. /\ chk'[k].pc = "resolve" /\ chk'[k].open = chk[k].open \ {a}
          /\ chk'[k].sess = s /\ chk'[k].seq = chk[k].seq
          /\ \A m \in Slot \ {k} : chk'[m] = chk[m]
      BY <1>a, <2>1, <2>3 DEF CheckType
    <3>3. \A u \in Session : OpenAlerts(u)' = OpenAlerts(u) \ {a}
      BY <2>3, <3>1, OpenChanges
    <3>4. \A u \in Session \ {s} : OpenAlerts(u)' = OpenAlerts(u)
      BY <3>1, <3>3 DEF OpenAlerts
    <3>5. Resolves(chk[k], chk'[k], last[s], last'[s], OpenAlerts(s), OpenAlerts(s)')
      BY <2>1, <3>2, <3>3 DEF Resolves
    <3> QED
      BY <1>a, <2>1, <3>2, <3>4, <3>5 DEF Moved, CheckMoves
  <2> QED
    BY <1>9, <2>2, <2>3 DEF ResolveNext
<1> QED
  BY <1>1, <1>2, <1>3, <1>4, <1>5, <1>6, <1>7, <1>8, <1>9 DEF Check

(* A step after which the records, the alerts and the sessions of the slots are as
   they were. *)
LEMMA AloneStill ==
  ASSUME NEW w \in {"any", "steady"}, TypeOK, AloneInv(w), UNCHANGED <<last, alerts, clock>>,
         \A m \in Slot : \/ chk'[m] = chk[m]
                         \/ chk[m].sess = None /\ Ended(chk'[m]) /\ chk'[m].seq = chk[m].seq
  PROVE  AloneInv(w)'
<1>1. \A s \in Session : last'[s] = last[s] /\ OpenAlerts(s)' = OpenAlerts(s)
  BY DEF OpenAlerts
<1>2. \A m \in Slot : chk'[m].sess = chk[m].sess /\ chk'[m].seq = chk[m].seq
  BY DEF Ended
<1>3. \A m \in Slot : (chk'[m].pc \in {"idle", "next"}) <=> (chk'[m].sess = None)
  BY DEF AloneInv, Ended
<1>4. \A m \in Slot : chk'[m].seq <= clock' /\ OwnAlerts(m)'
  BY <1>2 DEF AloneInv, OwnAlerts, Ended
<1>5. ASSUME NEW m \in Slot, NEW s \in Session, chk'[m].sess = s
      PROVE  CheckOK(chk'[m], last'[s], OpenAlerts(s)', w)
  <2>1. s # None
    BY HealthAssumption
  <2>2. chk'[m] = chk[m]
    BY <1>5, <2>1 DEF Ended
  <2> QED
    BY <1>1, <1>5, <2>2 DEF AloneInv
<1>6. \A s \in Session : Quiet(s)' => Settled(last'[s], OpenAlerts(s)', w)
  BY <1>1, <1>2 DEF AloneInv, Quiet
<1>7. \A s \in Session : RecordOK(last'[s], clock')
  BY <1>1 DEF AloneInv
<1> QED
  BY <1>3, <1>4, <1>5, <1>6, <1>7 DEF AloneInv

(* A check begins. *)
LEMMA AloneBegin ==
  ASSUME NEW w \in {"any", "steady"}, TypeOK, TypeOK', StreakInv, AloneInv(w), [Next]_vars,
         Apart, Apart', UNCHANGED <<last, alerts, clock>>,
         NEW k \in Slot, NEW s \in Session, chk[k].sess = None,
         chk'[k].pc = "read", chk'[k].sess = s, chk'[k].seq = chk[k].seq,
         \A m \in Slot \ {k} : chk'[m] = chk[m]
  PROVE  AloneInv(w)'
<1>1. \A t \in Session : last'[t] = last[t] /\ OpenAlerts(t)' = OpenAlerts(t)
  BY DEF OpenAlerts
<1>2. s # None
  BY HealthAssumption
<1>3. Quiet(s)
  <2>1. ASSUME NEW m \in Slot, chk[m].sess = s PROVE FALSE
    <3>1. m # k /\ chk'[m].sess = chk'[k].sess
      BY <1>2, <2>1
    <3> QED
      BY <1>2, <3>1 DEF Apart
  <2> QED
    BY <2>1 DEF Quiet
<1>4. Settled(last'[s], OpenAlerts(s)', w) /\ RecordOK(last'[s], clock')
  BY <1>1, <1>3 DEF AloneInv
<1>5. CheckOK(chk'[k], last'[s], OpenAlerts(s)', w)
  BY <1>4 DEF CheckOK
<1>6. clock \in Nat /\ clock <= clock' /\ chk'[k].seq <= clock'
  BY DEF TypeOK, AloneInv
<1>7. OwnAlerts(k)'
  BY DEF OwnAlerts
<1> QED
  BY <1>1, <1>2, <1>4, <1>5, <1>6, <1>7, AloneFrame

(* A check goes on. *)
LEMMA AloneCheckStep ==
  ASSUME NEW w \in {"any", "steady"}, TypeOK, TypeOK', StreakInv, AloneInv(w), [Next]_vars,
         Apart, Apart', w = "steady" => NoWarning, NEW k \in Slot, Check(k)
  PROVE  AloneInv(w)'
<1>1. chk[k].pc \notin {"idle", "next"}
  <2>1. ~(chk[k].pc \in {"idle", "next"} /\ (ReadLastCheck(k) \/ SaveCheck(k) \/ RescueCheck(k)))
    BY DEF ReadLastCheck, SaveCheck, RescueCheck
  <2>2. ~(chk[k].pc \in {"idle", "next"} /\ (FindOpenAlert(k) \/ BumpAlert(k) \/ CreateAlert(k)))
    BY Zenon DEF FindOpenAlert, BumpAlert, CreateAlert
  <2>3. ~(chk[k].pc \in {"idle", "next"} /\ (FlagCheck(k) \/ QueryOpenAlerts(k) \/ ResolveNext(k)))
    BY DEF FlagCheck, QueryOpenAlerts, ResolveNext
  <2> QED
    BY <2>1, <2>2, <2>3 DEF Check
<1>2. PICK s \in Session :
        /\ chk[k].sess = s /\ s # None
        /\ CheckOK(chk[k], last[s], OpenAlerts(s), w) /\ RecordOK(last[s], clock)
  BY <1>1, AloneCheck
<1>3. Moved(k, s)
  BY <1>2, CheckShape
<1>4. /\ chk[k] \in CheckType /\ chk'[k] \in CheckType /\ clock \in Nat /\ clock' \in Nat
      /\ last[s].streak \in Nat /\ last[s].seq \in Nat
      /\ last'[s].streak \in Nat /\ last'[s].seq \in Nat
  BY DEF TypeOK, CheckType
<1>5. /\ RecordOK(last'[s], clock')
      /\ chk'[k].sess = None => Settled(last'[s], OpenAlerts(s)', w)
      /\ chk'[k].sess # None => CheckOK(chk'[k], last'[s], OpenAlerts(s)', w)
  BY <1>2, <1>3, <1>4, CheckKeeps DEF Moved, NoWarning
<1>6. OwnAlerts(k)'
  <2> SUFFICES ASSUME chk'[k].pc = "resolve", NEW a \in chk'[k].open
               PROVE  alerts'[a].sess = chk'[k].sess
    BY DEF OwnAlerts
  <2>1. chk'[k].sess = s
    BY <1>3 DEF Moved
  <2>2. a \in Alert /\ alerts[a].sess = s /\ alerts[a].status # "none"
    <3>1. CASE chk[k].pc = "resolve"
      <4>1. a \in chk[k].open
        BY <1>3, <3>1 DEF Moved
      <4> QED
        BY <1>2, <1>4, <3>1, <4>1 DEF StreakInv, BackedCheck, CheckType, AloneInv, OwnAlerts
    <3>2. CASE chk[k].pc # "resolve"
      BY <1>3, <3>2 DEF Moved, OpenAlerts
    <3> QED
      BY <3>1, <3>2
  <2> QED
    BY <2>1, <2>2, AlertsKept
<1> QED
  BY <1>2, <1>3, <1>5, <1>6, AloneFrame DEF Moved

LEMMA AloneStep ==
  ASSUME NEW w \in {"any", "steady"}, TypeOK, TypeOK', StreakInv, AloneInv(w), [Next]_vars,
         Apart, Apart', Undisturbed, Undisturbed', w = "steady" => NoWarning
  PROVE  AloneInv(w)'
<1>a. /\ chk \in [Slot -> CheckType] /\ (\A m \in Slot : chk[m] \in CheckType)
      /\ Cron \subseteq Slot /\ Manual \subseteq Slot
  BY DEF TypeOK, CheckType, Slot
<1>1. ASSUME NEW s \in Session, SessionChanges(s) PROVE AloneInv(w)'
  BY <1>1, AloneStill DEF SessionChanges
<1>2. ASSUME NEW k \in Cron, StartRound(k) PROVE AloneInv(w)'
  <2>1. UNCHANGED <<last, alerts, clock>> /\ chk[k].pc = "idle" /\ Goto(k, "next")
    BY <1>2 DEF StartRound
  <2>2. chk[k].sess = None
    BY <1>a, <2>1 DEF AloneInv
  <2>3. chk'[k].pc = "next" /\ chk'[k].sess = None /\ chk'[k].seq = chk[k].seq
        /\ \A m \in Slot \ {k} : chk'[m] = chk[m]
    BY <1>a, <2>1, <2>2, GotoMoves
  <2> QED
    BY <2>1, <2>2, <2>3, AloneStill DEF Ended
<1>3. ASSUME NEW k \in Cron, RoundNext(k) PROVE AloneInv(w)'
  <2>1. UNCHANGED <<last, alerts, clock>> /\ chk[k].pc = "next"
    BY <1>3, Zenon DEF RoundNext
  <2>2. chk[k].sess = None
    BY <1>a, <2>1 DEF AloneInv
  <2>3. CASE Goto(k, "idle")
    <3>1. chk'[k].pc = "idle" /\ chk'[k].sess = None /\ chk'[k].seq = chk[k].seq
          /\ \A m \in Slot \ {k} : chk'[m] = chk[m]
      BY <1>a, <2>2, <2>3, GotoMoves
    <3> QED
      BY <2>1, <2>2, <3>1, AloneStill DEF Ended
  <2>4. ASSUME NEW sd \in round[k],
               chk' = [chk EXCEPT ![k].pc = "read", ![k].sess = sd[1], ![k].doc = sd[2]]
        PROVE  AloneInv(w)'
    <3>1. sd \in Session \X Doc
      BY <2>4 DEF TypeOK
    <3>2. PICK s \in Session : s = sd[1]
      BY <3>1
    <3>3. PICK v : chk' = [chk EXCEPT ![k].pc = "read", ![k].sess = s, ![k].doc = v]
      BY <2>4, <3>2
    <3>4. /\ chk'[k].pc = "read" /\ chk'[k].sess = s /\ chk'[k].seq = chk[k].seq
          /\ \A m \in Slot \ {k} : chk'[m] = chk[m]
      BY <1>a, <3>3 DEF CheckType
    <3> QED
      BY <1>a, <2>1, <2>2, <3>4, AloneBegin
  <2> QED
    BY <1>3, <2>3, <2>4, Zenon DEF RoundNext
<1>4. ASSUME NEW k \in Manual, NEW s \in Session, StartManual(k, s) PROVE AloneInv(w)'
  <2>1. UNCHANGED <<last, alerts, clock>> /\ chk[k].pc = "idle"
    BY <1>4 DEF StartManual
  <2>2. chk[k].sess = None
    BY <1>a, <2>1 DEF AloneInv
  <2>3. PICK v : chk' = [chk EXCEPT ![k].pc = "read", ![k].sess = s, ![k].doc = v]
    BY <1>4 DEF StartManual
  <2>4. /\ chk'[k].pc = "read" /\ chk'[k].sess = s /\ chk'[k].seq = chk[k].seq
        /\ \A m \in Slot \ {k} : chk'[m] = chk[m]
    BY <1>a, <2>3 DEF CheckType
  <2> QED
    BY <1>a, <2>1, <2>2, <2>4, AloneBegin
<1>5. ASSUME NEW k \in Slot, DbError(k) PROVE FALSE
  BY <1>5 DEF DbError, Undisturbed
<1>6. ~Crash
  BY DEF Crash, Undisturbed
<1>7. CASE UNCHANGED vars
  BY <1>7, AloneStill DEF vars
<1> QED
  BY <1>1, <1>2, <1>3, <1>4, <1>5, <1>6, <1>7, AloneCheckStep DEF Next

LEMMA AloneInit == \A w \in {"any", "steady"} : Init => AloneInv(w)
  BY HealthAssumption DEF Init, AloneInv, RecordOK, OwnAlerts, Idle, Quiet, Settled, CheckOK,
     OpenAlerts

SustainInv == AloneInv("any")
RecoverInv == AloneInv("steady")

LEMMA SustainStep ==
  ASSUME TypeOK, TypeOK', StreakInv, SustainInv, [Next]_vars, Apart, Apart', Undisturbed,
         Undisturbed'
  PROVE  SustainInv'
<1>1. PICK w \in {"any", "steady"} : w = "any"
  OBVIOUS
<1>2. AloneInv(w)
  BY <1>1 DEF SustainInv
<1>3. AloneInv(w)'
  BY <1>1, <1>2, AloneStep
<1> QED
  BY <1>1, <1>3 DEF SustainInv

LEMMA RecoverStep ==
  ASSUME TypeOK, TypeOK', StreakInv, RecoverInv, [Next]_vars, Apart, Apart', Undisturbed,
         Undisturbed', NoWarning
  PROVE  RecoverInv'
<1>1. PICK w \in {"any", "steady"} : w = "steady"
  OBVIOUS
<1>2. AloneInv(w)
  BY <1>1 DEF RecoverInv
<1>3. AloneInv(w)'
  BY <1>1, <1>2, AloneStep
<1> QED
  BY <1>1, <1>3 DEF RecoverInv

(* As long as checks of one session do not overlap and nothing fails, a session at
   whose last check the streak had reached the threshold has an open alert when
   that check is over: it was found or created then, and no success came since. *)
THEOREM SustainedFailureAlerted ==
  Spec /\ []Apart /\ []Undisturbed => []SustainedFailureHasOpenAlert
<1>1. Init => SustainInv
  BY AloneInit DEF SustainInv
<1>2. TypeOK /\ TypeOK' /\ StreakInv /\ SustainInv /\ [Next]_vars
        /\ Apart /\ Apart' /\ Undisturbed /\ Undisturbed' => SustainInv'
  BY SustainStep
<1>3. SustainInv => SustainedFailureHasOpenAlert
  BY DEF SustainInv, AloneInv, Settled, SustainedFailureHasOpenAlert
<1> QED
  BY <1>1, <1>2, <1>3, TypeCorrect, StreaksBacked, PTL DEF Spec

(* If moreover no check ends in a warning, the first success after failures
   resolves every open alert of the session, whatever the other sessions do. *)
THEOREM RecoveryResolves ==
  Spec /\ []Apart /\ []Undisturbed /\ []NoWarning => []RecoveredSessionHasNoOpenAlert
<1>1. Init => RecoverInv
  BY AloneInit DEF RecoverInv
<1>2. TypeOK /\ TypeOK' /\ StreakInv /\ RecoverInv /\ [Next]_vars
        /\ Apart /\ Apart' /\ Undisturbed /\ Undisturbed' /\ NoWarning => RecoverInv'
  BY RecoverStep
<1>3. RecoverInv => RecoveredSessionHasNoOpenAlert
  BY DEF RecoverInv, AloneInv, RecordOK, Settled, RecoveredSessionHasNoOpenAlert
<1> QED
  BY <1>1, <1>2, <1>3, TypeCorrect, StreaksBacked, PTL DEF Spec

(* Who is about to create an alert has found none, and no other check of the
   session has come since. *)
OneOpenInv ==
  /\ \A s \in Session : \A a, b \in OpenAlerts(s) : a = b
  /\ \A k \in Slot, s \in Session :
       chk[k].pc = "create" /\ chk[k].sess = s => OpenAlerts(s) = {}

(* An open alert was open before, or a check that has found none creates it. *)
LEMMA OpenGrows ==
  ASSUME TypeOK, StreakInv, [Next]_vars, NEW s \in Session
  PROVE  \/ OpenAlerts(s)' \subseteq OpenAlerts(s)
         \/ \E k \in Slot, a \in Alert :
              /\ chk[k].pc = "create" /\ chk[k].sess = s /\ chk'[k].pc # "create"
              /\ \A m \in Slot \ {k} : chk'[m] = chk[m]
              /\ OpenAlerts(s)' = OpenAlerts(s) \cup {a}
<1>a. chk \in [Slot -> CheckType] /\ (\A m \in Slot : chk[m] \in CheckType)
  BY DEF TypeOK, CheckType
<1> DEFINE Shrunk == OpenAlerts(s)' \subseteq OpenAlerts(s)
           Grown  == \E k \in Slot, a \in Alert :
                       /\ chk[k].pc = "create" /\ chk[k].sess = s /\ chk'[k].pc # "create"
                       /\ \A m \in Slot \ {k} : chk'[m] = chk[m]
                       /\ OpenAlerts(s)' = OpenAlerts(s) \cup {a}
<1> SUFFICES Shrunk \/ Grown
  OBVIOUS
<1>1. UNCHANGED alerts => Shrunk
  BY DEF OpenAlerts
<1>2. ASSUME NEW k \in Slot, BumpAlert(k) PROVE Shrunk
  <2>1. PICK a, n : alerts' = [alerts EXCEPT ![a].count = n]
    BY <1>2 DEF BumpAlert
  <2>2. CASE a \in Alert
    BY <2>1, <2>2, OpenChanges
  <2>3. CASE a \notin Alert
    <3>1. \A b \in Alert : alerts'[b] = alerts[b]
      BY <2>1, <2>3 DEF TypeOK
    <3> QED
      BY <3>1 DEF OpenAlerts
  <2> QED
    BY <2>2, <2>3
<1>3. ASSUME NEW k \in Slot, CreateAlert(k) PROVE Shrunk \/ Grown
  <2>1. chk[k].pc = "create" /\ Goto(k, "flag") /\ chk[k].sess \in Session
    BY <1>3 DEF CreateAlert, StreakInv, BackedCheck
  <2>2. PICK t \in Session : t = chk[k].sess
    BY <2>1
  <2>3. PICK a \in Alert :
          /\ alerts[a].status = "none"
          /\ alerts' = [alerts EXCEPT ![a] = [sess |-> t, status |-> "open", count |-> 1]]
    BY <1>3, <2>2 DEF CreateAlert
  <2>4. OpenAlerts(s)' = IF s = t THEN OpenAlerts(s) \cup {a} ELSE OpenAlerts(s)
    BY <2>3, OpenChanges
  <2>5. CASE s = t
    BY <1>a, <2>1, <2>2, <2>4, <2>5, GotoMoves
  <2>6. CASE s # t
    BY <2>4, <2>6
  <2> QED
    BY <2>5, <2>6
<1>4. ASSUME NEW k \in Slot, ResolveNext(k) PROVE Shrunk
  <2>1. ASSUME NEW a \in chk[k].open, alerts' = [alerts EXCEPT ![a].status = "resolved"]
        PROVE  Shrunk
    <3>1. a \in Alert
      BY <1>a, <2>1 DEF CheckType
    <3> QED
      BY <2>1, <3>1, OpenChanges
  <2> HIDE DEF Shrunk
  <2> QED
    BY <1>1, <1>4, <2>1 DEF ResolveNext, Shrunk, OpenAlerts
<1> HIDE DEF Shrunk, Grown
<1>5. ASSUME NEW k \in Slot, Check(k) PROVE Shrunk \/ Grown
  <2>1. CASE FindOpenAlert(k)
    BY <1>1, <2>1, Zenon DEF FindOpenAlert, Shrunk
  <2>2. CASE ReadLastCheck(k) \/ SaveCheck(k) \/ RescueCheck(k) \/ FlagCheck(k) \/ QueryOpenAlerts(k)
    BY <1>1, <2>2 DEF ReadLastCheck, SaveCheck, RescueCheck, FlagCheck, QueryOpenAlerts
  <2> QED
    BY <1>2, <1>3, <1>4, <1>5, <2>1, <2>2, Zenon DEF Check
<1>6. ASSUME NEW k \in Cron, StartRound(k) \/ RoundNext(k) PROVE UNCHANGED alerts
  BY <1>6, Zenon DEF StartRound, RoundNext
<1>7. ASSUME NEW k \in Slot, DbError(k) PROVE UNCHANGED alerts
  BY <1>7 DEF DbError
<1>8. ASSUME NEW k \in Session, \/ SessionChanges(k)
                               \/ \E c \in Manual : StartManual(c, k)
      PROVE  UNCHANGED alerts
  BY <1>8, Zenon DEF SessionChanges, StartManual
<1>9. Crash \/ UNCHANGED vars => UNCHANGED alerts
  BY DEF Crash, vars
<1> QED
  BY <1>1, <1>5, <1>6, <1>7, <1>8, <1>9, Zenon DEF Next

(* Who comes to the creation has just found no open alert. *)
LEMMA CreateFromFind ==
  ASSUME TypeOK, [Next]_vars, NEW k \in Slot, chk'[k].pc = "create"
  PROVE  \/ chk'[k] = chk[k]
         \/ chk'[k].sess = chk[k].sess /\ OpenAlerts(chk[k].sess) = {} /\ UNCHANGED alerts
<1>a. /\ chk \in [Slot -> CheckType] /\ Cron \subseteq Slot /\ Manual \subseteq Slot
      /\ \A m \in Slot : chk[m] \in CheckType
  BY DEF TypeOK, CheckType, Slot
<1> DEFINE Kept == chk'[k] = chk[k]
<1>1. CASE UNCHANGED chk
  BY <1>1
<1>2. ASSUME NEW c \in Cron, StartRound(c) \/ RoundNext(c) PROVE Kept
  <2>1. \A m \in Slot \ {c} : chk'[m] = chk[m]
    BY <1>2, <1>a, Zenon DEF StartRound, RoundNext, Goto
  <2>2. CASE Goto(c, "next") \/ Goto(c, "idle")
    BY <2>1, <2>2, <1>a DEF Goto, CheckType
  <2>3. ASSUME NEW sd, chk' = [chk EXCEPT ![c].pc = "read", ![c].sess = sd[1],
                                          ![c].doc = sd[2]]
        PROVE  Kept
    BY <2>1, <2>3, <1>a DEF CheckType
  <2> QED
    BY <1>2, <2>2, <2>3, Zenon DEF StartRound, RoundNext
<1>3. ASSUME NEW c \in Manual, NEW t \in Session, StartManual(c, t) PROVE Kept
  BY <1>3, <1>a DEF StartManual, CheckType
<1>4. ASSUME NEW c \in Slot, ReadLastCheck(c) \/ SaveCheck(c) \/ RescueCheck(c)
      PROVE  Kept
  BY <1>4, <1>a DEF ReadLastCheck, SaveCheck, RescueCheck, Goto, Done, Reject, Idle,
                    CheckType
<1>5. ASSUME NEW c \in Slot, BumpAlert(c) \/ CreateAlert(c) \/ FlagCheck(c)
      PROVE  Kept
  BY <1>5, <1>a DEF BumpAlert, CreateAlert, FlagCheck, Goto, Done, Idle, CheckType
<1>6. ASSUME NEW c \in Slot, QueryOpenAlerts(c) PROVE Kept
  BY <1>6, <1>a DEF QueryOpenAlerts, CheckType
<1>7. ASSUME NEW c \in Slot, ResolveNext(c) PROVE Kept
  BY <1>7, <1>a DEF ResolveNext, Done, Idle, CheckType
<1>8. ASSUME NEW c \in Slot, DbError(c) PROVE Kept
  BY <1>8, <1>a DEF DbError, Goto, Done, Reject, Idle, CheckType
<1>9. CASE Crash
  BY <1>9 DEF Crash, Idle
<1>10. ASSUME NEW c \in Slot, FindOpenAlert(c)
       PROVE  Kept \/ (chk'[k].sess = chk[k].sess /\ OpenAlerts(chk[k].sess) = {}
                       /\ UNCHANGED alerts)
  <2>1. UNCHANGED alerts
    BY <1>10, Zenon DEF FindOpenAlert
  <2>2. CASE OpenAlerts(chk[c].sess) = {} /\ Goto(c, "create")
    BY <1>a, <2>1, <2>2, GotoMoves
  <2>3. ASSUME NEW a, NEW n,
               chk' = [chk EXCEPT ![c].pc = "bump", ![c].alert = a, ![c].seen = n]
        PROVE  Kept
    BY <1>a, <2>3 DEF CheckType
  <2> QED
    BY <1>10, <2>2, <2>3, Zenon DEF FindOpenAlert
<1> QED
  BY <1>1, <1>2, <1>3, <1>4, <1>5, <1>6, <1>7, <1>8, <1>9, <1>10
     DEF Next, Check, SessionChanges, vars

LEMMA OneOpenStep ==
  ASSUME TypeOK, TypeOK', StreakInv, OneOpenInv, [Next]_vars, Apart, Apart'
  PROVE  OneOpenInv'
<1>1. ASSUME NEW s \in Session, NEW a \in OpenAlerts(s)', NEW b \in OpenAlerts(s)'
      PROVE  a = b
  BY <1>1, OpenGrows DEF OneOpenInv
<1>2. ASSUME NEW k \in Slot, NEW s \in Session, chk'[k].pc = "create", chk'[k].sess = s
      PROVE  OpenAlerts(s)' = {}
  <2>1. CASE chk'[k] = chk[k]
    <3>1. OpenAlerts(s) = {} /\ chk[k].pc = "create" /\ chk[k].sess = s /\ s # None
      BY <1>2, <2>1, HealthAssumption DEF OneOpenInv
    <3>2. ~(\E m \in Slot : chk[m].pc = "create" /\ chk[m].sess = s /\ chk'[m].pc # "create")
      BY <1>2, <3>1 DEF Apart
    <3> QED
      BY <3>1, <3>2, OpenGrows
  <2>2. CASE chk'[k].sess = chk[k].sess /\ OpenAlerts(chk[k].sess) = {} /\ UNCHANGED alerts
    BY <1>2, <2>2 DEF OpenAlerts
  <2> QED
    BY <1>2, <2>1, <2>2, CreateFromFind
<1> QED
  BY <1>1, <1>2 DEF OneOpenInv

(* Checks that do not overlap on a session never open two alerts for it, whatever
   throws, whenever the process dies, and whatever the checks find. *)
THEOREM OneOpenAlert == Spec /\ []Apart => []AtMostOneOpenAlert
<1>1. Init => OneOpenInv
  BY DEF Init, OneOpenInv, OpenAlerts, Idle
<1>2. TypeOK /\ TypeOK' /\ StreakInv /\ OneOpenInv /\ [Next]_vars
        /\ Apart /\ Apart' => OneOpenInv'
  BY OneOpenStep
<1>3. OneOpenInv => AtMostOneOpenAlert
  <2> SUFFICES ASSUME OneOpenInv, NEW s \in Session PROVE Cardinality(OpenAlerts(s)) <= 1
    BY DEF AtMostOneOpenAlert
  <2>1. CASE OpenAlerts(s) = {}
    BY <2>1, FS_EmptySet
  <2>2. ASSUME NEW a \in OpenAlerts(s) PROVE Cardinality(OpenAlerts(s)) <= 1
    <3>1. OpenAlerts(s) = {a}
      BY <2>2 DEF OneOpenInv
    <3>2. Cardinality({a}) = 1
      BY FS_Singleton
    <3> QED
      BY <3>1, <3>2
  <2> QED
    BY <2>1, <2>2
<1> QED
  BY <1>1, <1>2, <1>3, TypeCorrect, StreaksBacked, PTL DEF Spec
=================================================================================
