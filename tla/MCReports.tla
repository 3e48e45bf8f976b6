------------------------------- MODULE MCReports -------------------------------
(* Instances of Reports for TLC; the values are in the .cfg files. *)
EXTENDS Reports

AllKinds == ReportKind \cup ListKind \cup {"activity"}

(* Reports of many queries over few documents, listings over more; users are
   removed as well. *)
DocsFor ==
  [k \in Kind |-> CASE k \in {"entityStats", "userStats"} -> 2
                        [] k \in ListKind \ {"users"} -> 4
                        [] OTHER -> 3]

ViewersFor ==
  [k \in Kind |-> IF k = "entityStats" THEN {"system"} ELSE {"system", "tenant"}]

(* Pages of two; a feed of two, and one of which no item is asked for. *)
LimitsFor ==
  [k \in Kind |-> CASE k \in ListKind -> {2}
                        [] k = "activity" -> {0, 2}
                        [] OTHER -> {0}]
=============================================================================
