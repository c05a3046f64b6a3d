-------------------------------- MODULE Reports --------------------------------
(***************************************************************************)
(* The reports of one user against listings, images and users              *)
(* (apps/api/src/trust/reports.service.ts).  A report is counted against   *)
(* the window, then inserted; staff read a report, then assign or resolve  *)
(* it by its id.                                                           *)
(***************************************************************************)
EXTENDS Integers, FiniteSets

CONSTANTS Report, ReportCall, Nothing,
          Target,       \* what is reported: a target and a reason
          MaxReports    \* reportMaxPerWindow

VARIABLES report,      \* rows; recent: created within the window
          handling     \* calls in flight

vars == <<report, handling>>

Status == {"NONE", "OPEN", "IN_REVIEW", "RESOLVED", "DISMISSED"}

ReportRow == [status : Status, target : Target \cup {Nothing}, recent : BOOLEAN]

HandlingRow == [op : {"none", "create", "assign", "resolve"},
                report : Report \cup {Nothing}, target : Target \cup {Nothing}]

NoHandling == [op |-> "none", report |-> Nothing, target |-> Nothing]

Init ==
    /\ report = [r \in Report |-> [status |-> "NONE", target |-> Nothing, recent |-> FALSE]]
    /\ handling = [k \in ReportCall |-> NoHandling]

Begin(k, op, r, t) ==
    /\ handling[k] = NoHandling
    /\ handling' = [handling EXCEPT ![k] = [op |-> op, report |-> r, target |-> t]]
    /\ UNCHANGED report

Finish(k) == handling' = [handling EXCEPT ![k] = NoHandling]

IsOpen_Unassigned(status) == status = "OPEN"
IsOpen(status) == status \in {"OPEN", "IN_REVIEW"}

Recent == {r \in Report : report[r].recent}

\* The partial unique index: no other open report against the same target for
\* the same reason.
NoDuplicate(r, t) == \A r2 \in Report \ {r} : report[r2].target = t => ~IsOpen(report[r2].status)

MayReport == Cardinality(Recent) < MaxReports

Count(k, t) == MayReport /\ Begin(k, "create", Nothing, t)

Insert(k, r) ==
    /\ handling[k].op = "create" /\ report[r].status = "NONE"
    /\ NoDuplicate(r, handling[k].target)
    /\ report' = [report EXCEPT ![r] = [status |-> "OPEN", target |-> handling[k].target,
                                        recent |-> TRUE]]
    /\ Finish(k)

\* Staff finds the report open, to assign or to resolve it.
ReadOpen(k, r, op) == IsOpen(report[r].status) /\ Begin(k, op, r, Nothing)

\* Aborted by the index when it would open a second report.
Assign(k) ==
    LET r == handling[k].report
    IN /\ handling[k].op = "assign" /\ NoDuplicate(r, report[r].target)
       /\ report' = [report EXCEPT ![r].status = "IN_REVIEW"]
       /\ Finish(k)

Resolve(k, outcome) ==
    /\ handling[k].op = "resolve"
    /\ report' = [report EXCEPT ![handling[k].report].status = outcome]
    /\ Finish(k)

\* Refused, aborted, or stopped.
Abandon(k) == handling[k] # NoHandling /\ Finish(k) /\ UNCHANGED report

\* A report leaves the window of reportWindowMinutes.
Age(r) ==
    /\ report[r].recent
    /\ report' = [report EXCEPT ![r].recent = FALSE]
    /\ UNCHANGED handling

Next ==
    \/ \E k \in ReportCall, t \in Target : Count(k, t)
    \/ \E k \in ReportCall, r \in Report :
          Insert(k, r) \/ \E op \in {"assign", "resolve"} : ReadOpen(k, r, op)
    \/ \E k \in ReportCall : \/ Assign(k) \/ Abandon(k)
                             \/ \E outcome \in {"RESOLVED", "DISMISSED"} : Resolve(k, outcome)
    \/ \E r \in Report : Age(r)

Spec == Init /\ [][Next]_vars

----------------------------------------------------------------------------
(* Every column has its type.                                              *)
TypeOK ==
    /\ report \in [Report -> ReportRow]
    /\ handling \in [ReportCall -> HandlingRow]

(* The limit of reports per window is exceeded by no more than the calls   *)
(* that counted together: they count before they insert.                   *)
ReportLimit == Cardinality(Recent) <= MaxReports + Cardinality(ReportCall) - 1

(* A target has one open report for a reason, also when a report that was  *)
(* resolved after a call read it open is assigned, and so opened again.    *)
OneOpenReport ==
    \A r1, r2 \in Report :
        /\ report[r1].status \in {"OPEN", "IN_REVIEW"}
        /\ report[r2].status \in {"OPEN", "IN_REVIEW"}
        /\ report[r1].target = report[r2].target
        => r1 = r2
=============================================================================
