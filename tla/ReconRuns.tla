------------------------------- MODULE ReconRuns -------------------------------
(***************************************************************************)
(* Reconciliation runs and the issues they open (apps/api/src/             *)
(* reconciliation/reconciliation.service.ts).  What a run finds wrong is   *)
(* given here: ReconReads has how it is read and compared.  An issue is    *)
(* known by its fingerprint, a member of Finding.                          *)
(*                                                                         *)
(* A run whose row another run has failed as stale goes on: it writes its  *)
(* issues and then COMPLETED over FAILED.                                  *)
(***************************************************************************)
EXTENDS Naturals, FiniteSets

CONSTANTS Finding, Run, IssueRow, Admin

VARIABLES
  wrong,    \* what is wrong at present
  recon,    \* [Run -> [row, at, found, todo, hit]] runs, and where they are
  issue,    \* [IssueRow -> [status, print, shown]]  shown: the runs during
            \* which the issue was OPEN
  review    \* [Admin -> the issue whose status was read, or NoIssue]
runVars == <<wrong, recon, issue, review>>

NoIssue == "none"
NewRun == [row |-> "NONE", at |-> "idle", found |-> {}, todo |-> {}, hit |-> NoIssue]

RunTypeOK ==
    /\ wrong \subseteq Finding
    /\ recon \in [Run -> [row : {"NONE", "RUNNING", "COMPLETED", "FAILED"},
                          at : {"idle", "reading", "persisting"},
                          found : SUBSET Finding, todo : SUBSET Finding,
                          hit : IssueRow \cup {NoIssue}]]
    /\ issue \in [IssueRow -> [status : {"NONE", "OPEN", "ACKNOWLEDGED", "CLOSED"},
                               print : Finding, shown : SUBSET Run]]
    /\ review \in [Admin -> IssueRow \cup {NoIssue}]

Init ==
    /\ wrong = {}
    /\ recon = [k \in Run |-> NewRun]
    /\ issue \in [IssueRow -> {[status |-> "NONE", print |-> CHOOSE f \in Finding : TRUE,
                                shown |-> {}]}]
    /\ review = [a \in Admin |-> NoIssue]

(* Something goes wrong, or is put right.                                  *)
Drift(f) ==
    /\ wrong' = IF f \in wrong THEN wrong \ {f} ELSE wrong \cup {f}
    /\ UNCHANGED <<recon, issue, review>>

----------------------------------------------------------------------------
(* A run begins: RUNNING rows older than 15 minutes are failed; if there   *)
(* is a younger one the request is refused and nothing changes.            *)
Rows(status) == {i \in IssueRow : issue[i].status = status}

BeginRun(k) ==
    /\ recon[k].row = "NONE"
    /\ \E stale \in {r \in SUBSET Run : \A s \in r : recon[s].row = "RUNNING"} :
         /\ \A s \in Run \ stale : recon[s].row # "RUNNING"
         /\ recon' = [s \in Run |-> IF s = k THEN [NewRun EXCEPT !.row = "RUNNING", !.at = "reading"]
                                    ELSE IF s \in stale THEN [recon[s] EXCEPT !.row = "FAILED"]
                                    ELSE recon[s]]
    /\ issue' = [i \in IssueRow |-> IF issue[i].status = "OPEN"
                                    THEN [issue[i] EXCEPT !.shown = @ \cup {k}] ELSE issue[i]]
    /\ UNCHANGED <<wrong, review>>

Collect(k) ==
    /\ recon[k].at = "reading"
    /\ recon' = [recon EXCEPT ![k].at = "persisting", ![k].found = wrong, ![k].todo = wrong]
    /\ UNCHANGED <<wrong, issue, review>>

(* The provider fails, or the index refuses a second OPEN row.             *)
FailedRun(k) == [recon EXCEPT ![k].row = "FAILED", ![k].at = "idle", ![k].hit = NoIssue]

CollectFails(k) ==
    /\ recon[k].at = "reading"
    /\ recon' = FailedRun(k)
    /\ UNCHANGED <<wrong, issue, review>>

(* The process stops; the row stays RUNNING.                               *)
StopRun(k) ==
    /\ recon[k].at # "idle"
    /\ recon' = [recon EXCEPT ![k].at = "idle"]
    /\ UNCHANGED <<wrong, issue, review>>

----------------------------------------------------------------------------
(* For each finding: look for its OPEN issue, then update or create.       *)
IssuesOf_Any(f) == {i \in IssueRow : issue[i].status # "NONE" /\ issue[i].print = f}

IssuesOf(f) == {i \in Rows("OPEN") : issue[i].print = f}

FindIssue(k, f) ==
    /\ recon[k].at = "persisting" /\ recon[k].hit = NoIssue
    /\ f \in recon[k].todo
    /\ \E i \in IssuesOf(f) : recon' = [recon EXCEPT ![k].hit = i]
    /\ UNCHANGED <<wrong, issue, review>>

(* Writes runId over whatever the issue is by now.                         *)
UpdateIssue(k) ==
    /\ recon[k].at = "persisting" /\ recon[k].hit # NoIssue
    /\ recon' = [recon EXCEPT ![k].todo = @ \ {issue[recon[k].hit].print},
                              ![k].hit = NoIssue]
    /\ UNCHANGED <<wrong, issue, review>>

CreateIssue(k, f) ==
    /\ recon[k].at = "persisting" /\ recon[k].hit = NoIssue
    /\ f \in recon[k].todo /\ IssuesOf(f) = {} /\ Rows("NONE") # {}
    /\ LET i == CHOOSE row \in Rows("NONE") : TRUE IN
         issue' = [issue EXCEPT ![i] =
           [status |-> "OPEN", print |-> f, shown |-> {s \in Run : recon[s].at # "idle"}]]
    /\ recon' = [recon EXCEPT ![k].todo = @ \ {f}]
    /\ UNCHANGED <<wrong, review>>

(* Another run has created it since this one looked.                       *)
CreateRefused(k, f) ==
    /\ recon[k].at = "persisting" /\ recon[k].hit = NoIssue
    /\ f \in recon[k].todo /\ IssuesOf(f) # {}
    /\ \E s \in Run \ {k} : recon[s].row # "NONE"
    /\ recon' = FailedRun(k)
    /\ UNCHANGED <<wrong, issue, review>>

CompleteRun(k) ==
    /\ recon[k].at = "persisting" /\ recon[k].todo = {}
    /\ recon' = [recon EXCEPT ![k].row = "COMPLETED", ![k].at = "idle"]
    /\ UNCHANGED <<wrong, issue, review>>

----------------------------------------------------------------------------
(* Acknowledge, resolve and ignore: read, check, write.                    *)
ReadIssue(a, i) ==
    /\ review[a] = NoIssue /\ issue[i].status \in {"OPEN", "ACKNOWLEDGED"}
    /\ review' = [review EXCEPT ![a] = i]
    /\ UNCHANGED <<wrong, recon, issue>>

ReviewIssue(a, status) ==
    /\ review[a] # NoIssue
    /\ issue' = [issue EXCEPT ![review[a]].status = status]
    /\ review' = [review EXCEPT ![a] = NoIssue]
    /\ UNCHANGED <<wrong, recon>>

Next ==
    \/ \E f \in Finding : Drift(f)
    \/ \E k \in Run : \/ BeginRun(k) \/ Collect(k) \/ CollectFails(k) \/ StopRun(k)
                      \/ UpdateIssue(k) \/ CompleteRun(k)
                      \/ \E f \in Finding : FindIssue(k, f) \/ CreateIssue(k, f) \/ CreateRefused(k, f)
    \/ \E a \in Admin : \/ \E i \in IssueRow : ReadIssue(a, i)
                        \/ \E status \in {"ACKNOWLEDGED", "CLOSED"} : ReviewIssue(a, status)

Spec == Init /\ [][Next]_runVars

----------------------------------------------------------------------------
(* Whatever a completed run has found was in an OPEN issue while it ran,   *)
(* also when it was failed as stale, when another run created the issue,   *)
(* and when an administrator closed it between the run's read and its      *)
(* write; and there is one OPEN issue of each (reconciliation.service.ts:  *)
(* 483).                                                                   *)
FoundIsShown ==
    /\ \A k \in Run : recon[k].row = "COMPLETED" =>
         \A f \in recon[k].found : \E i \in IssueRow : issue[i].print = f /\ k \in issue[i].shown
    /\ \A i, j \in Rows("OPEN") : issue[i].print = issue[j].print => i = j
=============================================================================
