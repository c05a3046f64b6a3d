------------------------------- MODULE Operations -------------------------------
(***************************************************************************)
(* The platform's own work, side by side: the background jobs,             *)
(* reconciliation and the review of submitted cards.  They share no state  *)
(* that their properties tell apart: a behaviour is one of the component   *)
(* in focus, and the variables of the others are Nothing.                  *)
(***************************************************************************)
EXTENDS Integers, FiniteSets, Sequences

CONSTANTS Nothing,
          Proc, Job, Housekeeping, MaxFaults,  \* Scheduler
          Refund, Take, MaxAttempts,           \* RefundRetries
          Pay, Checkout, Charge, Price,        \* ReconReads
          Finding, Run, IssueRow, Admin,       \* ReconRuns
          Submission, Key                      \* Submissions

VARIABLES focus,
          lease, up, armed, held, run, faults,
          open, asked, attempts, resting, todo,
          sold, configured, charged, returned, books, keys, stage, got, agreed, differed,
          wrong, recon, issue, reviewing,
          submission, card, review

S == INSTANCE Scheduler
T == INSTANCE RefundRetries
V == INSTANCE ReconReads
N == INSTANCE ReconRuns WITH review <- reviewing
B == INSTANCE Submissions WITH Reviewer <- Admin

\* There is something to find, and no submission is the absence of one.
ASSUME OperationsAssumption == Finding # {} /\ B!NoOne \notin Submission

\* Payments are finitely many, and no row is the absence of one.
ASSUME ReadsAssumption ==
    IsFiniteSet(Pay) /\ Price \in Int /\ V!Absent \notin Pay /\ Charge # V!Absent

schedulerVars == <<lease, up, armed, held, run, faults>>
retryVars == <<open, asked, attempts, resting, todo>>
readVars == <<sold, configured, charged, returned, books, keys, stage, got, agreed, differed>>
runVars == <<wrong, recon, issue, reviewing>>
subVars == <<submission, card, review>>
vars == <<focus, schedulerVars, retryVars, readVars, runVars, subVars>>

noJobs == lease = Nothing /\ up = Nothing /\ armed = Nothing /\ held = Nothing
          /\ run = Nothing /\ faults = Nothing
noRetries == open = Nothing /\ asked = Nothing /\ attempts = Nothing /\ resting = Nothing
             /\ todo = Nothing
noReads == sold = Nothing /\ configured = Nothing /\ charged = Nothing /\ returned = Nothing
           /\ books = Nothing /\ keys = Nothing /\ stage = Nothing /\ got = Nothing
           /\ agreed = Nothing /\ differed = Nothing
noRuns == wrong = Nothing /\ recon = Nothing /\ issue = Nothing /\ reviewing = Nothing
noSubs == submission = Nothing /\ card = Nothing /\ review = Nothing

Init ==
    \/ focus = "jobs" /\ S!Init /\ noRetries /\ noReads /\ noRuns /\ noSubs
    \/ focus = "retries" /\ noJobs /\ T!Init /\ noReads /\ noRuns /\ noSubs
    \/ focus = "reads" /\ noJobs /\ noRetries /\ V!Init /\ noRuns /\ noSubs
    \/ focus = "runs" /\ noJobs /\ noRetries /\ noReads /\ N!Init /\ noSubs
    \/ focus = "submissions" /\ noJobs /\ noRetries /\ noReads /\ noRuns /\ B!Init

Next ==
    \/ focus = "jobs" /\ S!Next /\ UNCHANGED <<focus, retryVars, readVars, runVars, subVars>>
    \/ focus = "retries" /\ T!Next /\ UNCHANGED <<focus, schedulerVars, readVars, runVars, subVars>>
    \/ focus = "reads" /\ V!Next /\ UNCHANGED <<focus, schedulerVars, retryVars, runVars, subVars>>
    \/ focus = "runs" /\ N!Next /\ UNCHANGED <<focus, schedulerVars, retryVars, readVars, subVars>>
    \/ focus = "submissions" /\ B!Next
       /\ UNCHANGED <<focus, schedulerVars, retryVars, readVars, runVars>>

\* Scheduler's and RefundRetries' Fairness, of the component in focus.
Jobs(A) == focus = "jobs" /\ A
Retries(A) == focus = "retries" /\ A

Fairness ==
    /\ \A p \in Proc :
         /\ WF_schedulerVars(Jobs(S!Boot(p))) /\ WF_schedulerVars(Jobs(S!ReadLease(p)))
         /\ WF_schedulerVars(Jobs(S!HoldLease(p))) /\ WF_schedulerVars(Jobs(S!SweepStale(p)))
         /\ WF_schedulerVars(Jobs(S!ReadToRelease(p))) /\ WF_schedulerVars(Jobs(S!Release(p)))
         /\ WF_schedulerVars(Jobs(S!FailAll(p)))
         /\ WF_schedulerVars(Jobs(S!StartRun(p, Housekeeping)))
         /\ \A j \in Job : /\ WF_schedulerVars(Jobs(S!EndRun(p, j)))
                           /\ WF_schedulerVars(Jobs(S!Age(p, j)))
    /\ WF_schedulerVars(Jobs(S!ExpireDead))
    /\ WF_retryVars(Retries(T!BeginRetries)) /\ WF_retryVars(Retries(T!SkipRefund))
    /\ WF_retryVars(Retries(\E outcome \in {"completed", "pending", "failed"} :
                              T!RetryRefund(outcome)))
    /\ \A r \in Refund : WF_retryVars(Retries(T!Rested(r)))

Spec == Init /\ [][Next]_vars /\ Fairness

----------------------------------------------------------------------------
\* A property states its component's type invariant too.

(* A process whose job timers run without the lease stops them, or gets it *)
(* back (scheduler-lock.ts:35).                                            *)
LeaderHoldsLease ==
    /\ [](focus = "jobs" => S!TypeOK)
    /\ \A p \in Proc : (focus = "jobs" /\ S!Ousted(p)) ~> (focus = "jobs" => ~S!Ousted(p))

(* A run that a crash left RUNNING ends, unless one of housekeeping is     *)
(* left so (job-runner.ts:113, jobs.service.ts:58).                        *)
StaleRunEnds == \A p \in Proc, j \in Job :
    (focus = "jobs" /\ S!Orphan(p, j)) ~> (focus = "jobs" => S!Swept(p, j))

(* An open refund completes or uses up its attempts, unless refunds that   *)
(* are out of them crowd it out (jobs.service.ts:79).                      *)
RefundRetried ==
    /\ [](focus = "retries" => T!TypeOK)
    /\ \A r \in Refund :
         (focus = "retries" /\ T!IsOpen(r)) ~> (focus = "retries" => T!Settled(r) \/ T!CrowdedOut(r))

(* A run of reconciliation reports no entry as missing; while the provider *)
(* can be asked it reports nothing on the books of a charge of one order   *)
(* that agreed with it all along, and reports a difference that lasted     *)
(* (reconciliation.service.ts:312).  Of a charge of several orders, and    *)
(* without a token, it reports what agrees: ReconReads says against what.  *)
ReportIsTrue == focus = "reads" => V!ReadTypeOK /\ V!ReportIsTrue

(* What a completed run found was in an OPEN issue while it ran, and is in *)
(* one at most (reconciliation.service.ts:483).                            *)
FoundIsShown == focus = "runs" => N!RunTypeOK /\ N!FoundIsShown

(* A submission has its one card exactly if it is approved                 *)
(* (catalog-submissions.service.ts:237).                                   *)
CardOnce == focus = "submissions" => B!SubTypeOK /\ B!CardOnce
=============================================================================
