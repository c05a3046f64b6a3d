----------------------------- MODULE RefundRetries -----------------------------
(***************************************************************************)
(* The job that retries open refunds (jobs.service.ts, refundRetry): it    *)
(* takes the open refunds that were changed longest ago, and executes the  *)
(* ones that have attempts left and whose backoff is over.                 *)
(*                                                                         *)
(* A refund is out of the model when it is COMPLETED.  An execution is one *)
(* step, of which only the outcome matters here; OrderPayments models it.  *)
(* The unique RUNNING row of the job (Scheduler) makes its runs follow one *)
(* another.                                                                *)
(***************************************************************************)
EXTENDS Naturals, FiniteSets, SequencesExt

CONSTANTS Refund, Take, MaxAttempts

VARIABLES
  open,      \* the open refunds, by updatedAt
  asked,     \* the refunds that were requested
  attempts,  \* [Refund -> entries refund.retry and refund.failed of its audit]
  resting,   \* [Refund -> whether its backoff runs]
  todo       \* what the job's run has still to look at: [refund, due], as it read them
retryVars == <<open, asked, attempts, resting, todo>>

TypeOK ==
    /\ open \in Seq(Refund) /\ IsInjective(open)
    /\ Range(open) \subseteq asked /\ asked \subseteq Refund
    /\ attempts \in [Refund -> 0..MaxAttempts + 1]
    /\ resting \in [Refund -> BOOLEAN]
    /\ todo \in Seq([refund : Refund, due : BOOLEAN])

Init ==
    /\ open = <<>> /\ todo = <<>> /\ asked = {}
    /\ attempts = [r \in Refund |-> 0]
    /\ resting = [r \in Refund |-> FALSE]

IsOpen(r) == r \in Range(open)
Exhausted(r) == attempts[r] >= MaxAttempts

----------------------------------------------------------------------------
(* A cancellation leaves a refund PENDING.                                 *)
RequestRefund(r) ==
    /\ r \notin asked
    /\ asked' = asked \cup {r}
    /\ open' = Append(open, r)
    /\ resting' = [resting EXCEPT ![r] = TRUE]
    /\ UNCHANGED <<attempts, todo>>

(* What the row and the audit are after an execution.                      *)
Touched(r) == Append(Remove(open, r), r)

Counted_Failures(r, outcome) == attempts[r] + (IF outcome = "failed" THEN 1 ELSE 0)

Counted(r, outcome) == attempts[r] + (IF outcome = "failed" THEN 2 ELSE 1)

Min2(a, b) == IF a < b THEN a ELSE b

BeginRetries ==
    /\ todo = <<>> /\ open # <<>>
    /\ todo' = [i \in 1..Min2(Take, Len(open)) |->
                   [refund |-> open[i], due |-> ~resting[open[i]]]]
    /\ UNCHANGED <<open, asked, attempts, resting>>

(* A refund out of attempts keeps its updatedAt, and its place.  The       *)
(* backoff is measured from the updatedAt that the run has read.           *)
Due(c) == ~Exhausted(c.refund) /\ (c.due \/ ~resting[c.refund])

SkipRefund ==
    /\ todo # <<>> /\ ~Due(Head(todo))
    /\ todo' = Tail(todo)
    /\ UNCHANGED <<open, asked, attempts, resting>>

(* The provider answers pending, or fails.  A refund that has completed    *)
(* meanwhile counts the retry only.                                        *)
RetryRefund(outcome) ==
    /\ todo # <<>> /\ Due(Head(todo))
    /\ LET r == Head(todo).refund
           closed == outcome = "completed" \/ ~IsOpen(r)
       IN  /\ open' = IF closed THEN Remove(open, r) ELSE Touched(r)
           /\ resting' = [resting EXCEPT ![r] = TRUE]
           /\ attempts' = [attempts EXCEPT
                ![r] = Counted(r, IF closed THEN "completed" ELSE outcome)]
    /\ todo' = Tail(todo)
    /\ UNCHANGED asked

(* An administrator, a webhook: completed, or failed once more.            *)
ExecuteElsewhere(r, outcome) ==
    /\ IsOpen(r)
    /\ open' = IF outcome = "completed" THEN Remove(open, r) ELSE Touched(r)
    /\ resting' = [resting EXCEPT ![r] = TRUE]
    /\ attempts' = [attempts EXCEPT ![r] = @ + (IF outcome = "failed" THEN 1 ELSE 0)]
    /\ attempts'[r] <= MaxAttempts
    /\ UNCHANGED <<asked, todo>>

(* The backoff, from the last change of the row, is over.                  *)
Rested(r) ==
    /\ resting[r]
    /\ resting' = [resting EXCEPT ![r] = FALSE]
    /\ UNCHANGED <<open, asked, attempts, todo>>

Next ==
    \/ \E r \in Refund : \/ RequestRefund(r) \/ Rested(r)
                         \/ \E outcome \in {"completed", "failed"} : ExecuteElsewhere(r, outcome)
    \/ BeginRetries \/ SkipRefund
    \/ \E outcome \in {"completed", "pending", "failed"} : RetryRefund(outcome)

(* The job runs again and again, and goes through what it took.            *)
Fairness ==
    /\ WF_retryVars(BeginRetries) /\ WF_retryVars(SkipRefund)
    /\ WF_retryVars(\E outcome \in {"completed", "pending", "failed"} : RetryRefund(outcome))
    /\ \A r \in Refund : WF_retryVars(Rested(r))

Spec == Init /\ [][Next]_retryVars /\ Fairness

----------------------------------------------------------------------------
(* An open refund completes or has had its attempts, unless refunds that   *)
(* are out of attempts fill every run (jobs.service.ts:79).                *)
Settled(r) == ~IsOpen(r) \/ Exhausted(r)

CrowdedOut(r) ==
    \E S \in SUBSET {q \in Range(open) : q # r /\ Exhausted(q)} : Cardinality(S) >= Take

RefundRetried == \A r \in Refund : IsOpen(r) ~> Settled(r) \/ CrowdedOut(r)
=============================================================================
