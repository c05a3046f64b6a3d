---------------------------- MODULE OperationsProofs ----------------------------
(***************************************************************************)
(* What holds of the platform's own work in Operations for any number of   *)
(* submissions, keys, administrators, findings, issues and runs.           *)
(*                                                                         *)
(* Each part is about one component: an invariant that its first states    *)
(* satisfy and its steps keep.  A behaviour of Operations with that        *)
(* component in focus is one of the component.                             *)
(***************************************************************************)
EXTENDS Operations, Totals

----------------------------------------------------------------------------
(* Submissions: a review that holds the lock holds it alone, of a          *)
(* submission that is still reviewable; so an approval finds no card of    *)
(* its submission.                                                         *)

Held(r) == review[r].at \in {"locked", "found"}

\* What is locked is reviewable, and by one review.
ReviewsOK ==
    /\ \A r \in Admin :
         /\ review[r].at # "idle" => review[r].of \in Submission /\ review[r].op \in B!Statuses
         /\ review[r].at = "found" => review[r].key \in Key
         /\ Held(r) => submission[review[r].of].status \in B!Reviewable
    /\ \A q, r \in Admin : Held(q) /\ Held(r) /\ review[q].of = review[r].of => q = r

\* A card and the submission it was made of name each other.
CardsOK ==
    /\ \A c \in card : c.of \in Submission =>
         submission[c.of].status = "APPROVED" /\ submission[c.of].card = c.key
    /\ \A s \in Submission : submission[s].status = "APPROVED" =>
         [key |-> submission[s].card, of |-> s] \in card
    /\ \A c, d \in card : c.key = d.key => c = d

SubmissionsInv == B!SubTypeOK /\ ReviewsOK /\ CardsOK

----------------------------------------------------------------------------
(* The initial state satisfies the invariant: no card, no review.          *)
LEMMA SubmissionsStart == ASSUME B!Init PROVE SubmissionsInv
  BY DEF B!Init, SubmissionsInv, B!SubTypeOK, ReviewsOK, CardsOK, Held, B!NoReview, B!Statuses

(* A new submission and an imported card touch no review: the card's key   *)
(* is new, and it is nobody's.                                             *)
LEMMA NewRows ==
  ASSUME SubmissionsInv, NEW key \in Key,
         B!Import(key) \/ \E s \in Submission : B!Create(s, key)
  PROVE  SubmissionsInv'
<1>1. CASE B!Import(key)
  BY <1>1, OperationsAssumption DEF SubmissionsInv, B!Import, B!HasCard, B!SubTypeOK, ReviewsOK, CardsOK, Held
<1>2. ASSUME NEW s \in Submission, B!Create(s, key)
      PROVE  SubmissionsInv'
  <2>1. B!SubTypeOK'
    BY <1>2 DEF SubmissionsInv, B!Create, B!SubTypeOK, B!Statuses
  <2>2. ReviewsOK'
    BY <1>2 DEF SubmissionsInv, B!Create, B!SubTypeOK, ReviewsOK, Held, B!Reviewable
  <2>3. CardsOK'
    BY <1>2 DEF SubmissionsInv, B!Create, B!SubTypeOK, CardsOK
  <2> QED BY <2>1, <2>2, <2>3 DEF SubmissionsInv
<1> QED BY <1>1, <1>2

(* Taking the lock: alone, and only of a reviewable submission.            *)
LEMMA Locks ==
  ASSUME SubmissionsInv, NEW r \in Admin,
         B!Lock(r) \/ \E s \in Submission, op \in B!Statuses \ {"NONE"} : B!Begin(r, s, op)
  PROVE  SubmissionsInv'
<1>1. CASE B!Lock(r)
  <2>1. B!SubTypeOK'
    BY <1>1 DEF SubmissionsInv, B!Lock, B!SubTypeOK, B!NoReview
  <2>2. ReviewsOK'
    BY <1>1 DEF SubmissionsInv, B!Lock, B!MayLock, B!Holds, B!MayChange, B!SubTypeOK, ReviewsOK, Held, B!Reviewable, B!NoReview
  <2>3. CardsOK'
    BY <1>1 DEF SubmissionsInv, B!Lock, CardsOK
  <2> QED BY <2>1, <2>2, <2>3 DEF SubmissionsInv
<1>2. ASSUME NEW s \in Submission, NEW op \in B!Statuses \ {"NONE"}, B!Begin(r, s, op)
      PROVE  SubmissionsInv'
  BY <1>2 DEF SubmissionsInv, B!Begin, B!SubTypeOK, ReviewsOK, CardsOK, Held, B!NoReview
<1> QED BY <1>1, <1>2

(* A review that approves nothing leaves a submission that has no card.    *)
LEMMA Refusals ==
  ASSUME SubmissionsInv, NEW r \in Admin, B!Transition(r) \/ \E key \in Key : B!Resubmit(r, key)
  PROVE  SubmissionsInv'
<1>1. CASE B!Transition(r)
  <2>1. B!SubTypeOK'
    BY <1>1 DEF SubmissionsInv, B!Transition, B!SubTypeOK, ReviewsOK, B!NoReview
  <2>2. ReviewsOK'
    BY <1>1 DEF SubmissionsInv, B!Transition, B!SubTypeOK, ReviewsOK, Held, B!NoReview
  <2>3. CardsOK'
    BY <1>1 DEF SubmissionsInv, B!Transition, B!SubTypeOK, ReviewsOK, CardsOK, Held, B!Reviewable
  <2> QED BY <2>1, <2>2, <2>3 DEF SubmissionsInv
<1>2. ASSUME NEW key \in Key, B!Resubmit(r, key)
      PROVE  SubmissionsInv'
  <2>1. B!SubTypeOK'
    <3>1. review[r].of \in Submission
      BY <1>2 DEF SubmissionsInv, B!Resubmit, ReviewsOK
    <3> QED BY <1>2, <3>1 DEF SubmissionsInv, B!Resubmit, B!SubTypeOK, B!NoReview, B!Statuses
  <2>2. ReviewsOK'
    BY <1>2 DEF SubmissionsInv, B!Resubmit, B!SubTypeOK, ReviewsOK, Held, B!NoReview
  <2>3. CardsOK'
    BY <1>2 DEF SubmissionsInv, B!Resubmit, B!SubTypeOK, ReviewsOK, CardsOK, Held, B!Reviewable
  <2> QED BY <2>1, <2>2, <2>3 DEF SubmissionsInv
<1> QED BY <1>1, <1>2

(* An approval writes the first card of its submission, under a new key.   *)
LEMMA Approvals ==
  ASSUME SubmissionsInv, NEW r \in Admin, B!Approve(r) \/ \E key \in Key : B!FindExact(r, key)
  PROVE  SubmissionsInv'
<1>1. CASE B!Approve(r)
  <2>1. CASE B!HasCard(review[r].key)
    BY <1>1, <2>1 DEF SubmissionsInv, B!Approve, B!SubTypeOK, ReviewsOK, CardsOK, Held, B!NoReview
  <2>2. CASE ~B!HasCard(review[r].key)
    <3> DEFINE s == review[r].of
               new == [key |-> review[r].key, of |-> s]
    <3>1. /\ s \in Submission /\ review[r].key \in Key
          /\ submission[s].status \in B!Reviewable
          /\ card' = card \cup {new}
          /\ submission' = [submission EXCEPT ![s].status = "APPROVED", ![s].card = review[r].key]
          /\ review' = [review EXCEPT ![r] = B!NoReview]
      BY <1>1, <2>2 DEF SubmissionsInv, B!Approve, ReviewsOK, Held
    <3>2. B!SubTypeOK'
      BY <3>1 DEF SubmissionsInv, B!SubTypeOK, B!NoReview, B!Statuses
    <3>3. ReviewsOK'
      BY <3>1, <1>1 DEF SubmissionsInv, B!Approve, B!SubTypeOK, ReviewsOK, Held, B!NoReview
    <3>4. CardsOK'
      BY <3>1, <2>2 DEF SubmissionsInv, B!SubTypeOK, CardsOK, B!HasCard, B!Reviewable
    <3> QED BY <3>2, <3>3, <3>4 DEF SubmissionsInv
  <2> QED BY <2>1, <2>2
<1>2. ASSUME NEW key \in Key, B!FindExact(r, key)
      PROVE  SubmissionsInv'
  <2>1. B!SubTypeOK'
    <3>1. CASE B!HasCard(key)
      BY <1>2, <3>1 DEF SubmissionsInv, B!FindExact, B!SubTypeOK, B!NoReview
    <3>2. CASE ~B!HasCard(key)
      BY <1>2, <3>2 DEF SubmissionsInv, B!FindExact, B!SubTypeOK
    <3> QED BY <3>1, <3>2
  <2>2. ReviewsOK'
    BY <1>2 DEF SubmissionsInv, B!FindExact, B!SubTypeOK, ReviewsOK, Held, B!NoReview
  <2>3. CardsOK'
    BY <1>2 DEF SubmissionsInv, B!FindExact, CardsOK
  <2> QED BY <2>1, <2>2, <2>3 DEF SubmissionsInv
<1> QED BY <1>1, <1>2

(* The parts of the invariant are what CardOnce says.                      *)
LEMMA CardsAreOnce == ASSUME SubmissionsInv PROVE B!CardOnce
<1>1. ASSUME NEW s \in Submission
      PROVE  {c.key : c \in {d \in card : d.of = s}}
               = IF submission[s].status = "APPROVED" THEN {submission[s].card} ELSE {}
  <2>1. \A c \in card : c.of = s => submission[s].status = "APPROVED" /\ submission[s].card = c.key
    BY DEF SubmissionsInv, CardsOK
  <2>2. submission[s].status = "APPROVED" => [key |-> submission[s].card, of |-> s] \in card
    BY DEF SubmissionsInv, CardsOK
  <2> QED BY <2>1, <2>2
<1>2. \A c, d \in card : c.key = d.key => c = d
  BY DEF SubmissionsInv, CardsOK
<1> QED BY <1>1, <1>2 DEF B!CardOnce

LEMMA SubmissionsStep == ASSUME SubmissionsInv, B!Next PROVE SubmissionsInv'
  BY NewRows, Locks, Refusals, Approvals DEF B!Next

----------------------------------------------------------------------------
(* Reconciliation: every OPEN issue has been shown to every run that goes  *)
(* on, failed as stale or not; and what a run has dealt with is in an      *)
(* issue that was shown to it.  What was shown is never taken back.        *)

ShownTo(k, f) == \E i \in IssueRow : issue[i].print = f /\ k \in issue[i].shown

RunsOK ==
    /\ \A k \in Run : recon[k].at # "idle" =>
         /\ recon[k].row \in {"RUNNING", "FAILED"}
         /\ recon[k].at = "reading" => recon[k].hit = N!NoIssue
         /\ \A i \in IssueRow : issue[i].status = "OPEN" => k \in issue[i].shown
    /\ \A k \in Run : recon[k].at = "persisting" =>
         /\ recon[k].hit # N!NoIssue => k \in issue[recon[k].hit].shown
         /\ \A f \in recon[k].found \ recon[k].todo : ShownTo(k, f)
    /\ \A i \in IssueRow : issue[i].status = "NONE" => issue[i].shown = {}

RunsInv == N!RunTypeOK /\ RunsOK /\ N!FoundIsShown

LEMMA RunsStart == ASSUME N!Init PROVE RunsInv
  BY OperationsAssumption DEF N!Init, RunsInv, N!RunTypeOK, RunsOK, N!NewRun, N!FoundIsShown, N!Rows

(* A step that leaves the issues, and of the runs at most one: it finds    *)
(* another issue, deals with what it has found, or ends.                   *)
LEMMA OneRunStep ==
  ASSUME RunsInv, NEW k \in Run, UNCHANGED <<issue, reviewing>>, wrong' = wrong,
         recon' \in [Run -> [row : {"NONE", "RUNNING", "COMPLETED", "FAILED"},
                             at : {"idle", "reading", "persisting"},
                             found : SUBSET Finding, todo : SUBSET Finding,
                             hit : IssueRow \cup {N!NoIssue}]],
         \A s \in Run : s # k => recon'[s] = recon[s],
         recon[k].at # "idle",
         recon'[k].at # "reading",
         recon'[k].at # "idle" => recon'[k].row = recon[k].row,
         recon'[k].at = "persisting" =>
           /\ recon'[k].hit # N!NoIssue => k \in issue[recon'[k].hit].shown
           /\ \A f \in recon'[k].found \ recon'[k].todo : ShownTo(k, f),
         recon'[k].row = "COMPLETED" => \A f \in recon'[k].found : ShownTo(k, f)
  PROVE  RunsInv'
<1>1. N!RunTypeOK'
  BY DEF RunsInv, N!RunTypeOK
<1>2. RunsOK'
  BY DEF RunsInv, RunsOK, ShownTo
<1>3. N!FoundIsShown'
  BY DEF RunsInv, N!FoundIsShown, N!Rows, ShownTo
<1> QED BY <1>1, <1>2, <1>3 DEF RunsInv

(* A run begins: every OPEN issue is shown to it.                          *)
LEMMA BeginStep == ASSUME RunsInv, NEW k \in Run, N!BeginRun(k) PROVE RunsInv'
<1>1. PICK stale \in SUBSET Run :
        /\ \A s \in stale : recon[s].row = "RUNNING"
        /\ recon' = [s \in Run |-> IF s = k THEN [N!NewRun EXCEPT !.row = "RUNNING", !.at = "reading"]
                                   ELSE IF s \in stale THEN [recon[s] EXCEPT !.row = "FAILED"]
                                   ELSE recon[s]]
  BY DEF N!BeginRun
<1>2. /\ issue' = [i \in IssueRow |-> IF issue[i].status = "OPEN"
                                      THEN [issue[i] EXCEPT !.shown = @ \cup {k}] ELSE issue[i]]
      /\ UNCHANGED <<wrong, reviewing>>
  BY DEF N!BeginRun
<1> DEFINE began == [row |-> "RUNNING", at |-> "reading", found |-> {}, todo |-> {}, hit |-> N!NoIssue]
<1>3. recon'[k] = began
  BY <1>1 DEF N!NewRun
<1>4. \A s \in Run \ {k} : \/ recon'[s] = recon[s]
                           \/ recon'[s] = [recon[s] EXCEPT !.row = "FAILED"]
  BY <1>1
<1>5. \A i \in IssueRow : /\ issue'[i].status = issue[i].status /\ issue'[i].print = issue[i].print
                          /\ issue[i].shown \subseteq issue'[i].shown
                          /\ issue[i].status = "OPEN" => k \in issue'[i].shown
                          /\ issue[i].status = "NONE" => issue'[i].shown = issue[i].shown
  BY <1>2 DEF RunsInv, N!RunTypeOK
<1>6. N!RunTypeOK'
  <2> DEFINE Rec == [row : {"NONE", "RUNNING", "COMPLETED", "FAILED"},
                     at : {"idle", "reading", "persisting"},
                     found : SUBSET Finding, todo : SUBSET Finding,
                     hit : IssueRow \cup {N!NoIssue}]
  <2>1. recon' \in [Run -> Rec]
    <3>1. began \in Rec
      OBVIOUS
    <3>2. \A s \in Run : recon[s] \in Rec /\ [recon[s] EXCEPT !.row = "FAILED"] \in Rec
      BY DEF RunsInv, N!RunTypeOK
    <3> HIDE DEF Rec, began
    <3>3. \A s \in Run : recon'[s] \in Rec
      BY <1>3, <1>4, <3>1, <3>2
    <3> QED BY <1>1, <3>3
  <2>2. issue' \in [IssueRow -> [status : {"NONE", "OPEN", "ACKNOWLEDGED", "CLOSED"},
                                 print : Finding, shown : SUBSET Run]]
    BY <1>2 DEF RunsInv, N!RunTypeOK
  <2> QED BY <1>2, <2>1, <2>2 DEF RunsInv, N!RunTypeOK
<1>7. \A s \in Run \ {k} :
        /\ recon'[s].at = recon[s].at /\ recon'[s].found = recon[s].found
        /\ recon'[s].todo = recon[s].todo /\ recon'[s].hit = recon[s].hit
        /\ recon'[s].row \in {recon[s].row, "FAILED"}
  <2> TAKE s \in Run \ {k}
  <2>1. recon[s] \in [row : {"NONE", "RUNNING", "COMPLETED", "FAILED"},
                      at : {"idle", "reading", "persisting"},
                      found : SUBSET Finding, todo : SUBSET Finding,
                      hit : IssueRow \cup {N!NoIssue}]
    BY DEF RunsInv, N!RunTypeOK
  <2> QED BY <1>4, <2>1
<1>8. recon'[k].at = "reading" /\ recon'[k].row = "RUNNING" /\ recon'[k].hit = N!NoIssue
  BY <1>3
<1>9. \A s \in Run, f \in Finding : ShownTo(s, f) => \E i \in IssueRow : issue'[i].print = f /\ s \in issue'[i].shown
  BY <1>5 DEF ShownTo
<1>10. \A s \in Run : recon'[s].at # "idle" =>
         /\ recon'[s].row \in {"RUNNING", "FAILED"}
         /\ recon'[s].at = "reading" => recon'[s].hit = N!NoIssue
         /\ \A i \in IssueRow : issue'[i].status = "OPEN" => s \in issue'[i].shown
  BY <1>5, <1>7, <1>8 DEF RunsInv, RunsOK
<1>11. \A s \in Run : recon'[s].at = "persisting" =>
         /\ s # k
         /\ recon'[s].hit # N!NoIssue => s \in issue'[recon'[s].hit].shown
         /\ \A f \in recon'[s].found \ recon'[s].todo :
              \E i \in IssueRow : issue'[i].print = f /\ s \in issue'[i].shown
  BY <1>5, <1>7, <1>8, <1>9 DEF RunsInv, RunsOK, N!RunTypeOK
<1>12. \A s \in Run : recon'[s].row = "COMPLETED" =>
         \A f \in recon'[s].found : \E i \in IssueRow : issue'[i].print = f /\ s \in issue'[i].shown
  BY <1>7, <1>8, <1>9 DEF RunsInv, N!FoundIsShown, ShownTo, N!RunTypeOK
<1>13. RunsOK'
  BY <1>5, <1>10, <1>11 DEF RunsInv, RunsOK, ShownTo
<1>14. N!FoundIsShown'
  BY <1>5, <1>12 DEF RunsInv, N!FoundIsShown, N!Rows
<1> QED BY <1>6, <1>13, <1>14 DEF RunsInv

(* An issue is created, for every run that goes on.                        *)
LEMMA CreateStep == ASSUME RunsInv, NEW k \in Run, NEW f \in Finding, N!CreateIssue(k, f) PROVE RunsInv'
<1> DEFINE going == {s \in Run : recon[s].at # "idle"}
<1>1. PICK i \in N!Rows("NONE") :
        issue' = [issue EXCEPT ![i] = [status |-> "OPEN", print |-> f, shown |-> going]]
  BY DEF N!CreateIssue
<1>2. /\ recon' = [recon EXCEPT ![k].todo = @ \ {f}] /\ recon[k].at = "persisting"
      /\ N!IssuesOf(f) = {} /\ UNCHANGED <<wrong, reviewing>>
  BY DEF N!CreateIssue
<1>3. i \in IssueRow /\ issue[i].status = "NONE" /\ issue[i].shown = {}
  BY <1>1 DEF N!Rows, RunsInv, RunsOK
<1>4. /\ issue'[i].status = "OPEN" /\ issue'[i].print = f /\ issue'[i].shown = going
      /\ \A j \in IssueRow : j # i => issue'[j] = issue[j]
  BY <1>1, <1>3 DEF RunsInv, N!RunTypeOK
<1>5. \A s \in Run : /\ recon'[s].row = recon[s].row /\ recon'[s].at = recon[s].at
                     /\ recon'[s].found = recon[s].found /\ recon'[s].hit = recon[s].hit
                     /\ s # k => recon'[s].todo = recon[s].todo
  BY <1>2 DEF RunsInv, N!RunTypeOK
<1>6. recon'[k].todo = recon[k].todo \ {f}
  BY <1>2 DEF RunsInv, N!RunTypeOK
<1>7. N!RunTypeOK'
  <2>1. [status |-> "OPEN", print |-> f, shown |-> going]
          \in [status : {"NONE", "OPEN", "ACKNOWLEDGED", "CLOSED"}, print : Finding, shown : SUBSET Run]
    OBVIOUS
  <2> HIDE DEF going
  <2>2. issue' \in [IssueRow -> [status : {"NONE", "OPEN", "ACKNOWLEDGED", "CLOSED"}, print : Finding,
                                shown : SUBSET Run]]
    BY <1>1, <2>1 DEF RunsInv, N!RunTypeOK
  <2>3. recon' \in [Run -> [row : {"NONE", "RUNNING", "COMPLETED", "FAILED"},
                           at : {"idle", "reading", "persisting"},
                           found : SUBSET Finding, todo : SUBSET Finding,
                           hit : IssueRow \cup {N!NoIssue}]]
    <3>1. [recon[k] EXCEPT !.todo = recon[k].todo \ {f}]
            \in [row : {"NONE", "RUNNING", "COMPLETED", "FAILED"}, at : {"idle", "reading", "persisting"},
                found : SUBSET Finding, todo : SUBSET Finding, hit : IssueRow \cup {N!NoIssue}]
      BY DEF RunsInv, N!RunTypeOK
    <3>2. recon' = [recon EXCEPT ![k] = [recon[k] EXCEPT !.todo = recon[k].todo \ {f}]]
      BY <1>2
    <3> QED BY <3>1, <3>2 DEF RunsInv, N!RunTypeOK
  <2>4. wrong' \subseteq Finding /\ reviewing' \in [Admin -> IssueRow \cup {N!NoIssue}]
    BY <1>2 DEF RunsInv, N!RunTypeOK
  <2> QED BY ONLY <2>2, <2>3, <2>4 DEF N!RunTypeOK
<1>8. \A s \in Run, g \in Finding :
        ShownTo(s, g) => \E j \in IssueRow : issue'[j].print = g /\ s \in issue'[j].shown
  BY <1>3, <1>4 DEF ShownTo
<1>9. k \in going
  BY <1>2
<1>10. \A s \in Run : recon'[s].at # "idle" =>
         /\ recon'[s].row \in {"RUNNING", "FAILED"}
         /\ recon'[s].at = "reading" => recon'[s].hit = N!NoIssue
         /\ \A j \in IssueRow : issue'[j].status = "OPEN" => s \in issue'[j].shown
  BY <1>4, <1>5 DEF RunsInv, RunsOK
<1>11. \A s \in Run : recon'[s].at = "persisting" /\ recon'[s].hit # N!NoIssue =>
         s \in issue'[recon'[s].hit].shown
  BY <1>3, <1>4, <1>5 DEF RunsInv, RunsOK, N!RunTypeOK
<1>12. \A s \in Run : recon'[s].at = "persisting" =>
         \A g \in recon'[s].found \ recon'[s].todo :
           \E j \in IssueRow : issue'[j].print = g /\ s \in issue'[j].shown
  <2> SUFFICES ASSUME NEW s \in Run, recon[s].at = "persisting", NEW g \in recon[s].found \ recon'[s].todo
               PROVE  \E j \in IssueRow : issue'[j].print = g /\ s \in issue'[j].shown
    BY <1>5
  <2>1. CASE s = k /\ g = f
    BY <2>1, <1>3, <1>4, <1>9
  <2>2. CASE ~(s = k /\ g = f)
    <3>1. g \in recon[s].found \ recon[s].todo /\ g \in Finding
      BY <2>2, <1>5, <1>6 DEF RunsInv, N!RunTypeOK
    <3> QED BY <3>1, <1>8 DEF RunsInv, RunsOK
  <2> QED BY <2>1, <2>2
<1>13. \A s \in Run : recon'[s].row = "COMPLETED" =>
         \A g \in recon'[s].found : \E j \in IssueRow : issue'[j].print = g /\ s \in issue'[j].shown
  BY <1>5, <1>8 DEF RunsInv, N!FoundIsShown, ShownTo, N!RunTypeOK
<1>14. \A j, l \in N!Rows("OPEN")' : issue'[j].print = issue'[l].print => j = l
  BY <1>2, <1>3, <1>4 DEF RunsInv, N!FoundIsShown, N!Rows, N!IssuesOf
<1>15. \A j \in IssueRow : issue'[j].status = "NONE" => issue'[j].shown = {}
  BY <1>4 DEF RunsInv, RunsOK
<1>16. RunsOK'
  BY <1>10, <1>11, <1>12, <1>15 DEF RunsOK, ShownTo
<1>17. N!FoundIsShown'
  BY <1>13, <1>14 DEF N!FoundIsShown
<1> QED BY <1>7, <1>16, <1>17 DEF RunsInv

(* An administrator reviews an issue: it is not OPEN any more.             *)
LEMMA ReviewStep ==
  ASSUME RunsInv, NEW a \in Admin,
         \/ \E i \in IssueRow : N!ReadIssue(a, i)
         \/ \E status \in {"ACKNOWLEDGED", "CLOSED"} : N!ReviewIssue(a, status)
  PROVE  RunsInv'
<1>1. ASSUME NEW i \in IssueRow, N!ReadIssue(a, i) PROVE RunsInv'
  BY <1>1 DEF RunsInv, N!ReadIssue, N!RunTypeOK, RunsOK, ShownTo, N!FoundIsShown, N!Rows
<1>2. ASSUME NEW status \in {"ACKNOWLEDGED", "CLOSED"}, N!ReviewIssue(a, status) PROVE RunsInv'
  <2>1. /\ issue' = [issue EXCEPT ![reviewing[a]].status = status]
        /\ reviewing' = [reviewing EXCEPT ![a] = N!NoIssue] /\ UNCHANGED <<wrong, recon>>
    BY <1>2 DEF N!ReviewIssue
  <2>2. \A i \in IssueRow : /\ issue'[i].print = issue[i].print /\ issue'[i].shown = issue[i].shown
                            /\ issue'[i].status \in {issue[i].status, "ACKNOWLEDGED", "CLOSED"}
    BY <2>1 DEF RunsInv, N!RunTypeOK
  <2>3. N!RunTypeOK'
    BY <2>1 DEF RunsInv, N!RunTypeOK
  <2>4. RunsOK'
    BY <2>1, <2>2 DEF RunsInv, RunsOK, ShownTo, N!RunTypeOK
  <2>5. N!FoundIsShown'
    BY <2>1, <2>2 DEF RunsInv, N!FoundIsShown, N!Rows
  <2> QED BY <2>3, <2>4, <2>5 DEF RunsInv
<1> QED BY <1>1, <1>2

LEMMA RunsStep == ASSUME RunsInv, N!Next PROVE RunsInv'
<1> DEFINE Rec == [row : {"NONE", "RUNNING", "COMPLETED", "FAILED"},
                   at : {"idle", "reading", "persisting"},
                   found : SUBSET Finding, todo : SUBSET Finding,
                   hit : IssueRow \cup {N!NoIssue}]
<1>1. recon \in [Run -> Rec] /\ wrong \subseteq Finding
  BY DEF RunsInv, N!RunTypeOK
<1>2. ASSUME NEW f \in Finding, N!Drift(f) PROVE RunsInv'
  BY <1>2 DEF N!Drift, RunsInv, N!RunTypeOK, RunsOK, ShownTo, N!FoundIsShown, N!Rows
<1>3. \A k \in Run : recon[k].at # "idle" => recon[k].row \in {"RUNNING", "FAILED"}
  BY DEF RunsInv, RunsOK
<1>4. ASSUME NEW k \in Run, N!Collect(k) PROVE RunsInv'
  <2>1. /\ recon' = [recon EXCEPT ![k].at = "persisting", ![k].found = wrong, ![k].todo = wrong]
        /\ recon[k].at = "reading" /\ UNCHANGED <<wrong, issue, reviewing>>
    BY <1>4 DEF N!Collect
  <2>2. /\ recon'[k].row = recon[k].row /\ recon'[k].at = "persisting"
        /\ recon'[k].found = wrong /\ recon'[k].todo = wrong /\ recon'[k].hit = recon[k].hit
        /\ \A s \in Run : s # k => recon'[s] = recon[s]
    BY <1>1, <2>1
  <2>3. recon' \in [Run -> Rec]
    <3> DEFINE one == [recon[k] EXCEPT !.at = "persisting"]
               two == [one EXCEPT !.found = wrong]
    <3>1. one \in Rec /\ two \in Rec /\ [two EXCEPT !.todo = wrong] \in Rec
      BY <1>1
    <3>2. recon' = [recon EXCEPT ![k] = [two EXCEPT !.todo = wrong]]
      BY <1>1, <2>1
    <3> QED BY <1>1, <3>1, <3>2
  <2>4. recon[k].hit = N!NoIssue
    BY <2>1 DEF RunsInv, RunsOK
  <2> QED BY <1>3, <2>1, <2>2, <2>3, <2>4, OneRunStep
<1>5. ASSUME NEW k \in Run, N!CollectFails(k) \/ N!StopRun(k) \/ N!CompleteRun(k)
                             \/ \E f \in Finding : N!CreateRefused(k, f)
      PROVE  RunsInv'
  <2>1. recon[k].at # "idle" /\ UNCHANGED <<wrong, issue, reviewing>>
    BY <1>5 DEF N!CollectFails, N!StopRun, N!CompleteRun, N!CreateRefused
  <2>2. \/ recon' = [recon EXCEPT ![k].row = "FAILED", ![k].at = "idle", ![k].hit = N!NoIssue]
        \/ recon' = [recon EXCEPT ![k].at = "idle"]
        \/ /\ recon' = [recon EXCEPT ![k].row = "COMPLETED", ![k].at = "idle"]
           /\ recon[k].at = "persisting" /\ recon[k].todo = {}
    BY <1>5 DEF N!CollectFails, N!StopRun, N!CompleteRun, N!CreateRefused, N!FailedRun
  <2>3. recon' \in [Run -> Rec]
    BY <1>1, <2>2, SMTT(30)
  <2>4. /\ recon'[k].at = "idle" /\ recon'[k].found = recon[k].found
        /\ \A s \in Run : s # k => recon'[s] = recon[s]
    BY <1>1, <2>2
  <2>5. recon'[k].row = "COMPLETED" => recon[k].at = "persisting" /\ recon[k].todo = {}
    BY <1>1, <1>3, <2>1, <2>2
  <2>6. recon'[k].row = "COMPLETED" => \A f \in recon'[k].found : ShownTo(k, f)
    BY <2>4, <2>5 DEF RunsInv, RunsOK
  <2> QED BY <2>1, <2>3, <2>4, <2>6, OneRunStep
<1>6. ASSUME NEW k \in Run, NEW f \in Finding, N!FindIssue(k, f) PROVE RunsInv'
  <2>1. PICK i \in N!IssuesOf(f) : recon' = [recon EXCEPT ![k].hit = i]
    BY <1>6 DEF N!FindIssue
  <2>2. recon[k].at = "persisting" /\ UNCHANGED <<wrong, issue, reviewing>>
    BY <1>6 DEF N!FindIssue
  <2>3. i \in IssueRow /\ k \in issue[i].shown
    BY <2>2 DEF N!IssuesOf, N!Rows, RunsInv, RunsOK
  <2>4. recon' \in [Run -> Rec]
    BY <1>1, <2>1, <2>3
  <2>5. /\ recon'[k].at = recon[k].at /\ recon'[k].row = recon[k].row /\ recon'[k].hit = i
        /\ recon'[k].found = recon[k].found /\ recon'[k].todo = recon[k].todo
        /\ \A s \in Run : s # k => recon'[s] = recon[s]
    BY <1>1, <2>1
  <2>6. \A g \in recon[k].found \ recon[k].todo : ShownTo(k, g)
    BY <2>2 DEF RunsInv, RunsOK
  <2> QED BY <1>3, <2>2, <2>3, <2>4, <2>5, <2>6, OneRunStep
<1>7. ASSUME NEW k \in Run, N!UpdateIssue(k) PROVE RunsInv'
  <2> DEFINE f == issue[recon[k].hit].print
  <2>1. /\ recon[k].at = "persisting" /\ recon[k].hit # N!NoIssue
        /\ recon' = [recon EXCEPT ![k].todo = @ \ {f}, ![k].hit = N!NoIssue]
        /\ UNCHANGED <<wrong, issue, reviewing>>
    BY <1>7 DEF N!UpdateIssue
  <2>2. ShownTo(k, f)
    BY <1>1, <2>1 DEF RunsInv, RunsOK, ShownTo
  <2> HIDE DEF f
  <2>3. recon' \in [Run -> Rec]
    BY <1>1, <2>1
  <2>4. /\ recon'[k].at = recon[k].at /\ recon'[k].row = recon[k].row /\ recon'[k].hit = N!NoIssue
        /\ recon'[k].found = recon[k].found /\ recon'[k].todo = recon[k].todo \ {f}
        /\ \A s \in Run : s # k => recon'[s] = recon[s]
    BY <1>1, <2>1
  <2>5. \A g \in recon[k].found \ recon[k].todo : ShownTo(k, g)
    BY <2>1 DEF RunsInv, RunsOK
  <2>6. \A g \in recon'[k].found \ recon'[k].todo : ShownTo(k, g)
    BY <2>2, <2>4, <2>5
  <2> QED BY <1>3, <2>1, <2>3, <2>4, <2>6, OneRunStep
<1> QED BY <1>2, <1>4, <1>5, <1>6, <1>7, BeginStep, CreateStep, ReviewStep DEF N!Next

----------------------------------------------------------------------------
(* Reconciliation's reads.  The rows of the books enter the ledger with    *)
(* the changes they are made of, so that what a run reads of the ledger    *)
(* covers what it has read of the books before.  While books and provider  *)
(* agree the charge and the refund of a payment stay as they are, and what *)
(* the run reads says the same of both; while nothing moves, what it reads *)
(* is what there is.                                                       *)

PayStatus == {"PENDING", "HELD", "RELEASED", "REFUNDED"}
RefundStatus == {"NONE", "PENDING", "FAILED", "COMPLETED"}

\* The rows that a payment or its refund has in a status.
PayRow(p, s) ==
    [id |-> p, order |-> p, status |-> s, amount |-> Price,
     charge |-> IF s # "PENDING" THEN Charge ELSE V!Absent, checkout |-> Checkout,
     orderStatus |-> IF s = "RELEASED" THEN "COMPLETED" ELSE "OPEN"]

BackRow(p, s) ==
    [id |-> p, status |-> s, amount |-> Price, charge |-> Charge,
     remote |-> IF s = "COMPLETED" THEN p ELSE V!Absent]

PayRows == {PayRow(p, s) : p \in Pay, s \in PayStatus}
BackRows == {BackRow(p, s) : p \in Pay, s \in RefundStatus}

Read == [payments : Seq(PayRows), refunds : Seq(BackRows),
         keys : SUBSET ({"PAYMENT_CAPTURED", "SELLER_PAYABLE", "REFUND"} \X Pay),
         charges : SUBSET [id : {Charge}, checkout : {Checkout}, status : {"refunded", "approved"},
                           amount : Int],
         returns : Seq({V!ReturnRow(p) : p \in Pay})]

\* The entries that a payment in a status has.
Captured(p, s, entries) ==
    /\ s \in {"HELD", "RELEASED"} => <<"PAYMENT_CAPTURED", p>> \in entries
    /\ s = "RELEASED" => <<"SELLER_PAYABLE", p>> \in entries

BooksOK ==
    /\ \A p \in sold :
         /\ V!Paid(p) => charged
         /\ books[p].status = "REFUNDED" <=> books[p].refund = "COMPLETED"
         /\ books[p].status = "REFUNDED" => p \in returned
         /\ p \in returned => books[p].refund # "NONE"
         /\ books[p].refund # "NONE" => V!Paid(p)
         /\ Captured(p, books[p].status, keys)
         /\ books[p].refund = "COMPLETED" => <<"REFUND", p>> \in keys
    /\ (\A p \in sold : V!Paid(p)) \/ (keys = {} /\ \A p \in sold : ~V!Paid(p))

\* The entries of what was read of the books.
Covered(entries) ==
    /\ \A i \in 1..Len(got.payments) : Captured(got.payments[i].id, got.payments[i].status, entries)
    /\ \A i \in 1..Len(got.refunds) :
         got.refunds[i].status = "COMPLETED" => <<"REFUND", got.refunds[i].id>> \in entries

AfterPayments == {"refunds", "ledger", "charges", "returns"}
AfterLedger == {"charges", "returns"}

LedgerRead ==
    /\ stage \in {"idle", "payments", "refunds"} => Covered(keys)
    /\ stage \in {"ledger"} \cup AfterLedger => Covered(got.keys)
    /\ stage \in {"idle", "payments"} => got.refunds = <<>>
    /\ stage = "idle" => ~agreed /\ ~differed

\* What the provider was found to have.
ChargesFound == IF configured /\ charged THEN {V!ChargeRow} ELSE {}

\* Of the one payment of a checkout.
AgreedRead(p) ==
    /\ V!Agree
    /\ Len(got.payments) = 1
    /\ \E s \in PayStatus : /\ got.payments[1] = PayRow(p, s)
                            /\ s = "PENDING" <=> ~charged
                            /\ s = "REFUNDED" <=> p \in returned
    /\ stage \in AfterPayments =>
         \/ Len(got.refunds) = 0 /\ p \notin returned
         \/ /\ Len(got.refunds) = 1
            /\ \E s \in RefundStatus : /\ got.refunds[1] = BackRow(p, s)
                                       /\ s = "COMPLETED" <=> p \in returned
    /\ stage \in AfterLedger => got.charges = ChargesFound
    /\ stage = "returns" =>
         IF configured /\ p \in returned THEN Len(got.returns) = 1 /\ got.returns[1] = V!ReturnRow(p)
                                         ELSE Len(got.returns) = 0

\* All the rows of a set, in some order.
Lists(rows, found) ==
    rows \in Seq(found) /\ \A x \in found : \E i \in 1..Len(rows) : rows[i] = x

Open == {p \in sold : books[p].refund # "NONE"}

PaymentRows == {V!PaymentRow(p) : p \in sold}
RefundRows == {V!RefundRow(p) : p \in Open}
ReturnRows == {V!ReturnRow(p) : p \in {q \in returned : configured}}

DifferedRead ==
    /\ ~V!Agree
    /\ Lists(got.payments, PaymentRows)
    /\ stage \in AfterPayments => Lists(got.refunds, RefundRows)
    /\ stage \in AfterLedger => got.charges = ChargesFound
    /\ stage = "returns" => Lists(got.returns, ReturnRows)

ReadsInv ==
    /\ V!ReadTypeOK /\ sold # {} /\ got \in Read /\ BooksOK /\ LedgerRead
    /\ keys \subseteq {"PAYMENT_CAPTURED", "SELLER_PAYABLE", "REFUND"} \X Pay
    /\ agreed => \A p \in Pay : sold = {p} => AgreedRead(p)
    /\ differed => DifferedRead

----------------------------------------------------------------------------
(* What the rules of the refunds do, row by row.                           *)

(* The function that Compared defines is there: for any number of rows.    *)
LEMMA ComparedIs ==
  ASSUME NEW local, NEW remote, Len(local) \in Nat
  PROVE  \A n \in 0..Len(local) : V!Compared(local, remote)[n] =
           IF n = 0 THEN [taken |-> {}, issues |-> {}]
                    ELSE V!CompareOneRefund(V!Compared(local, remote)[n - 1], local[n], remote)
<1> DEFINE first == [taken |-> {}, issues |-> {}]
           next(acc, n) == V!CompareOneRefund(acc, local[n], remote)
           Is(f, m) == f = [n \in 0..m |-> IF n = 0 THEN first ELSE next(f[n - 1], n)]
           Bad == {m \in Nat : ~\E f : Is(f, m)}
<1>1. Bad = {}
  <2> SUFFICES ASSUME Bad # {} PROVE FALSE
    OBVIOUS
  <2>1. PICK m \in Bad : \A k \in Bad : ~(k < m)
    <3>1. Bad \in SUBSET Nat
      OBVIOUS
    <3> HIDE DEF Bad
    <3> QED BY <3>1, LeastNatural
  <2> HIDE DEF first, next
  <2>2. CASE m = 0
    <3>1. Is([n \in 0..0 |-> first], 0)
      OBVIOUS
    <3> QED BY <2>1, <2>2, <3>1
  <2>3. CASE m # 0
    <3>1. m \in Nat /\ m - 1 \in Nat /\ m - 1 < m
      BY <2>1, <2>3
    <3>2. PICK f : Is(f, m - 1)
      BY <2>1, <3>1
    <3> DEFINE g == [n \in 0..m |-> IF n = 0 THEN first ELSE next(f[n - 1], n)]
    <3>3. \A n \in 0..(m - 1) : g[n] = f[n]
      <4>1. \A n \in 0..(m - 1) : n \in 0..m /\ f[n] = IF n = 0 THEN first ELSE next(f[n - 1], n)
        BY <3>1, <3>2
      <4> QED BY <4>1
    <3>4. \A n \in 0..m : n # 0 => g[n - 1] = f[n - 1]
      <4>1. \A n \in 0..m : n # 0 => n - 1 \in 0..(m - 1)
        BY <3>1
      <4> HIDE DEF g
      <4> QED BY <3>3, <4>1
    <3>5. Is(g, m)
      BY <3>4
    <3> QED BY <2>1, <3>5
  <2> QED BY <2>2, <2>3
<1>2. \E f : Is(f, Len(local))
  BY <1>1
<1>3. Is(V!Compared(local, remote), Len(local))
  BY <1>2 DEF V!Compared
<1> QED BY <1>3

(* No rule of the refunds reports an entry of the ledger.                  *)
LEMMA RefundIssues ==
  ASSUME NEW local, NEW remote, Len(local) \in Nat
  PROVE  \A d \in V!CompareRefunds(local, remote) : d.type \notin V!LedgerIssues
<1> DEFINE done == V!Compared(local, remote)
           Good == {n \in 0..Len(local) : \A d \in done[n].issues : d.type \notin V!LedgerIssues}
           Bad == (0..Len(local)) \ Good
<1>1. Bad = {}
  <2> SUFFICES ASSUME Bad # {} PROVE FALSE
    OBVIOUS
  <2>1. PICK n \in Bad : \A k \in Bad : ~(k < n)
    <3>1. Bad \in SUBSET Nat
      OBVIOUS
    <3> HIDE DEF Bad
    <3> QED BY <3>1, LeastNatural
  <2>2. n # 0
    BY <2>1, ComparedIs
  <2>3. n - 1 \in 0..Len(local) /\ n - 1 < n
    BY <2>1, <2>2
  <2>4. \A d \in done[n - 1].issues : d.type \notin V!LedgerIssues
    BY <2>1, <2>3
  <2>5. done[n] = V!CompareOneRefund(done[n - 1], local[n], remote)
    BY <2>1, <2>2, ComparedIs
  <2> HIDE DEF done
  <2>6. \A d \in V!CompareOneRefund(done[n - 1], local[n], remote).issues : d.type \notin V!LedgerIssues
    BY <2>4 DEF V!CompareOneRefund, V!StatusIssues, V!Issue, V!LedgerIssues
  <2> QED BY <2>1, <2>5, <2>6
<1>2. \A d \in done[Len(local)].issues : d.type \notin V!LedgerIssues
  BY <1>1
<1> HIDE DEF done
<1>3. \A d \in V!Issues("REFUND_MISSING_LOCAL", "CRITICAL",
                        {row \in V!Range(remote) : row.id \notin done[Len(local)].taken}) :
        d.type \notin V!LedgerIssues
  BY DEF V!Issues, V!Issue, V!LedgerIssues
<1> QED BY <1>2, <1>3 DEF V!CompareRefunds, done

(* Nor does a rule of the payments.                                        *)
LEMMA PaymentIssues ==
  ASSUME NEW local, NEW remote, NEW known, NEW token
  PROVE  \A d \in V!ComparePayments(local, remote, known, token) : d.type \notin V!LedgerIssues
<1> DEFINE Types == {"PAYMENT_MISSING_PROVIDER", "DUPLICATE_PROVIDER_PAYMENT", "PAYMENT_STATUS_MISMATCH",
                     "PAYMENT_AMOUNT_MISMATCH", "PAYMENT_MISSING_LOCAL", "UNKNOWN_PROVIDER_PAYMENT"}
<1>1. ASSUME NEW type \in Types, NEW severity, NEW rows
      PROVE  \A d \in V!Issues(type, severity, rows) : d.type \notin V!LedgerIssues
  BY DEF V!Issues, V!Issue, V!LedgerIssues
<1> QED BY <1>1 DEF V!ComparePayments

(* Rows whose entries are all there lack none.                             *)
LEMMA LedgerComplete ==
  ASSUME got \in Read, Covered(got.keys)
  PROVE  V!CompareLedger(V!Range(got.payments), V!Range(got.refunds), {}, got.keys) = {}
<1>1. \A pay \in V!Range(got.payments) :
        pay.order = pay.id /\ Captured(pay.id, pay.status, got.keys)
  <2>1. \A i \in DOMAIN got.payments : i \in 1..Len(got.payments) /\ got.payments[i] \in PayRows
    BY DEF Read
  <2>2. \A pay \in PayRows : pay.order = pay.id
    BY DEF PayRows, PayRow
  <2> QED BY <2>1, <2>2 DEF V!Range, Covered
<1>2. \A ref \in V!Range(got.refunds) : ref.status = "COMPLETED" => <<"REFUND", ref.id>> \in got.keys
  <2>1. \A i \in DOMAIN got.refunds : i \in 1..Len(got.refunds)
    BY DEF Read
  <2> QED BY <2>1 DEF V!Range, Covered
<1> DEFINE pays == V!Range(got.payments)
           refs == V!Range(got.refunds)
<1> HIDE DEF pays, refs
<1>3. {pay \in pays : pay.status \in {"HELD", "RELEASED"} /\ <<"PAYMENT_CAPTURED", pay.id>> \notin got.keys} = {}
  BY <1>1 DEF Captured, pays
<1>4. {pay \in pays : pay.status = "RELEASED" /\ pay.orderStatus = "COMPLETED"
                      /\ <<"SELLER_PAYABLE", pay.order>> \notin got.keys} = {}
  BY <1>1 DEF Captured, pays
<1>5. {ref \in refs : ref.status = "COMPLETED" /\ <<"REFUND", ref.id>> \notin got.keys} = {}
  BY <1>2 DEF refs
<1> QED BY <1>3, <1>4, <1>5 DEF V!CompareLedger, V!Issues, pays, refs

\* An instance has a Cardinality of its own, which is the one of the library's theorems.
LEMMA ReadCounts == \A few : V!Cardinality(few) = Cardinality(few)
  BY DEF V!Cardinality, Cardinality

(* While books and provider agreed, the one payment gives no rise to an    *)
(* issue: the charge matches it, and its refund matches itself.            *)
LEMMA PaymentsAgree ==
  ASSUME NEW p \in Pay, sold = {p}, returned \subseteq sold, configured, charged \in BOOLEAN,
         stage = "returns", AgreedRead(p)
  PROVE  V!ComparePayments(got.payments, got.charges, {Checkout}, configured) = {}
<1>1. PICK s \in PayStatus : /\ got.payments[1] = PayRow(p, s)
                             /\ s = "PENDING" <=> ~charged
                             /\ s = "REFUNDED" <=> p \in returned
  BY DEF AgreedRead
<1> DEFINE local == got.payments
           row == PayRow(p, s)
           sale == V!ChargeRow
<1>2. Len(local) = 1 /\ DOMAIN local = {1} /\ local[1] = row /\ V!Range(local) = {row}
  BY <1>1 DEF AgreedRead, V!Range
<1>3. got.charges = IF charged THEN {sale} ELSE {}
  BY DEF AgreedRead, ChargesFound, AfterLedger
<1>4. /\ row.status = s /\ row.amount = Price /\ row.id = p
      /\ row.charge = IF s # "PENDING" THEN Charge ELSE V!Absent
  BY DEF PayRow
<1>5. /\ sale.id = Charge /\ sale.amount = Price
      /\ sale.status = IF p \in returned THEN "refunded" ELSE "approved"
  BY ReadCounts, FS_Singleton, ReadsAssumption DEF V!ChargeRow
<1> HIDE DEF local, row, sale
<1>6. CASE s = "PENDING"
  <2>1. row.charge = V!Absent /\ got.charges = {}
    BY <1>1, <1>3, <1>4, <1>6
  <2> QED BY <1>2, <1>4, <1>6, <2>1 DEF V!ComparePayments, V!Issues, V!HoldsMoney, local
<1>7. CASE s # "PENDING"
  <2>1. row.charge = Charge /\ got.charges = {sale} /\ Charge # V!Absent
    BY <1>1, <1>3, <1>4, <1>7, ReadsAssumption
  <2>2. V!Compatible(sale.status, row.status)
    BY <1>1, <1>4, <1>5, <1>7 DEF V!Compatible, PayStatus
  <2>3. V!FirstOf(local, Charge) = row
    <3>1. {i \in DOMAIN local : local[i].charge = Charge} = {1}
      BY <1>2, <2>1
    <3> QED BY <1>2, <3>1 DEF V!FirstOf, V!Min
  <2> DEFINE charges == {pay.charge : pay \in V!Range(local)} \ {V!Absent}
             shared == {c \in charges : \E i, j \in DOMAIN local :
                          i # j /\ local[i].charge = c /\ local[j].charge = c}
             firsts == {V!FirstOf(local, c) : c \in charges}
             matched == {m \in firsts \X got.charges : m[1].charge = m[2].id}
             unlike == {m \in matched : ~V!Compatible(m[2].status, m[1].status)}
             grave == {m \in unlike : m[2].status = "refunded" \/ m[1].status \in V!HoldsMoney}
             extra == {x \in got.charges : x.id \notin charges}
  <2>4. charges = {Charge} /\ shared = {}
    BY <1>2, <2>1
  <2>5. firsts = {row}
    BY <2>3, <2>4
  <2>6. extra = {}
    BY <1>5, <2>1, <2>4
  <2>7. matched = {<<row, sale>>}
    <3> HIDE DEF firsts
    <3> QED BY <1>5, <2>1, <2>5
  <2>8. unlike = {} /\ grave = {}
    <3> HIDE DEF matched
    <3> QED BY <2>2, <2>7
  <2>9. firsts \ {m[1] : m \in matched} = {}
    <3> HIDE DEF matched, firsts
    <3> QED BY <2>5, <2>7
  <2>10. {m[1] : m \in {n \in matched : n[1].amount # n[2].amount}} = {}
    <3> HIDE DEF matched
    <3> QED BY <1>4, <1>5, <2>7
  <2>11. {pay \in V!Range(local) : pay.charge = V!Absent /\ pay.status \in V!HoldsMoney} = {}
    BY <1>2, <2>1
  <2>12. V!Issues("DUPLICATE_PROVIDER_PAYMENT", "CRITICAL", {V!FirstOf(local, c) : c \in shared}) = {}
    <3> HIDE DEF shared
    <3> QED BY <2>4 DEF V!Issues
  <2>13. \A type, severity : V!Issues(type, severity, {}) = {}
    BY DEF V!Issues
  <2>14. \A known : {x \in extra : x.checkout \in known} = {} /\ {x \in extra : x.checkout \notin known} = {}
    <3> HIDE DEF extra
    <3> QED BY <2>6
  <2>15. {m[1] : m \in grave} = {} /\ {m[1] : m \in unlike \ grave} = {}
    <3> HIDE DEF grave, unlike
    <3> QED BY <2>8
  <2>16. V!ComparePayments(local, got.charges, {Checkout}, configured) =
           V!Issues("PAYMENT_MISSING_PROVIDER", IF configured THEN "CRITICAL" ELSE "WARNING",
               {pay \in V!Range(local) : pay.charge = V!Absent /\ pay.status \in V!HoldsMoney})
           \cup V!Issues("PAYMENT_MISSING_PROVIDER", "CRITICAL", firsts \ {m[1] : m \in matched})
           \cup V!Issues("DUPLICATE_PROVIDER_PAYMENT", "CRITICAL", {V!FirstOf(local, c) : c \in shared})
           \cup V!Issues("PAYMENT_STATUS_MISMATCH", "CRITICAL", {m[1] : m \in grave})
           \cup V!Issues("PAYMENT_STATUS_MISMATCH", "WARNING", {m[1] : m \in unlike \ grave})
           \cup V!Issues("PAYMENT_AMOUNT_MISMATCH", "CRITICAL",
               {m[1] : m \in {n \in matched : n[1].amount # n[2].amount}})
           \cup V!Issues("PAYMENT_MISSING_LOCAL", "CRITICAL", {x \in extra : x.checkout \in {Checkout}})
           \cup V!Issues("UNKNOWN_PROVIDER_PAYMENT", "CRITICAL", {x \in extra : x.checkout \notin {Checkout}})
    BY Zenon DEF V!ComparePayments
  <2> HIDE DEF charges, shared, firsts, matched, unlike, grave, extra
  <2>17. /\ V!Issues("PAYMENT_MISSING_PROVIDER", IF configured THEN "CRITICAL" ELSE "WARNING",
               {pay \in V!Range(local) : pay.charge = V!Absent /\ pay.status \in V!HoldsMoney}) = {}
         /\ V!Issues("PAYMENT_MISSING_PROVIDER", "CRITICAL", firsts \ {m[1] : m \in matched}) = {}
    BY <2>9, <2>11, <2>13
  <2>18. /\ V!Issues("PAYMENT_STATUS_MISMATCH", "CRITICAL", {m[1] : m \in grave}) = {}
         /\ V!Issues("PAYMENT_STATUS_MISMATCH", "WARNING", {m[1] : m \in unlike \ grave}) = {}
    BY <2>13, <2>15
  <2>19. V!Issues("PAYMENT_AMOUNT_MISMATCH", "CRITICAL",
               {m[1] : m \in {n \in matched : n[1].amount # n[2].amount}}) = {}
    BY <2>10, <2>13
  <2>20. /\ V!Issues("PAYMENT_MISSING_LOCAL", "CRITICAL", {x \in extra : x.checkout \in {Checkout}}) = {}
         /\ V!Issues("UNKNOWN_PROVIDER_PAYMENT", "CRITICAL", {x \in extra : x.checkout \notin {Checkout}}) = {}
    BY <2>13, <2>14
  <2>21. V!ComparePayments(local, got.charges, {Checkout}, configured) = {}
    BY <2>12, <2>16, <2>17, <2>18, <2>19, <2>20
  <2> QED BY <2>21 DEF local
<1> QED BY <1>6, <1>7

LEMMA RefundsAgree ==
  ASSUME got \in Read, NEW p \in Pay, configured, stage = "returns", AgreedRead(p)
  PROVE  V!CompareRefunds(got.refunds, got.returns) = {}
<1> DEFINE local == got.refunds
           remote == got.returns
           back == V!ReturnRow(p)
           done == V!Compared(local, remote)
           first == [taken |-> {}, issues |-> {}]
           Missing == {row \in V!Range(remote) : row.id \notin done[Len(local)].taken}
<1>1. /\ local \in Seq(BackRows) /\ remote \in Seq({V!ReturnRow(q) : q \in Pay})
      /\ Len(local) \in Nat
  BY DEF Read
<1>2. IF p \in returned THEN Len(remote) = 1 /\ remote[1] = back ELSE Len(remote) = 0
  BY DEF AgreedRead
<1>3. /\ p \in returned => DOMAIN remote = {1} /\ remote[1] = back
      /\ p \notin returned => DOMAIN remote = {}
  BY <1>1, <1>2
<1>4. /\ back.id = p /\ back.charge = Charge /\ back.amount = Price /\ back.status = "approved"
  BY DEF V!ReturnRow
<1>5. done[0] = first
  BY <1>1, ComparedIs
<1>6. Len(local) = 0 \/ Len(local) = 1
  BY DEF AgreedRead, AfterPayments
<1>7. done[Len(local)].issues = {} /\ Missing = {}
  <2>1. CASE Len(local) = 0
    <3>1. p \notin returned
      BY <2>1 DEF AgreedRead, AfterPayments
    <3> HIDE DEF done, remote
    <3> QED BY <1>3, <1>5, <2>1, <3>1 DEF V!Range
  <2>2. CASE Len(local) = 1
    <3>1. PICK s \in RefundStatus : local[1] = BackRow(p, s) /\ (s = "COMPLETED" <=> p \in returned)
      BY <2>2 DEF AgreedRead, AfterPayments
    <3>2. done[1] = V!CompareOneRefund(first, local[1], remote)
      BY <1>1, <1>5, <2>2, ComparedIs
    <3>3. local[1].status = s /\ local[1].amount = Price
          /\ local[1].remote = (IF s = "COMPLETED" THEN p ELSE V!Absent)
      BY <3>1 DEF BackRow
    <3> HIDE DEF done, local, remote, back
    <3>4. CASE p \in returned
      <4>1. V!MatchOf(local[1], remote, {}) = {1}
        <5>1. {i \in DOMAIN remote : remote[i].id = local[1].remote} = {1}
          BY <1>3, <1>4, <3>1, <3>3, <3>4
        <5> QED BY <5>1 DEF V!MatchOf
      <4>2. V!Min({1}) = 1
        BY DEF V!Min
      <4>3. V!StatusIssues(local[1], back) = {}
        BY <1>4, <3>1, <3>3, <3>4 DEF V!StatusIssues
      <4>4. done[1] = [taken |-> {p}, issues |-> {}]
        BY <1>3, <1>4, <3>2, <3>3, <3>4, <4>1, <4>2, <4>3 DEF V!CompareOneRefund
      <4>5. V!Range(remote) = {back}
        BY <1>3, <3>4 DEF V!Range
      <4> QED BY <1>4, <2>2, <4>4, <4>5
    <3>5. CASE p \notin returned
      <4>1. V!MatchOf(local[1], remote, {}) = {}
        BY <1>3, <3>5 DEF V!MatchOf
      <4>2. done[1] = first
        BY <3>1, <3>2, <3>3, <3>5, <4>1 DEF V!CompareOneRefund
      <4> QED BY <1>3, <2>2, <3>5, <4>2 DEF V!Range
    <3> QED BY <3>4, <3>5
  <2> QED BY <1>6, <2>1, <2>2
<1> HIDE DEF done
<1> QED BY <1>7 DEF V!CompareRefunds, V!Issues, done

\* The least of some indices is one of them.
LEMMA LeastIsIn ==
  ASSUME NEW last \in Nat, NEW some \in SUBSET (1..last), some # {}
  PROVE  V!Min(some) \in some
<1>1. PICK n \in some : \A m \in some : ~(m < n)
  BY LeastNatural
<1>2. \A m \in some : n =< m
  BY <1>1
<1> QED BY <1>2 DEF V!Min

(* A refund that the provider has approved and the books have not          *)
(* completed is reported: the row that matches it is an open one, its own  *)
(* at the latest.                                                          *)
LEMMA ReturnIsReported ==
  ASSUME ReadsInv, configured, stage = "returns", differed,
         NEW p \in returned, books[p].status # "REFUNDED"
  PROVE  V!CompareRefunds(got.refunds, got.returns) # {}
<1> DEFINE local == got.refunds
           remote == got.returns
           done == V!Compared(local, remote)
           Quiet == {n \in 0..Len(local) : done[n].issues = {} =>
                       /\ p \notin done[n].taken
                       /\ \A i \in 1..n : local[i].id # p}
           Bad == (0..Len(local)) \ Quiet
<1>1. /\ local \in Seq(BackRows) /\ remote \in Seq({V!ReturnRow(q) : q \in Pay})
      /\ Len(local) \in Nat /\ DOMAIN remote = 1..Len(remote) /\ Len(remote) \in Nat
  BY DEF ReadsInv, Read
<1>2. \A q \in Pay : /\ V!ReturnRow(q).id = q /\ V!ReturnRow(q).charge = Charge
                     /\ V!ReturnRow(q).amount = Price /\ V!ReturnRow(q).status = "approved"
  BY DEF V!ReturnRow
<1>3. /\ p \in Pay /\ p \in Open /\ p \in sold
      /\ \E j \in DOMAIN remote : remote[j] = V!ReturnRow(p)
      /\ \E i \in 1..Len(local) : local[i] = V!RefundRow(p)
  <2>1. p \in Pay /\ p \in Open /\ p \in sold
    BY DEF ReadsInv, V!ReadTypeOK, BooksOK, Open
  <2> QED BY <1>1, <2>1 DEF ReadsInv, DifferedRead, Lists, AfterPayments, RefundRows, ReturnRows
<1>4. \A i \in 1..Len(local) : \E q \in Open : local[i] = V!RefundRow(q)
  <2>1. local \in Seq({V!RefundRow(q) : q \in Open})
    BY DEF ReadsInv, DifferedRead, Lists, AfterPayments, RefundRows
  <2> QED BY <2>1
<1>5. \A j \in DOMAIN remote : \E q \in Pay : remote[j] = V!ReturnRow(q)
  BY <1>1
<1>6. \A q \in Open : /\ V!RefundRow(q).id = q /\ V!RefundRow(q).charge = Charge
                      /\ V!RefundRow(q).amount = Price
                      /\ V!RefundRow(q).status = books[q].refund
                      /\ V!RefundRow(q).remote = IF books[q].refund = "COMPLETED" THEN q ELSE V!Absent
                      /\ books[q].refund \in {"PENDING", "FAILED", "COMPLETED"}
                      /\ books[q].refund = "COMPLETED" => q # p
  BY DEF V!RefundRow, Open, ReadsInv, V!ReadTypeOK, BooksOK
<1>7. Bad = {}
  <2> SUFFICES ASSUME Bad # {} PROVE FALSE
    OBVIOUS
  <2>1. PICK n \in Bad : \A k \in Bad : ~(k < n)
    <3>1. Bad \in SUBSET Nat
      OBVIOUS
    <3> HIDE DEF Bad
    <3> QED BY <3>1, LeastNatural
  <2>2. n # 0
    BY <1>1, <2>1, ComparedIs
  <2>3. n \in 1..Len(local) /\ n - 1 \in 0..Len(local) /\ n - 1 < n
    BY <2>1, <2>2
  <2>4. done[n] = V!CompareOneRefund(done[n - 1], local[n], remote)
    BY <1>1, <2>1, <2>2, ComparedIs
  <2>5. done[n - 1].issues = {} => p \notin done[n - 1].taken /\ \A i \in 1..(n - 1) : local[i].id # p
    BY <2>1, <2>3
  <2> DEFINE acc == done[n - 1]
             row == local[n]
             found == V!MatchOf(row, remote, acc.taken)
             match == remote[V!Min(found)]
  <2>6. done[n].issues = {} /\ ~(p \notin done[n].taken /\ \A i \in 1..n : local[i].id # p)
    BY <2>1
  <2>7. PICK q \in Open : row = V!RefundRow(q)
    BY <1>4, <2>3
  <2> HIDE DEF done, local, remote, Bad
  <2>8. acc.issues = {} /\ (found # {} => V!StatusIssues(row, match) = {})
    BY <2>4, <2>6 DEF V!CompareOneRefund
  <2>9. p \notin acc.taken /\ \A i \in 1..(n - 1) : local[i].id # p
    BY <2>5, <2>8
  <2>10. found \subseteq DOMAIN remote /\ (found # {} => V!Min(found) \in found)
    <3>1. found \subseteq DOMAIN remote
      BY DEF V!MatchOf
    <3> QED BY <1>1, <3>1, LeastIsIn
  <2>11. CASE books[q].refund = "COMPLETED"
    <3>1. q # p /\ row.id = q /\ row.remote = q
      BY <1>6, <2>7, <2>11
    <3>2. \E j \in DOMAIN remote : remote[j].id = q
      <4>1. q \in returned /\ q \in Pay
        BY <2>11 DEF ReadsInv, BooksOK, Open, V!ReadTypeOK
      <4>2. \E j \in 1..Len(got.returns) : got.returns[j] = V!ReturnRow(q)
        BY <4>1 DEF ReadsInv, DifferedRead, Lists, ReturnRows
      <4> QED BY <1>1, <1>2, <4>1, <4>2 DEF remote
    <3>3. found # {} /\ match.id = q
      BY <2>10, <3>1, <3>2 DEF V!MatchOf
    <3>4. done[n].taken = acc.taken \cup {q}
      BY <2>4, <3>3 DEF V!CompareOneRefund
    <3>5. \A i \in 1..n : local[i].id # p
      BY <2>3, <2>9, <3>1
    <3> QED BY <2>6, <2>9, <3>1, <3>4, <3>5
  <2>12. CASE books[q].refund # "COMPLETED"
    <3>1. row.remote = V!Absent /\ row.charge = Charge /\ row.amount = Price
          /\ row.status \in {"PENDING", "FAILED"}
      BY <1>6, <2>7, <2>12
    <3>2. {j \in DOMAIN remote : remote[j].id = row.remote} = {}
      BY <1>2, <1>5, <3>1, ReadsAssumption
    <3>3. found # {}
      BY <1>2, <1>3, <2>9, <3>1, <3>2 DEF V!MatchOf
    <3>4. match.status = "approved"
      BY <1>2, <1>5, <2>10, <3>3
    <3> QED BY <2>8, <3>1, <3>3, <3>4 DEF V!StatusIssues
  <2> QED BY <2>11, <2>12
<1>8. done[Len(local)].issues = {} => p \notin done[Len(local)].taken /\ \A i \in 1..Len(local) : local[i].id # p
  BY <1>1, <1>7
<1>9. done[Len(local)].issues # {}
  <2> HIDE DEF done, local
  <2> QED BY <1>3, <1>6, <1>8
<1> HIDE DEF done
<1> QED BY <1>9 DEF V!CompareRefunds, done

(* A charge that the books have not captured is reported: none of the rows *)
(* that were read names it.                                                *)
LEMMA SaleIsReported ==
  ASSUME ReadsInv, configured, stage = "returns", differed, charged,
         NEW p \in sold, ~V!Paid(p)
  PROVE  V!ComparePayments(got.payments, got.charges, {Checkout}, configured) # {}
<1> DEFINE local == got.payments
           charges == {pay.charge : pay \in V!Range(local)} \ {V!Absent}
           extra == {row \in got.charges : row.id \notin charges}
           missing == {row \in extra : row.checkout \in {Checkout}}
<1>1. \A q \in sold : ~V!Paid(q)
  BY DEF ReadsInv, BooksOK, Captured
<1>2. \A q \in sold : V!PaymentRow(q).charge = V!Absent
  BY <1>1 DEF V!PaymentRow
<1>3. \A pay \in V!Range(local) : pay.charge = V!Absent
  <2>1. local \in Seq({V!PaymentRow(q) : q \in sold})
    BY DEF ReadsInv, DifferedRead, Lists, PaymentRows
  <2>2. \A i \in DOMAIN local : \E q \in sold : local[i] = V!PaymentRow(q)
    BY <2>1
  <2> QED BY <1>2, <2>2 DEF V!Range
<1>4. charges = {}
  BY <1>3
<1>5. V!ChargeRow \in got.charges /\ V!ChargeRow.checkout = Checkout
  <2>1. got.charges = {V!ChargeRow}
    BY DEF ReadsInv, DifferedRead, ChargesFound, AfterLedger
  <2> QED BY <2>1 DEF V!ChargeRow
<1>6. V!ChargeRow \in missing
  <2> HIDE DEF charges
  <2> QED BY <1>4, <1>5
<1>7. V!Issues("PAYMENT_MISSING_LOCAL", "CRITICAL", missing)
        \subseteq V!ComparePayments(got.payments, got.charges, {Checkout}, configured)
  BY Zenon DEF V!ComparePayments
<1>8. V!Issues("PAYMENT_MISSING_LOCAL", "CRITICAL", missing) # {}
  <2> HIDE DEF missing
  <2> QED BY <1>6 DEF V!Issues
<1> QED BY <1>7, <1>8

(* What the run reports is true of what it has read.                       *)
LEMMA ReadsTellTheTruth == ASSUME ReadsInv PROVE V!ReportIsTrue
<1> SUFFICES ASSUME stage = "returns"
             PROVE  /\ \A d \in V!Drafts : d.type \notin V!LedgerIssues
                    /\ configured /\ V!Cardinality(sold) = 1 /\ agreed => V!Drafts = {}
                    /\ configured /\ differed => V!Drafts # {}
  BY DEF V!ReportIsTrue
<1>1. V!CompareLedger(V!Range(got.payments), V!Range(got.refunds), {}, got.keys) = {}
  BY LedgerComplete DEF ReadsInv, LedgerRead, AfterLedger
<1>2. \A d \in V!Drafts : d.type \notin V!LedgerIssues
  <2>1. Len(got.refunds) \in Nat
    BY DEF ReadsInv, Read
  <2> QED BY <1>1, <2>1, PaymentIssues, RefundIssues DEF V!Drafts
<1>3. ASSUME configured, V!Cardinality(sold) = 1, agreed
      PROVE  V!Drafts = {}
  <2>1. PICK p \in Pay : sold = {p}
    <3>1. IsFiniteSet(sold) /\ Cardinality(sold) = 1
      BY <1>3, ReadCounts, ReadsAssumption, FS_Subset DEF ReadsInv, V!ReadTypeOK
    <3>2. \E p : sold = {p}
      BY <3>1, FS_Singleton
    <3> QED BY <3>2 DEF ReadsInv, V!ReadTypeOK
  <2>2. AgreedRead(p)
    BY <1>3, <2>1 DEF ReadsInv
  <2>3. got \in Read /\ returned \subseteq sold /\ charged \in BOOLEAN
    BY DEF ReadsInv, V!ReadTypeOK
  <2> QED BY <1>1, <1>3, <2>1, <2>2, <2>3, PaymentsAgree, RefundsAgree DEF V!Drafts
<1>4. ASSUME configured, differed
      PROVE  V!Drafts # {}
  <2>1. PICK p \in sold : ~((V!Paid(p) <=> charged) /\ (p \in returned <=> books[p].status = "REFUNDED"))
    BY <1>4 DEF ReadsInv, DifferedRead, V!Agree
  <2>2. \/ charged /\ ~V!Paid(p)
        \/ p \in returned /\ books[p].status # "REFUNDED"
    BY <2>1 DEF ReadsInv, BooksOK
  <2> QED BY <1>4, <2>2, SaleIsReported, ReturnIsReported DEF V!Drafts
<1> QED BY <1>2, <1>3, <1>4

----------------------------------------------------------------------------
(* The reads' invariant: at first nothing is sold or read.                 *)
LEMMA ReadsStart == ASSUME V!Init PROVE ReadsInv
<1>1. V!ReadTypeOK /\ sold # {} /\ keys = {}
  <2>1. sold \subseteq Pay /\ sold # {} /\ keys = {} /\ returned \subseteq sold
    BY DEF V!Init
  <2>2. books \in [Pay -> [status : {"PENDING", "HELD", "RELEASED", "REFUNDED"},
                          refund : {"NONE", "PENDING", "FAILED", "COMPLETED"}]]
    BY DEF V!Init
  <2> QED BY <2>1, <2>2 DEF V!Init, V!ReadTypeOK
<1>2. got \in Read /\ got.payments = <<>> /\ got.refunds = <<>>
  BY DEF V!Init, V!NothingRead, Read
<1>3. BooksOK
  BY DEF V!Init, BooksOK, Captured, V!Paid
<1>4. LedgerRead
  BY <1>2 DEF V!Init, LedgerRead, Covered, AfterLedger
<1> QED BY <1>1, <1>2, <1>3, <1>4 DEF ReadsInv, V!Init

(* A change of the books or of the provider: the run's reads stay, and the *)
(* ledger loses nothing.                                                   *)
LEMMA WorldStep ==
  ASSUME ReadsInv, V!Watch, V!ReadTypeOK', BooksOK', keys \subseteq keys',
         keys' \subseteq {"PAYMENT_CAPTURED", "SELLER_PAYABLE", "REFUND"} \X Pay,
         \A p \in Pay : sold = {p} /\ agreed' => charged' = charged /\ returned' = returned
  PROVE  ReadsInv'
<1>1. /\ sold' = sold /\ configured' = configured /\ stage' = stage /\ got' = got
      /\ agreed' = (agreed /\ V!Agree') /\ differed' = FALSE
  BY DEF V!Watch
<1>2. \A old, new : old \subseteq new /\ Covered(old) => Covered(new)
  BY DEF Covered, Captured
<1>3. \A entries : Covered(entries)' <=> Covered(entries')
  BY <1>1 DEF Covered, Captured
<1>4. LedgerRead'
  BY <1>1, <1>2, <1>3 DEF ReadsInv, LedgerRead, AfterLedger
<1>5. ASSUME agreed', NEW p \in Pay, sold = {p} PROVE AgreedRead(p)'
  <2>1. charged' = charged /\ returned' = returned /\ AgreedRead(p)
    BY <1>1, <1>5 DEF ReadsInv
  <2>2. ChargesFound' = ChargesFound
    BY <1>1, <2>1 DEF ChargesFound, V!ChargeRow
  <2> QED BY <1>1, <1>5, <2>1, <2>2 DEF AgreedRead, AfterPayments, AfterLedger
<1> QED BY <1>1, <1>4, <1>5 DEF ReadsInv

\* The shape of the books, and what the payments of a sale are.
BooksType == [Pay -> [status : PayStatus, refund : RefundStatus]]

(* The payment: the provider has the charge, and the webhook captures it.  *)
LEMMA SaleSteps ==
  ASSUME ReadsInv, V!ChargeApproved \/ V!Capture
  PROVE  ReadsInv'
<1>1. books \in BooksType
  BY DEF ReadsInv, V!ReadTypeOK, BooksType, PayStatus, RefundStatus
<1>2. CASE V!ChargeApproved
  <2>1. /\ charged = FALSE /\ charged' = TRUE /\ V!Watch
        /\ UNCHANGED <<sold, configured, returned, books, keys, stage, got>>
    BY <1>2 DEF V!ChargeApproved, V!Watch, ReadsInv, V!ReadTypeOK
  <2>2. V!ReadTypeOK'
    BY <2>1 DEF ReadsInv, V!ReadTypeOK, V!Watch
  <2>3. BooksOK'
    BY <2>1 DEF ReadsInv, BooksOK, Captured, V!Paid
  <2>4. \A p \in Pay : ~(sold = {p} /\ agreed')
    BY <2>1 DEF ReadsInv, AgreedRead, V!Watch, V!Agree, V!Paid
  <2> QED BY <2>1, <2>2, <2>3, <2>4, WorldStep DEF ReadsInv
<1>3. CASE V!Capture
  <2>1. /\ charged /\ (\A p \in sold : ~V!Paid(p)) /\ V!Watch
        /\ books' = [p \in Pay |-> IF p \in sold THEN [books[p] EXCEPT !.status = "HELD"] ELSE books[p]]
        /\ keys' = {<<"PAYMENT_CAPTURED", p>> : p \in sold}
        /\ UNCHANGED <<sold, configured, charged, returned, stage, got>>
    BY <1>3 DEF V!Capture, V!Watch
  <2>2. sold \subseteq Pay /\ keys = {}
    BY <2>1 DEF ReadsInv, V!ReadTypeOK, BooksOK
  <2>3. \A p \in Pay : /\ books'[p].refund = books[p].refund
                       /\ books'[p].status = IF p \in sold THEN "HELD" ELSE books[p].status
                       /\ books'[p] \in [status : PayStatus, refund : RefundStatus]
    BY <1>1, <2>1 DEF BooksType, PayStatus
  <2>4. V!ReadTypeOK'
    BY <2>1, <2>3 DEF ReadsInv, V!ReadTypeOK, V!Watch, PayStatus, RefundStatus
  <2>5. \A p \in sold : books[p].status = "PENDING" /\ books[p].refund = "NONE" /\ p \notin returned
    BY <2>1 DEF ReadsInv, BooksOK, V!Paid
  <2>6. BooksOK'
    BY <2>1, <2>2, <2>3, <2>5 DEF BooksOK, Captured, V!Paid
  <2>7. \A p \in Pay : ~(sold = {p} /\ agreed')
    BY <2>1 DEF ReadsInv, AgreedRead, V!Watch, V!Agree
  <2>8. keys' \subseteq {"PAYMENT_CAPTURED", "SELLER_PAYABLE", "REFUND"} \X Pay
    BY <2>1, <2>2
  <2> QED BY <2>1, <2>2, <2>4, <2>6, <2>7, <2>8, WorldStep
<1> QED BY <1>2, <1>3

(* One payment's release, or its refund: requested, failed, approved by    *)
(* the provider, completed.                                                *)
LEMMA PaymentSteps ==
  ASSUME ReadsInv, NEW p \in sold,
         \/ V!ReleasePayment(p) \/ V!RequestRefund(p) \/ V!ReturnApproved(p)
         \/ V!RefundFails(p) \/ V!CompleteRefund(p)
  PROVE  ReadsInv'
<1>1. /\ books \in BooksType /\ p \in Pay /\ sold \subseteq Pay
      /\ keys \subseteq {"PAYMENT_CAPTURED", "SELLER_PAYABLE", "REFUND"} \X Pay
  BY DEF ReadsInv, V!ReadTypeOK, BooksType, PayStatus, RefundStatus
<1>2. CASE V!ReturnApproved(p)
  <2>1. /\ books[p].refund \in {"PENDING", "FAILED"} /\ p \notin returned /\ V!Watch
        /\ returned' = returned \cup {p}
        /\ UNCHANGED <<sold, configured, charged, books, keys, stage, got>>
    BY <1>2 DEF V!ReturnApproved, V!Watch
  <2>2. V!ReadTypeOK'
    BY <2>1 DEF ReadsInv, V!ReadTypeOK, V!Watch
  <2>3. BooksOK'
    BY <2>1 DEF ReadsInv, BooksOK, Captured, V!Paid
  <2>4. \A q \in Pay : ~(sold = {q} /\ agreed')
    BY <2>1 DEF ReadsInv, AgreedRead, V!Watch, V!Agree
  <2> QED BY <1>1, <2>1, <2>2, <2>3, <2>4, WorldStep
<1>3. ASSUME ~V!ReturnApproved(p) PROVE ReadsInv'
  <2>1. /\ V!Watch /\ UNCHANGED <<sold, configured, charged, returned, stage, got>>
        /\ keys \subseteq keys' /\ keys' \subseteq {"PAYMENT_CAPTURED", "SELLER_PAYABLE", "REFUND"} \X Pay
    BY <1>1, <1>3 DEF V!ReleasePayment, V!RequestRefund, V!RefundFails, V!CompleteRefund, V!Watch
  <2> DEFINE Becomes(s, r) ==
        /\ s \in PayStatus \ {"PENDING"} /\ r \in RefundStatus
        /\ books' \in BooksType /\ books'[p].status = s /\ books'[p].refund = r
        /\ \A q \in Pay \ {p} : books'[q] = books[q]
        /\ s = "REFUNDED" <=> r = "COMPLETED"
        /\ s = "REFUNDED" => p \in returned
        /\ p \in returned => r # "NONE"
        /\ Captured(p, s, keys')
        /\ r = "COMPLETED" => <<"REFUND", p>> \in keys'
  <2>2. PICK old \in [status : PayStatus, refund : RefundStatus] :
          /\ books[p] = old
          /\ old.status = "REFUNDED" <=> old.refund = "COMPLETED"
          /\ p \in returned => old.refund # "NONE"
          /\ old.refund # "NONE" => old.status # "PENDING"
          /\ Captured(p, old.status, keys)
    BY <1>1 DEF ReadsInv, BooksOK, BooksType, V!Paid
  <2>3. V!Paid(p) /\ \E s, r : Becomes(s, r)
    <3>1. CASE V!ReleasePayment(p)
      <4>1. /\ books' \in BooksType /\ books'[p].status = "RELEASED" /\ books'[p].refund = "NONE"
            /\ \A q \in Pay \ {p} : books'[q] = books[q]
        <5>1. books' = [books EXCEPT ![p] = [old EXCEPT !.status = "RELEASED"]]
          BY <2>2, <3>1 DEF V!ReleasePayment
        <5>2. [old EXCEPT !.status = "RELEASED"] \in [status : PayStatus, refund : RefundStatus]
          BY <2>2 DEF PayStatus, RefundStatus
        <5> QED BY <1>1, <2>2, <3>1, <5>1, <5>2 DEF V!ReleasePayment, BooksType
      <4>2. old.status = "HELD" /\ old.refund = "NONE" /\ keys \subseteq keys' /\ p \notin returned
        BY <2>1, <2>2, <3>1 DEF V!ReleasePayment
      <4>3. Captured(p, "RELEASED", keys')
        BY <2>2, <3>1, <4>2 DEF V!ReleasePayment, Captured
      <4>4. Becomes("RELEASED", "NONE")
        BY <4>1, <4>2, <4>3 DEF PayStatus, RefundStatus
      <4> HIDE DEF Becomes
      <4> QED BY <3>1, <4>4 DEF V!ReleasePayment, V!Paid
    <3>2. CASE V!RequestRefund(p)
      <4>1. /\ books' \in BooksType /\ books'[p].status = "HELD" /\ books'[p].refund = "PENDING"
            /\ \A q \in Pay \ {p} : books'[q] = books[q]
        <5>1. books' = [books EXCEPT ![p] = [old EXCEPT !.refund = "PENDING"]]
          BY <2>2, <3>2 DEF V!RequestRefund
        <5>2. [old EXCEPT !.refund = "PENDING"] \in [status : PayStatus, refund : RefundStatus]
          BY <2>2 DEF PayStatus, RefundStatus
        <5> QED BY <1>1, <2>2, <3>2, <5>1, <5>2 DEF V!RequestRefund, BooksType
      <4>2. old.status = "HELD" /\ old.refund = "NONE" /\ keys \subseteq keys' /\ p \notin returned
        BY <2>1, <2>2, <3>2 DEF V!RequestRefund
      <4>3. Captured(p, "HELD", keys')
        BY <2>2, <3>2, <4>2 DEF V!RequestRefund, Captured
      <4>4. Becomes("HELD", "PENDING")
        BY <4>1, <4>2, <4>3 DEF PayStatus, RefundStatus
      <4> HIDE DEF Becomes
      <4> QED BY <3>2, <4>4 DEF V!RequestRefund, V!Paid
    <3>3. CASE V!RefundFails(p)
      <4>1. /\ books' \in BooksType /\ books'[p].status = old.status /\ books'[p].refund = "FAILED"
            /\ \A q \in Pay \ {p} : books'[q] = books[q]
        <5>1. books' = [books EXCEPT ![p] = [old EXCEPT !.refund = "FAILED"]]
          BY <2>2, <3>3 DEF V!RefundFails
        <5>2. [old EXCEPT !.refund = "FAILED"] \in [status : PayStatus, refund : RefundStatus]
          BY <2>2 DEF PayStatus, RefundStatus
        <5> QED BY <1>1, <2>2, <3>3, <5>1, <5>2 DEF V!RefundFails, BooksType
      <4>2. old.refund = "PENDING" /\ keys' = keys
        BY <2>2, <3>3 DEF V!RefundFails
      <4>3. Becomes(old.status, "FAILED")
        BY <2>2, <4>1, <4>2 DEF PayStatus, RefundStatus
      <4> HIDE DEF Becomes
      <4> QED BY <2>2, <4>2, <4>3 DEF V!Paid
    <3>4. CASE V!CompleteRefund(p)
      <4>1. Becomes("REFUNDED", "COMPLETED")
        BY <1>1, <2>2, <3>4 DEF V!CompleteRefund, Captured, BooksType, PayStatus, RefundStatus
      <4> HIDE DEF Becomes
      <4> QED BY <2>2, <3>4, <4>1 DEF V!CompleteRefund, V!Paid
    <3> QED BY <1>3, <3>1, <3>2, <3>3, <3>4
  <2>4. PICK s, r : Becomes(s, r)
    BY <2>3
  <2>5. /\ books' \in BooksType /\ books'[p].status = s /\ books'[p].refund = r
        /\ \A q \in Pay \ {p} : books'[q] = books[q]
    BY <2>4
  <2>6. V!ReadTypeOK'
    BY <2>1, <2>5 DEF ReadsInv, V!ReadTypeOK, V!Watch, BooksType, PayStatus, RefundStatus
  <2>7. ASSUME NEW q \in sold
        PROVE  /\ books'[q].status # "PENDING" => charged
               /\ books'[q].status = "REFUNDED" <=> books'[q].refund = "COMPLETED"
               /\ books'[q].status = "REFUNDED" => q \in returned
               /\ q \in returned => books'[q].refund # "NONE"
               /\ books'[q].refund # "NONE" => books'[q].status # "PENDING"
               /\ Captured(q, books'[q].status, keys')
               /\ books'[q].refund = "COMPLETED" => <<"REFUND", q>> \in keys'
    <3>1. CASE q = p
      BY <2>3, <2>4, <2>5, <3>1 DEF ReadsInv, BooksOK
    <3>2. CASE q # p
      BY <1>1, <2>1, <2>5, <3>2 DEF ReadsInv, BooksOK, Captured, V!Paid
    <3> QED BY <3>1, <3>2
  <2>8. \A q \in sold : books'[q].status # "PENDING"
    <3>1. \A q \in sold : V!Paid(q)
      BY <2>3 DEF ReadsInv, BooksOK
    <3> QED BY <1>1, <2>4, <2>5, <3>1 DEF V!Paid
  <2>9. BooksOK'
    BY <2>1, <2>7, <2>8 DEF BooksOK, Captured, V!Paid
  <2> QED BY <2>1, <2>6, <2>9, WorldStep
<1> QED BY <1>2, <1>3

\* An order of a finite set lists it, each element once.
LEMMA OrderLists ==
  ASSUME NEW found, IsFiniteSet(found), NEW rows \in V!Orders(found)
  PROVE  Lists(rows, found) /\ Len(rows) = Cardinality(found)
<1>1. Cardinality(found) \in Nat /\ V!Cardinality(found) = Cardinality(found)
  BY FS_CardinalityType, ReadCounts
<1> DEFINE n == Cardinality(found)
<1>2. rows \in [1..n -> found] /\ \A a, b \in 1..n : rows[a] = rows[b] => a = b
  BY <1>1 DEF V!Orders, V!IsInjective
<1> HIDE DEF n
<1>3. rows \in Injection(1..n, found)
  BY <1>2 DEF Injection, IsInjective
<1>4. Cardinality(1..n) = n
  BY <1>1, FS_Interval DEF n
<1>5. rows \in Surjection(1..n, found)
  BY <1>3, <1>4, FS_Injection DEF n
<1>6. \A x \in found : \E i \in 1..n : rows[i] = x
  BY <1>5 DEF Surjection
<1>7. n \in Nat
  BY <1>1 DEF n
<1>8. rows \in Seq(found) /\ Len(rows) = n
  BY <1>2, <1>7
<1> QED BY <1>6, <1>8 DEF Lists, n

\* What was read last, before each of the reads.
LEMMA StageBefore ==
  ASSUME NEW to, NEW found, V!ReadStep(to, found)
  PROVE  /\ to = "payments" => stage = "idle"
         /\ to = "refunds" => stage = "payments"
         /\ to = "ledger" => stage = "refunds"
         /\ to = "charges" => stage = "ledger"
         /\ to = "returns" => stage = "charges"
<1>1. PICK i \in 1..Len(V!Stages) - 1 : stage = V!Stages[i] /\ to = V!Stages[i + 1]
  BY DEF V!ReadStep
<1>2. i \in 1..5
  BY <1>1 DEF V!Stages
<1>3. i = 1 \/ i = 2 \/ i = 3 \/ i = 4 \/ i = 5
  BY <1>2
<1> QED BY <1>1, <1>3 DEF V!Stages

\* A read changes nothing but what has been read.
LEMMA ReadKeepsBooks ==
  ASSUME ReadsInv, NEW to \in {"payments", "refunds", "ledger", "charges", "returns"}, NEW found \in Read,
         V!ReadStep(to, found), LedgerRead',
         \A p \in Pay : agreed' /\ sold = {p} => AgreedRead(p)',
         differed' => DifferedRead'
  PROVE  ReadsInv'
<1>1. UNCHANGED <<sold, configured, charged, returned, books, keys>> /\ got' = found /\ stage' = to
  BY DEF V!ReadStep, V!world
<1>2. agreed' \in BOOLEAN /\ differed' \in BOOLEAN
  BY DEF V!ReadStep, ReadsInv, V!ReadTypeOK, V!Agree
<1>3. V!ReadTypeOK'
  BY <1>1, <1>2 DEF ReadsInv, V!ReadTypeOK
<1>4. BooksOK'
  BY <1>1 DEF ReadsInv, BooksOK, Captured, V!Paid
<1> QED BY <1>1, <1>3, <1>4 DEF ReadsInv

(* The payments: what is read of them is what the books have, and it       *)
(* agrees with the provider exactly if the books do.                       *)
LEMMA PaymentsRead == ASSUME ReadsInv, V!ReadPayments PROVE ReadsInv'
<1> DEFINE found == {V!PaymentRow(p) : p \in sold}
<1>1. PICK rows \in V!Orders(found) : V!ReadStep("payments", [got EXCEPT !.payments = rows])
  BY DEF V!ReadPayments
<1>2. stage = "idle"
  BY <1>1, StageBefore
<1>3. /\ stage' = "payments" /\ got' = [got EXCEPT !.payments = rows]
      /\ agreed' = V!Agree /\ differed' = ~V!Agree
      /\ UNCHANGED <<sold, configured, charged, returned, books, keys>>
  BY <1>1, <1>2 DEF V!ReadStep, V!world
<1>4. sold \subseteq Pay /\ IsFiniteSet(sold) /\ IsFiniteSet(found)
  <2>1. sold \subseteq Pay /\ IsFiniteSet(sold)
    BY ReadsAssumption, FS_Subset DEF ReadsInv, V!ReadTypeOK
  <2>2. [p \in sold |-> V!PaymentRow(p)] \in Surjection(sold, found)
    BY DEF Surjection
  <2> HIDE DEF found
  <2> QED BY <2>1, <2>2, FS_Surjection
<1>5. Lists(rows, found) /\ Len(rows) = Cardinality(found)
  BY <1>1, <1>4, OrderLists
<1>6. \A p \in sold : V!PaymentRow(p) = PayRow(p, books[p].status) /\ books[p].status \in PayStatus
  BY <1>4 DEF V!PaymentRow, PayRow, V!Paid, ReadsInv, V!ReadTypeOK, PayStatus
<1>7. found \subseteq PayRows
  BY <1>4, <1>6 DEF PayRows
<1> DEFINE seen == [got EXCEPT !.payments = rows]
<1>8. seen \in Read /\ seen.payments = rows /\ seen.refunds = got.refunds
  <2>1. rows \in Seq(PayRows)
    BY <1>5, <1>7 DEF Lists
  <2> QED BY <2>1 DEF ReadsInv, Read
<1> HIDE DEF found, seen
<1>9. LedgerRead'
  <2>1. \A i \in 1..Len(rows) : Captured(rows[i].id, rows[i].status, keys)
    <3>1. \A i \in 1..Len(rows) : \E p \in sold : rows[i] = PayRow(p, books[p].status)
      BY <1>5, <1>6 DEF Lists, found
    <3>2. \A p \in sold : Captured(p, books[p].status, keys)
      BY DEF ReadsInv, BooksOK
    <3>3. \A p, s : PayRow(p, s).id = p /\ PayRow(p, s).status = s
      BY DEF PayRow
    <3> QED BY <3>1, <3>2, <3>3
  <2>2. got.refunds = <<>>
    BY <1>2 DEF ReadsInv, LedgerRead
  <2>3. got'.payments = rows /\ got'.refunds = <<>>
    BY <1>3, <1>8, <2>2 DEF seen
  <2> QED BY <1>3, <2>1, <2>3 DEF LedgerRead, Covered, Captured, AfterLedger
<1>10. ASSUME NEW p \in Pay, agreed', sold = {p} PROVE AgreedRead(p)'
  <2>1. V!Agree' /\ V!Agree
    BY <1>3, <1>10 DEF V!Agree, V!Paid
  <2>2. found = {V!PaymentRow(p)}
    BY <1>10 DEF found
  <2>3. Len(rows) = 1
    BY <1>5, <2>2, FS_Singleton
  <2>4. rows[1] = PayRow(p, books[p].status)
    BY <1>5, <1>6, <1>10, <2>2, <2>3 DEF Lists
  <2>5. books[p].status = "PENDING" <=> ~charged
    BY <1>10, <2>1 DEF V!Agree, V!Paid
  <2>6. books[p].status = "REFUNDED" <=> p \in returned
    BY <1>10, <2>1 DEF V!Agree
  <2>7. got'.payments = rows
    BY <1>3, <1>8 DEF seen
  <2> QED BY <1>3, <1>6, <1>10, <2>1, <2>3, <2>4, <2>5, <2>6, <2>7 DEF AgreedRead, AfterPayments, AfterLedger
<1>11. ASSUME differed' PROVE DifferedRead'
  <2>1. ~V!Agree'
    BY <1>3, <1>11 DEF V!Agree, V!Paid
  <2>2. PaymentRows' = PaymentRows /\ PaymentRows = found
    BY <1>3 DEF found, PaymentRows, V!PaymentRow, V!Paid
  <2>3. got'.payments = rows
    BY <1>3, <1>8 DEF seen
  <2> QED BY <1>3, <1>5, <2>1, <2>2, <2>3 DEF DifferedRead, AfterPayments, AfterLedger
<1>12. V!ReadStep("payments", seen)
  BY <1>1 DEF seen
<1> QED BY <1>8, <1>9, <1>10, <1>11, <1>12, ReadKeepsBooks

(* The refunds: a payment that is REFUNDED has its completed refund.       *)
LEMMA RefundsRead == ASSUME ReadsInv, V!ReadRefunds PROVE ReadsInv'
<1> DEFINE found == {V!RefundRow(p) : p \in Open}
<1>1. PICK rows \in V!Orders(found) : V!ReadStep("refunds", [got EXCEPT !.refunds = rows])
  BY DEF V!ReadRefunds, Open
<1>2. stage = "payments"
  BY <1>1, StageBefore
<1>3. /\ stage' = "refunds" /\ got' = [got EXCEPT !.refunds = rows]
      /\ agreed' = agreed /\ differed' = differed
      /\ UNCHANGED <<sold, configured, charged, returned, books, keys>>
  BY <1>1, <1>2 DEF V!ReadStep, V!world
<1>4. Open \subseteq Pay /\ IsFiniteSet(Open) /\ IsFiniteSet(found)
  <2>1. Open \subseteq Pay /\ IsFiniteSet(Open)
    BY ReadsAssumption, FS_Subset DEF ReadsInv, V!ReadTypeOK, Open
  <2>2. [p \in Open |-> V!RefundRow(p)] \in Surjection(Open, found)
    BY DEF Surjection
  <2> HIDE DEF found
  <2> QED BY <2>1, <2>2, FS_Surjection
<1>5. Lists(rows, found) /\ Len(rows) = Cardinality(found)
  BY <1>1, <1>4, OrderLists
<1>6. \A p \in Open : V!RefundRow(p) = BackRow(p, books[p].refund) /\ books[p].refund \in RefundStatus
  BY <1>4 DEF V!RefundRow, BackRow, ReadsInv, V!ReadTypeOK, RefundStatus
<1>7. found \subseteq BackRows
  BY <1>4, <1>6 DEF BackRows
<1> DEFINE seen == [got EXCEPT !.refunds = rows]
<1>8. seen \in Read /\ seen.payments = got.payments /\ seen.refunds = rows
  <2>1. rows \in Seq(BackRows)
    BY <1>5, <1>7 DEF Lists
  <2> QED BY <2>1 DEF ReadsInv, Read
<1> HIDE DEF found, seen
<1>9. got'.payments = got.payments /\ got'.refunds = rows
  BY <1>3, <1>8 DEF seen
<1>10. LedgerRead'
  <2>1. \A i \in 1..Len(rows) : rows[i].status = "COMPLETED" => <<"REFUND", rows[i].id>> \in keys
    <3>1. \A i \in 1..Len(rows) : \E p \in Open : rows[i] = BackRow(p, books[p].refund)
      BY <1>5, <1>6 DEF Lists, found
    <3>2. \A p \in Open : books[p].refund = "COMPLETED" => <<"REFUND", p>> \in keys
      BY DEF ReadsInv, BooksOK, Open
    <3>3. \A p, s : BackRow(p, s).id = p /\ BackRow(p, s).status = s
      BY DEF BackRow
    <3> QED BY <3>1, <3>2, <3>3
  <2>2. Covered(keys)
    BY <1>2 DEF ReadsInv, LedgerRead
  <2> QED BY <1>3, <1>9, <2>1, <2>2 DEF LedgerRead, Covered, Captured, AfterLedger
<1>11. ASSUME NEW p \in Pay, agreed', sold = {p} PROVE AgreedRead(p)'
  <2>1. AgreedRead(p) /\ V!Agree'
    BY <1>3, <1>11 DEF ReadsInv, AgreedRead, V!Agree, V!Paid
  <2>2. /\ p \in returned <=> books[p].status = "REFUNDED"
        /\ books[p].status = "REFUNDED" <=> books[p].refund = "COMPLETED"
        /\ p \in returned => p \in Open
    BY <1>11, <2>1 DEF AgreedRead, V!Agree, ReadsInv, BooksOK, Open
  <2>3. \/ Len(rows) = 0 /\ p \notin returned
        \/ /\ Len(rows) = 1
           /\ \E s \in RefundStatus : rows[1] = BackRow(p, s) /\ (s = "COMPLETED" <=> p \in returned)
    <3>1. CASE p \in Open
      <4> DEFINE one == V!RefundRow(p)
      <4>1. found = {one}
        BY <1>11, <3>1 DEF found, Open
      <4> HIDE DEF one
      <4>2. Len(rows) = 1 /\ rows \in Seq({one})
        BY <1>5, <4>1, FS_Singleton DEF Lists
      <4>3. rows[1] = BackRow(p, books[p].refund)
        <5>1. rows[1] = one
          BY <4>2
        <5> QED BY <1>6, <3>1, <5>1 DEF one
      <4> QED BY <1>6, <2>2, <3>1, <4>2, <4>3
    <3>2. CASE p \notin Open
      <4>1. found = {}
        BY <1>11, <3>2 DEF found, Open
      <4>2. Len(rows) = 0
        BY <1>5, <4>1, FS_EmptySet
      <4> QED BY <2>2, <3>2, <4>2
    <3> QED BY <3>1, <3>2
  <2> QED BY <1>3, <1>9, <2>1, <2>3 DEF AgreedRead, AfterPayments, AfterLedger
<1>12. ASSUME differed' PROVE DifferedRead'
  <2>1. DifferedRead /\ ~V!Agree'
    BY <1>3, <1>12 DEF ReadsInv, DifferedRead, V!Agree, V!Paid
  <2>2. PaymentRows' = PaymentRows /\ RefundRows' = RefundRows /\ RefundRows = found
    BY <1>3 DEF found, PaymentRows, RefundRows, Open, V!PaymentRow, V!RefundRow, V!Paid
  <2>3. Lists(got.payments, PaymentRows)
    BY <2>1 DEF DifferedRead
  <2>4. Lists(got'.payments, PaymentRows') /\ Lists(got'.refunds, RefundRows')
    BY <1>3, <1>5, <1>9, <2>2, <2>3
  <2> QED BY <1>3, <2>1, <2>4 DEF DifferedRead, AfterPayments, AfterLedger
<1>13. V!ReadStep("refunds", seen)
  BY <1>1 DEF seen
<1> QED BY <1>8, <1>10, <1>11, <1>12, <1>13, ReadKeepsBooks

(* The ledger has what was read of the books before it.                    *)
LEMMA LedgerIsRead == ASSUME ReadsInv, V!ReadLedger PROVE ReadsInv'
<1> DEFINE seen == [got EXCEPT !.keys = keys]
<1>1. V!ReadStep("ledger", seen)
  BY DEF V!ReadLedger
<1>2. stage = "refunds"
  BY <1>1, StageBefore
<1>3. /\ stage' = "ledger" /\ got' = seen /\ agreed' = agreed /\ differed' = differed
      /\ UNCHANGED <<sold, configured, charged, returned, books, keys>>
  BY <1>1, <1>2 DEF V!ReadStep, V!world
<1>4. /\ seen \in Read /\ seen.payments = got.payments /\ seen.refunds = got.refunds /\ seen.keys = keys
  BY DEF ReadsInv, Read
<1> HIDE DEF seen
<1>5. LedgerRead'
  BY <1>2, <1>3, <1>4 DEF ReadsInv, LedgerRead, Covered, Captured, AfterLedger
<1>6. ASSUME NEW p \in Pay, agreed', sold = {p} PROVE AgreedRead(p)'
  <2>1. AgreedRead(p) /\ V!Agree'
    BY <1>3, <1>6 DEF ReadsInv, AgreedRead, V!Agree, V!Paid
  <2> QED BY <1>2, <1>3, <1>4, <2>1 DEF AgreedRead, AfterPayments, AfterLedger
<1>7. ASSUME differed' PROVE DifferedRead'
  <2>1. DifferedRead /\ ~V!Agree'
    BY <1>3, <1>7 DEF ReadsInv, DifferedRead, V!Agree, V!Paid
  <2>2. PaymentRows' = PaymentRows /\ RefundRows' = RefundRows
    BY <1>3 DEF PaymentRows, RefundRows, Open, V!PaymentRow, V!RefundRow, V!Paid
  <2>3. Lists(got.payments, PaymentRows) /\ Lists(got.refunds, RefundRows)
    BY <1>2, <2>1 DEF DifferedRead, AfterPayments
  <2>4. Lists(got'.payments, PaymentRows') /\ Lists(got'.refunds, RefundRows')
    BY <1>3, <1>4, <2>2, <2>3
  <2> QED BY <1>3, <2>1, <2>4 DEF DifferedRead, AfterPayments, AfterLedger
<1> QED BY <1>1, <1>4, <1>5, <1>6, <1>7, ReadKeepsBooks

(* The provider's charge.                                                  *)
LEMMA ChargesRead == ASSUME ReadsInv, V!ReadCharges PROVE ReadsInv'
<1> DEFINE seen == [got EXCEPT !.charges = ChargesFound]
<1>1. V!ReadStep("charges", seen)
  BY DEF V!ReadCharges, ChargesFound
<1>2. stage = "ledger"
  BY <1>1, StageBefore
<1>3. /\ stage' = "charges" /\ got' = seen /\ agreed' = agreed /\ differed' = differed
      /\ UNCHANGED <<sold, configured, charged, returned, books, keys>>
  BY <1>1, <1>2 DEF V!ReadStep, V!world
<1>4. ChargesFound \subseteq [id : {Charge}, checkout : {Checkout}, status : {"refunded", "approved"},
                              amount : Int]
  <2>1. Price * V!Cardinality(sold) \in Int
    <3>1. IsFiniteSet(sold)
      BY ReadsAssumption, FS_Subset DEF ReadsInv, V!ReadTypeOK
    <3> QED BY <3>1, ReadCounts, ReadsAssumption, FS_CardinalityType
  <2> QED BY <2>1 DEF ChargesFound, V!ChargeRow
<1>5. /\ seen \in Read /\ seen.payments = got.payments /\ seen.refunds = got.refunds
      /\ seen.keys = got.keys /\ seen.charges = ChargesFound
  BY <1>4 DEF ReadsInv, Read
<1>6. ChargesFound' = ChargesFound
  BY <1>3 DEF ChargesFound, V!ChargeRow
<1> HIDE DEF seen
<1>7. LedgerRead'
  BY <1>2, <1>3, <1>5 DEF ReadsInv, LedgerRead, Covered, Captured, AfterLedger
<1>8. ASSUME NEW p \in Pay, agreed', sold = {p} PROVE AgreedRead(p)'
  <2>1. AgreedRead(p) /\ V!Agree'
    BY <1>3, <1>8 DEF ReadsInv, AgreedRead, V!Agree, V!Paid
  <2> QED BY <1>2, <1>3, <1>5, <1>6, <2>1 DEF AgreedRead, AfterPayments, AfterLedger
<1>9. ASSUME differed' PROVE DifferedRead'
  <2>1. DifferedRead /\ ~V!Agree'
    BY <1>3, <1>9 DEF ReadsInv, DifferedRead, V!Agree, V!Paid
  <2>2. PaymentRows' = PaymentRows /\ RefundRows' = RefundRows
    BY <1>3 DEF PaymentRows, RefundRows, Open, V!PaymentRow, V!RefundRow, V!Paid
  <2>3. Lists(got.payments, PaymentRows) /\ Lists(got.refunds, RefundRows)
    BY <1>2, <2>1 DEF DifferedRead, AfterPayments
  <2>4. Lists(got'.payments, PaymentRows') /\ Lists(got'.refunds, RefundRows')
    BY <1>3, <1>5, <2>2, <2>3
  <2>5. got'.charges = ChargesFound'
    BY <1>3, <1>5, <1>6
  <2> QED BY <1>3, <2>1, <2>4, <2>5 DEF DifferedRead, AfterPayments, AfterLedger
<1> QED BY <1>1, <1>5, <1>7, <1>8, <1>9, ReadKeepsBooks

(* The provider's refunds.                                                 *)
LEMMA ReturnsRead == ASSUME ReadsInv, V!ReadReturns PROVE ReadsInv'
<1> DEFINE back == {q \in returned : configured}
<1>1. PICK rows \in V!Orders(ReturnRows) : V!ReadStep("returns", [got EXCEPT !.returns = rows])
  BY DEF V!ReadReturns, ReturnRows
<1> DEFINE seen == [got EXCEPT !.returns = rows]
<1>2. stage = "charges"
  BY <1>1, StageBefore
<1>3. /\ stage' = "returns" /\ got' = seen /\ agreed' = agreed /\ differed' = differed
      /\ UNCHANGED <<sold, configured, charged, returned, books, keys>>
  BY <1>1, <1>2 DEF V!ReadStep, V!world
<1>4. IsFiniteSet(ReturnRows) /\ ReturnRows \subseteq {V!ReturnRow(p) : p \in Pay}
  <2>1. back \subseteq Pay /\ IsFiniteSet(back)
    BY ReadsAssumption, FS_Subset DEF ReadsInv, V!ReadTypeOK
  <2>2. [p \in back |-> V!ReturnRow(p)] \in Surjection(back, ReturnRows)
    BY DEF Surjection, ReturnRows
  <2> QED BY <2>1, <2>2, FS_Surjection DEF ReturnRows
<1>5. Lists(rows, ReturnRows) /\ Len(rows) = Cardinality(ReturnRows)
  BY <1>1, <1>4, OrderLists
<1>6. /\ seen \in Read /\ seen.payments = got.payments /\ seen.refunds = got.refunds
      /\ seen.keys = got.keys /\ seen.charges = got.charges /\ seen.returns = rows
  <2>1. rows \in Seq({V!ReturnRow(p) : p \in Pay})
    BY <1>4, <1>5 DEF Lists
  <2> QED BY <2>1 DEF ReadsInv, Read
<1>7. ChargesFound' = ChargesFound
  BY <1>3 DEF ChargesFound, V!ChargeRow
<1>8. V!ReadStep("returns", seen)
  BY <1>1
<1> HIDE DEF seen
<1>9. LedgerRead'
  BY <1>2, <1>3, <1>6 DEF ReadsInv, LedgerRead, Covered, Captured, AfterLedger
<1>10. ASSUME NEW p \in Pay, agreed', sold = {p} PROVE AgreedRead(p)'
  <2>1. AgreedRead(p) /\ V!Agree'
    BY <1>3, <1>10 DEF ReadsInv, AgreedRead, V!Agree, V!Paid
  <2>2. IF configured /\ p \in returned THEN Len(rows) = 1 /\ rows[1] = V!ReturnRow(p)
                                        ELSE Len(rows) = 0
    <3>1. returned \subseteq {p}
      BY <1>10 DEF ReadsInv, V!ReadTypeOK
    <3>2. CASE configured /\ p \in returned
      <4> DEFINE one == V!ReturnRow(p)
      <4>1. ReturnRows = {one}
        BY <3>1, <3>2 DEF ReturnRows
      <4> HIDE DEF one
      <4>2. Len(rows) = 1
        BY <1>5, <4>1, FS_Singleton
      <4>3. rows \in Seq({one})
        BY <1>5, <4>1 DEF Lists
      <4>4. rows[1] = one
        BY <4>2, <4>3
      <4> QED BY <3>2, <4>2, <4>4 DEF one
    <3>3. CASE ~(configured /\ p \in returned)
      <4>1. ReturnRows = {}
        BY <3>1, <3>3 DEF ReturnRows
      <4> QED BY <1>5, <3>3, <4>1, FS_EmptySet
    <3> QED BY <3>2, <3>3
  <2> QED BY <1>2, <1>3, <1>6, <1>7, <2>1, <2>2 DEF AgreedRead, AfterPayments, AfterLedger
<1>11. ASSUME differed' PROVE DifferedRead'
  <2>1. DifferedRead /\ ~V!Agree'
    BY <1>3, <1>11 DEF ReadsInv, DifferedRead, V!Agree, V!Paid
  <2>2. PaymentRows' = PaymentRows /\ RefundRows' = RefundRows /\ ReturnRows' = ReturnRows
    BY <1>3 DEF PaymentRows, RefundRows, ReturnRows, Open, V!PaymentRow, V!RefundRow, V!ReturnRow, V!Paid
  <2>3. /\ Lists(got.payments, PaymentRows) /\ Lists(got.refunds, RefundRows)
        /\ got.charges = ChargesFound
    BY <1>2, <2>1 DEF DifferedRead, AfterPayments, AfterLedger
  <2>4. Lists(got'.payments, PaymentRows') /\ Lists(got'.refunds, RefundRows')
    BY <1>3, <1>6, <2>2, <2>3
  <2>5. Lists(got'.returns, ReturnRows')
    BY <1>3, <1>5, <1>6, <2>2
  <2>6. got'.charges = ChargesFound'
    BY <1>3, <1>6, <1>7, <2>3
  <2> QED BY <2>1, <2>4, <2>5, <2>6 DEF DifferedRead, AfterPayments, AfterLedger
<1> QED BY <1>6, <1>8, <1>9, <1>10, <1>11, ReadKeepsBooks

(* The run ends and forgets what it has read, or the token is lost between *)
(* two runs.                                                               *)
LEMMA IdleSteps == ASSUME ReadsInv, V!EndReads \/ V!LoseToken PROVE ReadsInv'
<1>1. /\ UNCHANGED <<sold, charged, returned, books, keys>> /\ configured' \in BOOLEAN
      /\ stage' = "idle" /\ agreed' = FALSE /\ differed' = FALSE
      /\ got' = V!NothingRead \/ (stage = "idle" /\ got' = got)
  BY DEF V!EndReads, V!LoseToken, V!world, ReadsInv, V!ReadTypeOK, LedgerRead
<1>2. V!NothingRead \in Read /\ V!NothingRead.payments = <<>> /\ V!NothingRead.refunds = <<>>
  BY DEF V!NothingRead, Read
<1>3. V!ReadTypeOK'
  BY <1>1 DEF ReadsInv, V!ReadTypeOK
<1>4. BooksOK'
  BY <1>1 DEF ReadsInv, BooksOK, Captured, V!Paid
<1>5. LedgerRead'
  <2>1. CASE got' = V!NothingRead
    BY <1>1, <1>2, <2>1 DEF LedgerRead, Covered, AfterLedger
  <2>2. CASE stage = "idle" /\ got' = got
    BY <1>1, <2>2 DEF ReadsInv, LedgerRead, Covered, Captured, AfterLedger
  <2> QED BY <1>1, <2>1, <2>2
<1> QED BY <1>1, <1>2, <1>3, <1>4, <1>5 DEF ReadsInv

LEMMA ReadsStutter == ASSUME ReadsInv, UNCHANGED readVars PROVE ReadsInv'
<1>1. UNCHANGED <<sold, configured, charged, returned, books, keys, stage, got, agreed, differed>>
  BY DEF readVars
<1>2. V!ReadTypeOK' /\ BooksOK' /\ LedgerRead'
  BY <1>1 DEF ReadsInv, V!ReadTypeOK, BooksOK, LedgerRead, Covered, Captured, AfterLedger, V!Paid
<1>3. V!Agree' = V!Agree /\ ChargesFound' = ChargesFound
  BY <1>1 DEF V!Agree, V!Paid, ChargesFound, V!ChargeRow
<1>4. \A p : AgreedRead(p) => AgreedRead(p)'
  BY <1>1, <1>3 DEF AgreedRead, AfterPayments, AfterLedger
<1>5. PaymentRows' = PaymentRows /\ RefundRows' = RefundRows /\ ReturnRows' = ReturnRows
  BY <1>1 DEF PaymentRows, RefundRows, ReturnRows, Open, V!PaymentRow, V!RefundRow, V!ReturnRow, V!Paid
<1>6. DifferedRead => DifferedRead'
  BY <1>1, <1>3, <1>5 DEF DifferedRead, AfterPayments, AfterLedger
<1> QED BY <1>1, <1>2, <1>4, <1>6 DEF ReadsInv

LEMMA ReadsStep == ASSUME ReadsInv, V!Next PROVE ReadsInv'
  BY SaleSteps, PaymentSteps, PaymentsRead, RefundsRead, LedgerIsRead, ChargesRead, ReturnsRead,
     IdleSteps DEF V!Next

----------------------------------------------------------------------------
(* The three components in Operations.                                     *)

OperationsInv ==
    /\ focus = "submissions" => SubmissionsInv
    /\ focus = "runs" => RunsInv
    /\ focus = "reads" => ReadsInv

LEMMA OperationsStart == Init => OperationsInv
  BY SubmissionsStart, RunsStart, ReadsStart DEF Init, OperationsInv

LEMMA OperationsStep == OperationsInv /\ [Next]_vars => OperationsInv'
<1> SUFFICES ASSUME OperationsInv, [Next]_vars PROVE OperationsInv'
  OBVIOUS
<1>1. focus' = focus
  BY DEF Next, vars
<1>2. CASE UNCHANGED vars
  <2>1. SubmissionsInv => SubmissionsInv'
    BY <1>2 DEF vars, subVars, SubmissionsInv, B!SubTypeOK, ReviewsOK, CardsOK, Held
  <2>2. RunsInv => RunsInv'
    BY <1>2 DEF vars, runVars, RunsInv, N!RunTypeOK, RunsOK, ShownTo, N!FoundIsShown, N!Rows
  <2>3. ReadsInv => ReadsInv'
    <3>1. UNCHANGED readVars
      BY <1>2 DEF vars
    <3> QED BY <3>1, ReadsStutter
  <2> QED BY <1>1, <2>1, <2>2, <2>3 DEF OperationsInv
<1>3. CASE Next
  BY <1>1, <1>3, SubmissionsStep, RunsStep, ReadsStep DEF Next, OperationsInv
<1> QED BY <1>2, <1>3

(* There is one card of a submission if it is approved, the one it names,  *)
(* and none if it is not, however many reviews and importers run together  *)
(* (catalog-submissions.service.ts:237, :374, :410).                       *)
THEOREM CardMadeOnce == Spec => []CardOnce
<1>1. OperationsInv => CardOnce
  BY CardsAreOnce DEF OperationsInv, CardOnce, SubmissionsInv
<1> QED BY <1>1, OperationsStart, OperationsStep, PTL DEF Spec

(* Whatever a completed run of reconciliation has found was in an OPEN     *)
(* issue while it ran, also when it was failed as stale and went on, when  *)
(* another run created the issue, and when it was closed meanwhile; and    *)
(* there is one OPEN issue of each finding (reconciliation.service.ts:483).*)
THEOREM FindingsAreShown == Spec => []FoundIsShown
<1>1. OperationsInv => FoundIsShown
  BY DEF OperationsInv, FoundIsShown, RunsInv
<1> QED BY <1>1, OperationsStart, OperationsStep, PTL DEF Spec

(* A run of reconciliation, however deliveries, webhooks and refunds come  *)
(* between its reads, reports no entry of the ledger as missing; and while *)
(* the provider can be asked it reports nothing of the one payment of a    *)
(* charge if books and provider agreed all along, and something of however *)
(* many payments if they differed all along                                *)
(* (reconciliation.service.ts:312, recon-rules.ts:91).  What it reports of *)
(* the several payments of a charge that agree, and without a token, is    *)
(* not said: it contradicts RECONCILIATION.md:87 and :74.                  *)
THEOREM ReportsAreTrue == Spec => []ReportIsTrue
<1>1. OperationsInv => ReportIsTrue
  BY ReadsTellTheTruth DEF OperationsInv, ReportIsTrue, ReadsInv
<1> QED BY <1>1, OperationsStart, OperationsStep, PTL DEF Spec
=================================================================================
