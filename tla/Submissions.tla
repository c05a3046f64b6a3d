------------------------------- MODULE Submissions -------------------------------
(***************************************************************************)
(* Cards that users propose and administrators review: apps/api/src/       *)
(* catalog/submissions/catalog-submissions.service.ts.  A key stands for   *)
(* the (set, number, name) of a card.  Every review and every resubmission *)
(* is a transaction that locks the submission first.                       *)
(***************************************************************************)
EXTENDS Naturals, FiniteSets

CONSTANTS Submission, Reviewer, Key

VARIABLES
  submission,  \* [Submission -> [status, key, card]]  card: approvedCardId, the key
               \* of the card, or NoKey
  card,        \* the cards: the set of [key, of], of: the submission in sourceId
  review       \* [Reviewer -> [op, of, at, key]] the transaction of each
subVars == <<submission, card, review>>

NoOne == "none"
NoKey == "nokey"
Statuses == {"NONE", "PENDING", "NEEDS_INFO", "APPROVED", "REJECTED", "DUPLICATE"}
NoReview == [op |-> "none", of |-> NoOne, at |-> "idle", key |-> NoKey]

SubTypeOK ==
    /\ submission \in [Submission -> [status : Statuses, key : Key \cup {NoKey},
                                      card : Key \cup {NoKey}]]
    /\ card \subseteq [key : Key, of : Submission \cup {NoOne}]
    /\ review \in [Reviewer -> [op : Statuses \cup {"none"}, of : Submission \cup {NoOne},
                                at : {"idle", "waiting", "locked", "found"},
                                key : Key \cup {NoKey}]]

Init ==
    /\ submission = [s \in Submission |-> [status |-> "NONE", key |-> NoKey, card |-> NoKey]]
    /\ card = {}
    /\ review = [r \in Reviewer |-> NoReview]

----------------------------------------------------------------------------
HasCard(key) == \E c \in card : c.key = key

Create(s, key) ==
    /\ submission[s].status = "NONE"
    /\ submission' = [submission EXCEPT ![s] = [status |-> "PENDING", key |-> key, card |-> NoKey]]
    /\ UNCHANGED <<card, review>>

(* An importer adds a card, or finds it there and leaves its key.          *)
Import(key) ==
    /\ ~HasCard(key)
    /\ card' = card \cup {[key |-> key, of |-> NoOne]}
    /\ UNCHANGED <<submission, review>>

----------------------------------------------------------------------------
(* A call on a submission: what it is to become.                           *)
Begin(r, s, op) ==
    /\ review[r] = NoReview /\ submission[s].status # "NONE"
    /\ review' = [review EXCEPT ![r] = [op |-> op, of |-> s, at |-> "waiting", key |-> NoKey]]
    /\ UNCHANGED <<submission, card>>

Holds(r, s) == review[r].of = s /\ review[r].at \in {"locked", "found"}

Reviewable == {"PENDING", "NEEDS_INFO"}

(* The lock is waited for; what the row holds then decides.                *)
MayLock_Shared(r, s) == submission[s].status \in Reviewable

MayLock(r, s) == \A q \in Reviewer \ {r} : ~Holds(q, s)

MayChange(r, s) ==
    IF review[r].op = "PENDING" THEN submission[s].status = "NEEDS_INFO"
    ELSE submission[s].status \in Reviewable

Lock(r) ==
    /\ review[r].at = "waiting" /\ MayLock(r, review[r].of)
    /\ review' = [review EXCEPT ![r] = IF MayChange(r, review[r].of)
                                       THEN [@ EXCEPT !.at = "locked"] ELSE NoReview]
    /\ UNCHANGED <<submission, card>>

(* Reject, mark as duplicate, ask for information.                         *)
Transition(r) ==
    /\ review[r].at = "locked" /\ review[r].op \notin {"APPROVED", "PENDING"}
    /\ submission' = [submission EXCEPT ![review[r].of].status = review[r].op]
    /\ review' = [review EXCEPT ![r] = NoReview]
    /\ UNCHANGED card

Resubmit(r, key) ==
    /\ review[r].at = "locked" /\ review[r].op = "PENDING"
    /\ submission' = [submission EXCEPT ![review[r].of] =
                         [status |-> "PENDING", key |-> key, card |-> @.card]]
    /\ review' = [review EXCEPT ![r] = NoReview]
    /\ UNCHANGED card

(* The set the administrator chooses may make it another card's key.  An   *)
(* exact duplicate, or a set that cannot be used, refuses the approval.    *)
FindExact(r, key) ==
    /\ review[r].at = "locked" /\ review[r].op = "APPROVED"
    /\ review' = [review EXCEPT ![r] = IF HasCard(key) THEN NoReview
                                       ELSE [op |-> @.op, of |-> @.of, at |-> "found", key |-> key]]
    /\ UNCHANGED <<submission, card>>

(* The card, its default variant and the status, in one commit; the index  *)
(* refuses a card that another transaction has added since.                *)
Approve(r) ==
    /\ review[r].at = "found"
    /\ IF HasCard(review[r].key) THEN UNCHANGED <<submission, card>>
       ELSE /\ card' = card \cup {[key |-> review[r].key, of |-> review[r].of]}
            /\ submission' = [submission EXCEPT ![review[r].of].status = "APPROVED",
                                                ![review[r].of].card = review[r].key]
    /\ review' = [review EXCEPT ![r] = NoReview]

Next ==
    \/ \E s \in Submission, key \in Key : Create(s, key)
    \/ \E key \in Key : Import(key)
    \/ \E r \in Reviewer :
         \/ \E s \in Submission, op \in Statuses \ {"NONE"} : Begin(r, s, op)
         \/ Lock(r) \/ Transition(r) \/ Approve(r)
         \/ \E key \in Key : Resubmit(r, key) \/ FindExact(r, key)

Spec == Init /\ [][Next]_subVars

----------------------------------------------------------------------------
(* There is one card of a submission if it is approved, the one it names,  *)
(* and none if it is not, however many reviews of it run together; and one *)
(* card of each key (catalog-submissions.service.ts:237, :374).            *)
CardOnce ==
    /\ \A s \in Submission :
         {c.key : c \in {d \in card : d.of = s}}
           = IF submission[s].status = "APPROVED" THEN {submission[s].card} ELSE {}
    /\ \A c, d \in card : c.key = d.key => c = d
=============================================================================
