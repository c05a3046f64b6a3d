------------------------------ MODULE ReconReads ------------------------------
(***************************************************************************)
(* What a reconciliation run sees (reconciliation.service.ts, collect): it *)
(* reads the payments, the refunds, the ledger, the provider's charges and *)
(* the provider's refunds one after another, while webhooks, deliveries    *)
(* and refunds go on.  The books are those of one checkout: its orders,    *)
(* one per seller, are paid by one charge.  Everything is in the window    *)
(* that the run looks at.  Payouts are compared in Payouts.                *)
(***************************************************************************)
EXTENDS ReconRules

CONSTANTS Pay, Price, Checkout, Charge

VARIABLES
  sold,        \* the payments of the checkout
  configured,  \* whether the provider has a token
  charged,     \* whether the provider has the charge
  returned,    \* the payments whose refund the provider has approved
  books,       \* [Pay -> [status, refund]] payments and their refunds
  keys,        \* the keys of the ledger
  stage,       \* what the run has read last
  got,         \* what it has read
  agreed,      \* whether books and provider agreed all along the run
  differed     \* whether they disagreed all along, and nothing moved
readVars == <<sold, configured, charged, returned, books, keys, stage, got, agreed, differed>>

world == <<sold, configured, charged, returned, books, keys>>

NothingRead == [payments |-> <<>>, refunds |-> <<>>, keys |-> {}, charges |-> {},
                returns |-> <<>>]

(* Every order of a finite set as a sequence: the queries do not sort.     *)
Orders(S) == {s \in [1..Cardinality(S) -> S] : IsInjective(s)}

ReadTypeOK ==
    /\ sold \subseteq Pay /\ returned \subseteq sold
    /\ configured \in BOOLEAN /\ charged \in BOOLEAN
    /\ books \in [Pay -> [status : {"PENDING", "HELD", "RELEASED", "REFUNDED"},
                          refund : {"NONE", "PENDING", "FAILED", "COMPLETED"}]]
    /\ stage \in {"idle", "payments", "refunds", "ledger", "charges", "returns"}
    /\ agreed \in BOOLEAN /\ differed \in BOOLEAN

Init ==
    /\ sold \in (SUBSET Pay) \ {{}} /\ configured \in BOOLEAN
    /\ charged = FALSE /\ returned = {}
    /\ books = [p \in Pay |-> [status |-> "PENDING", refund |-> "NONE"]]
    /\ keys = {}
    /\ stage = "idle" /\ got = NothingRead
    /\ agreed = FALSE /\ differed = FALSE

----------------------------------------------------------------------------
(* The books and the provider agree: no webhook and no answer is missing.  *)
Paid(p) == books[p].status # "PENDING"

Agree == \A p \in sold :
    /\ Paid(p) <=> charged
    /\ p \in returned <=> books[p].status = "REFUNDED"

Watch ==
    /\ UNCHANGED <<sold, configured, stage, got>>
    /\ agreed' = (agreed /\ Agree')
    /\ differed' = FALSE

ChargeApproved ==
    /\ configured /\ ~charged
    /\ charged' = TRUE
    /\ UNCHANGED <<returned, books, keys>> /\ Watch

(* The webhook: every payment is HELD and captured in one transaction.     *)
Capture ==
    /\ charged /\ \A p \in sold : ~Paid(p)
    /\ books' = [p \in Pay |-> IF p \in sold THEN [books[p] EXCEPT !.status = "HELD"]
                                             ELSE books[p]]
    /\ keys' = {<<"PAYMENT_CAPTURED", p>> : p \in sold}
    /\ UNCHANGED <<charged, returned>> /\ Watch

ReleasePayment(p) ==
    /\ books[p] = [status |-> "HELD", refund |-> "NONE"]
    /\ books' = [books EXCEPT ![p].status = "RELEASED"]
    /\ keys' = keys \cup {<<"SELLER_PAYABLE", p>>}
    /\ UNCHANGED <<charged, returned>> /\ Watch

RequestRefund(p) ==
    /\ books[p] = [status |-> "HELD", refund |-> "NONE"]
    /\ books' = [books EXCEPT ![p].refund = "PENDING"]
    /\ UNCHANGED <<charged, returned, keys>> /\ Watch

ReturnApproved(p) ==
    /\ books[p].refund \in {"PENDING", "FAILED"} /\ p \notin returned
    /\ returned' = returned \cup {p}
    /\ UNCHANGED <<charged, books, keys>> /\ Watch

(* The provider fails, or its answer is lost.                              *)
RefundFails(p) ==
    /\ books[p].refund = "PENDING"
    /\ books' = [books EXCEPT ![p].refund = "FAILED"]
    /\ UNCHANGED <<charged, returned, keys>> /\ Watch

CompleteRefund(p) ==
    /\ books[p].refund \in {"PENDING", "FAILED"} /\ p \in returned
    /\ books' = [books EXCEPT ![p] = [status |-> "REFUNDED", refund |-> "COMPLETED"]]
    /\ keys' = keys \cup {<<"REFUND", p>>}
    /\ UNCHANGED <<charged, returned>> /\ Watch

----------------------------------------------------------------------------
(* The rows, as the run reads them.                                        *)
PaymentRow(p) ==
    [id |-> p, order |-> p, status |-> books[p].status, amount |-> Price,
     charge |-> IF Paid(p) THEN Charge ELSE Absent, checkout |-> Checkout,
     orderStatus |-> IF books[p].status = "RELEASED" THEN "COMPLETED" ELSE "OPEN"]

RefundRow(p) ==
    [id |-> p, status |-> books[p].refund, amount |-> Price, charge |-> Charge,
     remote |-> IF books[p].refund = "COMPLETED" THEN p ELSE Absent]

ChargeRow == [id |-> Charge, checkout |-> Checkout,
              status |-> IF returned = sold THEN "refunded" ELSE "approved",
              amount |-> Price * Cardinality(sold)]

ReturnRow(p) == [id |-> p, charge |-> Charge, amount |-> Price, status |-> "approved"]

Stages_LedgerFirst == <<"idle", "ledger", "payments", "refunds", "charges", "returns">>

Stages == <<"idle", "payments", "refunds", "ledger", "charges", "returns">>

ReadStep(to, found) ==
    /\ \E i \in 1..Len(Stages) - 1 : stage = Stages[i] /\ to = Stages[i + 1]
    /\ stage' = to /\ got' = found
    /\ IF stage = "idle" THEN agreed' = Agree /\ differed' = ~Agree
                         ELSE UNCHANGED <<agreed, differed>>
    /\ UNCHANGED world

ReadPayments == \E rows \in Orders({PaymentRow(p) : p \in sold}) :
    ReadStep("payments", [got EXCEPT !.payments = rows])

ReadRefunds == \E rows \in Orders({RefundRow(p) : p \in {q \in sold : books[q].refund # "NONE"}}) :
    ReadStep("refunds", [got EXCEPT !.refunds = rows])

ReadLedger == ReadStep("ledger", [got EXCEPT !.keys = keys])

(* Without a token the run goes on as if the provider had nothing.         *)
ReadCharges == ReadStep("charges",
    [got EXCEPT !.charges = IF configured /\ charged THEN {ChargeRow} ELSE {}])

ReadReturns == \E rows \in Orders({ReturnRow(p) : p \in {q \in returned : configured}}) :
    ReadStep("returns", [got EXCEPT !.returns = rows])

EndReads ==
    /\ stage = "returns"
    /\ stage' = "idle" /\ got' = NothingRead
    /\ agreed' = FALSE /\ differed' = FALSE
    /\ UNCHANGED world

(* A deployment that has lost its token since the checkout was paid.       *)
LoseToken ==
    /\ configured /\ stage = "idle"
    /\ configured' = FALSE
    /\ UNCHANGED <<sold, charged, returned, books, keys, stage, got, agreed, differed>>

Next ==
    \/ ChargeApproved \/ Capture \/ LoseToken
    \/ \E p \in sold : \/ ReleasePayment(p) \/ RequestRefund(p) \/ ReturnApproved(p)
                       \/ RefundFails(p) \/ CompleteRefund(p)
    \/ ReadPayments \/ ReadRefunds \/ ReadLedger \/ ReadCharges \/ ReadReturns \/ EndReads

Spec == Init /\ [][Next]_readVars

----------------------------------------------------------------------------
Drafts ==
    ComparePayments(got.payments, got.charges, {Checkout}, configured)
    \cup CompareRefunds(got.refunds, got.returns)
    \cup CompareLedger(Range(got.payments), Range(got.refunds), {}, got.keys)

(* Every change of the books writes its entry with it, and a run, whatever *)
(* happens between its reads, does not report an entry as missing.  With a *)
(* provider that can be asked, a run over a charge of one order reports    *)
(* nothing at all when books and provider agree all along, and over any    *)
(* charge something when they differ all along                             *)
(* (reconciliation.service.ts:312).  Nothing is said of the two cases in   *)
(* which the code reports what agrees, against RECONCILIATION.md: orders   *)
(* that share a charge are reported as duplicates, though approved and     *)
(* HELD are OK (:87); and without a token every paid order is reported as  *)
(* not charged, though only ledger and payouts are to be looked at (:74).  *)
ReportIsTrue == stage = "returns" =>
    /\ \A d \in Drafts : d.type \notin LedgerIssues
    /\ configured /\ Cardinality(sold) = 1 /\ agreed => Drafts = {}
    /\ configured /\ differed => Drafts # {}
=============================================================================
