-------------------------------- MODULE Payouts --------------------------------
(***************************************************************************)
(* What happens to the money of paid orders: release to the seller,        *)
(* refunds, disputes, and the payouts in which the platform's staff pays   *)
(* the sellers (apps/api/src/payouts, trust/disputes.service.ts, ledger).  *)
(*                                                                         *)
(* A call that reads, decides and writes in separate steps is a row of     *)
(* call: it keeps what it read until it writes.  A refund that completes   *)
(* holds the lock of its order (settling) while it looks for a payout.  A  *)
(* process that stops is a call, or a transaction, that takes no further   *)
(* step.  Orders start paid and captured: how they get there is            *)
(* OrderPayments.                                                          *)
(***************************************************************************)
EXTENDS Ledger, ReconRules

CONSTANTS Dispute, Call,
          Correction     \* the amounts that an adjustment may enter

ASSUME CorrectionAssumption == Correction \subseteq Int

VARIABLES order,      \* status of an order
          payment,    \* its payment
          refund,     \* the refund of the payment
          ledger,     \* the entries
          payout,     \* payouts, with their items
          dispute,    \* disputes
          suspended,  \* the sellers with an open suspension
          call,       \* calls in flight
          settling,   \* refunds that are completing, under the order's lock
          reopened    \* disputes made active again after they were closed

moneyVars == <<payment, refund, ledger>>
callVars == <<call, settling>>
vars == <<order, moneyVars, payout, dispute, suspended, callVars, reopened>>

(* PAID stands for PAID and PREPARING, DELIVERED for SHIPPED,              *)
(* READY_FOR_MEETUP and DELIVERED.                                         *)
OrderStatus == {"PAID", "DELIVERED", "COMPLETED", "DISPUTED", "REFUNDED"}

PaymentRow == [status : {"HELD", "RELEASED", "REFUNDED"}, releasedAt : BOOLEAN]

(* PENDING stands for FAILED too: both are due, and block the order.       *)
RefundStatus == {"NONE", "PENDING", "COMPLETED"}

PayoutStatus == {"NONE", "PENDING", "APPROVED", "PROCESSING", "PAID", "FAILED", "CANCELLED"}

PayoutRow == [status : PayoutStatus, seller : Seller \cup {Nothing},
              orders : SUBSET Order, amount : Int, locksOrder : BOOLEAN]

(* ACTIVE stands for OPEN and the three statuses that follow it, CLOSED    *)
(* for the three final ones.                                               *)
DisputeStatus == {"NONE", "ACTIVE", "CLOSED"}

DisputeRow == [status : DisputeStatus, order : Order \cup {Nothing}]

Stage == {"idle", "shipping", "preparing", "paying", "opening", "opened", "found", "deciding"}

CallRow == [stage : Stage, order : Order \cup {Nothing}, payout : Payout \cup {Nothing},
            dispute : Dispute \cup {Nothing}, status : OrderStatus \cup DisputeStatus]

Idle == [stage |-> "idle", order |-> Nothing, payout |-> Nothing, dispute |-> Nothing,
         status |-> "NONE"]

SettlingRow == [on : BOOLEAN, payout : Payout \cup {Nothing}]

TypeOK ==
    /\ order \in [Order -> OrderStatus]
    /\ payment \in [Order -> PaymentRow]
    /\ refund \in [Order -> RefundStatus]
    /\ ledger \subseteq Entry
    /\ payout \in [Payout -> PayoutRow]
    /\ dispute \in [Dispute -> DisputeRow]
    /\ suspended \subseteq Seller
    /\ call \in [Call -> CallRow]
    /\ settling \in [Order -> SettlingRow]
    /\ reopened \subseteq Dispute

Init ==
    /\ order = [o \in Order |-> "PAID"]
    /\ payment = [o \in Order |-> [status |-> "HELD", releasedAt |-> FALSE]]
    /\ refund = [o \in Order |-> "NONE"]
    /\ ledger = {OrderEntry("PAYMENT_CAPTURED", o, Net(o)) : o \in Order}
    /\ payout = [p \in Payout |-> [status |-> "NONE", seller |-> Nothing, orders |-> {},
                                   amount |-> 0, locksOrder |-> FALSE]]
    /\ dispute = [d \in Dispute |-> [status |-> "NONE", order |-> Nothing]]
    /\ suspended = {}
    /\ call = [k \in Call |-> Idle]
    /\ settling = [o \in Order |-> [on |-> FALSE, payout |-> Nothing]]
    /\ reopened = {}

----------------------------------------------------------------------------
Begin(k, row) == call[k].stage = "idle" /\ call' = [call EXCEPT ![k] = row]

Finish(k) == call' = [call EXCEPT ![k] = Idle]

Unlocked(o) == ~settling[o].on

(* The orders of an active dispute.                                        *)
Disputed == {dispute[d].order : d \in {d \in Dispute : dispute[d].status = "ACTIVE"}}

HasLock(p, o) == payout[p].locksOrder /\ o \in payout[p].orders

Cancelable == {"PENDING", "APPROVED"}

----------------------------------------------------------------------------
(* The order: shipped by calls that check, then write, and confirmed or    *)
(* given a refund under its lock.                                          *)

ReadToShip(k, o) ==
    /\ order[o] = "PAID"
    /\ refund[o] # "PENDING"
    /\ Begin(k, [Idle EXCEPT !.stage = "shipping", !.order = o, !.status = order[o]])
    /\ UNCHANGED <<order, moneyVars, payout, dispute, suspended, settling, reopened>>

Ship(k) ==
    LET o == call[k].order
    IN  /\ call[k].stage = "shipping"
        /\ Unlocked(o)
        /\ order' = [order EXCEPT ![o] = "DELIVERED"]
        /\ Finish(k)
        /\ UNCHANGED <<moneyVars, payout, dispute, suspended, settling, reopened>>

Confirm(o) ==
    /\ order[o] = "DELIVERED"
    /\ payment[o].status = "HELD"
    /\ Unlocked(o)
    /\ payment' = [payment EXCEPT ![o] = [status |-> "RELEASED", releasedAt |-> TRUE]]
    /\ order' = [order EXCEPT ![o] = "COMPLETED"]
    /\ ledger' = RecordRelease(ledger, o)
    /\ UNCHANGED <<refund, payout, dispute, suspended, callVars, reopened>>

RequestRefund(o) ==
    /\ order[o] = "PAID"
    /\ refund[o] = "NONE"
    /\ Unlocked(o)
    /\ refund' = [refund EXCEPT ![o] = "PENDING"]
    /\ UNCHANGED <<order, payment, ledger, payout, dispute, suspended, callVars, reopened>>

----------------------------------------------------------------------------
(* Payouts.                                                                *)

SetPayout(p, status) == payout' = [payout EXCEPT ![p].status = status]

(* The orders that have a payable and no refund, are in no payout that     *)
(* holds them, and have no active dispute.                                 *)
LockedOrders == UNION {payout[p].orders : p \in {p \in Payout : payout[p].locksOrder}}

RefundedOrders == {o \in Order : Has(ledger, "REFUND", o)}

AvailableObligations_Disputed(s) == (PayableOrders(ledger, s) \ RefundedOrders) \ LockedOrders
AvailableObligations_Refunded(s) == (PayableOrders(ledger, s) \ LockedOrders) \ Disputed
AvailableObligations(s) ==
    ((PayableOrders(ledger, s) \ RefundedOrders) \ LockedOrders) \ Disputed

Frozen == {o \in Order : \E p \in Payout : HasLock(p, o) /\ payout[p].status \in {"PROCESSING", "PAID"}}

Balance(s) == SellerBalance(ledger, s, Disputed, Frozen)

NetOf(orders) == MapThenSumSet(Net, orders)

(* All the available orders, or those of them that are asked for.  The     *)
(* seller, the seller's open payouts and all the seller's orders are       *)
(* locked.                                                                 *)
CreatePayout(p, s) ==
    /\ payout[p].status = "NONE"
    /\ s \notin suspended
    /\ \A o \in Order : SellerOf[o] = s => Unlocked(o)
    /\ Balance(s).available >= 0
    /\ \E S \in SUBSET AvailableObligations(s) \ {{}} :
          LET amount == NetOf(S)
          IN  /\ amount \in Int
              /\ amount > 0
              /\ amount <= Balance(s).available
              /\ payout' = [payout EXCEPT ![p] = [status |-> "PENDING", seller |-> s, orders |-> S,
                                                  amount |-> amount, locksOrder |-> TRUE]]
              /\ ledger' = RecordPayout(ledger, "PAYOUT_RESERVED", p, s, -amount)
    /\ UNCHANGED <<order, payment, refund, dispute, suspended, callVars, reopened>>

Approve(p) ==
    /\ payout[p].status = "PENDING"
    /\ SetPayout(p, "APPROVED")
    /\ UNCHANGED <<order, moneyVars, dispute, suspended, callVars, reopened>>

(* cancelInTx: the payout gives up its orders, and the money it reserved.  *)
Withdraw(p) ==
    payout' = [payout EXCEPT ![p] = [status |-> "CANCELLED", seller |-> @.seller, orders |-> @.orders,
                                     amount |-> @.amount, locksOrder |-> FALSE]]

CancelInTx_KeepsMoney(p, ledgerNow) == Withdraw(p) /\ ledger' = ledgerNow
CancelInTx(p, ledgerNow) ==
    /\ Withdraw(p)
    /\ ledger' = RecordPayout(ledgerNow, "PAYOUT_REVERSED", p, payout[p].seller, payout[p].amount)

Cancel(p) ==
    /\ payout[p].status \in Cancelable
    /\ CancelInTx(p, ledger)
    /\ UNCHANGED <<order, payment, refund, dispute, suspended, callVars, reopened>>

(* markProcessing and markPaid read the payout, ask the provider, and      *)
(* check again under the payout's lock.                                    *)
ReadForProcessing(k, p) ==
    /\ payout[p].status \in {"APPROVED", "FAILED"}
    /\ Begin(k, [Idle EXCEPT !.stage = "preparing", !.payout = p])
    /\ UNCHANGED <<order, moneyVars, payout, dispute, suspended, settling, reopened>>

MayProcess_Unchecked(p) == TRUE
MayProcess(p) == payout[p].status \in {"APPROVED", "FAILED"}

MarkProcessing(k) ==
    /\ call[k].stage = "preparing"
    /\ IF MayProcess(call[k].payout) THEN SetPayout(call[k].payout, "PROCESSING") ELSE UNCHANGED payout
    /\ Finish(k)
    /\ UNCHANGED <<order, moneyVars, dispute, suspended, settling, reopened>>

ReadForPaid(k, p) ==
    /\ payout[p].status = "PROCESSING"
    /\ Begin(k, [Idle EXCEPT !.stage = "paying", !.payout = p])
    /\ UNCHANGED <<order, moneyVars, payout, dispute, suspended, settling, reopened>>

MarkPaid(k) ==
    LET p == call[k].payout
    IN  /\ call[k].stage = "paying"
        /\ IF payout[p].status = "PROCESSING"
              THEN /\ SetPayout(p, "PAID")
                   /\ ledger' = RecordPayout(ledger, "PAYOUT_PAID", p, payout[p].seller,
                                             payout[p].amount)
              ELSE UNCHANGED <<payout, ledger>>
        /\ Finish(k)
        /\ UNCHANGED <<order, payment, refund, dispute, suspended, settling, reopened>>

(* A payout that failed keeps its orders and its money; it can only be     *)
(* processed again.                                                        *)
Fail(p) ==
    /\ payout[p].status = "PROCESSING"
    /\ SetPayout(p, "FAILED")
    /\ UNCHANGED <<order, moneyVars, dispute, suspended, callVars, reopened>>

----------------------------------------------------------------------------
(* A refund completes: one transaction under the order's lock, which looks *)
(* for an open payout of the order before it locks that payout.            *)

BeginSettle(o) ==
    /\ refund[o] = "PENDING"
    /\ Unlocked(o)
    /\ \E p \in Payout \cup {Nothing} :
          /\ IF p = Nothing
                THEN \A q \in Payout : HasLock(q, o) => payout[q].status \notin Cancelable
                ELSE HasLock(p, o) /\ payout[p].status \in Cancelable
          /\ settling' = [settling EXCEPT ![o] = [on |-> TRUE, payout |-> p]]
    /\ UNCHANGED <<order, moneyVars, payout, dispute, suspended, call, reopened>>

EndSettle(o) == settling' = [settling EXCEPT ![o] = [on |-> FALSE, payout |-> Nothing]]

CommitRefund(o) ==
    LET p == settling[o].payout
    IN  /\ settling[o].on
        /\ refund' = [refund EXCEPT ![o] = "COMPLETED"]
        /\ payment' = [payment EXCEPT ![o].status = "REFUNDED"]
        /\ order' = [order EXCEPT ![o] = IF @ = "PAID" THEN "REFUNDED" ELSE @]
        /\ IF p = Nothing
              THEN ledger' = RecordRefund(ledger, o) /\ UNCHANGED payout
              ELSE payout[p].status \in Cancelable /\ CancelInTx(p, RecordRefund(ledger, o))
        /\ EndSettle(o)
        /\ UNCHANGED <<dispute, suspended, call, reopened>>

(* The payout left PENDING and APPROVED meanwhile: the transition is       *)
(* refused, the whole transaction is rolled back and the refund stays due. *)
AbortRefund(o) ==
    /\ settling[o].on
    /\ settling[o].payout # Nothing
    /\ payout[settling[o].payout].status \notin Cancelable
    /\ EndSettle(o)
    /\ UNCHANGED <<order, moneyVars, payout, dispute, suspended, call, reopened>>

----------------------------------------------------------------------------
(* Disputes.                                                               *)

ReadForDispute(k, o) ==
    /\ order[o] # "REFUNDED"
    /\ Begin(k, [Idle EXCEPT !.stage = "opening", !.order = o, !.status = order[o]])
    /\ UNCHANGED <<order, moneyVars, payout, dispute, suspended, settling, reopened>>

(* The insert locks the order row for its foreign key; a unique index      *)
(* refuses a second active dispute of the order.                           *)
OpenDispute(k, d) ==
    LET o == call[k].order
    IN  /\ call[k].stage = "opening"
        /\ Unlocked(o)
        /\ dispute[d].status = "NONE"
        /\ o \notin Disputed
        /\ dispute' = [dispute EXCEPT ![d] = [status |-> "ACTIVE", order |-> o]]
        /\ order' = [order EXCEPT ![o] = IF call[k].status # "DISPUTED" THEN "DISPUTED" ELSE @]
        /\ call' = [call EXCEPT ![k].stage = "opened"]
        /\ UNCHANGED <<moneyVars, payout, suspended, settling, reopened>>

DisputeAlreadyOpen(k) ==
    /\ call[k].stage = "opening"
    /\ call[k].order \in Disputed
    /\ Finish(k)
    /\ UNCHANGED <<order, moneyVars, payout, dispute, suspended, settling, reopened>>

(* onActiveDispute, after the dispute is committed: read the payout that   *)
(* holds the order, and cancel it in a transaction of its own if it was    *)
(* open when it was read.  The cancellation fails if it no longer is.      *)
FindPayout(k) ==
    /\ call[k].stage = "opened"
    /\ \/ \E p \in Payout :
             /\ HasLock(p, call[k].order)
             /\ payout[p].status \in Cancelable
             /\ call' = [call EXCEPT ![k] = [stage |-> "found", order |-> @.order, payout |-> p,
                                             dispute |-> @.dispute, status |-> @.status]]
       \/ /\ \A p \in Payout : HasLock(p, call[k].order) => payout[p].status \notin Cancelable
          /\ Finish(k)
    /\ UNCHANGED <<order, moneyVars, payout, dispute, suspended, settling, reopened>>

CancelForDispute(k) ==
    LET p == call[k].payout
    IN  /\ call[k].stage = "found"
        /\ IF payout[p].status \in Cancelable THEN CancelInTx(p, ledger) ELSE UNCHANGED <<payout, ledger>>
        /\ Finish(k)
        /\ UNCHANGED <<order, payment, refund, dispute, suspended, settling, reopened>>

(* setStatus and resolve check the transition against a dispute read       *)
(* before, and write without a lock: a dispute that was closed meanwhile   *)
(* is opened again, unless the order has another active one.               *)
ReadForDecision(k, d, status) ==
    /\ dispute[d].status = "ACTIVE"
    /\ status \in {"ACTIVE", "CLOSED"}
    /\ Begin(k, [Idle EXCEPT !.stage = "deciding", !.dispute = d, !.status = status])
    /\ UNCHANGED <<order, moneyVars, payout, dispute, suspended, settling, reopened>>

Reopens(d, status) == dispute[d].status = "CLOSED" /\ status = "ACTIVE"

Decide(k) ==
    LET d == call[k].dispute
        status == call[k].status
    IN  /\ call[k].stage = "deciding"
        /\ IF Reopens(d, status) /\ dispute[d].order \in Disputed
              THEN UNCHANGED <<dispute, reopened>>
              ELSE /\ dispute' = [dispute EXCEPT ![d].status = status]
                   /\ reopened' = IF Reopens(d, status) THEN reopened \cup {d} ELSE reopened
        /\ Finish(k)
        /\ UNCHANGED <<order, moneyVars, payout, suspended, settling>>

----------------------------------------------------------------------------
Suspend(s) ==
    /\ suspended' = suspended \cup {s}
    /\ s \notin suspended
    /\ UNCHANGED <<order, moneyVars, payout, dispute, callVars, reopened>>

Restore(s) ==
    /\ s \in suspended
    /\ suspended' = suspended \ {s}
    /\ UNCHANGED <<order, moneyVars, payout, dispute, callVars, reopened>>

Adjust(a, s, amount) ==
    /\ ~Has(ledger, "ADJUSTMENT", a)
    /\ ledger' = RecordAdjustment(ledger, a, s, amount)
    /\ UNCHANGED <<order, payment, refund, payout, dispute, suspended, callVars, reopened>>

OrderStep(o) ==
    \/ Confirm(o) \/ RequestRefund(o)
    \/ BeginSettle(o) \/ CommitRefund(o) \/ AbortRefund(o)

PayoutStep(p) ==
    \/ \E s \in Seller : CreatePayout(p, s)
    \/ Approve(p) \/ Cancel(p) \/ Fail(p)

CallStep(k) ==
    \/ \E o \in Order : ReadToShip(k, o) \/ ReadForDispute(k, o)
    \/ \E p \in Payout : ReadForProcessing(k, p) \/ ReadForPaid(k, p)
    \/ \E d \in Dispute :
          OpenDispute(k, d) \/ \E status \in {"ACTIVE", "CLOSED"} : ReadForDecision(k, d, status)
    \/ Ship(k) \/ MarkProcessing(k) \/ MarkPaid(k)
    \/ DisputeAlreadyOpen(k) \/ FindPayout(k) \/ CancelForDispute(k) \/ Decide(k)

SellerStep(s) ==
    \/ Suspend(s) \/ Restore(s)
    \/ \E a \in Adjustment, amount \in Correction : Adjust(a, s, amount)

Next ==
    \/ \E o \in Order : OrderStep(o)
    \/ \E p \in Payout : PayoutStep(p)
    \/ \E k \in Call : CallStep(k)
    \/ \E s \in Seller : SellerStep(s)

Spec == Init /\ [][Next]_vars
----------------------------------------------------------------------------
(* The backfill tool enters, for every order whose payment holds money,    *)
(* what the ledger should have.                                            *)
BackfillOrder(entries, o) ==
    LET captured == RecordCapture(entries, o)
        released == IF order[o] = "COMPLETED" \/ payment[o].status = "RELEASED"
                       THEN RecordRelease(captured, o) ELSE captured
    IN  IF refund[o] = "COMPLETED" THEN RecordRefund(released, o) ELSE released

Backfill == ledger \cup UNION {BackfillOrder(ledger, o) : o \in Order}

(* What a reconciliation run finds missing from the ledger.                *)
MissingEntries ==
    CompareLedger({[id |-> o, order |-> o, status |-> payment[o].status, orderStatus |-> order[o]]
                       : o \in Order},
                  {[id |-> o, status |-> refund[o]] : o \in Order},
                  {[id |-> p, status |-> payout[p].status] : p \in Payout},
                  Keys(ledger))

LivePayouts == {p \in Payout : payout[p].status \notin {"NONE", "CANCELLED"}}

----------------------------------------------------------------------------
(* No order is paid out twice: two payouts that are not cancelled have no  *)
(* order in common, whatever calls overlap (payouts.service.ts:496, and    *)
(* the unique index on the items that lock an order).                      *)
OrderInOnePayout ==
    \A p, q \in LivePayouts : p # q => payout[p].orders \cap payout[q].orders = {}

PaidBy(p) == payout[p].amount

AmountsOf(payouts) == MapThenSumSet(PaidBy, payouts)

(* The balance, a sum over entries, is what a reader of the orders and the *)
(* payouts would compute (seller-balance.service.ts:63).  Reserved and     *)
(* paid are the amounts of the payouts under way and of the paid ones.     *)
(* Pending is the net of the orders neither released nor refunded.         *)
(* Available is the net of the released orders that nobody disputes,       *)
(* refunds or pays out, less the orders that were refunded although a      *)
(* payout holds them, less the disputed orders of a payout that is         *)
(* pending, approved or failed, which are taken off twice.                 *)
BalanceIsWhatIsOwed ==
    \A s \in Seller :
        LET mine == {o \in Order : SellerOf[o] = s}
            released == {o \in mine : payment[o].releasedAt}
            refunded == {o \in mine : refund[o] = "COMPLETED"}
            held == UNION {payout[p].orders : p \in LivePayouts}
            twice == (released \cap held) \cap (refunded \cup (Disputed \ Frozen))
            adjusted == SumOf(OfType(ledger, s, "ADJUSTMENT"))
            paidOut(status) ==
                AmountsOf({p \in Payout : payout[p].seller = s /\ payout[p].status \in status})
            balance == Balance(s)
        IN  /\ balance.reserved = paidOut({"PENDING", "APPROVED", "PROCESSING", "FAILED"})
            /\ balance.paid = paidOut({"PAID"})
            /\ balance.pending = NetOf((mine \ released) \ refunded)
            /\ balance.available =
                   NetOf(((released \ held) \ refunded) \ Disputed) - NetOf(twice) + adjusted

(* A payout that can still be cancelled holds no refunded order: a refund  *)
(* and a payout that are made at the same time never both go through       *)
(* (payouts.service.ts:365).                                               *)
RefundedIsNotPayable ==
    \A p \in Payout : payout[p].status \in Cancelable =>
        \A o \in payout[p].orders : refund[o] # "COMPLETED"

(* A payout that can still be cancelled holds a disputed order only while  *)
(* the call that opened the dispute is on its way to cancel it, or if a    *)
(* late decision opened the dispute again (payouts.service.ts:327).        *)
DisputedIsWithdrawn ==
    \A p \in Payout, d \in Dispute :
        /\ payout[p].status \in Cancelable
        /\ dispute[d].status = "ACTIVE"
        /\ dispute[d].order \in payout[p].orders
        => \/ d \in reopened
           \/ \E k \in Call : /\ call[k].order = dispute[d].order
                               /\ \/ call[k].stage = "opened"
                                  \/ call[k].stage = "found" /\ call[k].payout = p

(* The ledger lacks nothing that a backfill would add or a reconciliation  *)
(* run would ask for, in whatever state of orders, refunds and payouts     *)
(* they are run (ledger/backfill.ts:82, recon-rules.ts:333).               *)
LedgerIsComplete == TypeOK /\ Backfill = ledger /\ MissingEntries = {}
=============================================================================
