------------------------------ MODULE PayoutsProofs ------------------------------
(***************************************************************************)
(* No order is paid out twice, and no refunded order waits in a payout     *)
(* that can still be cancelled, for any number of orders, payouts and      *)
(* overlapping calls.                                                      *)
(*                                                                         *)
(* The first needs that a payout holds its orders exactly while it is      *)
(* alive.  The second needs the orders' locks: while a refund completes,   *)
(* the only open payout of its order is the one the refund found, since a  *)
(* payout that is created waits for the lock and one that is past its      *)
(* approval never becomes open again.                                      *)
(***************************************************************************)
EXTENDS Payouts, Totals, TLAPS

\* Nothing is not the identity of a payout.
Apart == Nothing \notin Payout

Rows ==
    /\ order \in [Order -> OrderStatus]
    /\ payout \in [Payout -> PayoutRow]
    /\ refund \in [Order -> RefundStatus]
    /\ settling \in [Order -> SettlingRow]
    /\ call \in [Call -> CallRow]
    /\ \A k \in Call : call[k].stage \in {"preparing", "paying", "found"} => call[k].payout \in Payout

\* A payable entry is about an order of its seller, and a refund that
\* completed has been entered.
Entered ==
    /\ \A e \in ledger : e.type = "SELLER_PAYABLE" => e.ref \in Order /\ e.seller = SellerOf[e.ref]
    /\ \A o \in Order : refund[o] = "COMPLETED" => Has(ledger, "REFUND", o)

HoldsWhileLive == \A p \in Payout : payout[p].locksOrder <=> p \in LivePayouts

\* A refund that completes has found the open payout of its order, if any.
FoundWhatIsOpen ==
    \A o \in Order : settling[o].on =>
        \A p \in Payout : HasLock(p, o) /\ payout[p].status \in Cancelable => p = settling[o].payout

IInv == Rows /\ Entered /\ HoldsWhileLive /\ OrderInOnePayout /\ FoundWhatIsOpen /\ RefundedIsNotPayable

----------------------------------------------------------------------------
(* An entry that is inserted is there, and so is what was there before.    *)
LEMMA InsertKeeps ==
  ASSUME NEW entries, NEW e
  PROVE  /\ entries \subseteq Insert(entries, e)
         /\ Insert(entries, e) \subseteq entries \cup {e}
         /\ Has(Insert(entries, e), e.type, e.ref)
BY DEF Insert, Has

LEMMA HasKeeps ==
  ASSUME NEW before, NEW after, before \subseteq after, NEW type, NEW ref, Has(before, type, ref)
  PROVE  Has(after, type, ref)
BY DEF Has

\* What a step may enter without a release: entries of other types.
Adds(after) ==
    /\ ledger \subseteq after
    /\ \A e \in after \ ledger : e.type # "SELLER_PAYABLE"

LEMMA PayoutAdds ==
  ASSUME NEW type, type # "SELLER_PAYABLE", NEW p, NEW seller, NEW amount
  PROVE  Adds(RecordPayout(ledger, type, p, seller, amount))
<1> DEFINE e == [type |-> type, ref |-> p, seller |-> seller, amount |-> amount]
<1>1. e.type = type
  OBVIOUS
<1>2. RecordPayout(ledger, type, p, seller, amount) = Insert(ledger, e)
  BY DEF RecordPayout
<1> HIDE DEF e
<1> QED BY <1>1, <1>2, InsertKeeps DEF Adds

LEMMA RefundAdds ==
  ASSUME NEW o \in Order
  PROVE  Adds(RecordRefund(ledger, o)) /\ Has(RecordRefund(ledger, o), "REFUND", o)
<1> DEFINE e == OrderEntry("REFUND", o, -Net(o))
<1>1. e.type = "REFUND" /\ e.ref = o
  BY DEF OrderEntry
<1>2. RecordRefund(ledger, o) = Insert(ledger, e)
  BY DEF RecordRefund
<1> HIDE DEF e
<1> QED BY <1>1, <1>2, InsertKeeps DEF Adds

LEMMA AdjustmentAdds ==
  ASSUME NEW a, NEW seller, NEW amount
  PROVE  Adds(RecordAdjustment(ledger, a, seller, amount))
<1> DEFINE e == [type |-> "ADJUSTMENT", ref |-> a, seller |-> seller, amount |-> amount]
<1>1. e.type = "ADJUSTMENT"
  OBVIOUS
<1>2. RecordAdjustment(ledger, a, seller, amount) = Insert(ledger, e)
  BY DEF RecordAdjustment
<1> HIDE DEF e
<1> QED BY <1>1, <1>2, InsertKeeps DEF Adds

(* What the entries say stays said when others are added.                  *)
LEMMA EnteredKeeps ==
  ASSUME Entered, Adds(ledger'),
         \A o \in Order : refund'[o] = "COMPLETED" => refund[o] = "COMPLETED" \/ Has(ledger', "REFUND", o)
  PROVE  Entered'
<1>1. ASSUME NEW o \in Order, refund[o] = "COMPLETED" PROVE Has(ledger', "REFUND", o)
  BY <1>1, HasKeeps DEF Entered, Adds
<1>2. \A e \in ledger' : e.type = "SELLER_PAYABLE" => e.ref \in Order /\ e.seller = SellerOf[e.ref]
  BY DEF Entered, Adds
<1> QED BY <1>1, <1>2 DEF Entered

\* What the invariant says of the payouts survives, and none becomes open.
Wanes ==
    /\ payout' \in [Payout -> PayoutRow]
    /\ HoldsWhileLive' /\ OrderInOnePayout'
    /\ \A q \in Payout, o \in Order :
         HasLock(q, o)' /\ payout'[q].status \in Cancelable
           => HasLock(q, o) /\ payout[q].status \in Cancelable
    /\ \A q \in Payout : payout'[q].orders = payout[q].orders
    /\ \A q \in Payout : payout'[q].status \in Cancelable => payout[q].status \in Cancelable

(* So it is when one payout changes its status without becoming open, or   *)
(* gives up its orders.                                                    *)
LEMMA PayoutMoves ==
  ASSUME IInv, NEW p \in Payout, NEW row \in PayoutRow,
         payout' = [payout EXCEPT ![p] = row],
         row.orders = payout[p].orders,
         row.locksOrder <=> row.status \notin {"NONE", "CANCELLED"},
         payout[p].locksOrder,
         row.status \in Cancelable => payout[p].status \in Cancelable
  PROVE  Wanes
<1>1. payout' \in [Payout -> PayoutRow] /\ \A q \in Payout : payout'[q] = IF q = p THEN row ELSE payout[q]
  BY DEF IInv, Rows
<1>2. HoldsWhileLive'
  BY <1>1 DEF IInv, HoldsWhileLive, LivePayouts
<1>3. p \in LivePayouts /\ LivePayouts' \subseteq LivePayouts
  BY <1>1 DEF IInv, HoldsWhileLive, LivePayouts
<1>4. \A q \in Payout : payout'[q].orders = payout[q].orders
  BY <1>1
<1>5. OrderInOnePayout'
  <2>1. \A q \in LivePayouts' : q \in LivePayouts /\ q \in Payout
    BY <1>3 DEF LivePayouts
  <2> QED BY <1>4, <2>1 DEF IInv, OrderInOnePayout
<1> QED BY <1>1, <1>2, <1>4, <1>5 DEF Wanes, HasLock

----------------------------------------------------------------------------
LEMMA InitIInv == Init => IInv
<1> SUFFICES ASSUME Init PROVE IInv
  OBVIOUS
<1>1. \A p \in Payout : payout[p] = [status |-> "NONE", seller |-> Nothing, orders |-> {},
                                      amount |-> 0, locksOrder |-> FALSE]
  BY DEF Init
<1>2. Rows
  <2>1. payout \in [Payout -> PayoutRow]
    BY DEF Init, PayoutRow, PayoutStatus
  <2>2. order \in [Order -> OrderStatus] /\ refund \in [Order -> RefundStatus] /\ settling \in [Order -> SettlingRow]
    BY DEF Init, OrderStatus, RefundStatus, SettlingRow
  <2>3. /\ call \in [Call -> CallRow]
        /\ \A k \in Call : call[k].stage = "idle"
    BY DEF Init, Idle, CallRow, Stage, DisputeStatus
  <2> QED BY <2>1, <2>2, <2>3 DEF Rows
<1>3. Entered
  <2>1. \A o \in Order : OrderEntry("PAYMENT_CAPTURED", o, Net(o)).type = "PAYMENT_CAPTURED"
    BY DEF OrderEntry
  <2> QED BY <2>1 DEF Init, Entered
<1>4. HoldsWhileLive /\ OrderInOnePayout /\ FoundWhatIsOpen /\ RefundedIsNotPayable
  BY <1>1 DEF Init, HoldsWhileLive, OrderInOnePayout, FoundWhatIsOpen, RefundedIsNotPayable,
              LivePayouts, HasLock, Cancelable
<1> QED BY <1>2, <1>3, <1>4 DEF IInv

----------------------------------------------------------------------------
(* A row of call that may be written.                                      *)
RowOK(row) ==
    row \in CallRow /\ (row.stage \in {"preparing", "paying", "found"} => row.payout \in Payout)

LEMMA CallWritten ==
  ASSUME IInv, NEW k \in Call, NEW row, RowOK(row), call' = [call EXCEPT ![k] = row]
  PROVE  /\ call' \in [Call -> CallRow]
         /\ \A j \in Call : call'[j].stage \in {"preparing", "paying", "found"} => call'[j].payout \in Payout
BY DEF IInv, Rows, RowOK

LEMMA IdleOK == RowOK(Idle)
BY DEF RowOK, Idle, CallRow, Stage, DisputeStatus

(* A step that only moves a call.                                          *)
LEMMA CallMoves ==
  ASSUME IInv, NEW k \in Call, NEW row, RowOK(row), call' = [call EXCEPT ![k] = row],
         order' \in [Order -> OrderStatus], UNCHANGED <<refund, ledger, payout, settling>>
  PROVE  IInv'
<1>1. Rows'
  BY CallWritten DEF IInv, Rows
<1> QED BY <1>1 DEF IInv, Entered, HoldsWhileLive, OrderInOnePayout, FoundWhatIsOpen,
                   RefundedIsNotPayable, LivePayouts, HasLock

(* A step that only writes what the invariant does not mention.            *)
LEMMA NothingMoves ==
  ASSUME IInv, UNCHANGED <<order, refund, ledger, payout, settling, call>>
  PROVE  IInv'
BY DEF IInv, Rows, Entered, HoldsWhileLive, OrderInOnePayout, FoundWhatIsOpen,
       RefundedIsNotPayable, LivePayouts, HasLock

(* A call reads, and starts.                                               *)
LEMMA CallStarts ==
  ASSUME IInv, NEW k \in Call,
         \/ \E o \in Order : ReadToShip(k, o) \/ ReadForDispute(k, o)
         \/ \E p \in Payout : ReadForProcessing(k, p) \/ ReadForPaid(k, p)
         \/ \E d \in Dispute, status \in {"ACTIVE", "CLOSED"} : ReadForDecision(k, d, status)
  PROVE  IInv'
<1> DEFINE Moved == \E row : /\ RowOK(row) /\ call' = [call EXCEPT ![k] = row]
                             /\ UNCHANGED <<order, refund, ledger, payout, settling>>
<1>1. Moved
  <2>1. ASSUME NEW o \in Order, ReadToShip(k, o) \/ ReadForDispute(k, o) PROVE Moved
    <3>1. PICK stage \in {"shipping", "opening"} :
            call' = [call EXCEPT ![k] = [Idle EXCEPT !.stage = stage, !.order = o, !.status = order[o]]]
      BY <2>1 DEF ReadToShip, ReadForDispute, Begin
    <3>2. RowOK([Idle EXCEPT !.stage = stage, !.order = o, !.status = order[o]])
      BY DEF RowOK, Idle, CallRow, Stage, OrderStatus, DisputeStatus, IInv, Rows
    <3> QED BY <2>1, <3>1, <3>2 DEF ReadToShip, ReadForDispute, moneyVars
  <2>2. ASSUME NEW p \in Payout, ReadForProcessing(k, p) \/ ReadForPaid(k, p) PROVE Moved
    <3>1. PICK stage \in {"preparing", "paying"} :
            call' = [call EXCEPT ![k] = [Idle EXCEPT !.stage = stage, !.payout = p]]
      BY <2>2 DEF ReadForProcessing, ReadForPaid, Begin
    <3>2. RowOK([Idle EXCEPT !.stage = stage, !.payout = p])
      BY DEF RowOK, Idle, CallRow, Stage, DisputeStatus
    <3> QED BY <2>2, <3>1, <3>2 DEF ReadForProcessing, ReadForPaid, moneyVars
  <2>3. ASSUME NEW d \in Dispute, NEW status \in {"ACTIVE", "CLOSED"}, ReadForDecision(k, d, status)
        PROVE  Moved
    <3>1. RowOK([Idle EXCEPT !.stage = "deciding", !.dispute = d, !.status = status])
      BY DEF RowOK, Idle, CallRow, Stage, DisputeStatus
    <3> QED BY <2>3, <3>1 DEF ReadForDecision, Begin, moneyVars
  <2> QED BY <2>1, <2>2, <2>3
<1> QED BY <1>1, CallMoves DEF IInv, Rows

(* A call about an order or a dispute takes its next step.                 *)
LEMMA CallGoesOn ==
  ASSUME IInv, NEW k \in Call,
         \/ \E d \in Dispute : OpenDispute(k, d)
         \/ Ship(k) \/ DisputeAlreadyOpen(k) \/ FindPayout(k) \/ Decide(k)
  PROVE  IInv'
<1>1. order' \in [Order -> OrderStatus]
  BY DEF IInv, Rows, OrderStatus, OpenDispute, Ship, DisputeAlreadyOpen, FindPayout, Decide
<1> DEFINE Moved == \E row : /\ RowOK(row) /\ call' = [call EXCEPT ![k] = row]
                             /\ UNCHANGED <<refund, ledger, payout, settling>>
<1>2. Moved
  <2>1. ASSUME NEW d \in Dispute, OpenDispute(k, d) PROVE Moved
    <3>1. RowOK([call[k] EXCEPT !.stage = "opened"])
      BY DEF RowOK, IInv, Rows, CallRow, Stage
    <3>2. call' = [call EXCEPT ![k] = [call[k] EXCEPT !.stage = "opened"]]
      BY <2>1 DEF OpenDispute
    <3> QED BY <2>1, <3>1, <3>2 DEF OpenDispute, moneyVars
  <2>2. CASE Ship(k) \/ DisputeAlreadyOpen(k) \/ Decide(k)
    BY <2>2, IdleOK DEF Ship, DisputeAlreadyOpen, Decide, Finish, moneyVars
  <2>3. CASE FindPayout(k)
    <3>1. CASE call' = [call EXCEPT ![k] = Idle]
      BY <2>3, <3>1, IdleOK DEF FindPayout, moneyVars
    <3>2. ASSUME NEW p \in Payout,
                 call' = [call EXCEPT ![k] = [stage |-> "found", order |-> @.order, payout |-> p,
                                              dispute |-> @.dispute, status |-> @.status]]
          PROVE  Moved
      <4>1. RowOK([stage |-> "found", order |-> call[k].order, payout |-> p,
                   dispute |-> call[k].dispute, status |-> call[k].status])
        BY DEF RowOK, IInv, Rows, CallRow, Stage
      <4> QED BY <2>3, <3>2, <4>1 DEF FindPayout, moneyVars
    <3> QED BY <2>3, <3>1, <3>2 DEF FindPayout, Finish
  <2> QED BY <2>1, <2>2, <2>3
<1> QED BY <1>1, <1>2, CallMoves

----------------------------------------------------------------------------
(* A payout changes its status, or is withdrawn.                           *)
LEMMA StatusWanes ==
  ASSUME IInv, NEW p \in Payout, NEW status \in PayoutStatus \ {"NONE", "CANCELLED"},
         SetPayout(p, status), p \in LivePayouts,
         status \in Cancelable => payout[p].status \in Cancelable
  PROVE  Wanes
<1> DEFINE row == [payout[p] EXCEPT !.status = status]
<1>1. payout[p] \in PayoutRow /\ payout[p].locksOrder
  BY DEF IInv, Rows, HoldsWhileLive
<1>2. /\ row \in PayoutRow /\ row.status = status /\ row.orders = payout[p].orders
      /\ row.locksOrder = payout[p].locksOrder
  BY <1>1 DEF PayoutRow
<1>3. payout' = [payout EXCEPT ![p] = row]
  BY DEF SetPayout
<1> HIDE DEF row
<1> QED BY <1>1, <1>2, <1>3, PayoutMoves

LEMMA WithdrawWanes ==
  ASSUME IInv, NEW p \in Payout, Withdraw(p), payout[p].status \in Cancelable
  PROVE  Wanes
<1> DEFINE row == [status |-> "CANCELLED", seller |-> payout[p].seller, orders |-> payout[p].orders,
                   amount |-> payout[p].amount, locksOrder |-> FALSE]
<1>1. payout[p] \in PayoutRow /\ payout[p].locksOrder
  BY DEF IInv, Rows, HoldsWhileLive, LivePayouts, Cancelable
<1>2. /\ row \in PayoutRow /\ row.status = "CANCELLED" /\ row.orders = payout[p].orders
      /\ row.locksOrder = FALSE
  BY <1>1 DEF PayoutRow, PayoutStatus
<1>3. payout' = [payout EXCEPT ![p] = row]
  BY DEF Withdraw
<1> HIDE DEF row
<1> QED BY <1>1, <1>2, <1>3, PayoutMoves DEF Cancelable

(* A step in which payouts wane, and entries of other types are added.     *)
LEMMA WaningKeeps ==
  ASSUME IInv, Wanes \/ UNCHANGED payout, Adds(ledger'), UNCHANGED <<order, refund, settling>>,
         UNCHANGED call \/ \E k \in Call : call' = [call EXCEPT ![k] = Idle]
  PROVE  IInv'
<1>1. CASE UNCHANGED payout
  <2>1. HoldsWhileLive' /\ OrderInOnePayout' /\ FoundWhatIsOpen' /\ RefundedIsNotPayable'
    BY <1>1 DEF IInv, HoldsWhileLive, OrderInOnePayout, FoundWhatIsOpen, RefundedIsNotPayable,
                LivePayouts, HasLock
  <2>2. Rows'
    BY <1>1, CallWritten, IdleOK DEF IInv, Rows
  <2> QED BY <2>1, <2>2, EnteredKeeps DEF IInv
<1>2. CASE Wanes
  <2>1. Rows'
    BY <1>2, CallWritten, IdleOK DEF IInv, Rows, Wanes
  <2>2. FoundWhatIsOpen'
    BY <1>2 DEF Wanes, IInv, FoundWhatIsOpen
  <2>3. RefundedIsNotPayable'
    BY <1>2 DEF Wanes, IInv, RefundedIsNotPayable
  <2> QED BY <1>2, <2>1, <2>2, <2>3, EnteredKeeps DEF IInv, Wanes
<1> QED BY <1>1, <1>2

LEMMA NoEntryAdds == UNCHANGED ledger => Adds(ledger')
BY DEF Adds

(* A call writes what it decided about a payout.                           *)
LEMMA CallPays ==
  ASSUME IInv, NEW k \in Call, MarkProcessing(k) \/ MarkPaid(k) \/ CancelForDispute(k)
  PROVE  IInv'
<1> DEFINE p == call[k].payout
<1>1. p \in Payout /\ UNCHANGED <<order, refund, settling>> /\ call' = [call EXCEPT ![k] = Idle]
  BY DEF IInv, Rows, MarkProcessing, MarkPaid, CancelForDispute, Finish, moneyVars
<1>2. Wanes \/ UNCHANGED payout
  <2>1. CASE MarkProcessing(k)
    <3>1. CASE MayProcess(p)
      BY <1>1, <2>1, <3>1, StatusWanes DEF MarkProcessing, MayProcess, LivePayouts, PayoutStatus, Cancelable
    <3> QED BY <2>1, <3>1 DEF MarkProcessing
  <2>2. CASE MarkPaid(k)
    <3>1. CASE payout[p].status = "PROCESSING"
      BY <1>1, <2>2, <3>1, StatusWanes DEF MarkPaid, LivePayouts, PayoutStatus, Cancelable
    <3> QED BY <2>2, <3>1 DEF MarkPaid
  <2>3. CASE CancelForDispute(k)
    <3>1. CASE payout[p].status \in Cancelable
      BY <1>1, <2>3, <3>1, WithdrawWanes DEF CancelForDispute, CancelInTx
    <3> QED BY <2>3, <3>1 DEF CancelForDispute
  <2> QED BY <2>1, <2>2, <2>3
<1>3. Adds(ledger')
  <2>1. CASE MarkProcessing(k)
    BY <2>1, NoEntryAdds DEF MarkProcessing, moneyVars
  <2>2. CASE MarkPaid(k)
    BY <2>2, NoEntryAdds, PayoutAdds DEF MarkPaid
  <2>3. CASE CancelForDispute(k)
    BY <2>3, NoEntryAdds, PayoutAdds DEF CancelForDispute, CancelInTx
  <2> QED BY <2>1, <2>2, <2>3
<1> QED BY <1>1, <1>2, <1>3, WaningKeeps

(* The staff approve, cancel and fail a payout, suspend a seller, restore  *)
(* one or enter an adjustment.                                             *)
LEMMA StaffStep ==
  ASSUME IInv,
         \/ \E p \in Payout : Approve(p) \/ Cancel(p) \/ Fail(p)
         \/ \E s \in Seller : \/ Suspend(s) \/ Restore(s)
                             \/ \E a \in Adjustment, amount \in Correction : Adjust(a, s, amount)
  PROVE  IInv'
<1>1. CASE \E p \in Payout : Approve(p) \/ Fail(p)
  <2>1. PICK p \in Payout : Approve(p) \/ Fail(p)
    BY <1>1
  <2>2. Wanes
    BY <2>1, StatusWanes DEF Approve, Fail, LivePayouts, PayoutStatus, Cancelable
  <2> QED BY <2>1, <2>2, WaningKeeps, NoEntryAdds DEF Approve, Fail, moneyVars, callVars
<1>2. CASE \E p \in Payout : Cancel(p)
  <2>1. PICK p \in Payout : Cancel(p)
    BY <1>2
  <2>2. Wanes /\ Adds(ledger')
    BY <2>1, WithdrawWanes, PayoutAdds DEF Cancel, CancelInTx
  <2> QED BY <2>1, <2>2, WaningKeeps DEF Cancel, callVars
<1>3. CASE \E s \in Seller : Suspend(s) \/ Restore(s)
  BY <1>3, NothingMoves DEF Suspend, Restore, moneyVars, callVars
<1>4. CASE \E s \in Seller, a \in Adjustment, amount \in Correction : Adjust(a, s, amount)
  BY <1>4, WaningKeeps, AdjustmentAdds DEF Adjust, callVars
<1> QED BY <1>1, <1>2, <1>3, <1>4

----------------------------------------------------------------------------
(* A payout is created: of orders no live payout holds, whose refunds are  *)
(* neither completed nor completing.                                       *)
LEMMA CreateStep ==
  ASSUME IInv, NEW p \in Payout, NEW s \in Seller, CreatePayout(p, s)
  PROVE  IInv'
<1>1. PICK S \in SUBSET AvailableObligations(s), amount \in Int :
        /\ payout' = [payout EXCEPT ![p] = [status |-> "PENDING", seller |-> s, orders |-> S,
                                            amount |-> amount, locksOrder |-> TRUE]]
        /\ ledger' = RecordPayout(ledger, "PAYOUT_RESERVED", p, s, -amount)
  BY DEF CreatePayout
<1>2. UNCHANGED <<order, refund, call, settling>> /\ payout[p].status = "NONE"
  BY DEF CreatePayout, callVars
<1>3. \A o \in S : /\ o \in Order /\ SellerOf[o] = s /\ ~Has(ledger, "REFUND", o)
                  /\ \A q \in Payout : payout[q].locksOrder => o \notin payout[q].orders
  BY DEF AvailableObligations, PayableOrders, OfType, OfTypes, RefundedOrders, LockedOrders, IInv, Entered
<1>4. \A o \in S : ~settling[o].on
  BY <1>3 DEF CreatePayout, Unlocked
<1> DEFINE row == [status |-> "PENDING", seller |-> s, orders |-> S, amount |-> amount,
                   locksOrder |-> TRUE]
<1>5. row \in PayoutRow
  BY <1>3 DEF PayoutRow, PayoutStatus
<1>6. row.status = "PENDING" /\ row.orders = S /\ row.locksOrder = TRUE
  OBVIOUS
<1>7. payout' = [payout EXCEPT ![p] = row]
  BY <1>1
<1> HIDE DEF row
<1>8. /\ payout' \in [Payout -> PayoutRow]
      /\ \A q \in Payout : payout'[q] = IF q = p THEN row ELSE payout[q]
  BY <1>5, <1>7 DEF IInv, Rows
<1>9. Rows'
  BY <1>2, <1>8 DEF IInv, Rows
<1>10. Entered'
  <2>1. Adds(ledger')
    BY <1>1, PayoutAdds
  <2> QED BY <1>2, <2>1, EnteredKeeps DEF IInv
<1>11. HoldsWhileLive'
  BY <1>6, <1>8 DEF IInv, HoldsWhileLive, LivePayouts
<1>12. OrderInOnePayout'
  <2>1. \A q \in Payout : q \in LivePayouts /\ q # p => payout[q].orders \cap S = {}
    BY <1>3 DEF IInv, HoldsWhileLive
  <2> QED BY <1>6, <1>8, <2>1 DEF IInv, OrderInOnePayout, LivePayouts
<1>13. FoundWhatIsOpen'
  BY <1>2, <1>4, <1>6, <1>8 DEF IInv, FoundWhatIsOpen, HasLock
<1>14. RefundedIsNotPayable'
  BY <1>2, <1>3, <1>6, <1>8 DEF IInv, Entered, RefundedIsNotPayable
<1> QED BY <1>9, <1>10, <1>11, <1>12, <1>13, <1>14 DEF IInv

(* A delivery is confirmed: the order's payable is entered.                *)
LEMMA ConfirmStep == ASSUME IInv, NEW o \in Order, Confirm(o) PROVE IInv'
<1>1. /\ order' = [order EXCEPT ![o] = "COMPLETED"] /\ ledger' = RecordRelease(ledger, o)
      /\ UNCHANGED <<refund, payout, call, settling>>
  BY DEF Confirm, callVars
<1>2. ledger \subseteq ledger' /\ ledger' \subseteq
        ledger \cup {OrderEntry("SELLER_PAYABLE", o, Net(o)), FeeEntry(o)}
  BY <1>1, InsertKeeps DEF RecordRelease
<1>3. Entered'
  <2>1. /\ OrderEntry("SELLER_PAYABLE", o, Net(o)).ref = o
        /\ OrderEntry("SELLER_PAYABLE", o, Net(o)).seller = SellerOf[o]
        /\ FeeEntry(o).type = "PLATFORM_FEE"
    BY DEF OrderEntry, FeeEntry
  <2>2. \A e \in ledger' : e.type = "SELLER_PAYABLE" => e.ref \in Order /\ e.seller = SellerOf[e.ref]
    BY <1>2, <2>1 DEF IInv, Entered
  <2>3. \A q \in Order : refund[q] = "COMPLETED" => Has(ledger', "REFUND", q)
    BY <1>2, HasKeeps DEF IInv, Entered
  <2> QED BY <1>1, <2>2, <2>3 DEF Entered
<1>4. Rows'
  BY <1>1 DEF IInv, Rows, OrderStatus
<1>5. HoldsWhileLive' /\ OrderInOnePayout' /\ FoundWhatIsOpen' /\ RefundedIsNotPayable'
  BY <1>1 DEF IInv, HoldsWhileLive, OrderInOnePayout, FoundWhatIsOpen, RefundedIsNotPayable,
              LivePayouts, HasLock
<1> QED BY <1>3, <1>4, <1>5 DEF IInv

----------------------------------------------------------------------------
(* A refund is requested, starts to complete, or rolls back.               *)
LEMMA RefundWaits ==
  ASSUME IInv, NEW o \in Order, RequestRefund(o) \/ BeginSettle(o) \/ AbortRefund(o)
  PROVE  IInv'
<1>1. UNCHANGED <<order, ledger, payout, call>>
  BY DEF RequestRefund, BeginSettle, AbortRefund, EndSettle, moneyVars, callVars
<1>2. /\ refund' \in [Order -> RefundStatus] /\ settling' \in [Order -> SettlingRow]
      /\ \A q \in Order : refund'[q] = "COMPLETED" => refund[q] = "COMPLETED"
  <2>1. CASE RequestRefund(o)
    BY <2>1 DEF RequestRefund, callVars, IInv, Rows, RefundStatus
  <2>2. CASE BeginSettle(o)
    BY <2>2 DEF BeginSettle, moneyVars, IInv, Rows, SettlingRow
  <2>3. CASE AbortRefund(o)
    BY <2>3 DEF AbortRefund, EndSettle, moneyVars, IInv, Rows, SettlingRow
  <2> QED BY <2>1, <2>2, <2>3
<1>3. FoundWhatIsOpen'
  <2>1. CASE RequestRefund(o)
    BY <2>1, <1>1 DEF RequestRefund, callVars, IInv, FoundWhatIsOpen, HasLock
  <2>2. CASE AbortRefund(o)
    BY <2>2, <1>1 DEF AbortRefund, EndSettle, IInv, Rows, FoundWhatIsOpen, HasLock
  <2>3. CASE BeginSettle(o)
    <3>1. PICK p \in Payout \cup {Nothing} :
            /\ IF p = Nothing
                  THEN \A q \in Payout : HasLock(q, o) => payout[q].status \notin Cancelable
                  ELSE HasLock(p, o) /\ payout[p].status \in Cancelable
            /\ settling' = [settling EXCEPT ![o] = [on |-> TRUE, payout |-> p]]
      BY <2>3 DEF BeginSettle
    <3>2. \A q \in Payout : HasLock(q, o) /\ payout[q].status \in Cancelable => q = p
      <4>1. ASSUME NEW q \in Payout, HasLock(q, o), payout[q].status \in Cancelable PROVE q = p
        <5>1. p \in Payout /\ HasLock(p, o)
          BY <3>1, <4>1
        <5>2. p \in LivePayouts /\ q \in LivePayouts
          BY <4>1, <5>1 DEF IInv, HoldsWhileLive, HasLock
        <5> QED BY <4>1, <5>1, <5>2 DEF IInv, OrderInOnePayout, HasLock
      <4> QED BY <4>1
    <3>3. \A q \in Order : settling'[q] = IF q = o THEN [on |-> TRUE, payout |-> p] ELSE settling[q]
      BY <3>1 DEF IInv, Rows
    <3> QED BY <1>1, <3>2, <3>3 DEF IInv, FoundWhatIsOpen, HasLock
  <2> QED BY <2>1, <2>2, <2>3
<1>4. Rows' /\ Entered'
  BY <1>1, <1>2 DEF IInv, Rows, Entered
<1>5. HoldsWhileLive' /\ OrderInOnePayout' /\ RefundedIsNotPayable'
  <2>1. \A q \in Payout : payout[q].orders \subseteq Order
    BY DEF IInv, Rows, PayoutRow
  <2> QED BY <1>1, <1>2, <2>1 DEF IInv, HoldsWhileLive, OrderInOnePayout, RefundedIsNotPayable, LivePayouts
<1> QED BY <1>3, <1>4, <1>5 DEF IInv

(* A refund completes, and cancels the payout it found.                    *)
LEMMA CommitStep == ASSUME Apart, IInv, NEW o \in Order, CommitRefund(o) PROVE IInv'
<1> DEFINE p == settling[o].payout
<1>1. /\ settling[o].on /\ refund' = [refund EXCEPT ![o] = "COMPLETED"]
      /\ order' = [order EXCEPT ![o] = IF @ = "PAID" THEN "REFUNDED" ELSE @]
      /\ settling' = [settling EXCEPT ![o] = [on |-> FALSE, payout |-> Nothing]]
      /\ UNCHANGED call
  BY DEF CommitRefund, EndSettle
<1>2. /\ Wanes \/ UNCHANGED payout
      /\ \A q \in Payout : HasLock(q, o) => payout'[q].status \notin Cancelable
  <2>1. CASE p = Nothing
    BY <1>1, <2>1 DEF CommitRefund, Apart, IInv, FoundWhatIsOpen
  <2>2. CASE p # Nothing
    <3>1. p \in Payout /\ payout[p].status \in Cancelable /\ Withdraw(p)
      BY <2>2 DEF CommitRefund, CancelInTx, IInv, Rows, SettlingRow
    <3>2. Wanes
      BY <3>1, WithdrawWanes
    <3>3. payout'[p].status = "CANCELLED"
      BY <3>1 DEF Withdraw, IInv, Rows
    <3> QED BY <1>1, <3>2, <3>3 DEF Wanes, IInv, FoundWhatIsOpen, Cancelable
  <2> QED BY <2>1, <2>2
<1>3. Adds(ledger') /\ Has(ledger', "REFUND", o)
  <2>1. Adds(RecordRefund(ledger, o)) /\ Has(RecordRefund(ledger, o), "REFUND", o)
    BY RefundAdds
  <2>2. CASE ledger' = RecordRefund(ledger, o)
    BY <2>1, <2>2
  <2>3. CASE ledger' = RecordPayout(RecordRefund(ledger, o), "PAYOUT_REVERSED", p, payout[p].seller,
                                    payout[p].amount)
    <3> DEFINE e == [type |-> "PAYOUT_REVERSED", ref |-> p, seller |-> payout[p].seller,
                     amount |-> payout[p].amount]
               refunded == RecordRefund(ledger, o)
    <3>1. e.type = "PAYOUT_REVERSED" /\ ledger' = Insert(refunded, e)
      BY <2>3 DEF RecordPayout
    <3> HIDE DEF e, refunded
    <3>2. refunded \subseteq ledger' /\ ledger' \subseteq refunded \cup {e}
      BY <3>1, InsertKeeps
    <3> QED BY <2>1, <3>1, <3>2, HasKeeps DEF Adds, refunded
  <2> QED BY <2>2, <2>3 DEF CommitRefund, CancelInTx
<1>4. Rows'
  BY <1>1, <1>2 DEF IInv, Rows, Wanes, OrderStatus, RefundStatus, SettlingRow
<1>5. Entered'
  BY <1>1, <1>3, EnteredKeeps DEF IInv, Rows
<1>6. HoldsWhileLive' /\ OrderInOnePayout'
  BY <1>2 DEF IInv, Wanes, HoldsWhileLive, OrderInOnePayout, LivePayouts
<1>7. \A q \in Payout : /\ payout'[q].orders = payout[q].orders
                        /\ payout'[q].status \in Cancelable => payout[q].status \in Cancelable
                        /\ \A r \in Order : HasLock(q, r)' /\ payout'[q].status \in Cancelable => HasLock(q, r)
  BY <1>2 DEF Wanes, HasLock
<1>8. FoundWhatIsOpen'
  BY <1>1, <1>7 DEF IInv, Rows, FoundWhatIsOpen
<1>9. RefundedIsNotPayable'
  <2>1. \A q \in Payout : payout[q].status \in Cancelable => payout[q].locksOrder
    BY DEF IInv, HoldsWhileLive, LivePayouts, Cancelable
  <2> QED BY <1>1, <1>2, <1>7, <2>1 DEF IInv, Rows, RefundedIsNotPayable, HasLock
<1> QED BY <1>4, <1>5, <1>6, <1>8, <1>9 DEF IInv

----------------------------------------------------------------------------
LEMMA Inductive == ASSUME Apart PROVE IInv /\ [Next]_vars => IInv'
<1>1. ASSUME IInv, NEW o \in Order, OrderStep(o) PROVE IInv'
  BY <1>1, ConfirmStep, RefundWaits, CommitStep DEF OrderStep
<1>2. ASSUME IInv, NEW p \in Payout, PayoutStep(p) PROVE IInv'
  BY <1>2, CreateStep, StaffStep DEF PayoutStep
<1>3. ASSUME IInv, NEW k \in Call, CallStep(k) PROVE IInv'
  BY <1>3, CallStarts, CallGoesOn, CallPays DEF CallStep
<1>4. ASSUME IInv, NEW s \in Seller, SellerStep(s) PROVE IInv'
  BY <1>4, StaffStep DEF SellerStep
<1>5. ASSUME IInv, UNCHANGED vars PROVE IInv'
  BY <1>5, NothingMoves DEF vars, moneyVars, callVars
<1> QED BY <1>1, <1>2, <1>3, <1>4, <1>5 DEF Next

(* No order is paid out twice, whatever calls overlap: the live payouts    *)
(* have no order in common (payouts.service.ts:496).                       *)
THEOREM NoOrderPaidTwice ==
  ASSUME Apart
  PROVE  Spec => []OrderInOnePayout
<1>1. IInv => OrderInOnePayout
  BY DEF IInv
<1> QED BY <1>1, InitIInv, Inductive, PTL DEF Spec

(* A refund and a payout of one order made at the same time never both go  *)
(* through: a payout that can be cancelled holds no refunded order         *)
(* (payouts.service.ts:365).                                               *)
THEOREM NoRefundedOrderWaits ==
  ASSUME Apart
  PROVE  Spec => []RefundedIsNotPayable
<1>1. IInv => RefundedIsNotPayable
  BY DEF IInv
<1> QED BY <1>1, InitIInv, Inductive, PTL DEF Spec
----------------------------------------------------------------------------
(* A disputed order is withdrawn from the payouts that are still open.     *)

\* A dispute that a call decides about exists.
DisputesKnown ==
    /\ dispute \in [Dispute -> DisputeRow]
    /\ \A k \in Call : call[k].stage = "deciding" =>
           /\ call[k].dispute \in Dispute /\ dispute[call[k].dispute].status # "NONE"
           /\ call[k].status \in {"ACTIVE", "CLOSED"}

DisputeInv == DisputesKnown /\ DisputedIsWithdrawn

\* An open payout holds the order of an active dispute; a call is about to
\* cancel the payout for it.
Holding(p, d) ==
    /\ payout[p].status \in Cancelable
    /\ dispute[d].status = "ACTIVE"
    /\ dispute[d].order \in payout[p].orders

OnItsWay(k, p, d) ==
    /\ call[k].order = dispute[d].order
    /\ \/ call[k].stage = "opened"
       \/ call[k].stage = "found" /\ call[k].payout = p

Excused(p, d) == d \in reopened \/ \E k \in Call : OnItsWay(k, p, d)

LEMMA WithdrawnMeans ==
  DisputedIsWithdrawn <=> \A p \in Payout, d \in Dispute : Holding(p, d) => Excused(p, d)
BY DEF DisputedIsWithdrawn, Holding, Excused, OnItsWay

\* No payout takes other orders, and none becomes open again.
NothingOpens ==
    \A p \in Payout : /\ payout'[p].orders = payout[p].orders
                      /\ payout'[p].status \in Cancelable => payout[p].status \in Cancelable

LEMMA StatusOpensNothing ==
  ASSUME payout \in [Payout -> PayoutRow], NEW p \in Payout, NEW status, SetPayout(p, status),
         status \in Cancelable => payout[p].status \in Cancelable
  PROVE  NothingOpens
<1>1. \A q \in Payout : payout'[q] = IF q = p THEN [payout[p] EXCEPT !.status = status] ELSE payout[q]
  BY DEF SetPayout
<1>2. payout[p] \in PayoutRow
  OBVIOUS
<1>3. /\ [payout[p] EXCEPT !.status = status].orders = payout[p].orders
      /\ [payout[p] EXCEPT !.status = status].status = status
  BY <1>2 DEF PayoutRow
<1> QED BY <1>1, <1>3 DEF NothingOpens

LEMMA WithdrawalOpensNothing ==
  ASSUME payout \in [Payout -> PayoutRow], NEW p \in Payout, Withdraw(p)
  PROVE  NothingOpens /\ payout'[p].status = "CANCELLED"
BY DEF Withdraw, NothingOpens, Cancelable

(* Only the creation of a payout gives it orders.                          *)
LEMMA OnlyCreationOpens ==
  ASSUME IInv,
         \/ \E o \in Order : OrderStep(o)
         \/ \E p \in Payout : Approve(p) \/ Cancel(p) \/ Fail(p)
         \/ \E k \in Call : CallStep(k)
         \/ \E s \in Seller : SellerStep(s)
  PROVE  NothingOpens
<1>1. payout \in [Payout -> PayoutRow] /\ (UNCHANGED payout => NothingOpens)
  BY DEF IInv, Rows, NothingOpens
<1>2. ASSUME NEW o \in Order, OrderStep(o) PROVE NothingOpens
  <2>1. CASE CommitRefund(o)
    <3>1. \/ UNCHANGED payout
          \/ settling[o].payout \in Payout /\ Withdraw(settling[o].payout)
      BY <2>1 DEF CommitRefund, CancelInTx, IInv, Rows, SettlingRow
    <3> QED BY <1>1, <3>1, WithdrawalOpensNothing
  <2> QED BY <1>1, <1>2, <2>1 DEF OrderStep, Confirm, RequestRefund, BeginSettle, AbortRefund
<1>3. ASSUME NEW p \in Payout, Approve(p) \/ Cancel(p) \/ Fail(p) PROVE NothingOpens
  BY <1>1, <1>3, StatusOpensNothing, WithdrawalOpensNothing
     DEF Approve, Cancel, Fail, CancelInTx, Cancelable
<1>4. ASSUME NEW k \in Call, CallStep(k) PROVE NothingOpens
  <2> DEFINE p == call[k].payout
  <2>1. CASE MarkProcessing(k)
    <3>1. p \in Payout
      BY <2>1 DEF MarkProcessing, IInv, Rows
    <3>2. UNCHANGED payout \/ SetPayout(p, "PROCESSING")
      BY <2>1 DEF MarkProcessing
    <3> QED BY <1>1, <3>1, <3>2, StatusOpensNothing DEF Cancelable
  <2>2. CASE MarkPaid(k)
    <3>1. p \in Payout
      BY <2>2 DEF MarkPaid, IInv, Rows
    <3>2. UNCHANGED payout \/ SetPayout(p, "PAID")
      BY <2>2 DEF MarkPaid
    <3> QED BY <1>1, <3>1, <3>2, StatusOpensNothing DEF Cancelable
  <2>3. CASE CancelForDispute(k)
    <3>1. p \in Payout
      BY <2>3 DEF CancelForDispute, IInv, Rows
    <3>2. UNCHANGED payout \/ Withdraw(p)
      BY <2>3 DEF CancelForDispute, CancelInTx
    <3> QED BY <1>1, <3>1, <3>2, WithdrawalOpensNothing
  <2> QED BY <1>1, <1>4, <2>1, <2>2, <2>3
          DEF CallStep, ReadToShip, ReadForDispute, ReadForProcessing, ReadForPaid, OpenDispute,
              ReadForDecision, Ship, DisputeAlreadyOpen, FindPayout, Decide
<1>5. ASSUME NEW s \in Seller, SellerStep(s) PROVE NothingOpens
  BY <1>1, <1>5 DEF SellerStep, Suspend, Restore, Adjust
<1> QED BY <1>2, <1>3, <1>4, <1>5

(* A step that opens no payout and writes no dispute keeps every excuse    *)
(* but those of the calls it moves.                                        *)
LEMMA QuietKeeps ==
  ASSUME IInv, DisputeInv, NothingOpens, UNCHANGED dispute, reopened \subseteq reopened',
         \A k \in Call : \/ UNCHANGED call[k]
                        \/ /\ call[k].stage \notin {"opened", "found"}
                           /\ call'[k].stage # "deciding"
                        \/ /\ call'[k].stage # "deciding"
                           /\ \A p \in Payout, d \in Dispute :
                                 OnItsWay(k, p, d) /\ Holding(p, d)' /\ Holding(p, d) => OnItsWay(k, p, d)'
  PROVE  DisputeInv'
<1>1. \A p \in Payout, d \in Dispute : Holding(p, d)' => Holding(p, d)
  BY DEF NothingOpens, Holding
<1>2. \A p \in Payout, d \in Dispute, k \in Call :
         Holding(p, d)' /\ OnItsWay(k, p, d) => OnItsWay(k, p, d)'
  <2> SUFFICES ASSUME NEW p \in Payout, NEW d \in Dispute, NEW k \in Call,
                      Holding(p, d)', OnItsWay(k, p, d)
               PROVE  OnItsWay(k, p, d)'
    OBVIOUS
  <2>1. CASE UNCHANGED call[k]
    BY <2>1 DEF OnItsWay
  <2>2. CASE ~UNCHANGED call[k]
    <3>1. call[k].stage \in {"opened", "found"}
      BY DEF OnItsWay
    <3> QED BY <1>1, <2>2, <3>1
  <2> QED BY <2>1, <2>2
<1>3. \A p \in Payout, d \in Dispute : Holding(p, d)' => Excused(p, d)'
  BY <1>1, <1>2, WithdrawnMeans DEF DisputeInv, Excused
<1>4. DisputedIsWithdrawn'
  BY <1>3 DEF DisputedIsWithdrawn, Holding, Excused, OnItsWay
<1>5. DisputesKnown'
  BY DEF DisputeInv, DisputesKnown
<1> QED BY <1>4, <1>5 DEF DisputeInv
(* Before anything happens nothing is disputed.                            *)
LEMMA InitDisputes == Init => DisputeInv
BY DEF Init, DisputeInv, DisputesKnown, DisputedIsWithdrawn, DisputeRow, DisputeStatus, Idle, Cancelable

(* A payout is created of orders that nobody disputes.                     *)
LEMMA CreateUndisputed ==
  ASSUME IInv, DisputeInv, NEW p \in Payout, NEW s \in Seller, CreatePayout(p, s)
  PROVE  DisputeInv'
<1>1. PICK S \in SUBSET AvailableObligations(s), amount \in Int :
        payout' = [payout EXCEPT ![p] = [status |-> "PENDING", seller |-> s, orders |-> S,
                                         amount |-> amount, locksOrder |-> TRUE]]
  BY DEF CreatePayout
<1>2. UNCHANGED <<dispute, call, reopened>>
  BY DEF CreatePayout, callVars
<1>3. \A d \in Dispute : dispute[d].status = "ACTIVE" => dispute[d].order \notin S
  BY DEF AvailableObligations, Disputed
<1>4. \A q \in Payout : payout'[q].orders = IF q = p THEN S ELSE payout[q].orders
  BY <1>1 DEF IInv, Rows
<1>5. \A q \in Payout, d \in Dispute : Holding(q, d)' => Holding(q, d)
  <2>1. \A q \in Payout \ {p} : payout'[q] = payout[q]
    BY <1>1 DEF IInv, Rows
  <2> QED BY <1>2, <1>3, <1>4, <2>1 DEF Holding
<1>6. DisputedIsWithdrawn'
  BY <1>2, <1>5, WithdrawnMeans DEF DisputeInv, DisputedIsWithdrawn, Holding, Excused, OnItsWay
<1> QED BY <1>2, <1>6 DEF DisputeInv, DisputesKnown

(* A dispute opens: its call sets out to find the payout.                  *)
LEMMA OpenSetsOut ==
  ASSUME IInv, DisputeInv, NEW k \in Call, NEW d \in Dispute, OpenDispute(k, d)
  PROVE  DisputeInv'
<1> DEFINE o == call[k].order
<1>1. /\ call[k].stage = "opening" /\ call' = [call EXCEPT ![k].stage = "opened"]
      /\ dispute' = [dispute EXCEPT ![d] = [status |-> "ACTIVE", order |-> o]]
      /\ UNCHANGED <<payout, reopened>>
  BY DEF OpenDispute
<1>2. /\ call'[k].stage = "opened" /\ call'[k].order = o
      /\ \A j \in Call \ {k} : call'[j] = call[j]
  BY <1>1 DEF IInv, Rows, CallRow
<1>3. /\ dispute'[d].order = o /\ \A e \in Dispute \ {d} : dispute'[e] = dispute[e]
      /\ dispute' \in [Dispute -> DisputeRow]
      /\ \A e \in Dispute : dispute'[e].status = "NONE" => dispute[e].status = "NONE"
  BY <1>1 DEF IInv, Rows, CallRow, DisputeInv, DisputesKnown, DisputeRow, DisputeStatus
<1>4. \A p \in Payout, e \in Dispute : Holding(p, e)' => Excused(p, e)'
  <2> SUFFICES ASSUME NEW p \in Payout, NEW e \in Dispute, Holding(p, e)' PROVE Excused(p, e)'
    OBVIOUS
  <2>1. CASE e = d
    BY <1>2, <1>3, <2>1 DEF Excused, OnItsWay
  <2>2. CASE e # d
    <3>1. Holding(p, e)
      BY <1>1, <1>3, <2>2 DEF Holding
    <3>2. CASE e \in reopened
      BY <1>1, <3>2 DEF Excused
    <3>3. CASE \E j \in Call : OnItsWay(j, p, e)
      <4>1. PICK j \in Call : OnItsWay(j, p, e)
        BY <3>3
      <4>2. j # k
        BY <1>1, <4>1 DEF OnItsWay
      <4>3. OnItsWay(j, p, e)'
        BY <1>2, <1>3, <2>2, <4>1, <4>2 DEF OnItsWay
      <4> QED BY <4>3 DEF Excused
    <3> QED BY <3>1, <3>2, <3>3, WithdrawnMeans DEF DisputeInv, Excused
  <2> QED BY <2>1, <2>2
<1>5. DisputedIsWithdrawn'
  BY <1>4 DEF DisputedIsWithdrawn, Holding, Excused, OnItsWay
<1>6. DisputesKnown'
  BY <1>2, <1>3 DEF DisputeInv, DisputesKnown
<1> QED BY <1>5, <1>6 DEF DisputeInv

(* It finds the payout that holds the order, the only one there is, or     *)
(* that none can be cancelled.                                             *)
LEMMA FindKeeps ==
  ASSUME IInv, DisputeInv, NEW k \in Call, FindPayout(k)
  PROVE  DisputeInv'
<1>1. call[k].stage = "opened" /\ UNCHANGED <<order, payout, dispute, reopened>>
  BY DEF FindPayout
<1>2. \A q \in Payout, d \in Dispute :
        Holding(q, d) /\ dispute[d].order = call[k].order => HasLock(q, call[k].order)
  BY DEF Holding, HasLock, IInv, HoldsWhileLive, LivePayouts, Cancelable
<1>3. NothingOpens
  BY <1>1 DEF NothingOpens
<1>4. CASE /\ \A p \in Payout : HasLock(p, call[k].order) => payout[p].status \notin Cancelable
           /\ Finish(k)
  <2>1. \A j \in Call : call'[j] = IF j = k THEN Idle ELSE call[j]
    BY <1>4 DEF Finish, IInv, Rows
  <2>2. \A q \in Payout, d \in Dispute : ~(OnItsWay(k, q, d) /\ Holding(q, d))
    BY <1>2, <1>4 DEF Holding, OnItsWay
  <2> QED BY <1>1, <1>3, <2>1, <2>2, QuietKeeps DEF Idle
<1>5. ASSUME NEW p \in Payout, HasLock(p, call[k].order), payout[p].status \in Cancelable,
             call' = [call EXCEPT ![k] = [stage |-> "found", order |-> @.order, payout |-> p,
                                          dispute |-> @.dispute, status |-> @.status]]
      PROVE  DisputeInv'
  <2>1. /\ \A j \in Call \ {k} : call'[j] = call[j]
        /\ call'[k].stage = "found" /\ call'[k].order = call[k].order /\ call'[k].payout = p
    BY <1>5 DEF IInv, Rows
  <2>2. \A q \in Payout : HasLock(q, call[k].order) => q = p
    BY <1>5 DEF IInv, HoldsWhileLive, OrderInOnePayout, HasLock
  <2>3. \A q \in Payout, d \in Dispute :
          OnItsWay(k, q, d) /\ Holding(q, d) => OnItsWay(k, q, d)'
    BY <1>1, <1>2, <2>1, <2>2 DEF OnItsWay
  <2> QED BY <1>1, <1>3, <2>1, <2>3, QuietKeeps
<1> QED BY <1>4, <1>5 DEF FindPayout

(* It cancels the payout, unless that can no longer be cancelled.          *)
LEMMA CancelKeeps ==
  ASSUME IInv, DisputeInv, NEW k \in Call, CancelForDispute(k)
  PROVE  DisputeInv'
<1> DEFINE p == call[k].payout
<1>1. /\ call[k].stage = "found" /\ UNCHANGED <<dispute, reopened>> /\ p \in Payout
      /\ \A j \in Call : call'[j] = IF j = k THEN Idle ELSE call[j]
  BY DEF CancelForDispute, Finish, IInv, Rows
<1>2. payout'[p].status \notin Cancelable
  BY <1>1, WithdrawalOpensNothing DEF CancelForDispute, CancelInTx, IInv, Rows, Cancelable
<1>3. NothingOpens
  BY OnlyCreationOpens DEF CallStep
<1>4. \A q \in Payout, d \in Dispute : ~(OnItsWay(k, q, d) /\ Holding(q, d)')
  BY <1>1, <1>2 DEF OnItsWay, Holding
<1> QED BY <1>1, <1>3, <1>4, QuietKeeps DEF Idle

(* A decision is prepared, and written: a dispute that becomes active by   *)
(* it was closed meanwhile.                                                *)
LEMMA DecisionKeeps ==
  ASSUME IInv, DisputeInv, NEW k \in Call,
         Decide(k) \/ \E d \in Dispute, status \in {"ACTIVE", "CLOSED"} : ReadForDecision(k, d, status)
  PROVE  DisputeInv'
<1>1. CASE Decide(k)
  <2> DEFINE d == call[k].dispute
  <2>1. /\ call[k].stage = "deciding" /\ UNCHANGED <<payout>>
        /\ \A j \in Call : call'[j] = IF j = k THEN Idle ELSE call[j]
        /\ d \in Dispute /\ dispute[d].status # "NONE" /\ dispute \in [Dispute -> DisputeRow]
    BY <1>1 DEF Decide, Finish, IInv, Rows, DisputeInv, DisputesKnown
  <2>2. CASE UNCHANGED <<dispute, reopened>>
    <3>1. NothingOpens
      BY <2>1 DEF NothingOpens
    <3> QED BY <2>1, <2>2, <3>1, QuietKeeps DEF Idle
  <2>3. CASE /\ dispute' = [dispute EXCEPT ![d].status = call[k].status]
             /\ reopened' = IF Reopens(d, call[k].status) THEN reopened \cup {d} ELSE reopened
    <3>1. /\ \A e \in Dispute : dispute'[e].order = dispute[e].order
          /\ \A e \in Dispute \ {d} : dispute'[e] = dispute[e]
          /\ dispute'[d].status = call[k].status
      BY <2>1, <2>3 DEF DisputeRow
    <3>2. \A e \in Dispute : dispute'[e].status = "ACTIVE" => dispute[e].status = "ACTIVE" \/ e \in reopened'
      BY <2>1, <2>3, <3>1 DEF Reopens, DisputeRow, DisputeStatus
    <3>3. \A p \in Payout, e \in Dispute : Holding(p, e)' => Excused(p, e)'
      <4>1. \A p \in Payout, e \in Dispute : Holding(p, e)' => Holding(p, e) \/ e \in reopened'
        BY <2>1, <3>1, <3>2 DEF Holding
      <4>2. \A p \in Payout, e \in Dispute, j \in Call : OnItsWay(j, p, e) => OnItsWay(j, p, e)'
        BY <2>1, <3>1 DEF OnItsWay
      <4>3. reopened \subseteq reopened'
        BY <2>3
      <4> QED BY <4>1, <4>2, <4>3, WithdrawnMeans DEF DisputeInv, Excused
    <3>4. DisputedIsWithdrawn'
      BY <3>3 DEF DisputedIsWithdrawn, Holding, Excused, OnItsWay
    <3>5. call[k].status \in {"ACTIVE", "CLOSED"}
      BY <2>1 DEF DisputeInv, DisputesKnown
    <3>6. dispute' \in [Dispute -> DisputeRow] /\ \A e \in Dispute : dispute[e].status # "NONE" => dispute'[e].status # "NONE"
      BY <2>1, <2>3, <3>1, <3>5 DEF DisputeRow, DisputeStatus
    <3>7. DisputesKnown'
      BY <2>1, <3>6 DEF DisputeInv, DisputesKnown, Idle
    <3> QED BY <3>4, <3>7 DEF DisputeInv
  <2> QED BY <1>1, <2>2, <2>3 DEF Decide
<1>2. ASSUME NEW d \in Dispute, NEW status \in {"ACTIVE", "CLOSED"}, ReadForDecision(k, d, status)
      PROVE  DisputeInv'
  <2> DEFINE row == [Idle EXCEPT !.stage = "deciding", !.dispute = d, !.status = status]
  <2>1. row.stage = "deciding" /\ row.dispute = d /\ row.status = status
    BY DEF Idle
  <2> HIDE DEF row
  <2>2. /\ UNCHANGED <<payout, dispute, reopened>> /\ call[k].stage = "idle"
        /\ dispute[d].status = "ACTIVE"
        /\ \A j \in Call : call'[j] = IF j = k THEN row ELSE call[j]
    BY <1>2 DEF ReadForDecision, Begin, IInv, Rows, row
  <2>3. DisputesKnown'
    BY <2>1, <2>2 DEF DisputeInv, DisputesKnown
  <2>4. DisputedIsWithdrawn'
    BY <2>1, <2>2 DEF DisputeInv, DisputedIsWithdrawn
  <2> QED BY <2>3, <2>4 DEF DisputeInv
<1> QED BY <1>1, <1>2

(* Every other step leaves the disputes, and the calls on their way, alone.*)
LEMMA OthersKeep ==
  ASSUME IInv, DisputeInv,
         \/ \E o \in Order : OrderStep(o)
         \/ \E p \in Payout : Approve(p) \/ Cancel(p) \/ Fail(p)
         \/ \E s \in Seller : SellerStep(s)
  PROVE  DisputeInv'
<1>1. NothingOpens
  BY OnlyCreationOpens
<1>2. UNCHANGED <<dispute, call, reopened>>
  BY DEF OrderStep, Confirm, RequestRefund, BeginSettle, CommitRefund, AbortRefund, EndSettle, Approve,
         Cancel, Fail, SellerStep, Suspend, Restore, Adjust, callVars, moneyVars
<1> QED BY <1>1, <1>2, QuietKeeps

LEMMA OtherCallsKeep ==
  ASSUME IInv, DisputeInv, NEW k \in Call,
         \/ \E o \in Order : ReadToShip(k, o) \/ ReadForDispute(k, o)
         \/ \E p \in Payout : ReadForProcessing(k, p) \/ ReadForPaid(k, p)
         \/ Ship(k) \/ MarkProcessing(k) \/ MarkPaid(k) \/ DisputeAlreadyOpen(k)
  PROVE  DisputeInv'
<1>1. NothingOpens
  BY OnlyCreationOpens DEF CallStep
<1>2. UNCHANGED <<dispute, reopened>>
  BY DEF ReadToShip, ReadForDispute, ReadForProcessing, ReadForPaid, Ship, MarkProcessing, MarkPaid,
         DisputeAlreadyOpen
<1>3. call[k].stage \notin {"opened", "found"}
  BY DEF ReadToShip, ReadForDispute, ReadForProcessing, ReadForPaid, Begin, Ship, MarkProcessing,
         MarkPaid, DisputeAlreadyOpen
<1>4. \A j \in Call \ {k} : call'[j] = call[j]
  BY DEF ReadToShip, ReadForDispute, ReadForProcessing, ReadForPaid, Begin, Ship, MarkProcessing,
         MarkPaid, DisputeAlreadyOpen, Finish, IInv, Rows
<1>5. call'[k].stage # "deciding"
  <2>1. CASE \E o \in Order : ReadToShip(k, o) \/ ReadForDispute(k, o)
    BY <2>1 DEF ReadToShip, ReadForDispute, Begin, IInv, Rows, Idle
  <2>2. CASE \E p \in Payout : ReadForProcessing(k, p) \/ ReadForPaid(k, p)
    BY <2>2 DEF ReadForProcessing, ReadForPaid, Begin, IInv, Rows, Idle
  <2>3. CASE Ship(k) \/ MarkProcessing(k) \/ MarkPaid(k) \/ DisputeAlreadyOpen(k)
    BY <2>3 DEF Ship, MarkProcessing, MarkPaid, DisputeAlreadyOpen, Finish, IInv, Rows, Idle
  <2> QED BY <2>1, <2>2, <2>3
<1> QED BY <1>1, <1>2, <1>3, <1>4, <1>5, QuietKeeps

LEMMA DisputesInductive == IInv /\ DisputeInv /\ [Next]_vars => DisputeInv'
<1>1. ASSUME IInv, DisputeInv, UNCHANGED vars PROVE DisputeInv'
  BY <1>1 DEF vars, callVars, DisputeInv, DisputesKnown, DisputedIsWithdrawn
<1>2. ASSUME IInv, DisputeInv, NEW p \in Payout, PayoutStep(p) PROVE DisputeInv'
  BY <1>2, CreateUndisputed, OthersKeep DEF PayoutStep
<1>3. ASSUME IInv, DisputeInv, NEW k \in Call, CallStep(k) PROVE DisputeInv'
  BY <1>3, OtherCallsKeep, OpenSetsOut, FindKeeps, CancelKeeps, DecisionKeeps DEF CallStep
<1> QED BY <1>1, <1>2, <1>3, OthersKeep DEF Next

(* A payout that can still be cancelled holds a disputed order only while  *)
(* the call that opened the dispute is about to cancel it, or because a    *)
(* late decision made the dispute active again (payouts.service.ts:327).   *)
THEOREM DisputedOrdersAreWithdrawn ==
  ASSUME Apart
  PROVE  Spec => []DisputedIsWithdrawn
<1>1. DisputeInv => DisputedIsWithdrawn
  BY DEF DisputeInv
<1> QED BY <1>1, InitIInv, Inductive, InitDisputes, DisputesInductive, PTL DEF Spec

----------------------------------------------------------------------------
(* The ledger lacks nothing: every event that should have entered something *)
(* did, in the transaction in which it happened.                           *)

\* What has been entered of an order and of a payout.
EventsEntered ==
    /\ \A o \in Order : Has(ledger, "PAYMENT_CAPTURED", o)
    /\ \A o \in Order : order[o] = "COMPLETED" \/ payment[o].status = "RELEASED" =>
           /\ Has(ledger, "SELLER_PAYABLE", o)
           /\ Commission[o] # 0 => Has(ledger, "PLATFORM_FEE", o)
    /\ \A p \in Payout : payout[p].status = "PAID" => Has(ledger, "PAYOUT_PAID", p)

\* The rows that Rows says nothing of.
OtherRows ==
    /\ payment \in [Order -> PaymentRow]
    /\ ledger \subseteq Entry
    /\ dispute \in [Dispute -> DisputeRow]
    /\ suspended \subseteq Seller
    /\ reopened \subseteq Dispute

LedgerInv == OtherRows /\ EventsEntered

LEMMA RowsAreTyped == IInv /\ LedgerInv => TypeOK
BY DEF IInv, Rows, LedgerInv, OtherRows, TypeOK

(* What is to be entered is an entry.                                      *)
LEMMA NetIsInt == ASSUME NEW o \in Order PROVE Net(o) \in Int /\ -Net(o) \in Int
BY MoneyAssumption DEF Net

LEMMA OrderEntries ==
  ASSUME NEW o \in Order
  PROVE  /\ OrderEntry("PAYMENT_CAPTURED", o, Net(o)) \in Entry
         /\ OrderEntry("SELLER_PAYABLE", o, Net(o)) \in Entry
         /\ OrderEntry("REFUND", o, -Net(o)) \in Entry
         /\ FeeEntry(o) \in Entry
BY NetIsInt, MoneyAssumption DEF OrderEntry, FeeEntry, Entry, EntryType

LEMMA InsertTyped ==
  ASSUME NEW entries \in SUBSET Entry, NEW e \in Entry
  PROVE  Insert(entries, e) \subseteq Entry /\ Has(Insert(entries, e), e.type, e.ref)
BY InsertKeeps

LEMMA ReleaseEnters ==
  ASSUME NEW entries \in SUBSET Entry, NEW o \in Order
  PROVE  /\ RecordRelease(entries, o) \subseteq Entry
         /\ entries \subseteq RecordRelease(entries, o)
         /\ Has(RecordRelease(entries, o), "SELLER_PAYABLE", o)
         /\ Commission[o] # 0 => Has(RecordRelease(entries, o), "PLATFORM_FEE", o)
<1> DEFINE e == OrderEntry("SELLER_PAYABLE", o, Net(o))
           f == FeeEntry(o)
           payable == Insert(entries, e)
<1>1. /\ e \in Entry /\ e.type = "SELLER_PAYABLE" /\ e.ref = o
      /\ f \in Entry /\ f.type = "PLATFORM_FEE" /\ f.ref = o
  BY OrderEntries DEF OrderEntry, FeeEntry
<1>2. RecordRelease(entries, o) = IF Commission[o] # 0 THEN Insert(payable, f) ELSE payable
  BY DEF RecordRelease
<1> HIDE DEF e, f
<1>3. /\ payable \subseteq Entry /\ entries \subseteq payable /\ Has(payable, "SELLER_PAYABLE", o)
  BY <1>1, InsertKeeps, InsertTyped
<1> HIDE DEF payable
<1>4. /\ Insert(payable, f) \subseteq Entry /\ payable \subseteq Insert(payable, f)
      /\ Has(Insert(payable, f), "PLATFORM_FEE", o)
  BY <1>1, <1>3, InsertKeeps, InsertTyped
<1>5. Has(Insert(payable, f), "SELLER_PAYABLE", o)
  BY <1>3, <1>4, HasKeeps
<1> QED BY <1>2, <1>3, <1>4, <1>5

LEMMA RefundEnters ==
  ASSUME NEW entries \in SUBSET Entry, NEW o \in Order
  PROVE  RecordRefund(entries, o) \subseteq Entry /\ entries \subseteq RecordRefund(entries, o)
<1> DEFINE e == OrderEntry("REFUND", o, -Net(o))
<1>1. e \in Entry /\ RecordRefund(entries, o) = Insert(entries, e)
  BY OrderEntries DEF RecordRefund
<1> HIDE DEF e
<1> QED BY <1>1, InsertKeeps, InsertTyped

LEMMA PayoutEnters ==
  ASSUME NEW entries \in SUBSET Entry, NEW type \in EntryType, NEW p \in Payout,
         NEW seller \in Seller \cup {Nothing}, NEW amount \in Int
  PROVE  /\ RecordPayout(entries, type, p, seller, amount) \subseteq Entry
         /\ entries \subseteq RecordPayout(entries, type, p, seller, amount)
         /\ Has(RecordPayout(entries, type, p, seller, amount), type, p)
<1> DEFINE e == [type |-> type, ref |-> p, seller |-> seller, amount |-> amount]
<1>1. /\ e \in Entry /\ e.type = type /\ e.ref = p
      /\ RecordPayout(entries, type, p, seller, amount) = Insert(entries, e)
  BY DEF RecordPayout, Entry
<1> HIDE DEF e
<1> QED BY <1>1, InsertKeeps, InsertTyped

LEMMA PayoutTypes ==
  /\ "PAYOUT_RESERVED" \in EntryType /\ "PAYOUT_REVERSED" \in EntryType /\ "PAYOUT_PAID" \in EntryType
  /\ LedgerInv => ledger \in SUBSET Entry
BY DEF EntryType, LedgerInv, OtherRows

LEMMA StatusIsSet ==
  ASSUME payout \in [Payout -> PayoutRow], NEW p \in Payout, NEW status, SetPayout(p, status)
  PROVE  \A q \in Payout : payout'[q].status = IF q = p THEN status ELSE payout[q].status
<1>1. \A q \in Payout : payout'[q] = IF q = p THEN [payout[p] EXCEPT !.status = status] ELSE payout[q]
  BY DEF SetPayout
<1>2. payout[p] \in PayoutRow
  OBVIOUS
<1>3. [payout[p] EXCEPT !.status = status].status = status
  BY <1>2 DEF PayoutRow
<1> QED BY <1>1, <1>3

LEMMA AdjustmentEnters ==
  ASSUME NEW entries \in SUBSET Entry, NEW a \in Adjustment, NEW s \in Seller, NEW amount \in Int
  PROVE  /\ RecordAdjustment(entries, a, s, amount) \subseteq Entry
         /\ entries \subseteq RecordAdjustment(entries, a, s, amount)
<1> DEFINE e == [type |-> "ADJUSTMENT", ref |-> a, seller |-> s, amount |-> amount]
<1>1. e \in Entry /\ RecordAdjustment(entries, a, s, amount) = Insert(entries, e)
  BY DEF RecordAdjustment, Entry, EntryType
<1> HIDE DEF e
<1> QED BY <1>1, InsertKeeps, InsertTyped

----------------------------------------------------------------------------
LEMMA InitLedger == Init => LedgerInv
<1> SUFFICES ASSUME Init PROVE LedgerInv
  OBVIOUS
<1>1. OtherRows
  BY OrderEntries DEF Init, OtherRows, PaymentRow, DisputeRow, DisputeStatus
<1>2. \A o \in Order : Has(ledger, "PAYMENT_CAPTURED", o)
  <2>1. \A o \in Order : /\ OrderEntry("PAYMENT_CAPTURED", o, Net(o)).type = "PAYMENT_CAPTURED"
                         /\ OrderEntry("PAYMENT_CAPTURED", o, Net(o)).ref = o
    BY DEF OrderEntry
  <2> QED BY <2>1 DEF Init, Has
<1>3. /\ \A o \in Order : order[o] # "COMPLETED" /\ payment[o].status # "RELEASED"
      /\ \A p \in Payout : payout[p].status # "PAID"
  BY DEF Init
<1> QED BY <1>1, <1>2, <1>3 DEF LedgerInv, EventsEntered

(* A step that completes no order, releases no payment and pays no payout  *)
(* has nothing to enter; what it enters besides is typed.                  *)
LEMMA NothingDue ==
  ASSUME LedgerInv, OtherRows', ledger \subseteq ledger',
         \A o \in Order : /\ order'[o] = "COMPLETED" => order[o] = "COMPLETED"
                          /\ payment'[o].status = "RELEASED" => payment[o].status = "RELEASED",
         \A p \in Payout : payout'[p].status = "PAID" =>
                               payout[p].status = "PAID" \/ Has(ledger', "PAYOUT_PAID", p)
  PROVE  LedgerInv'
<1>1. \A type, ref : Has(ledger, type, ref) => Has(ledger', type, ref)
  BY HasKeeps
<1> QED BY <1>1 DEF LedgerInv, EventsEntered

LEMMA OrderEntersIt == ASSUME IInv, LedgerInv, NEW o \in Order, OrderStep(o) PROVE LedgerInv'
<1> USE DEF callVars
<1>1. CASE Confirm(o)
  <2>1. OtherRows'
    BY <1>1, ReleaseEnters DEF Confirm, LedgerInv, OtherRows, PaymentRow
  <2>2. \A type, ref : Has(ledger, type, ref) => Has(ledger', type, ref)
    BY <1>1, ReleaseEnters, HasKeeps DEF Confirm, LedgerInv, OtherRows
  <2>3. Has(ledger', "SELLER_PAYABLE", o) /\ (Commission[o] # 0 => Has(ledger', "PLATFORM_FEE", o))
    BY <1>1, ReleaseEnters DEF Confirm, LedgerInv, OtherRows
  <2>4. \A q \in Order \ {o} : order'[q] = order[q] /\ payment'[q] = payment[q]
    BY <1>1 DEF Confirm, IInv, Rows, LedgerInv, OtherRows
  <2> QED BY <1>1, <2>1, <2>2, <2>3, <2>4 DEF Confirm, LedgerInv, EventsEntered
<1>2. CASE RequestRefund(o) \/ BeginSettle(o) \/ AbortRefund(o)
  BY <1>2, NothingDue DEF RequestRefund, BeginSettle, AbortRefund, EndSettle, moneyVars, LedgerInv, OtherRows
<1>3. CASE CommitRefund(o)
  <2> DEFINE p == settling[o].payout
             refunded == RecordRefund(ledger, o)
  <2>1. refunded \subseteq Entry /\ ledger \subseteq refunded
    BY RefundEnters DEF LedgerInv, OtherRows
  <2> HIDE DEF refunded
  <2>2. ledger' \subseteq Entry /\ ledger \subseteq ledger' /\ \A q \in Payout : payout'[q].status = "PAID" => payout[q].status = "PAID"
    <3>1. CASE p = Nothing
      BY <1>3, <2>1, <3>1 DEF CommitRefund, refunded
    <3>2. CASE p # Nothing
      <4>1. p \in Payout /\ payout[p] \in PayoutRow /\ CancelInTx(p, refunded)
        BY <1>3, <3>2 DEF CommitRefund, IInv, Rows, SettlingRow, refunded
      <4>2. payout[p].amount \in Int /\ payout[p].seller \in Seller \cup {Nothing}
        BY <4>1 DEF PayoutRow
      <4>3. ledger' \subseteq Entry /\ refunded \subseteq ledger'
        BY <2>1, <4>1, <4>2, PayoutEnters, PayoutTypes DEF CancelInTx
      <4>4. \A q \in Payout : payout'[q].status = "PAID" => payout[q].status = "PAID"
        BY <4>1 DEF CancelInTx, Withdraw, IInv, Rows
      <4> QED BY <2>1, <4>3, <4>4
    <3> QED BY <3>1, <3>2
  <2>3. payment' = [payment EXCEPT ![o].status = "REFUNDED"]
    BY <1>3 DEF CommitRefund
  <2>4. payment' \in [Order -> PaymentRow] /\ \A q \in Order : payment'[q].status = "RELEASED" => payment[q].status = "RELEASED"
    BY <2>3 DEF LedgerInv, OtherRows, PaymentRow
  <2>5. \A q \in Order : order'[q] = "COMPLETED" => order[q] = "COMPLETED"
    BY <1>3 DEF CommitRefund, IInv, Rows
  <2>6. OtherRows'
    BY <1>3, <2>2, <2>4 DEF CommitRefund, LedgerInv, OtherRows
  <2> QED BY <2>2, <2>4, <2>5, <2>6, NothingDue
<1> QED BY <1>1, <1>2, <1>3 DEF OrderStep

LEMMA PayoutEntersIt == ASSUME IInv, LedgerInv, NEW p \in Payout, PayoutStep(p) PROVE LedgerInv'
<1> USE DEF callVars, moneyVars
<1>1. UNCHANGED <<order, payment, dispute, suspended, reopened>>
  BY DEF PayoutStep, CreatePayout, Approve, Cancel, Fail
<1>2. payout[p] \in PayoutRow /\ payout[p].amount \in Int /\ payout[p].seller \in Seller \cup {Nothing}
  BY DEF IInv, Rows, PayoutRow
<1>3. ledger' \subseteq Entry /\ ledger \subseteq ledger'
  <2>1. CASE Cancel(p)
    BY <1>2, <2>1, PayoutEnters, PayoutTypes DEF Cancel, CancelInTx
  <2>2. CASE Approve(p) \/ Fail(p)
    BY <2>2 DEF Approve, Fail, LedgerInv, OtherRows
  <2>3. ASSUME NEW s \in Seller, CreatePayout(p, s)
        PROVE  ledger' \subseteq Entry /\ ledger \subseteq ledger'
    <3>1. PICK amount \in Int : ledger' = RecordPayout(ledger, "PAYOUT_RESERVED", p, s, -amount)
      BY <2>3 DEF CreatePayout
    <3>2. -amount \in Int
      OBVIOUS
    <3> QED BY <3>1, <3>2, PayoutEnters, PayoutTypes
  <2> QED BY <2>1, <2>2, <2>3 DEF PayoutStep
<1>4. \A q \in Payout : payout'[q].status = "PAID" => payout[q].status = "PAID"
  <2>1. payout \in [Payout -> PayoutRow]
    BY DEF IInv, Rows
  <2>2. CASE Approve(p) \/ Fail(p)
    BY <2>1, <2>2, StatusIsSet DEF Approve, Fail
  <2>3. CASE Cancel(p)
    BY <2>1, <2>3 DEF Cancel, CancelInTx, Withdraw
  <2>4. ASSUME NEW s \in Seller, CreatePayout(p, s)
        PROVE  \A q \in Payout : payout'[q].status = "PAID" => payout[q].status = "PAID"
    BY <2>1, <2>4 DEF CreatePayout
  <2> QED BY <2>2, <2>3, <2>4 DEF PayoutStep
<1>5. OtherRows'
  BY <1>1, <1>3 DEF LedgerInv, OtherRows
<1> QED BY <1>1, <1>3, <1>4, <1>5, NothingDue

LEMMA CallEntersIt ==
  ASSUME IInv, DisputeInv, DisputesKnown', LedgerInv, NEW k \in Call, CallStep(k)
  PROVE  LedgerInv'
<1> USE DEF moneyVars
<1> DEFINE p == call[k].payout
<1>1. UNCHANGED <<payment, suspended>>
  BY DEF CallStep, ReadToShip, ReadForDispute, ReadForProcessing, ReadForPaid, OpenDispute,
         ReadForDecision, Ship, MarkProcessing, MarkPaid, DisputeAlreadyOpen, FindPayout,
         CancelForDispute, Decide
<1>2. \A o \in Order : order'[o] = "COMPLETED" => order[o] = "COMPLETED"
  BY DEF CallStep, ReadToShip, ReadForDispute, ReadForProcessing, ReadForPaid, OpenDispute,
         ReadForDecision, Ship, MarkProcessing, MarkPaid, DisputeAlreadyOpen, FindPayout,
         CancelForDispute, Decide, IInv, Rows
<1>3. reopened' \subseteq Dispute
  <2>1. CASE Decide(k)
    BY <2>1 DEF Decide, DisputeInv, DisputesKnown, LedgerInv, OtherRows
  <2> QED BY <2>1 DEF CallStep, ReadToShip, ReadForDispute, ReadForProcessing, ReadForPaid, OpenDispute,
         ReadForDecision, Ship, MarkProcessing, MarkPaid, DisputeAlreadyOpen, FindPayout,
         CancelForDispute, LedgerInv, OtherRows
<1>4. /\ ledger' \subseteq Entry /\ ledger \subseteq ledger'
      /\ \A q \in Payout : payout'[q].status = "PAID" =>
                               payout[q].status = "PAID" \/ Has(ledger', "PAYOUT_PAID", q)
  <2> DEFINE Goal == /\ ledger' \subseteq Entry /\ ledger \subseteq ledger'
                     /\ \A q \in Payout : payout'[q].status = "PAID" =>
                               payout[q].status = "PAID" \/ Has(ledger', "PAYOUT_PAID", q)
  <2>1. UNCHANGED <<payout, ledger>> => Goal
    BY DEF LedgerInv, OtherRows
  <2>2. p \in Payout => /\ payout[p] \in PayoutRow /\ payout[p].amount \in Int
                        /\ payout[p].seller \in Seller \cup {Nothing}
    BY DEF IInv, Rows, PayoutRow
  <2>3. CASE MarkProcessing(k)
    <3>1. UNCHANGED payout \/ (p \in Payout /\ SetPayout(p, "PROCESSING"))
      BY <2>3 DEF MarkProcessing, IInv, Rows
    <3> QED BY <2>1, <2>3, <3>1, StatusIsSet DEF MarkProcessing, LedgerInv, OtherRows, IInv, Rows
  <2>4. CASE MarkPaid(k)
    <3>1. p \in Payout
      BY <2>4 DEF MarkPaid, IInv, Rows
    <3>2. CASE SetPayout(p, "PAID") /\ ledger' = RecordPayout(ledger, "PAYOUT_PAID", p, payout[p].seller,
                                                             payout[p].amount)
      <4>1. ledger' \subseteq Entry /\ ledger \subseteq ledger' /\ Has(ledger', "PAYOUT_PAID", p)
        BY <2>2, <3>1, <3>2, PayoutEnters, PayoutTypes
      <4>2. \A q \in Payout \ {p} : payout'[q] = payout[q]
        BY <3>2 DEF SetPayout, IInv, Rows
      <4> QED BY <4>1, <4>2
    <3> QED BY <2>1, <2>4, <3>2 DEF MarkPaid
  <2>5. CASE CancelForDispute(k)
    <3>1. p \in Payout
      BY <2>5 DEF CancelForDispute, IInv, Rows
    <3>2. CASE CancelInTx(p, ledger)
      <4>1. ledger' \subseteq Entry /\ ledger \subseteq ledger'
        BY <2>2, <3>1, <3>2, PayoutEnters, PayoutTypes DEF CancelInTx
      <4>2. \A q \in Payout : payout'[q].status = "PAID" => payout[q].status = "PAID"
        BY <3>1, <3>2 DEF CancelInTx, Withdraw, IInv, Rows
      <4> QED BY <4>1, <4>2
    <3> QED BY <2>1, <2>5, <3>2 DEF CancelForDispute
  <2> QED BY <2>1, <2>3, <2>4, <2>5
          DEF CallStep, ReadToShip, ReadForDispute, ReadForProcessing, ReadForPaid, OpenDispute,
              ReadForDecision, Ship, DisputeAlreadyOpen, FindPayout, Decide
<1>5. OtherRows'
  BY <1>1, <1>3, <1>4 DEF LedgerInv, OtherRows, DisputesKnown
<1> QED BY <1>1, <1>2, <1>4, <1>5, NothingDue

LEMMA SellerEntersIt == ASSUME LedgerInv, NEW s \in Seller, SellerStep(s) PROVE LedgerInv'
<1> USE DEF moneyVars, callVars
<1>1. CASE Suspend(s) \/ Restore(s)
  BY <1>1, NothingDue DEF Suspend, Restore, LedgerInv, OtherRows
<1>2. ASSUME NEW a \in Adjustment, NEW amount \in Correction, Adjust(a, s, amount) PROVE LedgerInv'
  <2>1. amount \in Int
    BY CorrectionAssumption
  <2>2. ledger' \subseteq Entry /\ ledger \subseteq ledger'
    BY <1>2, <2>1, AdjustmentEnters DEF Adjust, LedgerInv, OtherRows
  <2> QED BY <1>2, <2>2, NothingDue DEF Adjust, LedgerInv, OtherRows
<1> QED BY <1>1, <1>2 DEF SellerStep

LEMMA LedgerInductive ==
  IInv /\ DisputeInv /\ DisputeInv' /\ LedgerInv /\ [Next]_vars => LedgerInv'
<1>1. ASSUME LedgerInv, UNCHANGED vars PROVE LedgerInv'
  BY <1>1, NothingDue DEF vars, moneyVars, LedgerInv, OtherRows
<1> QED BY <1>1, OrderEntersIt, PayoutEntersIt, CallEntersIt, SellerEntersIt DEF Next, DisputeInv

----------------------------------------------------------------------------
(* A backfill adds nothing to a ledger with these entries.                 *)
LEMMA NothingToBackfill == IInv /\ LedgerInv => Backfill = ledger
<1> SUFFICES ASSUME IInv, LedgerInv PROVE Backfill = ledger
  OBVIOUS
<1>1. ASSUME NEW o \in Order PROVE BackfillOrder(ledger, o) = ledger
  <2>1. \A type, amount : Has(ledger, type, o) => Insert(ledger, OrderEntry(type, o, amount)) = ledger
    BY DEF Insert, OrderEntry
  <2>2. Has(ledger, "PLATFORM_FEE", o) => Insert(ledger, FeeEntry(o)) = ledger
    BY DEF Insert, FeeEntry
  <2>3. RecordCapture(ledger, o) = ledger
    BY <2>1 DEF RecordCapture, LedgerInv, EventsEntered
  <2>4. order[o] = "COMPLETED" \/ payment[o].status = "RELEASED" => RecordRelease(ledger, o) = ledger
    BY <2>1, <2>2 DEF RecordRelease, LedgerInv, EventsEntered
  <2>5. refund[o] = "COMPLETED" => RecordRefund(ledger, o) = ledger
    BY <2>1 DEF RecordRefund, IInv, Entered
  <2> QED BY <2>3, <2>4, <2>5 DEF BackfillOrder
<1> QED BY <1>1 DEF Backfill

(* A reconciliation run finds nothing missing in it.                       *)
LEMMA NothingMissing == IInv /\ LedgerInv => MissingEntries = {}
<1> SUFFICES ASSUME IInv, LedgerInv PROVE MissingEntries = {}
  OBVIOUS
<1>1. \A type, ref : Has(ledger, type, ref) => <<type, ref>> \in Keys(ledger)
  BY DEF Has, Keys, KeyOf
<1>2. \A o \in Order : /\ <<"PAYMENT_CAPTURED", o>> \in Keys(ledger)
                       /\ payment[o].status = "RELEASED" => <<"SELLER_PAYABLE", o>> \in Keys(ledger)
                       /\ refund[o] = "COMPLETED" => <<"REFUND", o>> \in Keys(ledger)
  BY <1>1 DEF LedgerInv, EventsEntered, IInv, Entered
<1>3. \A p \in Payout : payout[p].status = "PAID" => <<"PAYOUT_PAID", p>> \in Keys(ledger)
  BY <1>1 DEF LedgerInv, EventsEntered
<1> DEFINE payments == {[id |-> o, order |-> o, status |-> payment[o].status, orderStatus |-> order[o]]
                           : o \in Order}
           refunds == {[id |-> o, status |-> refund[o]] : o \in Order}
           payouts == {[id |-> p, status |-> payout[p].status] : p \in Payout}
<1>4. ASSUME NEW pay \in payments
      PROVE  /\ pay.status \in {"HELD", "RELEASED"} => <<"PAYMENT_CAPTURED", pay.id>> \in Keys(ledger)
             /\ pay.status = "RELEASED" => <<"SELLER_PAYABLE", pay.order>> \in Keys(ledger)
  <2>1. PICK o \in Order : pay = [id |-> o, order |-> o, status |-> payment[o].status, orderStatus |-> order[o]]
    OBVIOUS
  <2>2. pay.id = o /\ pay.order = o /\ pay.status = payment[o].status
    BY <2>1
  <2> QED BY <1>2, <2>2
<1>5. {pay \in payments : pay.status \in {"HELD", "RELEASED"}
                          /\ <<"PAYMENT_CAPTURED", pay.id>> \notin Keys(ledger)} = {}
  BY <1>4
<1>6. {pay \in payments : pay.status = "RELEASED" /\ pay.orderStatus = "COMPLETED"
                          /\ <<"SELLER_PAYABLE", pay.order>> \notin Keys(ledger)} = {}
  BY <1>4
<1>7. {ref \in refunds : ref.status = "COMPLETED" /\ <<"REFUND", ref.id>> \notin Keys(ledger)} = {}
  <2>1. ASSUME NEW ref \in refunds, ref.status = "COMPLETED" PROVE <<"REFUND", ref.id>> \in Keys(ledger)
    <3>1. PICK o \in Order : ref = [id |-> o, status |-> refund[o]]
      OBVIOUS
    <3>2. ref.id = o /\ ref.status = refund[o]
      BY <3>1
    <3> QED BY <1>2, <2>1, <3>2
  <2> QED BY <2>1
<1>10. {out \in payouts : out.status = "PAID" /\ <<"PAYOUT_PAID", out.id>> \notin Keys(ledger)} = {}
  <2>1. ASSUME NEW out \in payouts, out.status = "PAID" PROVE <<"PAYOUT_PAID", out.id>> \in Keys(ledger)
    <3>1. PICK p \in Payout : out = [id |-> p, status |-> payout[p].status]
      OBVIOUS
    <3>2. out.id = p /\ out.status = payout[p].status
      BY <3>1
    <3> QED BY <1>3, <2>1, <3>2
  <2> QED BY <2>1
<1>8. \A type, severity : Issues(type, severity, {}) = {}
  BY DEF Issues
<1>9. MissingEntries = CompareLedger(payments, refunds, payouts, Keys(ledger))
  BY DEF MissingEntries
<1> HIDE DEF payments, refunds, payouts
<1> QED BY <1>5, <1>6, <1>7, <1>8, <1>9, <1>10 DEF CompareLedger

(* The ledger lacks nothing that a backfill would add or a reconciliation  *)
(* run would ask for, whenever they are run (ledger/backfill.ts:82,        *)
(* recon-rules.ts:333).                                                    *)
THEOREM LedgerLacksNothing ==
  ASSUME Apart
  PROVE  Spec => []LedgerIsComplete
<1>1. IInv /\ LedgerInv => LedgerIsComplete
  BY RowsAreTyped, NothingToBackfill, NothingMissing DEF LedgerIsComplete
<1> QED BY <1>1, InitIInv, Inductive, InitDisputes, DisputesInductive, InitLedger, LedgerInductive, PTL DEF Spec

----------------------------------------------------------------------------
(* A seller's balance, a sum over the entries of the ledger, is what the   *)
(* orders and the payouts say is owed.                                     *)
(*                                                                         *)
(* First, the balance, the net of some orders and the amounts of some      *)
(* payouts are totals.                                                     *)
(*                                                                         *)
(* The second part is an invariant: the entries about orders and payouts   *)
(* are exactly those of what happened to them (Exact), and a payout was    *)
(* made of released orders of its seller, for what they net.               *)
(*                                                                         *)
(* In the third, the sums over the entries become sums over orders and     *)
(* payouts, and these are split by who holds, refunded or disputes what.   *)

LEMMA NetIsTotal ==
  ASSUME IsFiniteSet(Order)
  PROVE  \E g : /\ IsTotal(g, [x \in Order |-> Net(x)], Order)
                /\ \A S \in SUBSET Order : NetOf(S) = g[S]
<1> DEFINE w == [x \in Order |-> Net(x)]
           F(h, S) == h = [s \in SUBSET S |-> IF s = {} THEN 0 ELSE Net(Pick(s)) + h[s \ {Pick(s)}]]
<1>1. w \in [Order -> Int]
  BY NetIsInt
<1>2. PICK g : SumsUp(g, w, Order)
  BY <1>1, FoldsAreTotal
<1>3. ASSUME NEW S \in SUBSET Order PROVE NetOf(S) = g[S]
  <2>1. NetOf(S) = (CHOOSE h : F(h, S))[S]
    BY DEF NetOf, MapThenSumSet, MapThenFoldSet, Pick
  <2>2. \A s \in SUBSET S : s # {} => w[Pick(s)] = Net(Pick(s))
    BY PickIsIn
  <2>3. \A h : F(h, S) <=> DefinesFold(h, w, S)
    BY <2>2 DEF DefinesFold
  <2> HIDE DEF w, F
  <2> DEFINE k == CHOOSE h : F(h, S)
  <2>4. F(k, S)
    BY <1>2, <2>3 DEF SumsUp
  <2> QED BY <1>2, <2>1, <2>3, <2>4 DEF SumsUp
<1> QED BY <1>2, <1>3 DEF SumsUp

LEMMA SumIsTotal ==
  ASSUME NEW L, IsFiniteSet(L), \A e \in L : e.amount \in Int
  PROVE  \E g : /\ IsTotal(g, [x \in L |-> x.amount], L)
                /\ \A S \in SUBSET L : SumOf(S) = g[S]
<1> DEFINE w == [x \in L |-> x.amount]
           F(h, S) == h = [s \in SUBSET S |-> IF s = {} THEN 0 ELSE Pick(s).amount + h[s \ {Pick(s)}]]
<1>1. w \in [L -> Int]
  OBVIOUS
<1>2. PICK g : SumsUp(g, w, L)
  BY <1>1, FoldsAreTotal
<1>3. ASSUME NEW S \in SUBSET L PROVE SumOf(S) = g[S]
  <2>1. SumOf(S) = (CHOOSE h : F(h, S))[S]
    BY DEF SumOf, AmountOf, MapThenSumSet, MapThenFoldSet, Pick
  <2>2. \A s \in SUBSET S : s # {} => w[Pick(s)] = Pick(s).amount
    BY PickIsIn
  <2>3. \A h : F(h, S) <=> DefinesFold(h, w, S)
    BY <2>2 DEF DefinesFold
  <2> HIDE DEF w, F
  <2> DEFINE k == CHOOSE h : F(h, S)
  <2>4. F(k, S)
    BY <1>2, <2>3 DEF SumsUp
  <2> QED BY <1>2, <2>1, <2>3, <2>4 DEF SumsUp
<1> QED BY <1>2, <1>3 DEF SumsUp

LEMMA AmountsAreTotal ==
  ASSUME IsFiniteSet(Payout), \A p \in Payout : payout[p].amount \in Int
  PROVE  \E g : /\ IsTotal(g, [x \in Payout |-> payout[x].amount], Payout)
                /\ \A S \in SUBSET Payout : AmountsOf(S) = g[S]
<1> DEFINE w == [x \in Payout |-> payout[x].amount]
           F(h, S) == h = [s \in SUBSET S |-> IF s = {} THEN 0 ELSE payout[Pick(s)].amount + h[s \ {Pick(s)}]]
<1>1. w \in [Payout -> Int]
  OBVIOUS
<1>2. PICK g : SumsUp(g, w, Payout)
  BY <1>1, FoldsAreTotal
<1>3. ASSUME NEW S \in SUBSET Payout PROVE AmountsOf(S) = g[S]
  <2>1. AmountsOf(S) = (CHOOSE h : F(h, S))[S]
    BY DEF AmountsOf, PaidBy, MapThenSumSet, MapThenFoldSet, Pick
  <2>2. \A s \in SUBSET S : s # {} => w[Pick(s)] = payout[Pick(s)].amount
    BY PickIsIn
  <2>3. \A h : F(h, S) <=> DefinesFold(h, w, S)
    BY <2>2 DEF DefinesFold
  <2> HIDE DEF w, F
  <2> DEFINE k == CHOOSE h : F(h, S)
  <2>4. F(k, S)
    BY <1>2, <2>3 DEF SumsUp
  <2> QED BY <1>2, <2>1, <2>3, <2>4 DEF SumsUp
<1> QED BY <1>2, <1>3 DEF SumsUp

----------------------------------------------------------------------------
(* The entries are exactly those of what happened to orders and payouts.   *)
OrderEvents == {"PAYMENT_CAPTURED", "SELLER_PAYABLE", "REFUND"}

PayoutEvents == {"PAYOUT_RESERVED", "PAYOUT_REVERSED", "PAYOUT_PAID"}

Happened(type, x) ==
    \/ type = "PAYMENT_CAPTURED" /\ x \in Order
    \/ type = "SELLER_PAYABLE" /\ x \in Order /\ payment[x].releasedAt
    \/ type = "REFUND" /\ x \in Order /\ refund[x] = "COMPLETED"
    \/ type = "PAYOUT_RESERVED" /\ x \in Payout /\ payout[x].status # "NONE"
    \/ type = "PAYOUT_REVERSED" /\ x \in Payout /\ payout[x].status = "CANCELLED"
    \/ type = "PAYOUT_PAID" /\ x \in Payout /\ payout[x].status = "PAID"

PayoutEntry(type, p) ==
    [type |-> type, ref |-> p, seller |-> payout[p].seller,
     amount |-> IF type = "PAYOUT_RESERVED" THEN -payout[p].amount ELSE payout[p].amount]

EntryOf(type, x) ==
    IF type \in PayoutEvents THEN PayoutEntry(type, x)
    ELSE OrderEntry(type, x, IF type = "REFUND" THEN -Net(x) ELSE Net(x))

Exact ==
    /\ \A e \in ledger : e.type \in OrderEvents \cup PayoutEvents =>
                             Happened(e.type, e.ref) /\ e = EntryOf(e.type, e.ref)
    /\ \A type \in OrderEvents \cup PayoutEvents, x \in Order \cup Payout :
           Happened(type, x) => EntryOf(type, x) \in ledger

\* A payout was made of released orders of its seller, for what they net.
Sound(p) ==
    /\ payout[p].seller \in Seller
    /\ \A o \in payout[p].orders : SellerOf[o] = payout[p].seller /\ payment[o].releasedAt
    /\ payout[p].amount = NetOf(payout[p].orders)

PayoutsSound == \A p \in Payout : payout[p].status # "NONE" => Sound(p)

ExactInv == IsFiniteSet(ledger) /\ Exact /\ PayoutsSound

----------------------------------------------------------------------------
(* An entry is inserted, unless another one has its key.                   *)
LEMMA InsertPuts ==
  ASSUME NEW entries, IsFiniteSet(entries), NEW e,
         \A f \in entries : f.type = e.type /\ f.ref = e.ref => f = e
  PROVE  /\ e \in Insert(entries, e) /\ entries \subseteq Insert(entries, e)
         /\ Insert(entries, e) \subseteq entries \cup {e}
         /\ IsFiniteSet(Insert(entries, e))
<1>1. IsFiniteSet(entries \cup {e})
  BY FS_AddElement
<1>2. e \in Insert(entries, e)
  BY DEF Insert, Has
<1> QED BY <1>1, <1>2, InsertKeeps, FS_Subset

\* What a step may do to orders and to payouts, as the entries see them.
OrdersKept ==
    \A type \in OrderEvents, x \in Order \cup Payout :
        /\ Happened(type, x) => Happened(type, x)'
        /\ Happened(type, x)' => Happened(type, x) \/ EntryOf(type, x)' \in ledger'

PayoutsKept ==
    \A type \in PayoutEvents, x \in Order \cup Payout :
        /\ Happened(type, x) => Happened(type, x)' /\ EntryOf(type, x)' = EntryOf(type, x)
        /\ Happened(type, x)' => Happened(type, x) \/ EntryOf(type, x)' \in ledger'

LEMMA ExactKeeps ==
  ASSUME Exact, ledger \subseteq ledger', OrdersKept, PayoutsKept,
         \A e \in ledger' \ ledger : e.type \in OrderEvents \cup PayoutEvents =>
             Happened(e.type, e.ref)' /\ e = EntryOf(e.type, e.ref)'
  PROVE  Exact'
<1>1. \A type \in OrderEvents : \A x : EntryOf(type, x)' = EntryOf(type, x)
  BY DEF EntryOf, OrderEvents, PayoutEvents, OrderEntry, Net
<1>2. \A type, x : Happened(type, x) => x \in Order \cup Payout
  BY DEF Happened
<1>3. ASSUME NEW e \in ledger', e.type \in OrderEvents \cup PayoutEvents
      PROVE  Happened(e.type, e.ref)' /\ e = EntryOf(e.type, e.ref)'
  BY <1>1, <1>2, <1>3 DEF Exact, OrdersKept, PayoutsKept
<1>4. ASSUME NEW type \in OrderEvents \cup PayoutEvents, NEW x \in Order \cup Payout, Happened(type, x)'
      PROVE  EntryOf(type, x)' \in ledger'
  BY <1>1, <1>4 DEF Exact, OrdersKept, PayoutsKept
<1> QED BY <1>3, <1>4 DEF Exact

\* A step that releases no order and completes no refund.
OrdersQuiet ==
    \A o \in Order : /\ payment'[o].releasedAt = payment[o].releasedAt
                     /\ refund'[o] = "COMPLETED" <=> refund[o] = "COMPLETED"

\* A payout that is not made, cancelled or paid by a step.
PayoutQuiet(p) ==
    /\ payout'[p].seller = payout[p].seller
    /\ payout'[p].orders = payout[p].orders
    /\ payout'[p].amount = payout[p].amount
    /\ \A status \in {"NONE", "CANCELLED", "PAID"} : payout'[p].status = status <=> payout[p].status = status

LEMMA QuietOrders == OrdersQuiet => OrdersKept
BY DEF OrdersQuiet, OrdersKept, Happened, OrderEvents

LEMMA QuietPayout ==
  ASSUME NEW p \in Payout, PayoutQuiet(p), NEW type \in PayoutEvents
  PROVE  /\ Happened(type, p) <=> Happened(type, p)'
         /\ EntryOf(type, p)' = EntryOf(type, p)
<1>1. Happened(type, p) <=> Happened(type, p)'
  BY DEF PayoutQuiet, Happened, PayoutEvents
<1>2. EntryOf(type, p)' = EntryOf(type, p)
  BY DEF PayoutQuiet, EntryOf, PayoutEntry
<1> QED BY <1>1, <1>2

LEMMA QuietPayouts ==
  ASSUME \A p \in Payout : PayoutQuiet(p)
  PROVE  PayoutsKept
<1>1. \A type \in PayoutEvents : \A x : Happened(type, x) \/ Happened(type, x)' => x \in Payout
  BY DEF Happened, PayoutEvents
<1> QED BY <1>1, QuietPayout DEF PayoutsKept

(* The orders and the amount of a payout stay what they were when it was   *)
(* made, and an order that was released stays so.                          *)
TermsKept(p) ==
    /\ payout[p].status # "NONE"
    /\ payout'[p].seller = payout[p].seller
    /\ payout'[p].orders = payout[p].orders
    /\ payout'[p].amount = payout[p].amount

LEMMA NetIsRigid == ASSUME NEW p PROVE NetOf(payout[p].orders)' = NetOf(payout'[p].orders)
BY DEF NetOf, MapThenSumSet, MapThenFoldSet, Net

LEMMA SoundKeeps ==
  ASSUME PayoutsSound, payout \in [Payout -> PayoutRow],
         \A o \in Order : payment[o].releasedAt => payment'[o].releasedAt,
         \A p \in Payout : payout'[p].status # "NONE" => TermsKept(p) \/ Sound(p)'
  PROVE  PayoutsSound'
<1>1. ASSUME NEW p \in Payout, TermsKept(p) PROVE Sound(p)'
  <2>1. payout[p].orders \subseteq Order
    BY DEF PayoutRow
  <2>2. NetOf(payout[p].orders)' = payout'[p].amount
    BY <1>1, NetIsRigid DEF PayoutsSound, Sound, TermsKept
  <2> QED BY <1>1, <2>1, <2>2 DEF PayoutsSound, Sound, TermsKept
<1> QED BY <1>1 DEF PayoutsSound

----------------------------------------------------------------------------
(* A step that makes no such event.                                        *)
LEMMA NothingNew ==
  ASSUME IInv, ExactInv, OrdersQuiet, \A p \in Payout : PayoutQuiet(p),
         ledger \subseteq ledger', IsFiniteSet(ledger'),
         \A e \in ledger' \ ledger : e.type \notin OrderEvents \cup PayoutEvents
  PROVE  ExactInv'
<1>1. Exact'
  BY QuietOrders, QuietPayouts, ExactKeeps DEF ExactInv
<1>2. PayoutsSound'
  BY SoundKeeps DEF ExactInv, IInv, Rows, OrdersQuiet, PayoutQuiet, TermsKept
<1> QED BY <1>1, <1>2 DEF ExactInv

(* A payout moves between the statuses of a payout under way.              *)
UnderWay == {"PENDING", "APPROVED", "PROCESSING", "FAILED"}

LEMMA StatusQuiet ==
  ASSUME IInv, NEW p \in Payout, NEW status \in UnderWay, payout[p].status \in UnderWay,
         SetPayout(p, status)
  PROVE  \A q \in Payout : PayoutQuiet(q)
<1>1. \A q \in Payout : payout'[q] = IF q = p THEN [payout[p] EXCEPT !.status = status] ELSE payout[q]
  BY DEF SetPayout, IInv, Rows
<1>2. payout[p] \in PayoutRow
  BY DEF IInv, Rows
<1> DEFINE row == [payout[p] EXCEPT !.status = status]
<1>3. /\ row.status = status /\ row.seller = payout[p].seller
      /\ row.orders = payout[p].orders /\ row.amount = payout[p].amount
  BY <1>2 DEF PayoutRow
<1> HIDE DEF row
<1>4. \A q \in Payout : payout'[q] = IF q = p THEN row ELSE payout[q]
  BY <1>1 DEF row
<1> QED BY <1>3, <1>4 DEF PayoutQuiet, UnderWay

(* The entry of an event that has not happened before is entered.          *)
LEMMA EventIsNew ==
  ASSUME Exact, NEW type \in OrderEvents \cup PayoutEvents, NEW x \in Order \cup Payout,
         NEW entries, \A f \in entries : f.type = type => f \in ledger,
         NEW e, e.type = type, e.ref = x, Happened(type, x) => e = EntryOf(type, x)
  PROVE  \A f \in entries : f.type = e.type /\ f.ref = e.ref => f = e
BY DEF Exact

(* A payout is withdrawn, and what it reserved is given back.              *)
LEMMA WithdrawalKeeps ==
  ASSUME IInv, ExactInv, NEW p \in Payout, payout[p].status \in Cancelable,
         NEW entries, IsFiniteSet(entries), \A f \in entries : f.type = "PAYOUT_REVERSED" => f \in ledger,
         CancelInTx(p, entries)
  PROVE  /\ entries \subseteq ledger' /\ IsFiniteSet(ledger')
         /\ PayoutsKept
         /\ \A f \in ledger' \ entries : Happened(f.type, f.ref)' /\ f = EntryOf(f.type, f.ref)'
         /\ \A q \in Payout : payout'[q].status # "NONE" => TermsKept(q)
<1>1. /\ payout' \in [Payout -> PayoutRow]
      /\ \A q \in Payout \ {p} : payout'[q] = payout[q]
      /\ payout'[p].status = "CANCELLED" /\ payout'[p].seller = payout[p].seller
      /\ payout'[p].orders = payout[p].orders /\ payout'[p].amount = payout[p].amount
  BY DEF CancelInTx, Withdraw, IInv, Rows, PayoutRow, PayoutStatus
<1>2. payout[p].status \notin {"NONE", "CANCELLED", "PAID"}
  BY DEF Cancelable
<1> DEFINE e == PayoutEntry("PAYOUT_REVERSED", p)
<1>3. e.type = "PAYOUT_REVERSED" /\ e.ref = p /\ ledger' = Insert(entries, e)
  BY DEF CancelInTx, RecordPayout, PayoutEntry
<1>4. EntryOf("PAYOUT_REVERSED", p)' = e /\ Happened("PAYOUT_REVERSED", p)' /\ ~Happened("PAYOUT_REVERSED", p)
  BY <1>1, <1>2 DEF EntryOf, PayoutEntry, PayoutEvents, Happened
<1> HIDE DEF e
<1>5. \A f \in entries : f.type = e.type /\ f.ref = e.ref => f = e
  BY <1>3, <1>4, EventIsNew DEF ExactInv, PayoutEvents
<1>6. e \in ledger' /\ entries \subseteq ledger' /\ ledger' \subseteq entries \cup {e} /\ IsFiniteSet(ledger')
  BY <1>3, <1>5, InsertPuts
<1>7. PayoutsKept
  <2>1. \A q \in Payout \ {p} : PayoutQuiet(q)
    BY <1>1 DEF PayoutQuiet
  <2>2. \A type \in PayoutEvents : \A x : Happened(type, x) \/ Happened(type, x)' => x \in Payout
    BY DEF Happened, PayoutEvents
  <2>3. ASSUME NEW type \in PayoutEvents
        PROVE  /\ Happened(type, p) => Happened(type, p)' /\ EntryOf(type, p)' = EntryOf(type, p)
               /\ Happened(type, p)' => Happened(type, p) \/ EntryOf(type, p)' \in ledger'
    <3>1. EntryOf(type, p)' = EntryOf(type, p)
      BY <1>1 DEF EntryOf, PayoutEntry
    <3>2. Happened(type, p) <=> type = "PAYOUT_RESERVED"
      BY <1>2 DEF Happened, PayoutEvents
    <3>3. Happened(type, p)' <=> type \in {"PAYOUT_RESERVED", "PAYOUT_REVERSED"}
      BY <1>1 DEF Happened, PayoutEvents
    <3> QED BY <1>4, <1>6, <3>1, <3>2, <3>3
  <2> QED BY <2>1, <2>2, <2>3, QuietPayout DEF PayoutsKept
<1>8. \A q \in Payout : payout'[q].status # "NONE" => TermsKept(q)
  BY <1>1, <1>2 DEF TermsKept
<1> QED BY <1>3, <1>4, <1>6, <1>7, <1>8

(* An order is released: its net becomes payable.                          *)
LEMMA ConfirmExact ==
  ASSUME IInv, LedgerInv, ExactInv, NEW o \in Order, Confirm(o)
  PROVE  ExactInv'
<1> DEFINE e == OrderEntry("SELLER_PAYABLE", o, Net(o))
           f == FeeEntry(o)
           payable == Insert(ledger, e)
<1>1. /\ e = EntryOf("SELLER_PAYABLE", o) /\ e.type = "SELLER_PAYABLE" /\ e.ref = o
      /\ e = EntryOf("SELLER_PAYABLE", o)'
      /\ f.type = "PLATFORM_FEE"
  BY DEF EntryOf, OrderEntry, PayoutEvents, FeeEntry, Net
<1>2. ledger' = IF Commission[o] # 0 THEN Insert(payable, f) ELSE payable
  BY DEF Confirm, RecordRelease
<1> HIDE DEF e, f
<1>3. e \in payable /\ ledger \subseteq payable /\ payable \subseteq ledger \cup {e} /\ IsFiniteSet(payable)
  <2>1. \A x \in ledger : x.type = e.type /\ x.ref = e.ref => x = e
    BY <1>1 DEF ExactInv, Exact, OrderEvents
  <2> QED BY <2>1, InsertPuts DEF ExactInv
<1> HIDE DEF payable
<1>4. payable \subseteq ledger' /\ ledger' \subseteq payable \cup {f} /\ IsFiniteSet(ledger')
  BY <1>2, <1>3, InsertKeeps, FS_AddElement, FS_Subset
<1>5. /\ payment'[o].releasedAt
      /\ \A q \in Order \ {o} : payment'[q] = payment[q]
      /\ UNCHANGED <<refund, payout>>
  BY DEF Confirm, LedgerInv, OtherRows
<1>6. OrdersKept
  BY <1>1, <1>3, <1>4, <1>5 DEF OrdersKept, Happened, OrderEvents
<1>7. \A p \in Payout : PayoutQuiet(p)
  BY <1>5 DEF PayoutQuiet
<1>8. \A x \in ledger' \ ledger : x.type \in OrderEvents \cup PayoutEvents =>
          Happened(x.type, x.ref)' /\ x = EntryOf(x.type, x.ref)'
  <2>1. Happened("SELLER_PAYABLE", o)'
    BY <1>5 DEF Happened
  <2>2. f.type \notin OrderEvents \cup PayoutEvents
    BY <1>1 DEF OrderEvents, PayoutEvents
  <2>3. \A x \in ledger' \ ledger : x = e \/ x = f
    BY <1>3, <1>4
  <2> QED BY <1>1, <2>1, <2>2, <2>3
<1>9. Exact'
  BY <1>3, <1>4, <1>6, <1>7, <1>8, QuietPayouts, ExactKeeps DEF ExactInv
<1>10. PayoutsSound'
  <2>1. \A q \in Order : payment[q].releasedAt => payment'[q].releasedAt
    BY <1>5
  <2> QED BY <1>5, <2>1, SoundKeeps DEF ExactInv, IInv, Rows, TermsKept
<1> QED BY <1>4, <1>9, <1>10 DEF ExactInv

(* The orders that a payout may take were released by its seller.          *)
LEMMA AvailableIsReleased ==
  ASSUME ExactInv, NEW s \in Seller, NEW o \in AvailableObligations(s)
  PROVE  o \in Order /\ SellerOf[o] = s /\ payment[o].releasedAt
<1>1. PICK e \in ledger : e.type = "SELLER_PAYABLE" /\ e.seller = s /\ e.ref = o
  BY DEF AvailableObligations, PayableOrders, OfType, OfTypes
<1>2. Happened("SELLER_PAYABLE", o) /\ e = EntryOf("SELLER_PAYABLE", o)
  BY <1>1 DEF ExactInv, Exact, OrderEvents
<1>3. EntryOf("SELLER_PAYABLE", o).seller = SellerOf[o]
  BY DEF EntryOf, OrderEntry, PayoutEvents
<1> QED BY <1>1, <1>2, <1>3 DEF Happened

(* A payout is made: its amount is reserved.                               *)
LEMMA CreateExact ==
  ASSUME IInv, ExactInv, NEW p \in Payout, NEW s \in Seller, CreatePayout(p, s)
  PROVE  ExactInv'
<1>1. PICK S \in SUBSET AvailableObligations(s) \ {{}} :
        /\ NetOf(S) \in Int
        /\ payout' = [payout EXCEPT ![p] = [status |-> "PENDING", seller |-> s, orders |-> S,
                                            amount |-> NetOf(S), locksOrder |-> TRUE]]
        /\ ledger' = RecordPayout(ledger, "PAYOUT_RESERVED", p, s, -NetOf(S))
  BY DEF CreatePayout
<1> DEFINE a == NetOf(S)
           e == [type |-> "PAYOUT_RESERVED", ref |-> p, seller |-> s, amount |-> -a]
<1>2. /\ payout[p].status = "NONE" /\ UNCHANGED <<payment, refund>>
  BY DEF CreatePayout
<1>3. /\ \A q \in Payout \ {p} : payout'[q] = payout[q]
      /\ payout'[p].status = "PENDING" /\ payout'[p].seller = s /\ payout'[p].orders = S
      /\ payout'[p].amount = a
  BY <1>1 DEF IInv, Rows
<1>4. e.type = "PAYOUT_RESERVED" /\ e.ref = p /\ ledger' = Insert(ledger, e)
  BY <1>1 DEF RecordPayout
<1>5. EntryOf("PAYOUT_RESERVED", p)' = e /\ Happened("PAYOUT_RESERVED", p)' /\ ~Happened("PAYOUT_RESERVED", p)
  BY <1>2, <1>3 DEF EntryOf, PayoutEntry, PayoutEvents, Happened
<1>6. a = NetOf(payout[p].orders)'
  BY <1>3, NetIsRigid
<1> HIDE DEF e, a
<1>7. e \in ledger' /\ ledger \subseteq ledger' /\ ledger' \subseteq ledger \cup {e} /\ IsFiniteSet(ledger')
  <2>1. \A x \in ledger : x.type = e.type /\ x.ref = e.ref => x = e
    BY <1>4, <1>5 DEF ExactInv, Exact, PayoutEvents
  <2> QED BY <1>4, <2>1, InsertPuts DEF ExactInv
<1>8. PayoutsKept
  <2>1. \A q \in Payout \ {p} : PayoutQuiet(q)
    BY <1>3 DEF PayoutQuiet
  <2>2. \A type \in PayoutEvents : \A x : Happened(type, x) \/ Happened(type, x)' => x \in Payout
    BY DEF Happened, PayoutEvents
  <2>3. ASSUME NEW type \in PayoutEvents
        PROVE  ~Happened(type, p) /\ (Happened(type, p)' => EntryOf(type, p)' \in ledger')
    <3>1. ~Happened(type, p)
      BY <1>2 DEF Happened, PayoutEvents
    <3>2. Happened(type, p)' => type = "PAYOUT_RESERVED"
      BY <1>3 DEF Happened, PayoutEvents
    <3> QED BY <1>5, <1>7, <3>1, <3>2
  <2> QED BY <2>1, <2>2, <2>3, QuietPayout DEF PayoutsKept
<1>9. OrdersQuiet
  BY <1>2 DEF OrdersQuiet
<1>10. \A x \in ledger' \ ledger : x.type \in OrderEvents \cup PayoutEvents =>
          Happened(x.type, x.ref)' /\ x = EntryOf(x.type, x.ref)'
  BY <1>4, <1>5, <1>7
<1>11. Exact'
  BY <1>7, <1>8, <1>9, <1>10, QuietOrders, ExactKeeps DEF ExactInv
<1>12. PayoutsSound'
  <2>1. Sound(p)'
    BY <1>2, <1>3, <1>6, AvailableIsReleased DEF Sound
  <2>2. \A q \in Payout \ {p} : payout'[q].status # "NONE" => TermsKept(q)
    BY <1>3 DEF TermsKept
  <2>3. \A q \in Payout : payout'[q].status # "NONE" => TermsKept(q) \/ Sound(q)'
    BY <2>1, <2>2
  <2> QED BY <1>2, <2>3, SoundKeeps DEF ExactInv, IInv, Rows
<1> QED BY <1>7, <1>11, <1>12 DEF ExactInv

(* A payout is cancelled by the staff or for a dispute.                    *)
LEMMA CancelExact ==
  ASSUME IInv, ExactInv, NEW p \in Payout, payout[p].status \in Cancelable, CancelInTx(p, ledger),
         UNCHANGED <<payment, refund>>
  PROVE  ExactInv'
<1>1. /\ ledger \subseteq ledger' /\ IsFiniteSet(ledger')
      /\ PayoutsKept
      /\ \A f \in ledger' \ ledger : Happened(f.type, f.ref)' /\ f = EntryOf(f.type, f.ref)'
      /\ \A q \in Payout : payout'[q].status # "NONE" => TermsKept(q)
  BY WithdrawalKeeps DEF ExactInv
<1>2. OrdersQuiet
  BY DEF OrdersQuiet
<1>3. Exact'
  BY <1>1, <1>2, QuietOrders, ExactKeeps DEF ExactInv
<1>4. PayoutsSound'
  BY <1>1, SoundKeeps DEF ExactInv, IInv, Rows
<1> QED BY <1>1, <1>3, <1>4 DEF ExactInv

(* A payout is paid: what it reserved is paid.                             *)
LEMMA PaidExact ==
  ASSUME IInv, ExactInv, NEW p \in Payout, payout[p].status = "PROCESSING", SetPayout(p, "PAID"),
         ledger' = RecordPayout(ledger, "PAYOUT_PAID", p, payout[p].seller, payout[p].amount),
         UNCHANGED <<payment, refund>>
  PROVE  ExactInv'
<1> DEFINE e == PayoutEntry("PAYOUT_PAID", p)
<1>1. /\ \A q \in Payout \ {p} : payout'[q] = payout[q]
      /\ payout'[p].status = "PAID" /\ payout'[p].seller = payout[p].seller
      /\ payout'[p].orders = payout[p].orders /\ payout'[p].amount = payout[p].amount
  BY DEF SetPayout, IInv, Rows, PayoutRow
<1>2. e.type = "PAYOUT_PAID" /\ e.ref = p /\ ledger' = Insert(ledger, e)
  BY DEF RecordPayout, PayoutEntry
<1>3. EntryOf("PAYOUT_PAID", p)' = e /\ Happened("PAYOUT_PAID", p)' /\ ~Happened("PAYOUT_PAID", p)
  BY <1>1 DEF EntryOf, PayoutEntry, PayoutEvents, Happened
<1> HIDE DEF e
<1>4. e \in ledger' /\ ledger \subseteq ledger' /\ ledger' \subseteq ledger \cup {e} /\ IsFiniteSet(ledger')
  <2>1. \A f \in ledger : f.type = e.type /\ f.ref = e.ref => f = e
    BY <1>2, <1>3 DEF ExactInv, Exact, PayoutEvents
  <2> QED BY <1>2, <2>1, InsertPuts DEF ExactInv
<1>5. PayoutsKept
  <2>1. \A q \in Payout \ {p} : PayoutQuiet(q)
    BY <1>1 DEF PayoutQuiet
  <2>2. \A type \in PayoutEvents : \A x : Happened(type, x) \/ Happened(type, x)' => x \in Payout
    BY DEF Happened, PayoutEvents
  <2>3. ASSUME NEW type \in PayoutEvents
        PROVE  /\ Happened(type, p) => Happened(type, p)' /\ EntryOf(type, p)' = EntryOf(type, p)
               /\ Happened(type, p)' => Happened(type, p) \/ EntryOf(type, p)' \in ledger'
    <3>1. EntryOf(type, p)' = EntryOf(type, p)
      BY <1>1 DEF EntryOf, PayoutEntry
    <3>2. Happened(type, p) <=> type = "PAYOUT_RESERVED"
      BY DEF Happened, PayoutEvents
    <3>3. Happened(type, p)' <=> type \in {"PAYOUT_RESERVED", "PAYOUT_PAID"}
      BY <1>1 DEF Happened, PayoutEvents
    <3> QED BY <1>3, <1>4, <3>1, <3>2, <3>3
  <2> QED BY <2>1, <2>2, <2>3, QuietPayout DEF PayoutsKept
<1>6. OrdersQuiet
  BY DEF OrdersQuiet
<1>7. \A f \in ledger' \ ledger : Happened(f.type, f.ref)' /\ f = EntryOf(f.type, f.ref)'
  BY <1>2, <1>3, <1>4
<1>8. Exact'
  BY <1>4, <1>5, <1>6, <1>7, QuietOrders, ExactKeeps DEF ExactInv
<1>9. PayoutsSound'
  <2>1. \A q \in Payout : payout'[q].status # "NONE" => TermsKept(q)
    BY <1>1 DEF TermsKept
  <2> QED BY <2>1, SoundKeeps DEF ExactInv, IInv, Rows
<1> QED BY <1>4, <1>8, <1>9 DEF ExactInv

(* A refund completes, and takes its order out of an open payout.          *)
LEMMA CommitExact ==
  ASSUME IInv, LedgerInv, ExactInv, NEW o \in Order, CommitRefund(o)
  PROVE  ExactInv'
<1> DEFINE p == settling[o].payout
           e == OrderEntry("REFUND", o, -Net(o))
           refunded == RecordRefund(ledger, o)
<1>1. /\ e = EntryOf("REFUND", o) /\ e = EntryOf("REFUND", o)' /\ e.type = "REFUND" /\ e.ref = o
      /\ refunded = Insert(ledger, e)
  BY DEF EntryOf, OrderEntry, PayoutEvents, RecordRefund, Net
<1> HIDE DEF e
<1>2. e \in refunded /\ ledger \subseteq refunded /\ refunded \subseteq ledger \cup {e} /\ IsFiniteSet(refunded)
  <2>1. \A x \in ledger : x.type = e.type /\ x.ref = e.ref => x = e
    BY <1>1 DEF ExactInv, Exact, OrderEvents
  <2> HIDE DEF refunded
  <2> QED BY <1>1, <2>1, InsertPuts DEF ExactInv
<1>3. /\ refund'[o] = "COMPLETED"
      /\ \A q \in Order \ {o} : refund'[q] = refund[q]
      /\ \A q \in Order : payment'[q].releasedAt = payment[q].releasedAt
  BY DEF CommitRefund, LedgerInv, OtherRows, IInv, Rows, PaymentRow
<1>4. CASE p = Nothing
  <2>1. ledger' = refunded /\ UNCHANGED payout
    BY <1>4 DEF CommitRefund
  <2> HIDE DEF refunded
  <2>2. \A q \in Payout : PayoutQuiet(q) /\ (payout'[q].status # "NONE" => TermsKept(q))
    BY <2>1 DEF PayoutQuiet, TermsKept
  <2>3. OrdersKept
    BY <1>1, <1>2, <1>3, <2>1 DEF OrdersKept, Happened, OrderEvents
  <2>4. Happened("REFUND", o)'
    BY <1>3 DEF Happened
  <2>5. \A x \in ledger' \ ledger : Happened(x.type, x.ref)' /\ x = EntryOf(x.type, x.ref)'
    BY <1>1, <1>2, <2>1, <2>4
  <2>6. Exact'
    BY <1>2, <2>1, <2>2, <2>3, <2>5, QuietPayouts, ExactKeeps DEF ExactInv
  <2>7. PayoutsSound'
    BY <1>3, <2>2, SoundKeeps DEF ExactInv, IInv, Rows
  <2> QED BY <1>2, <2>1, <2>6, <2>7 DEF ExactInv
<1>5. CASE p # Nothing
  <2>1. p \in Payout /\ payout[p].status \in Cancelable /\ CancelInTx(p, refunded)
    BY <1>5 DEF CommitRefund, IInv, Rows, SettlingRow
  <2> HIDE DEF refunded, p
  <2>2. \A f \in refunded : f.type = "PAYOUT_REVERSED" => f \in ledger
    BY <1>1, <1>2
  <2>3. /\ refunded \subseteq ledger' /\ IsFiniteSet(ledger')
        /\ PayoutsKept
        /\ \A f \in ledger' \ refunded : Happened(f.type, f.ref)' /\ f = EntryOf(f.type, f.ref)'
        /\ \A q \in Payout : payout'[q].status # "NONE" => TermsKept(q)
    BY <1>2, <2>1, <2>2, WithdrawalKeeps
  <2>4. OrdersKept
    BY <1>1, <1>2, <1>3, <2>3 DEF OrdersKept, Happened, OrderEvents
  <2>5. Happened("REFUND", o)'
    BY <1>3 DEF Happened
  <2>6. \A x \in ledger' \ ledger : Happened(x.type, x.ref)' /\ x = EntryOf(x.type, x.ref)'
    BY <1>1, <1>2, <2>3, <2>5
  <2>7. Exact'
    BY <1>2, <2>3, <2>4, <2>6, ExactKeeps DEF ExactInv
  <2>8. PayoutsSound'
    BY <1>3, <2>3, SoundKeeps DEF ExactInv, IInv, Rows
  <2> QED BY <2>3, <2>7, <2>8 DEF ExactInv
<1> QED BY <1>4, <1>5

----------------------------------------------------------------------------
LEMMA InitExact == ASSUME IsFiniteSet(Order) PROVE Init => ExactInv
<1> SUFFICES ASSUME Init PROVE ExactInv
  OBVIOUS
<1>1. IsFiniteSet(ledger)
  <2> DEFINE E == [o \in Order |-> OrderEntry("PAYMENT_CAPTURED", o, Net(o))]
  <2>1. E \in Surjection(Order, ledger)
    BY DEF Init, Surjection
  <2> QED BY <2>1, FS_Surjection
<1>2. \A o \in Order : /\ EntryOf("PAYMENT_CAPTURED", o) = OrderEntry("PAYMENT_CAPTURED", o, Net(o))
                       /\ OrderEntry("PAYMENT_CAPTURED", o, Net(o)).type = "PAYMENT_CAPTURED"
                       /\ OrderEntry("PAYMENT_CAPTURED", o, Net(o)).ref = o
  BY DEF EntryOf, OrderEntry, PayoutEvents
<1>3. \A type \in OrderEvents \cup PayoutEvents : \A x :
          Happened(type, x) <=> type = "PAYMENT_CAPTURED" /\ x \in Order
  BY DEF Init, Happened, OrderEvents, PayoutEvents
<1>4. Exact
  <2>1. ledger = {OrderEntry("PAYMENT_CAPTURED", o, Net(o)) : o \in Order}
    BY DEF Init
  <2>2. ASSUME NEW e \in ledger PROVE Happened(e.type, e.ref) /\ e = EntryOf(e.type, e.ref)
    <3>1. PICK o \in Order : e = OrderEntry("PAYMENT_CAPTURED", o, Net(o))
      BY <2>1
    <3> QED BY <1>2, <1>3, <3>1 DEF OrderEvents
  <2>3. ASSUME NEW type \in OrderEvents \cup PayoutEvents, NEW x \in Order \cup Payout, Happened(type, x)
        PROVE  EntryOf(type, x) \in ledger
    BY <1>2, <1>3, <2>1, <2>3
  <2> QED BY <2>2, <2>3 DEF Exact
<1>5. PayoutsSound
  BY DEF Init, PayoutsSound
<1> QED BY <1>1, <1>4, <1>5 DEF ExactInv

(* The steps of the calls in flight, of the staff and of the sellers.      *)
LEMMA OrderStepExact ==
  ASSUME IInv, LedgerInv, ExactInv, NEW o \in Order, OrderStep(o)
  PROVE  ExactInv'
<1>1. CASE RequestRefund(o) \/ BeginSettle(o) \/ AbortRefund(o)
  <2>1. UNCHANGED <<payment, payout, ledger>>
    BY <1>1 DEF RequestRefund, BeginSettle, AbortRefund, moneyVars
  <2>2. \A q \in Order : refund'[q] = "COMPLETED" <=> refund[q] = "COMPLETED"
    BY <1>1 DEF RequestRefund, BeginSettle, AbortRefund, moneyVars, IInv, Rows
  <2> QED BY <2>1, <2>2, NothingNew DEF OrdersQuiet, PayoutQuiet, ExactInv
<1> QED BY <1>1, ConfirmExact, CommitExact DEF OrderStep

LEMMA PayoutStepExact ==
  ASSUME IInv, ExactInv, NEW p \in Payout, PayoutStep(p)
  PROVE  ExactInv'
<1> USE DEF moneyVars
<1>1. CASE Approve(p) \/ Fail(p)
  <2>1. /\ UNCHANGED <<payment, refund, ledger>> /\ payout[p].status \in UnderWay
        /\ SetPayout(p, "APPROVED") \/ SetPayout(p, "FAILED")
    BY <1>1 DEF Approve, Fail, UnderWay
  <2>2. \A q \in Payout : PayoutQuiet(q)
    BY <2>1, StatusQuiet DEF UnderWay
  <2> QED BY <2>1, <2>2, NothingNew DEF OrdersQuiet, ExactInv
<1>2. CASE Cancel(p)
  BY <1>2, CancelExact DEF Cancel
<1> QED BY <1>1, <1>2, CreateExact DEF PayoutStep

LEMMA CallStepExact ==
  ASSUME IInv, ExactInv, NEW k \in Call, CallStep(k)
  PROVE  ExactInv'
<1> USE DEF moneyVars
<1> DEFINE p == call[k].payout
<1>1. UNCHANGED <<payment, refund>>
  BY DEF CallStep, ReadToShip, ReadForDispute, ReadForProcessing, ReadForPaid, OpenDispute,
         ReadForDecision, Ship, MarkProcessing, MarkPaid, DisputeAlreadyOpen, FindPayout,
         CancelForDispute, Decide
<1>2. UNCHANGED <<payout, ledger>> => ExactInv'
  BY <1>1, NothingNew DEF OrdersQuiet, PayoutQuiet, ExactInv
<1>3. CASE MarkProcessing(k)
  <2>1. UNCHANGED ledger /\ (UNCHANGED payout \/ (p \in Payout /\ payout[p].status \in UnderWay
                                                  /\ SetPayout(p, "PROCESSING")))
    BY <1>3 DEF MarkProcessing, MayProcess, UnderWay, IInv, Rows
  <2>2. \A q \in Payout : PayoutQuiet(q)
    BY <2>1, StatusQuiet DEF UnderWay, PayoutQuiet
  <2> QED BY <1>1, <2>1, <2>2, NothingNew DEF OrdersQuiet, ExactInv
<1>4. CASE MarkPaid(k)
  <2>1. p \in Payout
    BY <1>4 DEF MarkPaid, IInv, Rows
  <2> QED BY <1>1, <1>2, <1>4, <2>1, PaidExact DEF MarkPaid
<1>5. CASE CancelForDispute(k)
  <2>1. p \in Payout
    BY <1>5 DEF CancelForDispute, IInv, Rows
  <2> QED BY <1>1, <1>2, <1>5, <2>1, CancelExact DEF CancelForDispute
<1> QED BY <1>2, <1>3, <1>4, <1>5
        DEF CallStep, ReadToShip, ReadForDispute, ReadForProcessing, ReadForPaid, OpenDispute,
            ReadForDecision, Ship, DisputeAlreadyOpen, FindPayout, Decide

LEMMA SellerStepExact ==
  ASSUME IInv, ExactInv, NEW s \in Seller, SellerStep(s)
  PROVE  ExactInv'
<1> USE DEF moneyVars
<1>1. CASE Suspend(s) \/ Restore(s)
  BY <1>1, NothingNew DEF Suspend, Restore, OrdersQuiet, PayoutQuiet, ExactInv
<1>2. ASSUME NEW a \in Adjustment, NEW amount \in Correction, Adjust(a, s, amount) PROVE ExactInv'
  <2> DEFINE e == [type |-> "ADJUSTMENT", ref |-> a, seller |-> s, amount |-> amount]
  <2>1. /\ ledger' = Insert(ledger, e) /\ e.type = "ADJUSTMENT"
        /\ UNCHANGED <<payment, refund, payout>>
    BY <1>2 DEF Adjust, RecordAdjustment
  <2> HIDE DEF e
  <2>2. ledger \subseteq ledger' /\ ledger' \subseteq ledger \cup {e} /\ IsFiniteSet(ledger')
    BY <2>1, InsertKeeps, FS_AddElement, FS_Subset DEF ExactInv
  <2>3. e.type \notin OrderEvents \cup PayoutEvents
    BY <2>1 DEF OrderEvents, PayoutEvents
  <2> QED BY <2>1, <2>2, <2>3, NothingNew DEF OrdersQuiet, PayoutQuiet
<1> QED BY <1>1, <1>2 DEF SellerStep

LEMMA ExactInductive == IInv /\ LedgerInv /\ ExactInv /\ [Next]_vars => ExactInv'
<1>1. ASSUME IInv, ExactInv, UNCHANGED vars PROVE ExactInv'
  BY <1>1, NothingNew DEF vars, moneyVars, OrdersQuiet, PayoutQuiet, ExactInv
<1> QED BY <1>1, OrderStepExact, PayoutStepExact, CallStepExact, SellerStepExact DEF Next

----------------------------------------------------------------------------
(* What the entries of an event add up to.                                 *)
Entries(type, T) == {e \in ledger : e.type = type /\ e.ref \in T}

LEMMA AmountsAreInts == ASSUME LedgerInv PROVE \A e \in ledger : e.amount \in Int
BY DEF LedgerInv, OtherRows, Entry

LEMMA SumOfEvents ==
  ASSUME LedgerInv, ExactInv, NEW type \in OrderEvents \cup PayoutEvents,
         NEW W, NEW v, NEW h, IsTotal(h, v, W), NEW T \in SUBSET W, IsFiniteSet(T),
         T \subseteq Order \cup Payout, \A x \in T : Happened(type, x) /\ EntryOf(type, x).amount = v[x]
  PROVE  SumOf(Entries(type, T)) = h[T]
<1> DEFINE w == [e \in ledger |-> e.amount]
           E == [x \in T |-> EntryOf(type, x)]
<1>1. PICK g : IsTotal(g, w, ledger) /\ \A S \in SUBSET ledger : SumOf(S) = g[S]
  BY AmountsAreInts, SumIsTotal DEF ExactInv
<1>2. \A x : EntryOf(type, x).type = type /\ EntryOf(type, x).ref = x
  BY DEF EntryOf, OrderEntry, PayoutEntry
<1>3. E \in [T -> ledger] /\ \A x, y \in T : E[x] = E[y] => x = y
  BY <1>2 DEF ExactInv, Exact
<1>4. \A x \in T : w[E[x]] = v[x]
  BY <1>3
<1>5. Entries(type, T) = {E[x] : x \in T}
  <2>1. \A e \in Entries(type, T) : e = EntryOf(type, e.ref) /\ e.ref \in T
    BY DEF Entries, ExactInv, Exact
  <2>2. \A x \in T : EntryOf(type, x) \in Entries(type, T)
    BY <1>2, <1>3 DEF Entries
  <2> QED BY <2>1, <2>2
<1> HIDE DEF w, E
<1>6. g[{E[x] : x \in T}] = h[T]
  BY SMTT(30), <1>1, <1>3, <1>4, TotalOfImage
<1>7. Entries(type, T) \in SUBSET ledger
  BY DEF Entries
<1> QED BY <1>1, <1>5, <1>6, <1>7

(* One more type of entries.                                               *)
LEMMA SumOfOneMoreType ==
  ASSUME LedgerInv, ExactInv, NEW s, NEW types, NEW type, type \notin types
  PROVE  /\ SumOf(OfTypes(ledger, s, types \cup {type})) = SumOf(OfTypes(ledger, s, types)) + SumOf(OfType(ledger, s, type))
         /\ SumOf(OfTypes(ledger, s, types)) \in Int
<1> DEFINE A == OfTypes(ledger, s, types)
           B == OfType(ledger, s, type)
           w == [e \in ledger |-> e.amount]
<1>1. PICK g : IsTotal(g, w, ledger) /\ \A S \in SUBSET ledger : SumOf(S) = g[S]
  BY AmountsAreInts, SumIsTotal DEF ExactInv
<1>2. /\ OfTypes(ledger, s, types \cup {type}) = A \cup B
      /\ A \cap B = {} /\ A \in SUBSET ledger /\ B \in SUBSET ledger /\ A \cup B \in SUBSET ledger
  BY DEF OfTypes, OfType
<1> HIDE DEF A, B, w
<1>3. g[A \cup B] = g[A] + g[B]
  <2>1. IsFiniteSet(ledger) /\ IsTotal(g, w, ledger)
    BY <1>1 DEF ExactInv
  <2>2. A \in SUBSET ledger /\ B \in SUBSET ledger /\ A \cap B = {}
    BY <1>2
  <2> QED BY <2>1, <2>2, TotalOfBoth
<1>4. g[A] \in Int
  BY <1>1, <1>2 DEF IsTotal
<1>5. SumOf(A \cup B) = g[A \cup B] /\ SumOf(A) = g[A] /\ SumOf(B) = g[B]
  BY <1>1, <1>2
<1> QED BY <1>2, <1>3, <1>4, <1>5 DEF A, B

(* The orders that a refund or a release happened to, and what they net.   *)
Mine(s) == {o \in Order : SellerOf[o] = s}

Released(s) == {o \in Mine(s) : payment[o].releasedAt}

Refunded(s) == {o \in Mine(s) : refund[o] = "COMPLETED"}

OfSeller(s, statuses) == {p \in Payout : payout[p].seller = s /\ payout[p].status \in statuses}

LEMMA SumsOfOrders ==
  ASSUME IsFiniteSet(Order), LedgerInv, ExactInv, NEW s
  PROVE  /\ SumOf(OfType(ledger, s, "PAYMENT_CAPTURED")) = NetOf(Mine(s))
         /\ \A T \in SUBSET Released(s) : SumOf(Entries("SELLER_PAYABLE", T)) = NetOf(T)
         /\ OfType(ledger, s, "SELLER_PAYABLE") = Entries("SELLER_PAYABLE", Released(s))
         /\ \A T \in SUBSET Refunded(s) : SumOf(Entries("REFUND", T)) = -NetOf(T)
         /\ OfType(ledger, s, "REFUND") = Entries("REFUND", Refunded(s))
<1> DEFINE w == [o \in Order |-> Net(o)]
           v == [o \in Order |-> -w[o]]
<1>1. PICK g : IsTotal(g, w, Order) /\ \A S \in SUBSET Order : NetOf(S) = g[S]
  BY NetIsTotal
<1> DEFINE h == [T \in SUBSET Order |-> -g[T]]
<1>2. IsTotal(h, v, Order)
  BY <1>1, TotalOfOpposites
<1>3. \A o \in Order : /\ EntryOf("PAYMENT_CAPTURED", o).amount = w[o]
                       /\ EntryOf("SELLER_PAYABLE", o).amount = w[o]
                       /\ EntryOf("REFUND", o).amount = v[o]
  BY DEF EntryOf, OrderEntry, PayoutEvents
<1>4. \A T \in SUBSET Order : h[T] = -NetOf(T)
  BY <1>1
<1> HIDE DEF w, v, h
<1>5. \A T \in SUBSET Order : IsFiniteSet(T) /\ T \in SUBSET (Order \cup Payout)
  BY FS_Subset
<1>6. /\ \A o \in Mine(s) : Happened("PAYMENT_CAPTURED", o)
      /\ \A o \in Released(s) : Happened("SELLER_PAYABLE", o)
      /\ \A o \in Refunded(s) : Happened("REFUND", o)
      /\ Mine(s) \in SUBSET Order /\ Released(s) \in SUBSET Order /\ Refunded(s) \in SUBSET Order
  BY DEF Happened, Mine, Released, Refunded
<1>7. \A type \in OrderEvents : \A o : EntryOf(type, o).seller = SellerOf[o]
  BY DEF EntryOf, OrderEntry, OrderEvents, PayoutEvents
<1>8. \A e \in ledger : e.type \in OrderEvents => Happened(e.type, e.ref) /\ e.seller = SellerOf[e.ref]
  BY <1>7 DEF ExactInv, Exact
<1>9. /\ "PAYMENT_CAPTURED" \in OrderEvents /\ "SELLER_PAYABLE" \in OrderEvents /\ "REFUND" \in OrderEvents
  BY DEF OrderEvents
<1>10. OfType(ledger, s, "PAYMENT_CAPTURED") = Entries("PAYMENT_CAPTURED", Mine(s))
  BY <1>8, <1>9 DEF OfType, OfTypes, Entries, Mine, Happened
<1>11. OfType(ledger, s, "SELLER_PAYABLE") = Entries("SELLER_PAYABLE", Released(s))
  BY <1>8, <1>9 DEF OfType, OfTypes, Entries, Mine, Released, Happened
<1>12. OfType(ledger, s, "REFUND") = Entries("REFUND", Refunded(s))
  BY <1>8, <1>9 DEF OfType, OfTypes, Entries, Mine, Refunded, Happened
<1>13. SumOf(Entries("PAYMENT_CAPTURED", Mine(s))) = g[Mine(s)]
  BY <1>1, <1>3, <1>5, <1>6, <1>9, SumOfEvents
<1>14. ASSUME NEW T \in SUBSET Released(s) PROVE SumOf(Entries("SELLER_PAYABLE", T)) = NetOf(T)
  <2>1. T \in SUBSET Order
    BY <1>6
  <2>2. SumOf(Entries("SELLER_PAYABLE", T)) = g[T]
    BY <1>1, <1>3, <1>5, <1>6, <1>9, <2>1, SumOfEvents
  <2> QED BY <1>1, <2>1, <2>2
<1>15. ASSUME NEW T \in SUBSET Refunded(s) PROVE SumOf(Entries("REFUND", T)) = -NetOf(T)
  <2>1. T \in SUBSET Order
    BY <1>6
  <2>2. SumOf(Entries("REFUND", T)) = h[T]
    BY <1>2, <1>3, <1>5, <1>6, <1>9, <2>1, SumOfEvents
  <2> QED BY <1>4, <2>1, <2>2
<1> QED BY <1>1, <1>6, <1>10, <1>11, <1>12, <1>13, <1>14, <1>15

LEMMA SumsOfPayouts ==
  ASSUME IsFiniteSet(Payout), IInv, LedgerInv, ExactInv, NEW s
  PROVE  /\ SumOf(OfType(ledger, s, "PAYOUT_RESERVED")) = -AmountsOf(OfSeller(s, PayoutStatus \ {"NONE"}))
         /\ SumOf(OfType(ledger, s, "PAYOUT_REVERSED")) = AmountsOf(OfSeller(s, {"CANCELLED"}))
         /\ SumOf(OfType(ledger, s, "PAYOUT_PAID")) = AmountsOf(OfSeller(s, {"PAID"}))
<1> DEFINE w == [p \in Payout |-> payout[p].amount]
           v == [p \in Payout |-> -w[p]]
           All == OfSeller(s, PayoutStatus \ {"NONE"})
           Gone == OfSeller(s, {"CANCELLED"})
           Paid == OfSeller(s, {"PAID"})
<1>1. PICK g : IsTotal(g, w, Payout) /\ \A S \in SUBSET Payout : AmountsOf(S) = g[S]
  <2>1. \A p \in Payout : payout[p].amount \in Int
    BY DEF IInv, Rows, PayoutRow
  <2> QED BY <2>1, AmountsAreTotal
<1> DEFINE h == [T \in SUBSET Payout |-> -g[T]]
<1>2. IsTotal(h, v, Payout)
  BY <1>1, TotalOfOpposites
<1>3. \A p \in Payout : /\ EntryOf("PAYOUT_RESERVED", p).amount = v[p]
                        /\ EntryOf("PAYOUT_REVERSED", p).amount = w[p]
                        /\ EntryOf("PAYOUT_PAID", p).amount = w[p]
  BY DEF EntryOf, PayoutEntry, PayoutEvents
<1>4. \A T \in SUBSET Payout : h[T] = -AmountsOf(T)
  BY <1>1
<1> HIDE DEF w, v, h
<1>5. \A T \in SUBSET Payout : IsFiniteSet(T) /\ T \in SUBSET (Order \cup Payout)
  BY FS_Subset
<1>6. /\ \A p \in All : Happened("PAYOUT_RESERVED", p)
      /\ \A p \in Gone : Happened("PAYOUT_REVERSED", p)
      /\ \A p \in Paid : Happened("PAYOUT_PAID", p)
      /\ All \in SUBSET Payout /\ Gone \in SUBSET Payout /\ Paid \in SUBSET Payout
  BY DEF Happened, OfSeller
<1>7. \A type \in PayoutEvents : \A p : EntryOf(type, p).seller = payout[p].seller
  BY DEF EntryOf, PayoutEntry
<1>8. \A e \in ledger : e.type \in PayoutEvents => Happened(e.type, e.ref) /\ e.seller = payout[e.ref].seller
  BY <1>7 DEF ExactInv, Exact
<1>9. /\ "PAYOUT_RESERVED" \in PayoutEvents /\ "PAYOUT_REVERSED" \in PayoutEvents
      /\ "PAYOUT_PAID" \in PayoutEvents
      /\ \A p \in Payout : payout[p].status \in PayoutStatus
  BY DEF PayoutEvents, IInv, Rows, PayoutRow
<1>10. OfType(ledger, s, "PAYOUT_RESERVED") = Entries("PAYOUT_RESERVED", All)
  BY <1>8, <1>9 DEF OfType, OfTypes, Entries, OfSeller, Happened
<1>11. OfType(ledger, s, "PAYOUT_REVERSED") = Entries("PAYOUT_REVERSED", Gone)
  BY <1>8, <1>9 DEF OfType, OfTypes, Entries, OfSeller, Happened
<1>12. OfType(ledger, s, "PAYOUT_PAID") = Entries("PAYOUT_PAID", Paid)
  BY <1>8, <1>9 DEF OfType, OfTypes, Entries, OfSeller, Happened
<1> HIDE DEF All, Gone, Paid
<1>13. SumOf(Entries("PAYOUT_RESERVED", All)) = h[All]
  BY <1>2, <1>3, <1>5, <1>6, <1>9, SumOfEvents
<1>14. SumOf(Entries("PAYOUT_REVERSED", Gone)) = g[Gone]
  BY <1>1, <1>3, <1>5, <1>6, <1>9, SumOfEvents
<1>15. SumOf(Entries("PAYOUT_PAID", Paid)) = g[Paid]
  BY <1>1, <1>3, <1>5, <1>6, <1>9, SumOfEvents
<1>16. SumOf(OfType(ledger, s, "PAYOUT_RESERVED")) = -AmountsOf(All)
  BY <1>4, <1>6, <1>10, <1>13
<1>17. /\ SumOf(OfType(ledger, s, "PAYOUT_REVERSED")) = AmountsOf(Gone)
       /\ SumOf(OfType(ledger, s, "PAYOUT_PAID")) = AmountsOf(Paid)
  BY <1>1, <1>6, <1>11, <1>12, <1>14, <1>15
<1> QED BY <1>16, <1>17 DEF All, Gone, Paid

----------------------------------------------------------------------------
(* Parts of a set of orders, and of a set of payouts.                      *)
LEMMA NetOfParts ==
  ASSUME IsFiniteSet(Order), NEW A \in SUBSET Order, NEW B
  PROVE  /\ NetOf(A) = NetOf(A \cap B) + NetOf(A \ B)
         /\ NetOf(A) \in Int /\ NetOf(A \cap B) \in Int /\ NetOf(A \ B) \in Int
<1> DEFINE w == [o \in Order |-> Net(o)]
<1>1. PICK g : IsTotal(g, w, Order) /\ \A S \in SUBSET Order : NetOf(S) = g[S]
  BY NetIsTotal
<1> HIDE DEF w
<1>2. /\ g[A] = g[A \cap B] + g[A \ B]
      /\ g[A] \in Int /\ g[A \cap B] \in Int /\ g[A \ B] \in Int
  BY <1>1, TotalOfParts
<1>3. NetOf(A) = g[A] /\ NetOf(A \cap B) = g[A \cap B] /\ NetOf(A \ B) = g[A \ B]
  BY <1>1
<1> QED BY <1>2, <1>3

LEMMA AmountsOfParts ==
  ASSUME IsFiniteSet(Payout), IInv, NEW A \in SUBSET Payout, NEW B
  PROVE  /\ AmountsOf(A) = AmountsOf(A \cap B) + AmountsOf(A \ B)
         /\ AmountsOf(A) \in Int /\ AmountsOf(A \cap B) \in Int /\ AmountsOf(A \ B) \in Int
<1> DEFINE w == [p \in Payout |-> payout[p].amount]
<1>1. PICK g : IsTotal(g, w, Payout) /\ \A S \in SUBSET Payout : AmountsOf(S) = g[S]
  <2>1. \A p \in Payout : payout[p].amount \in Int
    BY DEF IInv, Rows, PayoutRow
  <2> QED BY <2>1, AmountsAreTotal
<1> HIDE DEF w
<1>2. /\ g[A] = g[A \cap B] + g[A \ B]
      /\ g[A] \in Int /\ g[A \cap B] \in Int /\ g[A \ B] \in Int
  BY <1>1, TotalOfParts
<1>3. AmountsOf(A) = g[A] /\ AmountsOf(A \cap B) = g[A \cap B] /\ AmountsOf(A \ B) = g[A \ B]
  BY <1>1
<1> QED BY <1>2, <1>3

(* The released orders of a seller that payouts hold net what these        *)
(* payouts amount to.                                                      *)
Held == UNION {payout[p].orders : p \in LivePayouts}

Live(s) == {p \in LivePayouts : payout[p].seller = s}

LEMMA HeldNet ==
  ASSUME IsFiniteSet(Order), IsFiniteSet(Payout), IInv, ExactInv, NEW s
  PROVE  NetOf(Released(s) \cap Held) = AmountsOf(Live(s))
<1> DEFINE w == [o \in Order |-> Net(o)]
           v == [p \in Payout |-> payout[p].amount]
           E == [p \in Live(s) |-> payout[p].orders]
<1>1. PICK g : IsTotal(g, w, Order) /\ \A S \in SUBSET Order : NetOf(S) = g[S]
  BY NetIsTotal
<1>2. PICK h : IsTotal(h, v, Payout) /\ \A S \in SUBSET Payout : AmountsOf(S) = h[S]
  <2>1. \A p \in Payout : payout[p].amount \in Int
    BY DEF IInv, Rows, PayoutRow
  <2> QED BY <2>1, AmountsAreTotal
<1>3. \A p \in Payout : payout[p].orders \in SUBSET Order
  BY DEF IInv, Rows, PayoutRow
<1>4. \A p \in LivePayouts : p \in Payout /\ Sound(p)
  BY DEF LivePayouts, ExactInv, PayoutsSound
<1>5. E \in [Live(s) -> SUBSET Order] /\ Live(s) \in SUBSET Payout /\ IsFiniteSet(Live(s))
  <2>1. Live(s) \in SUBSET Payout
    BY <1>4 DEF Live
  <2> QED BY <1>3, <2>1, FS_Subset
<1>6. \A p, q \in Live(s) : p # q => E[p] \cap E[q] = {}
  BY DEF IInv, OrderInOnePayout, Live
<1>7. \A p \in Live(s) : g[E[p]] = v[p]
  BY <1>1, <1>3, <1>4 DEF Live, Sound
<1>8. Released(s) \cap Held = UNION {E[p] : p \in Live(s)}
  <2>1. ASSUME NEW o \in Released(s) \cap Held PROVE o \in UNION {E[p] : p \in Live(s)}
    <3>1. PICK p \in LivePayouts : o \in payout[p].orders
      BY DEF Held
    <3>2. payout[p].seller = s
      BY <1>4, <3>1 DEF Sound, Released, Mine
    <3>3. p \in Live(s) /\ o \in E[p]
      BY <3>1, <3>2 DEF Live
    <3> QED BY <3>3
  <2>2. ASSUME NEW p \in Live(s), NEW o \in E[p] PROVE o \in Released(s) \cap Held
    <3>1. p \in LivePayouts /\ payout[p].seller = s /\ o \in payout[p].orders
      BY DEF Live
    <3>2. o \in Order /\ SellerOf[o] = s /\ payment[o].releasedAt
      BY <1>3, <1>4, <3>1 DEF Sound
    <3> QED BY <3>1, <3>2 DEF Released, Mine, Held
  <2> QED BY <2>1, <2>2
<1> HIDE DEF w, v, E
<1>9. g[UNION {E[p] : p \in Live(s)}] = h[Live(s)]
  <2>1. IsTotal(g, w, Order) /\ IsTotal(h, v, Payout)
    BY <1>1, <1>2
  <2> QED BY <1>5, <1>6, <1>7, <2>1, TotalOfUnion
<1>10. Released(s) \cap Held \in SUBSET Order
  BY DEF Released, Mine
<1> QED BY <1>1, <1>2, <1>5, <1>8, <1>9, <1>10

----------------------------------------------------------------------------
(* The four parts of a balance, as sums over the entries.                  *)
SumOfTypes(s, types) == SumOf(OfTypes(ledger, s, types))

LEMMA BalanceParts ==
  ASSUME NEW s
  PROVE  /\ Balance(s).pending = SumOfTypes(s, {"PAYMENT_CAPTURED"}) - SumOfTypes(s, {"SELLER_PAYABLE"})
                                    + (SumOfTypes(s, {"REFUND"}) - SumOf(RefundsAfter(ledger, s)))
         /\ Balance(s).available =
                (SumOfTypes(s, {"SELLER_PAYABLE", "ADJUSTMENT", "PAYOUT_RESERVED", "PAYOUT_REVERSED"})
                    + SumOf(RefundsAfter(ledger, s))) - DisputedMoney(ledger, s, Disputed, Frozen)
         /\ Balance(s).reserved = -SumOfTypes(s, {"PAYOUT_RESERVED", "PAYOUT_PAID", "PAYOUT_REVERSED"})
         /\ Balance(s).paid = SumOfTypes(s, {"PAYOUT_PAID"})
<1> DEFINE base == DeriveSellerBalance(ledger, s)
<1>1. /\ base.pending = SumOfTypes(s, {"PAYMENT_CAPTURED"}) - SumOfTypes(s, {"SELLER_PAYABLE"})
                            + (SumOfTypes(s, {"REFUND"}) - SumOf(RefundsAfter(ledger, s)))
      /\ base.available =
             SumOfTypes(s, {"SELLER_PAYABLE", "ADJUSTMENT", "PAYOUT_RESERVED", "PAYOUT_REVERSED"})
                 + SumOf(RefundsAfter(ledger, s))
      /\ base.reserved = -SumOfTypes(s, {"PAYOUT_RESERVED", "PAYOUT_PAID", "PAYOUT_REVERSED"})
      /\ base.paid = SumOfTypes(s, {"PAYOUT_PAID"})
      /\ DOMAIN base = {"pending", "available", "reserved", "paid"}
  BY DEF DeriveSellerBalance, SumOfTypes
<1>2. Balance(s) = [base EXCEPT !.available = base.available - DisputedMoney(ledger, s, Disputed, Frozen)]
  BY DEF Balance, SellerBalance
<1> HIDE DEF base
<1>3. /\ Balance(s).pending = base.pending /\ Balance(s).reserved = base.reserved
      /\ Balance(s).paid = base.paid
      /\ Balance(s).available = base.available - DisputedMoney(ledger, s, Disputed, Frozen)
  BY <1>1, <1>2
<1> QED BY <1>1, <1>3

LEMMA OneMoreType ==
  ASSUME LedgerInv, ExactInv, NEW s, NEW types, NEW type, type \notin types
  PROVE  /\ SumOfTypes(s, types \cup {type}) = SumOfTypes(s, types) + SumOfTypes(s, {type})
         /\ SumOfTypes(s, types) \in Int
BY SumOfOneMoreType DEF SumOfTypes, OfType

LEMMA ReservedAndPaid ==
  ASSUME IsFiniteSet(Payout), IInv, LedgerInv, ExactInv, NEW s
  PROVE  /\ Balance(s).reserved = AmountsOf(OfSeller(s, UnderWay))
         /\ Balance(s).paid = AmountsOf(OfSeller(s, {"PAID"}))
<1> DEFINE All == OfSeller(s, PayoutStatus \ {"NONE"})
           Gone == OfSeller(s, {"CANCELLED"})
           Paid == OfSeller(s, {"PAID"})
<1>1. /\ SumOfTypes(s, {"PAYOUT_RESERVED"}) = -AmountsOf(All)
      /\ SumOfTypes(s, {"PAYOUT_REVERSED"}) = AmountsOf(Gone)
      /\ SumOfTypes(s, {"PAYOUT_PAID"}) = AmountsOf(Paid)
  BY SumsOfPayouts DEF SumOfTypes, OfType
<1>2. /\ All \in SUBSET Payout /\ All \cap Gone = Gone
      /\ (All \ Gone) \cap Paid = Paid /\ (All \ Gone) \ Paid = OfSeller(s, UnderWay)
  BY DEF OfSeller, PayoutStatus, UnderWay
<1> HIDE DEF All, Gone, Paid
<1>3. /\ AmountsOf(All) = AmountsOf(Gone) + AmountsOf(All \ Gone)
      /\ AmountsOf(Gone) \in Int /\ AmountsOf(All) \in Int /\ AmountsOf(All \ Gone) \in Int
  BY <1>2, AmountsOfParts
<1>4. /\ AmountsOf(All \ Gone) = AmountsOf(Paid) + AmountsOf(OfSeller(s, UnderWay))
      /\ AmountsOf(Paid) \in Int /\ AmountsOf(OfSeller(s, UnderWay)) \in Int
  <2>1. All \ Gone \in SUBSET Payout
    BY <1>2
  <2> QED BY <1>2, <2>1, AmountsOfParts
<1>5. SumOfTypes(s, {"PAYOUT_RESERVED", "PAYOUT_PAID"}) = -AmountsOf(All) + AmountsOf(Paid)
  <2>1. {"PAYOUT_RESERVED", "PAYOUT_PAID"} = {"PAYOUT_RESERVED"} \cup {"PAYOUT_PAID"}
    OBVIOUS
  <2>2. SumOfTypes(s, {"PAYOUT_RESERVED"} \cup {"PAYOUT_PAID"})
          = SumOfTypes(s, {"PAYOUT_RESERVED"}) + SumOfTypes(s, {"PAYOUT_PAID"})
    BY OneMoreType
  <2> QED BY <1>1, <2>1, <2>2
<1>6. SumOfTypes(s, {"PAYOUT_RESERVED", "PAYOUT_PAID", "PAYOUT_REVERSED"})
        = (-AmountsOf(All) + AmountsOf(Paid)) + AmountsOf(Gone)
  <2>1. {"PAYOUT_RESERVED", "PAYOUT_PAID", "PAYOUT_REVERSED"}
          = {"PAYOUT_RESERVED", "PAYOUT_PAID"} \cup {"PAYOUT_REVERSED"}
    OBVIOUS
  <2>2. SumOfTypes(s, {"PAYOUT_RESERVED", "PAYOUT_PAID"} \cup {"PAYOUT_REVERSED"})
          = SumOfTypes(s, {"PAYOUT_RESERVED", "PAYOUT_PAID"}) + SumOfTypes(s, {"PAYOUT_REVERSED"})
    BY OneMoreType
  <2> QED BY <1>1, <1>5, <2>1, <2>2
<1>7. Balance(s).reserved = AmountsOf(OfSeller(s, UnderWay))
  <2>1. Balance(s).reserved = -((-AmountsOf(All) + AmountsOf(Paid)) + AmountsOf(Gone))
    BY <1>6, BalanceParts
  <2> QED BY <1>3, <1>4, <2>1
<1>8. Balance(s).paid = AmountsOf(Paid)
  BY <1>1, BalanceParts
<1> QED BY <1>7, <1>8 DEF Paid

(* The refunds after the release of their order.                           *)
LEMMA RefundsAfterRelease ==
  ASSUME IsFiniteSet(Order), LedgerInv, ExactInv, NEW s
  PROVE  SumOf(RefundsAfter(ledger, s)) = -NetOf(Refunded(s) \cap Released(s))
<1>1. PayableOrders(ledger, s) = Released(s)
  <2>1. OfType(ledger, s, "SELLER_PAYABLE") = Entries("SELLER_PAYABLE", Released(s))
    BY SumsOfOrders
  <2>2. \A o \in Released(s) : \E e \in ledger : e.type = "SELLER_PAYABLE" /\ e.ref = o
    <3> SUFFICES ASSUME NEW o \in Released(s)
                 PROVE  \E e \in ledger : e.type = "SELLER_PAYABLE" /\ e.ref = o
      OBVIOUS
    <3>1. EntryOf("SELLER_PAYABLE", o) \in ledger
      BY DEF ExactInv, Exact, OrderEvents, Happened, Released, Mine
    <3>2. EntryOf("SELLER_PAYABLE", o).type = "SELLER_PAYABLE" /\ EntryOf("SELLER_PAYABLE", o).ref = o
      BY DEF EntryOf, OrderEntry, PayoutEvents
    <3> QED BY <3>1, <3>2
  <2> QED BY <2>1, <2>2 DEF PayableOrders, Entries
<1>2. OfType(ledger, s, "REFUND") = Entries("REFUND", Refunded(s))
  BY SumsOfOrders
<1>3. RefundsAfter(ledger, s) = Entries("REFUND", Refunded(s) \cap Released(s))
  BY <1>1, <1>2 DEF RefundsAfter, Entries
<1> QED BY <1>3, SumsOfOrders

LEMMA PendingIsOwed ==
  ASSUME IsFiniteSet(Order), LedgerInv, ExactInv, NEW s
  PROVE  Balance(s).pending = NetOf((Mine(s) \ Released(s)) \ Refunded(s))
<1> DEFINE M == Mine(s)
           R == Released(s)
           F == Refunded(s)
<1>1. /\ SumOfTypes(s, {"PAYMENT_CAPTURED"}) = NetOf(M)
      /\ SumOfTypes(s, {"SELLER_PAYABLE"}) = NetOf(R)
      /\ SumOfTypes(s, {"REFUND"}) = -NetOf(F)
      /\ SumOf(RefundsAfter(ledger, s)) = -NetOf(F \cap R)
  BY SumsOfOrders, RefundsAfterRelease DEF SumOfTypes, OfType
<1>2. /\ M \in SUBSET Order /\ F \in SUBSET Order /\ M \cap R = R
      /\ (M \ R) \in SUBSET Order /\ (M \ R) \cap F = F \ R
  BY DEF Mine, Released, Refunded
<1> HIDE DEF M, R, F
<1>3. NetOf(M) = NetOf(R) + NetOf(M \ R) /\ NetOf(R) \in Int
  BY <1>2, NetOfParts
<1>4. /\ NetOf(M \ R) = NetOf(F \ R) + NetOf((M \ R) \ F)
      /\ NetOf(F \ R) \in Int /\ NetOf((M \ R) \ F) \in Int
  BY <1>2, NetOfParts
<1>5. NetOf(F) = NetOf(F \cap R) + NetOf(F \ R) /\ NetOf(F \cap R) \in Int
  BY <1>2, NetOfParts
<1>6. Balance(s).pending = NetOf(M) - NetOf(R) + (-NetOf(F) - (-NetOf(F \cap R)))
  BY <1>1, BalanceParts
<1>7. Balance(s).pending = NetOf((M \ R) \ F)
  BY <1>3, <1>4, <1>5, <1>6
<1> QED BY <1>7 DEF M, R, F

(* What disputes take off: the released orders that an active dispute is   *)
(* about, unless they are frozen or refunded.                              *)
Contested(s) == (Released(s) \cap (Disputed \ Frozen)) \ Refunded(s)

LEMMA DisputesTakeOff ==
  ASSUME IsFiniteSet(Order), IInv, LedgerInv, ExactInv, NEW s
  PROVE  DisputedMoney(ledger, s, Disputed, Frozen) = NetOf(Contested(s))
<1>1. OfType(ledger, s, "SELLER_PAYABLE") = Entries("SELLER_PAYABLE", Released(s))
  BY SumsOfOrders
<1>2. \A o \in Released(s) : Has(ledger, "REFUND", o) <=> o \in Refunded(s)
  <2>1. \A e \in ledger : e.type = "REFUND" => refund[e.ref] = "COMPLETED"
    BY DEF ExactInv, Exact, OrderEvents, Happened
  <2>2. \A o \in Order : Has(ledger, "REFUND", o) <=> refund[o] = "COMPLETED"
    BY <2>1 DEF IInv, Entered, Has
  <2> QED BY <2>2 DEF Released, Refunded, Mine
<1>3. {e \in OfType(ledger, s, "SELLER_PAYABLE") : e.ref \in Disputed \ Frozen /\ ~Has(ledger, "REFUND", e.ref)}
        = Entries("SELLER_PAYABLE", Contested(s))
  BY <1>1, <1>2 DEF Entries, Contested
<1>4. Contested(s) \in SUBSET Released(s)
  BY DEF Contested
<1> QED BY <1>3, <1>4, SumsOfOrders DEF DisputedMoney

(* The payouts' entries take off what the live payouts amount to.          *)
LEMMA PayoutsTakeOff ==
  ASSUME IsFiniteSet(Payout), IInv, LedgerInv, ExactInv, NEW s
  PROVE  /\ SumOfTypes(s, {"PAYOUT_RESERVED"}) + SumOfTypes(s, {"PAYOUT_REVERSED"}) = -AmountsOf(Live(s))
         /\ SumOfTypes(s, {"PAYOUT_RESERVED"}) \in Int /\ SumOfTypes(s, {"PAYOUT_REVERSED"}) \in Int
         /\ AmountsOf(Live(s)) \in Int
<1> DEFINE All == OfSeller(s, PayoutStatus \ {"NONE"})
           Gone == OfSeller(s, {"CANCELLED"})
<1>1. /\ SumOfTypes(s, {"PAYOUT_RESERVED"}) = -AmountsOf(All)
      /\ SumOfTypes(s, {"PAYOUT_REVERSED"}) = AmountsOf(Gone)
  BY SumsOfPayouts DEF SumOfTypes, OfType
<1>2. \A p \in Payout : payout[p].status \in PayoutStatus
  BY DEF IInv, Rows, PayoutRow
<1>3. All \in SUBSET Payout /\ All \cap Gone = Gone /\ All \ Gone = Live(s)
  BY <1>2 DEF OfSeller, PayoutStatus, Live, LivePayouts
<1> HIDE DEF All, Gone
<1>4. /\ AmountsOf(All) = AmountsOf(Gone) + AmountsOf(Live(s))
      /\ AmountsOf(Gone) \in Int /\ AmountsOf(Live(s)) \in Int /\ AmountsOf(All) \in Int
  BY <1>3, AmountsOfParts
<1> QED BY <1>1, <1>4

LEMMA AvailableIsOwed ==
  ASSUME IsFiniteSet(Order), IsFiniteSet(Payout), IInv, LedgerInv, ExactInv, NEW s
  PROVE  Balance(s).available =
             (NetOf(((Released(s) \ Held) \ Refunded(s)) \ Disputed)
                - NetOf((Released(s) \cap Held) \cap (Refunded(s) \cup (Disputed \ Frozen))))
             + SumOf(OfType(ledger, s, "ADJUSTMENT"))
<1> DEFINE R == Released(s)
           F == Refunded(s)
           C == Contested(s)
           H == Held
           D == Disputed
           twice == (R \cap H) \cap (F \cup (D \ Frozen))
           sale == SumOfTypes(s, {"SELLER_PAYABLE"})
           adjusted == SumOfTypes(s, {"ADJUSTMENT"})
           reserved == SumOfTypes(s, {"PAYOUT_RESERVED"})
           reversed == SumOfTypes(s, {"PAYOUT_REVERSED"})
<1>1. sale = NetOf(R) /\ SumOf(RefundsAfter(ledger, s)) = -NetOf(F \cap R)
  BY SumsOfOrders, RefundsAfterRelease DEF SumOfTypes, OfType
<1>2. SumOfTypes(s, {"SELLER_PAYABLE", "ADJUSTMENT", "PAYOUT_RESERVED", "PAYOUT_REVERSED"})
        = ((sale + adjusted) + reserved) + reversed
  <2>1. /\ {"SELLER_PAYABLE", "ADJUSTMENT"} = {"SELLER_PAYABLE"} \cup {"ADJUSTMENT"}
        /\ {"SELLER_PAYABLE", "ADJUSTMENT", "PAYOUT_RESERVED"}
             = {"SELLER_PAYABLE", "ADJUSTMENT"} \cup {"PAYOUT_RESERVED"}
        /\ {"SELLER_PAYABLE", "ADJUSTMENT", "PAYOUT_RESERVED", "PAYOUT_REVERSED"}
             = {"SELLER_PAYABLE", "ADJUSTMENT", "PAYOUT_RESERVED"} \cup {"PAYOUT_REVERSED"}
    OBVIOUS
  <2>2. SumOfTypes(s, {"SELLER_PAYABLE"} \cup {"ADJUSTMENT"}) = sale + adjusted
    BY OneMoreType
  <2>3. SumOfTypes(s, {"SELLER_PAYABLE", "ADJUSTMENT"} \cup {"PAYOUT_RESERVED"})
          = SumOfTypes(s, {"SELLER_PAYABLE", "ADJUSTMENT"}) + reserved
    BY OneMoreType
  <2>4. SumOfTypes(s, {"SELLER_PAYABLE", "ADJUSTMENT", "PAYOUT_RESERVED"} \cup {"PAYOUT_REVERSED"})
          = SumOfTypes(s, {"SELLER_PAYABLE", "ADJUSTMENT", "PAYOUT_RESERVED"}) + reversed
    BY OneMoreType
  <2> HIDE DEF sale, adjusted, reserved, reversed
  <2> QED BY <2>1, <2>2, <2>3, <2>4
<1>3. adjusted \in Int
  <2>1. "PLATFORM_FEE" \notin {"ADJUSTMENT"}
    OBVIOUS
  <2> QED BY <2>1, OneMoreType
<1>4. reserved + reversed = -NetOf(R \cap H) /\ reserved \in Int /\ reversed \in Int
  BY PayoutsTakeOff, HeldNet
<1>5. DisputedMoney(ledger, s, Disputed, Frozen) = NetOf(C)
  BY DisputesTakeOff
<1>6. adjusted = SumOf(OfType(ledger, s, "ADJUSTMENT"))
  BY DEF SumOfTypes, OfType
<1>7. Frozen \subseteq H
  BY DEF Frozen, HasLock, Held, IInv, HoldsWhileLive
<1>8. /\ R \in SUBSET Order /\ R \ H \in SUBSET Order /\ F \cap R \in SUBSET Order
      /\ (R \ H) \ F \in SUBSET Order /\ C \in SUBSET Order /\ twice \in SUBSET Order
      /\ F \cap R \subseteq R
  BY DEF Contested, Released, Refunded, Mine
<1>9. C = (R \cap (D \ Frozen)) \ F
  BY DEF Contested
<1> HIDE DEF R, F, C, H, D, sale, adjusted, reserved, reversed
\* The released orders are held or not; those not held are refunded or not,
\* and those not refunded are disputed or not.
<1>10. NetOf(R) = NetOf(R \cap H) + NetOf(R \ H) /\ NetOf(R \cap H) \in Int /\ NetOf(R) \in Int
  BY <1>8, NetOfParts
<1>11. NetOf(R \ H) = NetOf((R \ H) \cap F) + NetOf((R \ H) \ F) /\ NetOf((R \ H) \cap F) \in Int
  BY <1>8, NetOfParts
<1>12. /\ NetOf((R \ H) \ F) = NetOf(((R \ H) \ F) \cap D) + NetOf(((R \ H) \ F) \ D)
       /\ NetOf(((R \ H) \ F) \cap D) \in Int /\ NetOf(((R \ H) \ F) \ D) \in Int
  BY <1>8, NetOfParts
\* The refunded ones are held or not.
<1>13. NetOf(F \cap R) = NetOf((F \cap R) \cap H) + NetOf((R \ H) \cap F) /\ NetOf((F \cap R) \cap H) \in Int
  <2>1. (F \cap R) \ H = (R \ H) \cap F
    OBVIOUS
  <2>2. NetOf(F \cap R) = NetOf((F \cap R) \cap H) + NetOf((F \cap R) \ H) /\ NetOf((F \cap R) \cap H) \in Int
    BY <1>8, NetOfParts
  <2> QED BY <2>1, <2>2
\* So are the contested ones: not held, they are the disputed ones above.
<1>14. NetOf(C) = NetOf(C \cap H) + NetOf(((R \ H) \ F) \cap D) /\ NetOf(C \cap H) \in Int
  <2>1. C \ H = ((R \ H) \ F) \cap D
    BY <1>7, <1>9
  <2>2. NetOf(C) = NetOf(C \cap H) + NetOf(C \ H) /\ NetOf(C \cap H) \in Int
    BY <1>8, NetOfParts
  <2> QED BY <2>1, <2>2
\* Held, they are what is taken off twice, with the refunded ones.
<1>15. NetOf(twice) = NetOf((F \cap R) \cap H) + NetOf(C \cap H) /\ NetOf(twice) \in Int
  <2>1. twice \cap F = (F \cap R) \cap H /\ twice \ F = C \cap H
    BY <1>9
  <2>2. NetOf(twice) = NetOf(twice \cap F) + NetOf(twice \ F) /\ NetOf(twice) \in Int
    BY <1>8, NetOfParts
  <2> QED BY <2>1, <2>2
<1>16. Balance(s).available = ((((NetOf(R) + adjusted) + reserved) + reversed) + -NetOf(F \cap R)) - NetOf(C)
  BY <1>1, <1>2, <1>5, BalanceParts
<1> DEFINE free == NetOf(((R \ H) \ F) \ D)
           both == NetOf(twice)
<1>17. Balance(s).available = (free - both) + adjusted
  <2> DEFINE a == NetOf(R)
             b == NetOf(R \cap H)
             c == NetOf(R \ H)
             d == NetOf((R \ H) \cap F)
             e == NetOf((R \ H) \ F)
             f == NetOf(((R \ H) \ F) \cap D)
             h == NetOf((F \cap R) \cap H)
             i == NetOf(F \cap R)
             j == NetOf(C)
             k == NetOf(C \cap H)
  <2>1. /\ a = b + c /\ c = d + e /\ e = f + free /\ i = h + d /\ j = k + f /\ both = h + k
        /\ reserved + reversed = -b
    BY <1>4, <1>10, <1>11, <1>12, <1>13, <1>14, <1>15
  <2>2. /\ b \in Int /\ d \in Int /\ f \in Int /\ free \in Int /\ h \in Int /\ k \in Int
        /\ adjusted \in Int /\ reserved \in Int /\ reversed \in Int
    BY <1>3, <1>4, <1>10, <1>11, <1>12, <1>13, <1>14
  <2>3. Balance(s).available = ((((a + adjusted) + reserved) + reversed) + -i) - j
    BY <1>16
  <2> HIDE DEF a, b, c, d, e, f, h, i, j, k, free, both
  <2> QED BY <2>1, <2>2, <2>3
<1> QED BY <1>6, <1>17 DEF R, F, H, D

----------------------------------------------------------------------------
LEMMA OwedIsBalance ==
  ASSUME IsFiniteSet(Order), IsFiniteSet(Payout), IInv, LedgerInv, ExactInv
  PROVE  BalanceIsWhatIsOwed
<1> SUFFICES ASSUME NEW s \in Seller
             PROVE  /\ Balance(s).reserved = AmountsOf(OfSeller(s, UnderWay))
                    /\ Balance(s).paid = AmountsOf(OfSeller(s, {"PAID"}))
                    /\ Balance(s).pending = NetOf((Mine(s) \ Released(s)) \ Refunded(s))
                    /\ Balance(s).available =
                         NetOf(((Released(s) \ Held) \ Refunded(s)) \ Disputed)
                            - NetOf((Released(s) \cap Held) \cap (Refunded(s) \cup (Disputed \ Frozen)))
                            + SumOf(OfType(ledger, s, "ADJUSTMENT"))
  BY DEF BalanceIsWhatIsOwed, OfSeller, UnderWay, Mine, Released, Refunded, Held
<1> QED BY ReservedAndPaid, PendingIsOwed, AvailableIsOwed

(* The balance of a seller, a sum over the entries, is what the orders and *)
(* the payouts say is owed, for any number of orders, payouts, calls and   *)
(* adjustments (seller-balance.service.ts:63).                             *)
THEOREM BalancesAreOwed ==
  ASSUME Apart, IsFiniteSet(Order), IsFiniteSet(Payout)
  PROVE  Spec => []BalanceIsWhatIsOwed
<1>1. Init => IInv /\ DisputeInv /\ LedgerInv /\ ExactInv
  BY InitIInv, InitDisputes, InitLedger, InitExact
<1>2. IInv /\ DisputeInv /\ LedgerInv /\ ExactInv /\ [Next]_vars => IInv' /\ DisputeInv' /\ LedgerInv' /\ ExactInv'
  BY Inductive, DisputesInductive, LedgerInductive, ExactInductive
<1>3. IInv /\ LedgerInv /\ ExactInv => BalanceIsWhatIsOwed
  BY OwedIsBalance
<1> QED BY <1>1, <1>2, <1>3, PTL DEF Spec
=============================================================================
