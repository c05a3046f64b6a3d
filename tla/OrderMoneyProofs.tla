--------------------------- MODULE OrderMoneyProofs ---------------------------
(***************************************************************************)
(* Money.                                                                  *)
(*                                                                         *)
(* Sales: the charge of a sale stays the one that paid for it, and a       *)
(* refunded order is never released to its seller.  They rest on           *)
(* UnpaidIsClean, which adds to StockInv that an order that is not paid    *)
(* for yet has no refund and no ledger entry: an order that is captured    *)
(* later starts its account from nothing.                                  *)
(*                                                                         *)
(* Refunds: an order has one, of the reason its story asks for; the ledger *)
(* and the payment rows tell the same; a COMPLETED refund is money the     *)
(* provider gave back; and a charge with an event that was fetched after   *)
(* the provider decided is accounted for.  They rest on what the calls in  *)
(* flight know.  What a delivery fetched may be old, but the provider only *)
(* moves forward (FetchedIsTrue).  The payment an order names was taken    *)
(* for its checkout (PaymentTraced), and so was the payment an execution   *)
(* asks to be refunded, which has been given back once the provider said   *)
(* so (ExecutionTraced).  For a checkout that is paid once, the two are    *)
(* the same payment.                                                       *)
(*                                                                         *)
(* Stock leaves with a capture and comes back once with its refund.  A     *)
(* refund that is executed a second time finds its order already REFUNDED, *)
(* unless late writes took the order out of REFUNDED and the refund out of *)
(* COMPLETED (OvertakenInv).                                               *)
(***************************************************************************)
EXTENDS OrderPaymentsProofs

UnpaidOrders == {o \in Order : order[o] \in {"NONE", "PENDING_PAYMENT"}}

\* An order that is not paid for yet has no refund, no ledger entry, and no execution of
\* a refund under way.
UnpaidIsClean ==
    /\ \A o \in UnpaidOrders : ledger[o] = {} /\ ~HasRefund(o)
    /\ \A w \in Worker : worker[w] # IdleWorker => worker[w].order \notin UnpaidOrders

\* What was clean stays so when no order becomes unpaid but from NONE, no ledger entry or
\* refund is added to an unpaid order and no execution starts on one.
LEMMA CleanKept ==
  ASSUME UnpaidIsClean, UnpaidOrders' \subseteq UnpaidOrders,
         \A o \in UnpaidOrders' : ledger'[o] = ledger[o] /\ refund'[o] = refund[o],
         \A w \in Worker : \/ worker'[w] = worker[w]
                           \/ worker'[w] = IdleWorker
                           \/ worker[w] # IdleWorker /\ worker'[w].order = worker[w].order
                           \/ worker'[w].order \notin UnpaidOrders
  PROVE  UnpaidIsClean'
<1>1. \A o \in UnpaidOrders' : ledger'[o] = {} /\ ~HasRefund(o)'
  BY DEF UnpaidIsClean, HasRefund
<1>2. \A w \in Worker : worker'[w] # IdleWorker => worker'[w].order \notin UnpaidOrders'
  BY DEF UnpaidIsClean
<1> QED
  BY <1>1, <1>2 DEF UnpaidIsClean

\* No step dirties an unpaid order.
LEMMA CleanStep == StockInv /\ TypeOK' /\ UnpaidIsClean /\ [Next]_vars => UnpaidIsClean'
<1> SUFFICES ASSUME StockInv, TypeOK', UnpaidIsClean, [Next]_vars
             PROVE  UnpaidIsClean'
  OBVIOUS
<1> USE DEF localVars, callVars, providerVars, history
<1> TypeOK /\ CheckoutCoherent /\ SaleIsCaptured
  BY DEF StockInv
<1>a. \A o \in Order : OpenReasons(o) # {} => o \notin UnpaidOrders
  BY DEF UnpaidIsClean, HasRefund, OpenReasons
<1>1. CASE UNCHANGED <<order, refund, ledger, worker>>
  BY <1>1, CleanKept DEF UnpaidOrders
<1>2. ASSUME NEW S, \A o \in S : o \in Order /\ o \notin UnpaidOrders,
             \A o \in Order \ S : ledger'[o] = ledger[o] /\ refund'[o] = refund[o],
             UnpaidOrders' \subseteq UnpaidOrders,
             \A w \in Worker : worker'[w] \in {worker[w], IdleWorker}
      PROVE  UnpaidIsClean'
  <2>1. UnpaidOrders \subseteq Order
    BY DEF UnpaidOrders
  <2>2. \A o \in UnpaidOrders' : o \in Order \ S
    BY <1>2, <2>1
  <2> QED
    BY <1>2, <2>2, CleanKept
<1>3. ASSUME NEW S, DropReservations(S), UNCHANGED <<refund, ledger, worker>>
      PROVE  UnpaidIsClean'
  <2>1. UnpaidOrders' \subseteq UnpaidOrders
    BY <1>3 DEF DropReservations, SetStatus, UnpaidOrders
  <2> QED
    BY <1>3, <2>1, CleanKept
<1>4. ASSUME NEW S \in SUBSET Order, NEW why, NEW id, FinalizeRefunds(S, why, id),
             \A o \in S : o \notin UnpaidOrders,
             \A w \in Worker : worker'[w] \in {worker[w], IdleWorker}
      PROVE  UnpaidIsClean'
  <2>1. UnpaidOrders' \subseteq UnpaidOrders
    BY <1>4 DEF FinalizeRefunds, SetStatus, UnpaidOrders
  <2>2. \A o \in Order \ S : ledger'[o] = ledger[o] /\ refund'[o] = refund[o]
    BY <1>4 DEF FinalizeRefunds
  <2> QED
    BY <1>2, <1>4, <2>1, <2>2
<1>5. ASSUME NEW c \in Checkout, CheckoutStep(c)
      PROVE  UnpaidIsClean'
  <2>1. CASE CreateCheckout(c)
    <3>1. \A o \in Order : o \in OrdersOf(c) => order[o] = "NONE"
      BY <2>1 DEF CreateCheckout, CheckoutCoherent, OrdersOf
    <3>2. UnpaidOrders' \subseteq UnpaidOrders
      BY <2>1, <3>1 DEF CreateCheckout, SetStatus, UnpaidOrders
    <3> QED
      BY <2>1, <3>2, CleanKept DEF CreateCheckout
  <2>2. CASE ExpireCheckout(c)
    BY <1>3, <2>2 DEF ExpireCheckout
  <2> QED
    BY <1>1, <1>5, <2>1, <2>2 DEF CheckoutStep, AskPreference, AttachPreference, BecomeDue
<1>6. ASSUME NEW o \in Order, OrderStep(o)
      PROVE  UnpaidIsClean'
  <2>1. CASE CancelUnpaid(o)
    BY <1>3, <2>1 DEF CancelUnpaid
  <2>2. CASE RequestRefund(o)
    <3>1. o \notin UnpaidOrders /\ \A o2 \in Order \ {o} : refund'[o2] = refund[o2]
      BY <2>2 DEF RequestRefund, StockConsumed, UnpaidOrders, TypeOK
    <3>2. UNCHANGED <<order, ledger, worker>>
      BY <2>2 DEF RequestRefund
    <3> QED
      BY <3>1, <3>2, CleanKept DEF UnpaidOrders
  <2>3. CASE Confirm(o)
    <3>1. /\ o \notin UnpaidOrders
          /\ \A o2 \in Order \ {o} : ledger'[o2] = ledger[o2] /\ order'[o2] = order[o2]
      BY <2>3 DEF Confirm, CanConfirm, UnpaidOrders, TypeOK
    <3>2. order'[o] = "COMPLETED" /\ UNCHANGED <<refund, worker>>
      BY <2>3 DEF Confirm, TypeOK
    <3> QED
      BY <3>1, <3>2, CleanKept DEF UnpaidOrders
  <2> QED
    BY <1>6, <2>1, <2>2, <2>3 DEF OrderStep
<1>7. ASSUME NEW p \in ProviderPayment, ProviderStep(p)
      PROVE  UnpaidIsClean'
  BY <1>1, <1>7 DEF ProviderStep, Pay, Decide, RefundOutside, SettleRefund
<1>8. ASSUME NEW d \in Delivery, WebhookStep(d)
      PROVE  UnpaidIsClean'
  <2> DEFINE c == PaysFor[delivery[d].by]
  <2>1. CASE ApplyApproved(d)
    <3> DEFINE S == PendingOrders(c)
    <3>1. \A o \in Order : /\ order'[o] = IF o \in S THEN "PAID" ELSE order[o]
                           /\ o \notin S => ledger'[o] = ledger[o]
      BY <2>1 DEF ApplyApproved, SetStatus
    <3>2. refund' = refund /\ worker' = worker
      BY <2>1 DEF ApplyApproved
    <3> HIDE DEF S
    <3>3. \A o \in Order : o \in UnpaidOrders' => o \notin S /\ order'[o] = order[o]
      BY <3>1 DEF UnpaidOrders
    <3> QED
      BY <3>1, <3>2, <3>3, CleanKept DEF UnpaidOrders
  <2>2. CASE RecordLatePayment(d)
    <3>1. \A o \in OrdersOf(c) : o \in Order /\ o \notin UnpaidOrders
      BY <2>2 DEF RecordLatePayment, ClosedUnsold, OrdersOf, CheckoutCoherent, UnpaidOrders
    <3>2. \A o \in Order \ OrdersOf(c) : refund'[o] = refund[o]
      BY <2>2 DEF RecordLatePayment
    <3>3. UNCHANGED <<order, ledger, worker>>
      BY <2>2 DEF RecordLatePayment
    <3> HIDE DEF c
    <3> QED
      BY <1>2, <3>1, <3>2, <3>3 DEF UnpaidOrders
  <2>3. CASE ApplyRejected(d)
    BY <1>3, <2>3 DEF ApplyRejected
  <2>4. CASE SyncProviderRefunded(d)
    <3>1. PICK S, why, id : /\ S \subseteq Order
                            /\ \A o \in S : OpenReasons(o) # {}
                            /\ FinalizeRefunds(S, why, id)
      BY <2>4 DEF SyncProviderRefunded, OrdersOf
    <3>2. worker' = worker
      BY <2>4 DEF SyncProviderRefunded
    <3> QED
      BY <1>a, <1>4, <3>1, <3>2
  <2> QED
    BY <1>1, <1>8, <2>1, <2>2, <2>3, <2>4
       DEF WebhookStep, FetchPayment, DropDelivery, PeekUnsold, AcknowledgeOnly, AcknowledgePending
<1>9. ASSUME NEW w \in Worker, RefundStep(w)
      PROVE  UnpaidIsClean'
  <2> DEFINE o == worker[w].order
  <2>w. worker[w].stage # "idle" =>
           /\ o \in Order
           /\ \A stage : [worker[w] EXCEPT !.stage = stage].order = o
           /\ \A stage, id : [worker[w] EXCEPT !.stage = stage, !.id = id].order = o
    BY DEF TypeOK, WorkerRow, IdleWorker
  <2>1. worker[w].stage # "idle" => worker[w] # IdleWorker /\ o \in Order /\ o \notin UnpaidOrders
    BY <2>w DEF UnpaidIsClean, IdleWorker
  <2>2. ASSUME UNCHANGED <<order, refund, ledger>>,
               \A w2 \in Worker : \/ worker'[w2] \in {worker[w2], IdleWorker}
                                  \/ worker[w2] # IdleWorker /\ worker'[w2].order = worker[w2].order
        PROVE  UnpaidIsClean'
    BY <2>2, CleanKept DEF UnpaidOrders
  <2>3. ASSUME FreeWorker(w), UNCHANGED <<order, refund, ledger>>
        PROVE  UnpaidIsClean'
    BY <2>2, <2>3 DEF TypeOK, FreeWorker
  <2>4. ASSUME NEW stage, StepTo(w, stage), worker[w].stage # "idle", UNCHANGED <<order, refund, ledger>>
        PROVE  UnpaidIsClean'
    <3>1. worker' = [worker EXCEPT ![w] = [worker[w] EXCEPT !.stage = stage]] /\ worker[w] # IdleWorker
      BY <2>4 DEF StepTo, IdleWorker
    <3>2. [worker[w] EXCEPT !.stage = stage].order = worker[w].order
      BY <2>4, <2>w
    <3> QED
      BY <2>2, <2>4, <3>1, <3>2 DEF TypeOK
  <2>5. ASSUME NEW stage, NEW id, Answer(w, stage, id), worker[w].stage # "idle",
               UNCHANGED <<order, refund, ledger>>
        PROVE  UnpaidIsClean'
    <3>1. worker' = [worker EXCEPT ![w] = [worker[w] EXCEPT !.stage = stage, !.id = id]]
      BY <2>5 DEF Answer
    <3>2. [worker[w] EXCEPT !.stage = stage, !.id = id].order = worker[w].order /\ worker[w] # IdleWorker
      BY <2>5, <2>w, <2>1
    <3> QED
      BY <2>2, <2>5, <3>1, <3>2 DEF TypeOK
  <2>6. ASSUME FreeWorker(w), worker[w].stage # "idle", UNCHANGED <<order, ledger>>,
               \A o2 \in Order \ {o} : refund'[o2] = refund[o2]
        PROVE  UnpaidIsClean'
    <3>1. \A w2 \in Worker : worker'[w2] \in {worker[w2], IdleWorker}
      BY <2>6 DEF TypeOK, FreeWorker
    <3> HIDE DEF o
    <3> QED
      BY <2>1, <2>6, <3>1, CleanKept DEF UnpaidOrders
  <2>7. ASSUME NEW o2 \in Order, NEW r \in Reason, StartRefund(w, o2, r)
        PROVE  UnpaidIsClean'
    <3>1. o2 \notin UnpaidOrders
      BY <1>a, <2>7 DEF StartRefund
    <3>2. \A w2 \in Worker : worker'[w2] = worker[w2] \/ worker'[w2].order = o2
      BY <2>7 DEF TypeOK, StartRefund
    <3> QED
      BY <2>7, <3>1, <3>2, CleanKept DEF StartRefund, UnpaidOrders
  <2>8. CASE CompleteRefund(w)
    <3>1. PICK why, id : FinalizeRefunds({o}, why, id)
      BY <2>8 DEF CompleteRefund
    <3>2. worker[w].stage # "idle" /\ \A w2 \in Worker : worker'[w2] \in {worker[w2], IdleWorker}
      BY <2>8 DEF TypeOK, CompleteRefund, Confirmed, FreeWorker
    <3> QED
      BY <1>4, <2>1, <3>1, <3>2
  <2>9. CASE KeepPending(w)
    BY <2>6, <2>9 DEF KeepPending, TypeOK
  <2>10. CASE MarkFailedWrites(w)
    BY <2>6, <2>10 DEF MarkFailedWrites, TypeOK
  <2>11. CASE ProviderRefunds(w)
    BY <2>4, <2>5, <2>11 DEF ProviderRefunds
  <2>12. CASE ProviderDefers(w) \/ ProviderReplays(w) \/ ProviderAlreadyRefunded(w)
    BY <2>5, <2>12 DEF ProviderDefers, ProviderReplays, ProviderAlreadyRefunded
  <2>13. CASE ProviderFails(w) \/ CompleteRefundThrows(w) \/ MarkFailedReads(w)
    BY <2>3, <2>4, <2>13 DEF ProviderFails, CompleteRefundThrows, MarkFailedReads
  <2>14. CASE CompletedMeanwhile(w) \/ WorkerDies(w)
    BY <2>3, <2>14 DEF CompletedMeanwhile, WorkerDies
  <2> QED
    BY <1>9, <2>7, <2>8, <2>9, <2>10, <2>11, <2>12, <2>13, <2>14 DEF RefundStep
<1>10. ASSUME NEW q \in Request, RequestStep(q)
       PROVE  UnpaidIsClean'
  <2>1. CASE WriteStatus(q)
    <3>1. request[q].order \in Order /\ Captured \in ledger[request[q].order]
      BY <2>1 DEF TypeOK, WriteStatus, RequestRow, SaleIsCaptured
    <3>2. request[q].order \notin UnpaidOrders
      BY <3>1 DEF SaleIsCaptured, UnpaidOrders
    <3>3. request[q].to \in UnlockedStatus
      BY <2>1 DEF TypeOK, WriteStatus, RequestRow
    <3>4. UnpaidOrders' \subseteq UnpaidOrders
      BY <2>1, <3>3 DEF TypeOK, WriteStatus, UnlockedStatus, UnpaidOrders
    <3> QED
      BY <2>1, <3>4, CleanKept DEF WriteStatus
  <2>2. CASE ~WriteStatus(q)
    BY <1>1, <1>10, <2>2 DEF RequestStep, ReadForUpdate
  <2> QED
    BY <2>1, <2>2
<1> QED
  BY <1>1, <1>5, <1>6, <1>7, <1>8, <1>9, <1>10 DEF Next, vars

\* Unpaid orders are clean in every reachable state.
LEMMA UnpaidStaysClean == Spec => []UnpaidIsClean
<1>1. Init => UnpaidIsClean
  BY DEF Init, UnpaidIsClean, UnpaidOrders, HasRefund
<1>2. StockInv /\ StockInv' /\ UnpaidIsClean /\ [Next]_vars => UnpaidIsClean'
  BY CleanStep DEF StockInv
<1> QED
  BY <1>1, <1>2, StockInvariant, PTL DEF Spec

----------------------------------------------------------------------------

\* A step does not put another provider payment on a captured order: ApplyApproved is
\* about unpaid orders, and RecordLatePayment about checkouts that sold nothing.
LEMMA ChargeStep ==
  ASSUME StockInv, [Next]_vars, NEW o \in Order, Captured \in ledger[o]
  PROVE  payment'[o].by = payment[o].by
<1> USE DEF localVars, callVars, providerVars, history
<1> payment \in [Order -> PaymentRow]
  BY DEF StockInv, TypeOK
<1>1. \A status : [payment[o] EXCEPT !.status = status].by = payment[o].by
  BY DEF PaymentRow
<1>2. /\ order[o] \notin {"NONE", "PENDING_PAYMENT", "CANCELLED"}
      /\ checkout[CheckoutOf[o]] \notin {"EXPIRED", "CANCELLED"}
  BY DEF StockInv, SaleIsCaptured, CheckoutCoherent
<1>3. ASSUME NEW c \in Checkout, CheckoutStep(c)
      PROVE  payment'[o].by = payment[o].by
  <2>1. CASE AskPreference(c)
    BY <1>1, <2>1 DEF AskPreference
  <2> QED
    BY <1>3, <2>1 DEF CheckoutStep, CreateCheckout, AttachPreference, BecomeDue, ExpireCheckout
<1>4. ASSUME NEW o2 \in Order, OrderStep(o2)
      PROVE  payment'[o].by = payment[o].by
  <2>1. CASE Confirm(o2)
    <3>1. payment' = [payment EXCEPT ![o2] = [payment[o2] EXCEPT !.status = "RELEASED"]]
      BY <2>1 DEF Confirm
    <3> QED
      BY <1>1, <3>1
  <2> QED
    BY <1>4, <2>1 DEF OrderStep, CancelUnpaid, RequestRefund
<1>5. ASSUME NEW p \in ProviderPayment, ProviderStep(p)
      PROVE  payment'[o].by = payment[o].by
  BY <1>5 DEF ProviderStep, Pay, Decide, RefundOutside, SettleRefund
<1>6. ASSUME NEW S, NEW why, NEW id, FinalizeRefunds(S, why, id)
      PROVE  payment'[o].by = payment[o].by
  BY <1>1, <1>6 DEF FinalizeRefunds
<1>7. ASSUME NEW d \in Delivery, WebhookStep(d)
      PROVE  payment'[o].by = payment[o].by
  <2>1. CASE ApplyApproved(d)
    BY <1>2, <2>1 DEF ApplyApproved, PendingOrders, OrdersOf
  <2>2. CASE RecordLatePayment(d)
    BY <1>2, <2>2 DEF RecordLatePayment, ClosedUnsold, OrdersOf
  <2>3. CASE ApplyRejected(d)
    BY <1>1, <2>3 DEF ApplyRejected
  <2>4. CASE SyncProviderRefunded(d)
    BY <1>6, <2>4 DEF SyncProviderRefunded
  <2> QED
    BY <1>7, <2>1, <2>2, <2>3, <2>4
       DEF WebhookStep, FetchPayment, DropDelivery, PeekUnsold, AcknowledgeOnly, AcknowledgePending
<1>8. ASSUME NEW w \in Worker, RefundStep(w)
      PROVE  payment'[o].by = payment[o].by
  <2>1. CASE CompleteRefund(w)
    BY <1>6, <2>1 DEF CompleteRefund
  <2> QED
    BY <1>8, <2>1, RefundStepWrites
<1>9. ASSUME NEW q \in Request, RequestStep(q)
      PROVE  payment'[o].by = payment[o].by
  BY <1>9 DEF RequestStep, ReadForUpdate, WriteStatus
<1> QED
  BY <1>3, <1>4, <1>5, <1>7, <1>8, <1>9 DEF Next, vars

\* The refund of a sale goes to the payment that bought it.
THEOREM ChargesKeepTheirPayment == Spec => ChargeKeepsItsPayment
<1>1. StockInv /\ [Next]_vars =>
          [\A o \in Order : Captured \in ledger[o] => payment'[o].by = payment[o].by]_vars
  BY ChargeStep
<1> QED
  BY <1>1, StockInvariant, PTL DEF Spec, ChargeKeepsItsPayment

----------------------------------------------------------------------------

\* Held money has not been refunded.
HeldIsNotRefunded ==
    \A o \in Order : payment[o].status = "HELD" => \A r \in Reason : RefundEntry(r) \notin ledger[o]

\* Money becomes held with the capture of a clean order, and refunding it ends that.
LEMMA HeldStep ==
  TypeOK /\ UnpaidIsClean /\ HeldIsNotRefunded /\ [Next]_vars => HeldIsNotRefunded'
<1> SUFFICES ASSUME TypeOK, UnpaidIsClean, HeldIsNotRefunded, [Next]_vars
             PROVE  HeldIsNotRefunded'
  OBVIOUS
<1> USE DEF localVars, callVars, providerVars, history
<1> payment \in [Order -> PaymentRow]
  BY DEF TypeOK
<1>1. \A o \in Order : \A status : [payment[o] EXCEPT !.status = status].status = status
  BY DEF PaymentRow
<1>2. ASSUME \A o \in Order : payment'[o].status = "HELD" => payment[o].status = "HELD",
             ledger' = ledger
      PROVE  HeldIsNotRefunded'
  BY <1>2 DEF HeldIsNotRefunded
<1>3. ASSUME NEW S \in SUBSET Order, NEW why \in [S -> Reason], NEW id, FinalizeRefunds(S, why, id)
      PROVE  HeldIsNotRefunded'
  <2>1. \A o \in Order : /\ payment'[o].status = "HELD" => o \notin S /\ payment[o].status = "HELD"
                         /\ o \notin S => ledger'[o] = ledger[o]
    BY <1>1, <1>3 DEF FinalizeRefunds
  <2> QED
    BY <2>1 DEF HeldIsNotRefunded
<1>4. ASSUME NEW c \in Checkout, CheckoutStep(c)
      PROVE  HeldIsNotRefunded'
  <2>1. \A o \in Order : payment'[o].status = "HELD" => payment[o].status = "HELD"
    BY <1>1, <1>4, ZenonT(60) DEF CheckoutStep, CreateCheckout, AskPreference, AttachPreference, BecomeDue,
                      ExpireCheckout
  <2> QED
    BY <1>2, <1>4, <2>1 DEF CheckoutStep, CreateCheckout, AskPreference, AttachPreference, BecomeDue,
                            ExpireCheckout
<1>5. ASSUME NEW o \in Order, OrderStep(o)
      PROVE  HeldIsNotRefunded'
  <2>1. CASE Confirm(o)
    <3>1. /\ payment' = [payment EXCEPT ![o] = [payment[o] EXCEPT !.status = "RELEASED"]]
          /\ ledger' = [ledger EXCEPT ![o] = ledger[o] \cup {Payable}]
      BY <2>1 DEF Confirm
    <3>2. \A o2 \in Order : payment'[o2].status = "HELD" =>
              o2 # o /\ payment[o2].status = "HELD" /\ ledger'[o2] = ledger[o2]
      BY <1>1, <3>1 DEF TypeOK
    <3> QED
      BY <3>2 DEF HeldIsNotRefunded
  <2> QED
    BY <1>2, <1>5, <2>1 DEF OrderStep, CancelUnpaid, RequestRefund
<1>6. ASSUME NEW p \in ProviderPayment, ProviderStep(p)
      PROVE  HeldIsNotRefunded'
  BY <1>2, <1>6 DEF ProviderStep, Pay, Decide, RefundOutside, SettleRefund
<1>7. ASSUME NEW d \in Delivery, WebhookStep(d)
      PROVE  HeldIsNotRefunded'
  <2>1. CASE ApplyApproved(d)
    <3> DEFINE S == PendingOrders(PaysFor[delivery[d].by])
    <3>1. \A o \in S : o \in UnpaidOrders
      BY DEF PendingOrders, OrdersOf, UnpaidOrders
    <3>2. \A o \in Order : /\ o \in S => ledger'[o] = ledger[o] \cup {Captured}
                           /\ o \notin S => ledger'[o] = ledger[o] /\ payment'[o] = payment[o]
      BY <2>1 DEF ApplyApproved
    <3>3. \A r : RefundEntry(r) # Captured
      BY DEF RefundEntry, Captured
    <3> HIDE DEF S
    <3>4. \A o \in Order, r \in Reason : o \in S => RefundEntry(r) \notin ledger'[o]
      BY <3>1, <3>2, <3>3 DEF UnpaidIsClean
    <3> QED
      BY <3>2, <3>4 DEF HeldIsNotRefunded
  <2>2. CASE RecordLatePayment(d)
    <3>1. \A o \in Order : payment'[o].status = "HELD" => payment[o].status = "HELD"
      BY <2>2 DEF RecordLatePayment
    <3> QED
      BY <1>2, <2>2, <3>1 DEF RecordLatePayment
  <2>3. CASE ApplyRejected(d)
    <3>1. \A o \in Order : payment'[o].status = "HELD" => payment[o].status = "HELD"
      BY <1>1, <2>3 DEF ApplyRejected
    <3> QED
      BY <1>2, <2>3, <3>1 DEF ApplyRejected
  <2>4. CASE SyncProviderRefunded(d)
    <3>1. PICK S, why, id : S \subseteq Order /\ why \in [S -> Reason] /\ FinalizeRefunds(S, why, id)
      BY <2>4 DEF SyncProviderRefunded, OrdersOf, OpenReasons
    <3> QED
      BY <1>3, <3>1
  <2> QED
    BY <1>2, <1>7, <2>1, <2>2, <2>3, <2>4
       DEF WebhookStep, FetchPayment, DropDelivery, PeekUnsold, AcknowledgeOnly, AcknowledgePending
<1>8. ASSUME NEW w \in Worker, RefundStep(w)
      PROVE  HeldIsNotRefunded'
  <2>1. CASE CompleteRefund(w)
    <3>1. worker[w].order \in Order /\ worker[w].why \in Reason
      BY <2>1, WorkerRows DEF TypeOK, CompleteRefund, Confirmed
    <3>2. PICK why, id : /\ why \in [{worker[w].order} -> Reason]
                         /\ FinalizeRefunds({worker[w].order}, why, id)
      BY <2>1, <3>1 DEF CompleteRefund
    <3> QED
      BY <1>3, <3>1, <3>2
  <2> QED
    BY <1>2, <1>8, <2>1, RefundStepWrites
<1>9. ASSUME NEW q \in Request, RequestStep(q)
      PROVE  HeldIsNotRefunded'
  BY <1>2, <1>9 DEF RequestStep, ReadForUpdate, WriteStatus
<1> QED
  <2>1. CASE UNCHANGED vars
    BY <1>2, <2>1 DEF vars
  <2> QED
    BY <1>4, <1>5, <1>6, <1>7, <1>8, <1>9, <2>1 DEF Next

\* Only Confirm makes a seller payable, and it wants the money held.
LEMMA PayableStep ==
  ASSUME TypeOK, [Next]_vars, NEW o \in Order, Payable \notin ledger[o], Payable \in ledger'[o]
  PROVE  payment[o].status = "HELD"
<1> USE DEF localVars, callVars, providerVars, history
<1>1. Payable # Captured /\ \A r : Payable # RefundEntry(r)
  BY DEF Payable, Captured, RefundEntry
<1>2. ASSUME NEW S, NEW why, NEW id, FinalizeRefunds(S, why, id)
      PROVE  FALSE
  BY <1>1, <1>2 DEF FinalizeRefunds
<1>3. CASE ledger' = ledger
  BY <1>3
<1>4. ASSUME NEW o2 \in Order, Confirm(o2)
      PROVE  payment[o].status = "HELD"
  <2>1. ledger' = [ledger EXCEPT ![o2] = ledger[o2] \cup {Payable}] /\ payment[o2].status = "HELD"
    BY <1>4 DEF Confirm, CanConfirm
  <2> QED
    BY <2>1 DEF TypeOK
<1>5. ASSUME NEW d \in Delivery, ApplyApproved(d)
      PROVE  FALSE
  BY <1>1, <1>5 DEF ApplyApproved
<1>6. ASSUME NEW d \in Delivery, SyncProviderRefunded(d)
      PROVE  FALSE
  BY <1>2, <1>6 DEF SyncProviderRefunded
<1>7. ASSUME NEW w \in Worker, CompleteRefund(w)
      PROVE  FALSE
  BY <1>2, <1>7 DEF CompleteRefund
<1>8. ASSUME NEW c \in Checkout, CreateCheckout(c) \/ ExpireCheckout(c)
      PROVE  ledger' = ledger
  BY <1>8 DEF CreateCheckout, ExpireCheckout
<1>9. ASSUME NEW o2 \in Order, CancelUnpaid(o2)
      PROVE  ledger' = ledger
  BY <1>9 DEF CancelUnpaid
<1>10. ASSUME NEW d \in Delivery, ApplyRejected(d)
       PROVE  ledger' = ledger
  BY <1>10 DEF ApplyRejected
<1>11. ASSUME NEW q \in Request, RequestStep(q)
       PROVE  ledger' = ledger
  BY <1>11 DEF RequestStep, ReadForUpdate, WriteStatus
<1> QED
  <2>1. CASE UNCHANGED vars
    BY <1>3, <2>1 DEF vars
  <2>2. CASE Next
    BY <1>3, <1>4, <1>5, <1>6, <1>7, <1>8, <1>9, <1>10, <1>11, <2>2, StockSteps
  <2> QED
    BY <2>1, <2>2

\* The seller of a refunded order is never made payable for it afterwards.
THEOREM RefundedStaysUnreleased == Spec => RefundedIsNeverReleased
<1>1. Init => HeldIsNotRefunded
  BY DEF Init, HeldIsNotRefunded
<1>2. StockInv /\ UnpaidIsClean /\ HeldIsNotRefunded /\ [Next]_vars => HeldIsNotRefunded'
  BY HeldStep DEF StockInv
<1>3. StockInv /\ HeldIsNotRefunded /\ [Next]_vars =>
          [\A o \in Order, r \in Reason :
              RefundEntry(r) \in ledger[o] /\ Payable \notin ledger[o] => Payable \notin ledger'[o]]_vars
  BY PayableStep DEF StockInv, HeldIsNotRefunded
<1> QED
  BY <1>1, <1>2, <1>3, StockInvariant, UnpaidStaysClean, PTL DEF Spec, RefundedIsNeverReleased

----------------------------------------------------------------------------
(* Refunds.                                                                *)

\* The buyer's money was taken, and may have been given back since.
Taken(p) == provider[p] \in {"approved", "refunded"}

\* The provider has decided about the payment.
Decided(p) == provider[p] \notin {"none", "pending"}

\* What a delivery fetched is still true of its payment, or was true before a refund.
Fetched(d) ==
    LET p == delivery[d].by
    IN  /\ provider[p] # "none"
        /\ delivery[d].status = "approved" => Taken(p)
        /\ delivery[d].status \in {"refunded", "refunded_unsold"} => provider[p] = "refunded"
        /\ delivery[d].status = "rejected" => provider[p] = "rejected"
        /\ delivery[d].status # "pending" => Decided(p)

\* Events processed once their payment was decided.
Settled == processed \ early

FetchedIsTrue ==
    /\ \A d \in Delivery : delivery[d] # IdleDelivery => Fetched(d)
    /\ \A p \in ProviderPayment, kind \in EventKind : <<p, kind>> \in Settled => Decided(p)

\* The payment an order names was taken for its checkout, and an order that was sold or is
\* to be refunded names one.
PaymentTraced ==
    \A o \in Order :
        /\ payment[o].by # Nothing => PaysFor[payment[o].by] = CheckoutOf[o] /\ Taken(payment[o].by)
        /\ HasRefund(o) \/ Captured \in ledger[o] => payment[o].by # Nothing

\* An execution is of a refund that exists, and asks for money of a payment that was taken
\* for the order's checkout.  Once the provider has approved it, the money is back.
Traced(w) ==
    LET p == worker[w].by
        o == worker[w].order
        r == worker[w].why
    IN  /\ refund[o][r].status # "NONE"
        /\ p # Nothing /\ PaysFor[p] = CheckoutOf[o] /\ Taken(p)
        /\ worker[w].stage = "approved" => GivenBack(p, o, r)

ExecutionTraced == \A w \in Worker : worker[w] # IdleWorker => Traced(w)

----------------------------------------------------------------------------
(* The provider only moves forward.                                        *)

Forward ==
    /\ \A p \in ProviderPayment :
          \/ provider'[p] = provider[p]
          \/ provider[p] = "none" /\ provider'[p] \in {"pending", "approved", "rejected"}
          \/ provider[p] = "pending" /\ provider'[p] \in {"approved", "rejected"}
          \/ provider[p] = "approved" /\ provider'[p] = "refunded"
    /\ \A p \in ProviderPayment, o \in Order, r \in Reason :
          providerRefund[p][o][r] = "approved" => providerRefund'[p][o][r] = "approved"

\* What the provider gives back stays given back.
LEMMA GiveBackIsForward ==
  ASSUME TypeOK, NEW p, NEW o, NEW r, GiveBack(p, o, r)
  PROVE  /\ Forward
         /\ p \in ProviderPayment /\ o \in Order /\ r \in Reason => providerRefund'[p][o][r] = "approved"
<1>1. /\ providerRefund \in [ProviderPayment -> [Order -> [Reason -> ProviderRefundStatus]]]
      /\ provider \in [ProviderPayment -> ProviderStatus]
  BY DEF TypeOK
<1>2. /\ provider[p] = "approved"
      /\ providerRefund' = [providerRefund EXCEPT ![p][o][r] = "approved"]
      /\ provider' \in {provider, [provider EXCEPT ![p] = "refunded"]}
  BY DEF GiveBack
<1> QED
  BY <1>1, <1>2 DEF Forward

\* Every step moves the provider forward or leaves it alone.
LEMMA ProviderMoves ==
  ASSUME TypeOK, [Next]_vars
  PROVE  Forward
<1> USE DEF localVars, callVars, providerVars, history
<1>1. CASE UNCHANGED providerVars
  BY <1>1 DEF Forward
<1>2. ASSUME NEW p \in ProviderPayment, ProviderStep(p)
      PROVE  Forward
  <2>1. ASSUME NEW outcome \in {"pending", "approved", "rejected"}, Pay(p, outcome)
        PROVE  Forward
    BY <2>1 DEF TypeOK, Pay, Forward
  <2>4. ASSUME NEW outcome \in {"approved", "rejected"}, Decide(p, outcome)
        PROVE  Forward
    BY <2>4 DEF TypeOK, Decide, Forward
  <2>2. CASE RefundOutside(p)
    BY <2>2 DEF TypeOK, RefundOutside, Forward
  <2>3. ASSUME NEW o \in Order, NEW r \in Reason, SettleRefund(p, o, r)
        PROVE  Forward
    BY <2>3, GiveBackIsForward DEF SettleRefund
  <2> QED
    BY <1>2, <2>1, <2>2, <2>3, <2>4 DEF ProviderStep
<1>3. ASSUME NEW w \in Worker, RefundStep(w)
      PROVE  Forward
  <2>1. CASE ProviderRefunds(w)
    BY <2>1, GiveBackIsForward DEF ProviderRefunds
  <2>2. CASE ProviderDefers(w)
    <3>1. providerRefund \in [ProviderPayment -> [Order -> [Reason -> ProviderRefundStatus]]]
      BY DEF TypeOK
    <3> QED
      BY <2>2, <3>1 DEF ProviderDefers, Known, Forward
  <2> QED
    BY <1>1, <1>3, <2>1, <2>2, RefundStepWrites
<1>4. ASSUME NEW c \in Checkout, CheckoutStep(c)
      PROVE  UNCHANGED providerVars
  BY <1>4 DEF CheckoutStep, CreateCheckout, AskPreference, AttachPreference, BecomeDue, ExpireCheckout
<1>5. ASSUME NEW o \in Order, OrderStep(o)
      PROVE  UNCHANGED providerVars
  BY <1>5 DEF OrderStep, CancelUnpaid, RequestRefund, Confirm
<1>6. ASSUME NEW d \in Delivery, WebhookStep(d)
      PROVE  UNCHANGED providerVars
  BY <1>6 DEF WebhookStep, FetchPayment, DropDelivery, ApplyApproved, RecordLatePayment, PeekUnsold,
              ApplyRejected, AcknowledgeOnly, AcknowledgePending, SyncProviderRefunded
<1>7. ASSUME NEW q \in Request, RequestStep(q)
      PROVE  UNCHANGED providerVars
  BY <1>7 DEF RequestStep, ReadForUpdate, WriteStatus
<1> QED
  BY <1>1, <1>2, <1>3, <1>4, <1>5, <1>6, <1>7 DEF Next, vars

\* What was taken, or given back, stays so, and a payment is not the second one of its
\* checkout only later.
LEMMA ForwardKeeps ==
  ASSUME TypeOK, Forward
  PROVE  /\ \A p \in ProviderPayment : /\ Taken(p) => Taken(p)'
                                       /\ provider[p] # "none" => provider'[p] # "none"
                                       /\ Decided(p) => Decided(p)'
                                       /\ provider[p] = "rejected" => provider'[p] = "rejected"
                                       /\ provider[p] = "refunded" => provider'[p] = "refunded"
         /\ \A p \in ProviderPayment, o \in Order, r \in Reason : GivenBack(p, o, r) => GivenBack(p, o, r)'
         /\ \A c \in Checkout : PaidOnce(c)' => PaidOnce(c)
<1>1. \A p \in ProviderPayment : /\ Taken(p) => Taken(p)'
                                 /\ provider[p] # "none" => provider'[p] # "none"
                                 /\ Decided(p) => Decided(p)'
                                 /\ provider[p] = "rejected" => provider'[p] = "rejected"
                                 /\ provider[p] = "refunded" => provider'[p] = "refunded"
  BY DEF Forward, Taken, Decided
<1>2. \A p \in ProviderPayment, o \in Order, r \in Reason : GivenBack(p, o, r) => GivenBack(p, o, r)'
  BY <1>1 DEF Forward, GivenBack
<1>3. \A c \in Checkout : Approvals(c) \subseteq Approvals(c)'
  BY <1>1 DEF Approvals, Taken
<1> QED
  BY <1>1, <1>2, <1>3 DEF PaidOnce

----------------------------------------------------------------------------
(* What a delivery fetched.                                                *)

\* A delivery is fetched, ends, or looks at a checkout that is still open; what it
\* processes is its own event.
LEMMA DeliveryMoves ==
  ASSUME TypeOK, [Next]_vars
  PROVE  /\ \A d \in Delivery :
              \/ delivery'[d] \in {delivery[d], IdleDelivery}
              \/ /\ \E p \in ProviderPayment, kind \in EventKind :
                       /\ provider[p] # "none"
                       /\ delivery'[d] = [by |-> p, kind |-> kind, status |-> provider[p]]
                 /\ provider' = provider
              \/ /\ delivery[d] # IdleDelivery /\ delivery[d].status = "refunded"
                 /\ delivery'[d] = [delivery[d] EXCEPT !.status = "refunded_unsold"]
         /\ \A e \in Settled' :
              e \in Settled \/ \E d \in Delivery : /\ delivery[d] # IdleDelivery
                                                  /\ delivery[d].status # "pending"
                                                  /\ e = EventOf(d)
<1> USE DEF localVars, callVars, providerVars, history
<1> delivery \in [Delivery -> DeliveryRow]
  BY DEF TypeOK
<1>1. CASE UNCHANGED <<delivery, processed, early>>
  BY <1>1 DEF Settled
<1>2. ASSUME NEW d \in Delivery, Finish(d)
      PROVE  \A d2 \in Delivery : delivery'[d2] \in {delivery[d2], IdleDelivery}
  BY <1>2 DEF Finish
<1>3. ASSUME NEW d \in Delivery, NEW p \in ProviderPayment, NEW kind \in EventKind, FetchPayment(d, p, kind)
      PROVE  /\ delivery' = [delivery EXCEPT ![d] = [by |-> p, kind |-> kind, status |-> provider[p]]]
             /\ provider[p] # "none" /\ UNCHANGED <<provider, processed, early>>
  <2>1. kind \in {"created", "decided", "refunded", "payment"}
    BY OrderPaymentsAssumption
  <2>2. "none" \notin NotifiedStatus[kind]
    BY <2>1 DEF NotifiedStatus
  <2> QED
    BY <1>3, <2>2 DEF FetchPayment
<1>4. ASSUME NEW d \in Delivery, PeekUnsold(d)
      PROVE  /\ delivery[d] # IdleDelivery /\ delivery[d].status = "refunded"
             /\ delivery' = [delivery EXCEPT ![d] = [delivery[d] EXCEPT !.status = "refunded_unsold"]]
             /\ UNCHANGED <<processed, early>>
  BY <1>4 DEF PeekUnsold, Claim
<1>5. ASSUME NEW d \in Delivery,
             \/ DropDelivery(d) \/ ApplyApproved(d) \/ RecordLatePayment(d) \/ ApplyRejected(d)
             \/ AcknowledgeOnly(d) \/ AcknowledgePending(d) \/ SyncProviderRefunded(d)
      PROVE  /\ Finish(d)
             /\ \A e \in Settled' : \/ e \in Settled
                                    \/ /\ delivery[d] # IdleDelivery
                                       /\ delivery[d].status # "pending"
                                       /\ e = EventOf(d)
  <2>1. CASE DropDelivery(d)
    BY <2>1 DEF DropDelivery, Settled
  <2>2. CASE AcknowledgePending(d)
    BY <2>2 DEF AcknowledgePending, Processed, Settled
  <2>3. CASE \/ ApplyApproved(d) \/ RecordLatePayment(d) \/ ApplyRejected(d)
             \/ AcknowledgeOnly(d) \/ SyncProviderRefunded(d)
    <3>1. /\ delivery[d] # IdleDelivery /\ delivery[d].status # "pending"
          /\ Finish(d) /\ Processed(d) /\ early' = early
      BY <2>3 DEF ApplyApproved, RecordLatePayment, ApplyRejected, AcknowledgeOnly,
                  SyncProviderRefunded, Claim
    <3> QED
      BY <3>1 DEF Processed, Settled
  <2> QED
    BY <1>5, <2>1, <2>2, <2>3
<1>6. ASSUME NEW c \in Checkout, CheckoutStep(c)
      PROVE  UNCHANGED <<delivery, processed, early>>
  BY <1>6 DEF CheckoutStep, CreateCheckout, AskPreference, AttachPreference, BecomeDue, ExpireCheckout
<1>7. ASSUME NEW o \in Order, OrderStep(o)
      PROVE  UNCHANGED <<delivery, processed, early>>
  BY <1>7 DEF OrderStep, CancelUnpaid, RequestRefund, Confirm
<1>8. ASSUME NEW p \in ProviderPayment, ProviderStep(p)
      PROVE  UNCHANGED <<delivery, processed, early>>
  BY <1>8 DEF ProviderStep, Pay, Decide, RefundOutside, SettleRefund
<1>9. ASSUME NEW w \in Worker, RefundStep(w)
      PROVE  UNCHANGED <<delivery, processed, early>>
  BY <1>9, RefundStepWrites
<1>10. ASSUME NEW q \in Request, RequestStep(q)
       PROVE  UNCHANGED <<delivery, processed, early>>
  BY <1>10 DEF RequestStep, ReadForUpdate, WriteStatus
<1>11. CASE \E d \in Delivery : WebhookStep(d)
  <2> PICK d \in Delivery : WebhookStep(d)
    BY <1>11
  <2>1. CASE \E p \in ProviderPayment, kind \in EventKind : FetchPayment(d, p, kind)
    BY <1>3, <2>1 DEF Settled
  <2>2. CASE PeekUnsold(d)
    BY <1>4, <2>2 DEF Settled
  <2>3. CASE \/ DropDelivery(d) \/ ApplyApproved(d) \/ RecordLatePayment(d) \/ ApplyRejected(d)
             \/ AcknowledgeOnly(d) \/ AcknowledgePending(d) \/ SyncProviderRefunded(d)
    BY <1>2, <1>5, <2>3
  <2> QED
    BY <2>1, <2>2, <2>3 DEF WebhookStep
<1> QED
  BY <1>1, <1>6, <1>7, <1>8, <1>9, <1>10, <1>11 DEF Next, vars

\* What was fetched stays true.
LEMMA FetchedStep == TypeOK /\ FetchedIsTrue /\ [Next]_vars => FetchedIsTrue'
<1> SUFFICES ASSUME TypeOK, FetchedIsTrue, [Next]_vars
             PROVE  FetchedIsTrue'
  OBVIOUS
<1>1. \A p \in ProviderPayment : /\ Taken(p) => Taken(p)'
                                 /\ provider[p] # "none" => provider'[p] # "none"
                                 /\ Decided(p) => Decided(p)'
                                 /\ provider[p] = "rejected" => provider'[p] = "rejected"
                                 /\ provider[p] = "refunded" => provider'[p] = "refunded"
  BY ProviderMoves, ForwardKeeps
<1>2. ASSUME NEW d \in Delivery, delivery'[d] # IdleDelivery
      PROVE  Fetched(d)'
  <2>1. CASE delivery'[d] = delivery[d]
    <3>1. delivery[d].by \in ProviderPayment /\ Fetched(d)
      BY <1>2, <2>1, DeliveryRows DEF TypeOK, FetchedIsTrue
    <3> QED
      BY <1>1, <2>1, <3>1 DEF Fetched, Taken
  <2>2. ASSUME NEW p \in ProviderPayment, NEW kind \in EventKind, provider[p] # "none",
               delivery'[d] = [by |-> p, kind |-> kind, status |-> provider[p]], provider' = provider
        PROVE  Fetched(d)'
    <3>1. delivery'[d].by = p /\ delivery'[d].status = provider'[p]
      BY <2>2
    <3>2. provider'[p] \in ProviderStatus
      BY <2>2 DEF TypeOK
    <3> QED
      BY <2>2, <3>1, <3>2 DEF Fetched, Taken, Decided, ProviderStatus
  <2>3. ASSUME delivery[d] # IdleDelivery, delivery[d].status = "refunded",
               delivery'[d] = [delivery[d] EXCEPT !.status = "refunded_unsold"]
        PROVE  Fetched(d)'
    <3>1. delivery[d].by \in ProviderPayment /\ Fetched(d)
      BY <2>3, DeliveryRows DEF TypeOK, FetchedIsTrue
    <3>2. delivery'[d].by = delivery[d].by /\ delivery'[d].status = "refunded_unsold"
      <4>1. delivery[d] \in [by : ProviderPayment, kind : EventKind, status : DeliveryStatus]
        BY <2>3 DEF TypeOK, DeliveryRow
      <4> QED
        BY <2>3, <4>1
    <3> QED
      BY <1>1, <2>3, <3>1, <3>2 DEF Fetched
  <2> QED
    BY <1>2, <2>1, <2>2, <2>3, DeliveryMoves
<1>3. ASSUME NEW p \in ProviderPayment, NEW kind \in EventKind, <<p, kind>> \in Settled'
      PROVE  Decided(p)'
  <2>1. CASE <<p, kind>> \in Settled
    BY <1>1, <2>1 DEF FetchedIsTrue
  <2>2. ASSUME NEW d \in Delivery, delivery[d] # IdleDelivery, delivery[d].status # "pending",
               <<p, kind>> = EventOf(d)
        PROVE  Decided(p)'
    <3>1. p = delivery[d].by /\ Fetched(d)
      BY <2>2 DEF EventOf, FetchedIsTrue
    <3>2. Decided(p)
      BY <2>2, <3>1 DEF Fetched, Decided
    <3> QED
      BY <1>1, <3>2
  <2>3. \/ <<p, kind>> \in Settled
        \/ \E d \in Delivery : /\ delivery[d] # IdleDelivery
                               /\ delivery[d].status # "pending"
                               /\ <<p, kind>> = EventOf(d)
    BY <1>3, DeliveryMoves, Zenon
  <2> QED
    BY <2>1, <2>2, <2>3
<1> QED
  BY <1>2, <1>3 DEF FetchedIsTrue

\* What was fetched is true in every reachable state.
LEMMA FetchedStaysTrue == Spec => []FetchedIsTrue
<1>1. Init => FetchedIsTrue
  BY DEF Init, FetchedIsTrue, Settled
<1> QED
  BY <1>1, FetchedStep, TypeCorrect, PTL DEF Spec

----------------------------------------------------------------------------
(* Which steps write a payment, a refund or a ledger entry, and what.      *)

LEMMA MoneySteps ==
  ASSUME [Next]_vars
  PROVE  \/ UNCHANGED <<payment, refund, ledger>>
         \/ /\ UNCHANGED <<refund, ledger>>
            /\ \/ \E c \in Checkout : AskPreference(c)
               \/ \E d \in Delivery : ApplyRejected(d)
         \/ /\ UNCHANGED <<payment, ledger>>
            /\ \/ \E o \in Order : RequestRefund(o)
               \/ \E w \in Worker : KeepPending(w) \/ MarkFailedWrites(w)
         \/ \E o \in Order : Confirm(o)
         \/ \E d \in Delivery : ApplyApproved(d) \/ RecordLatePayment(d) \/ SyncProviderRefunded(d)
         \/ \E w \in Worker : CompleteRefund(w)
<1> USE DEF localVars, callVars, providerVars, history
<1>1. ASSUME NEW c \in Checkout, CheckoutStep(c)
      PROVE  UNCHANGED <<payment, refund, ledger>> \/ (AskPreference(c) /\ UNCHANGED <<refund, ledger>>)
  BY <1>1 DEF CheckoutStep, CreateCheckout, AskPreference, AttachPreference, BecomeDue, ExpireCheckout
<1>2. ASSUME NEW o \in Order, OrderStep(o)
      PROVE  \/ UNCHANGED <<payment, refund, ledger>>
             \/ RequestRefund(o) /\ UNCHANGED <<payment, ledger>>
             \/ Confirm(o)
  BY <1>2 DEF OrderStep, CancelUnpaid, RequestRefund
<1>3. ASSUME NEW p \in ProviderPayment, ProviderStep(p)
      PROVE  UNCHANGED <<payment, refund, ledger>>
  BY <1>3 DEF ProviderStep, Pay, Decide, RefundOutside, SettleRefund
<1>4. ASSUME NEW d \in Delivery, WebhookStep(d)
      PROVE  \/ UNCHANGED <<payment, refund, ledger>>
             \/ ApplyRejected(d) /\ UNCHANGED <<refund, ledger>>
             \/ ApplyApproved(d) \/ RecordLatePayment(d) \/ SyncProviderRefunded(d)
  BY <1>4 DEF WebhookStep, FetchPayment, DropDelivery, PeekUnsold, AcknowledgeOnly, AcknowledgePending, ApplyRejected
<1>5. ASSUME NEW w \in Worker, RefundStep(w)
      PROVE  \/ UNCHANGED <<payment, refund, ledger>>
             \/ (KeepPending(w) \/ MarkFailedWrites(w)) /\ UNCHANGED <<payment, ledger>>
             \/ CompleteRefund(w)
  BY <1>5, RefundStepWrites
<1>6. ASSUME NEW q \in Request, RequestStep(q)
      PROVE  UNCHANGED <<payment, refund, ledger>>
  BY <1>6 DEF RequestStep, ReadForUpdate, WriteStatus
<1> QED
  BY <1>1, <1>2, <1>3, <1>4, <1>5, <1>6 DEF Next, vars

\* What is completed: refunds that exist and are not COMPLETED, one of each order, whose
\* money the provider gave back when the checkout was paid once.
Completes(S, why, id) ==
    /\ S \subseteq Order /\ why \in [S -> Reason]
    /\ FinalizeRefunds(S, why, id)
    /\ \A o \in S : /\ refund[o][why[o]].status \notin {"NONE", "COMPLETED"}
                    /\ payment[o].by # Nothing
                    /\ PaidOnce(CheckoutOf[o]) => GivenBack(payment[o].by, o, why[o])

LEMMA Finalized ==
  ASSUME TypeOK, FetchedIsTrue, PaymentTraced, ExecutionTraced,
         \/ \E d \in Delivery : SyncProviderRefunded(d)
         \/ \E w \in Worker : CompleteRefund(w)
  PROVE  \E S, why, id : Completes(S, why, id)
<1> USE DEF localVars, callVars, providerVars, history
<1>1. \A o \in Order, r \in Reason : refund[o][r].status # "NONE" =>
          payment[o].by \in Approvals(CheckoutOf[o]) /\ payment[o].by # Nothing
  <2> SUFFICES ASSUME NEW o \in Order, NEW r \in Reason, refund[o][r].status # "NONE"
               PROVE  payment[o].by \in Approvals(CheckoutOf[o]) /\ payment[o].by # Nothing
    OBVIOUS
  <2>1. payment[o].by \in ProviderPayment \cup {Nothing}
    BY PaymentRows DEF TypeOK, PaymentRow
  <2> QED
    BY <2>1 DEF PaymentTraced, HasRefund, Approvals, Taken
<1>2. ASSUME NEW d \in Delivery, SyncProviderRefunded(d)
      PROVE  \E S, why, id : Completes(S, why, id)
  <2> DEFINE c == PaysFor[delivery[d].by]
             S == {o \in OrdersOf(c) : payment[o].status # "REFUNDED" /\ OpenReasons(o) # {}}
             why == [o \in S |-> CHOOSE r \in OpenReasons(o) : TRUE]
  <2>1. PICK id : FinalizeRefunds(S, why, id)
    BY <1>2 DEF SyncProviderRefunded
  <2>2. \A o \in S : o \in Order /\ CheckoutOf[o] = c /\ why[o] \in OpenReasons(o)
    BY DEF OrdersOf
  <2>3. \A o \in S : why[o] \in Reason /\ refund[o][why[o]].status \notin {"NONE", "COMPLETED"}
    BY <2>2 DEF OpenReasons
  <2>4. why \in [S -> Reason]
    BY <2>3
  <2>5. delivery[d] # IdleDelivery /\ delivery[d].status = "refunded"
    BY <1>2 DEF SyncProviderRefunded, Claim
  <2>6. delivery[d].by \in Approvals(c) /\ provider[delivery[d].by] = "refunded"
    BY <2>5, DeliveryRows DEF TypeOK, FetchedIsTrue, Fetched, Approvals
  <2> HIDE DEF S, why, c
  <2>7. ASSUME NEW o \in S
        PROVE  payment[o].by # Nothing /\ (PaidOnce(c) => provider[payment[o].by] = "refunded")
    <3>1. payment[o].by \in Approvals(c) /\ payment[o].by # Nothing
      BY <1>1, <2>2, <2>3
    <3> QED
      BY <2>6, <3>1 DEF PaidOnce
  <2>8. \A o \in S : /\ refund[o][why[o]].status \notin {"NONE", "COMPLETED"}
                     /\ payment[o].by # Nothing
                     /\ PaidOnce(CheckoutOf[o]) => GivenBack(payment[o].by, o, why[o])
    BY <2>2, <2>3, <2>7 DEF GivenBack
  <2> QED
    BY <2>1, <2>2, <2>4, <2>8 DEF Completes
<1>3. ASSUME NEW w \in Worker, CompleteRefund(w)
      PROVE  \E S, why, id : Completes(S, why, id)
  <2> DEFINE o == worker[w].order
             r == worker[w].why
             p == worker[w].by
             S == {o}
             why == [o2 \in S |-> r]
  <2>1. worker[w].stage = "approved"
    BY <1>3 DEF CompleteRefund, Confirmed
  <2>2. worker[w] # IdleWorker
    BY <2>1 DEF IdleWorker
  <2>3. o \in Order /\ r \in Reason /\ p \in ProviderPayment \cup {Nothing}
    BY <2>1, WorkerRows DEF TypeOK
  <2>4. /\ refund[o][r].status \notin {"NONE", "COMPLETED"}
        /\ p # Nothing /\ PaysFor[p] = CheckoutOf[o] /\ Taken(p) /\ GivenBack(p, o, r)
    BY <1>3, <2>1, <2>2 DEF ExecutionTraced, Traced, CompleteRefund, StillOpen
  <2>5. /\ payment[o].by # Nothing
        /\ PaidOnce(CheckoutOf[o]) => p = payment[o].by
    BY <1>1, <2>3, <2>4 DEF PaidOnce, Approvals, Taken
  <2>6. PICK id : FinalizeRefunds(S, why, id)
    BY <1>3 DEF CompleteRefund
  <2>7. S \subseteq Order /\ why \in [S -> Reason] /\ \A o2 \in S : o2 = o /\ why[o2] = r
    BY <2>3
  <2> HIDE DEF S, why, o, r, p
  <2>8. \A o2 \in S : /\ refund[o2][why[o2]].status \notin {"NONE", "COMPLETED"}
                      /\ payment[o2].by # Nothing
                      /\ PaidOnce(CheckoutOf[o2]) => GivenBack(payment[o2].by, o2, why[o2])
    BY <2>4, <2>5, <2>7
  <2> QED
    BY <2>6, <2>7, <2>8 DEF Completes
<1> QED
  BY <1>2, <1>3

\* What completing refunds writes, order by order.
LEMMA FinalizeRows ==
  ASSUME TypeOK, NEW S, NEW why, NEW id, Completes(S, why, id), NEW o \in Order
  PROVE  /\ payment'[o].by = payment[o].by
         /\ o \notin S => /\ payment'[o] = payment[o]
                          /\ refund'[o] = refund[o]
                          /\ ledger'[o] = ledger[o]
         /\ o \in S => /\ payment'[o].status = "REFUNDED"
                       /\ refund'[o][why[o]].status = "COMPLETED"
                       /\ \A r \in Reason \ {why[o]} : refund'[o][r] = refund[o][r]
                       /\ ledger'[o] = ledger[o] \cup {RefundEntry(why[o])}
<1> USE DEF Completes
<1>1. CASE o \notin S
  BY <1>1 DEF FinalizeRefunds
<1>2. CASE o \in S
  <2>1. /\ payment'[o] = [payment[o] EXCEPT !.status = "REFUNDED"]
        /\ refund'[o] = [refund[o] EXCEPT ![why[o]] = [status |-> "COMPLETED", id |-> id[o]]]
        /\ ledger'[o] = ledger[o] \cup {RefundEntry(why[o])}
    BY <1>2 DEF FinalizeRefunds
  <2>2. payment[o] \in PaymentRow /\ refund[o] \in [Reason -> RefundRow] /\ why[o] \in Reason
    BY <1>2 DEF TypeOK
  <2>3. payment'[o].by = payment[o].by /\ payment'[o].status = "REFUNDED"
    BY <2>1, <2>2 DEF PaymentRow
  <2>4. /\ refund'[o][why[o]] = [status |-> "COMPLETED", id |-> id[o]]
        /\ \A r \in Reason \ {why[o]} : refund'[o][r] = refund[o][r]
    BY <2>1, <2>2
  <2> QED
    BY <1>2, <2>1, <2>3, <2>4
<1> QED
  BY <1>1, <1>2

\* No refund row goes away, and one that begins is of the reason its order asks for: a sale
\* is cancelled, or a payment is recorded for an order that is never sold.
RefundBegins(o, r) ==
    \/ r = "cancelacion" /\ Captured \in ledger[o]
    \/ r # "cancelacion" /\ Captured \notin ledger[o] /\ payment'[o].by # Nothing

LEMMA RefundMoves ==
  ASSUME StockInv, TypeOK', FetchedIsTrue, PaymentTraced, ExecutionTraced, [Next]_vars,
         NEW o \in Order, NEW r \in Reason
  PROVE  /\ refund[o][r].status # "NONE" => refund'[o][r].status # "NONE"
         /\ refund'[o][r].status # "NONE" =>
               refund[o][r].status # "NONE" \/ (ledger' = ledger /\ RefundBegins(o, r))
<1> DEFINE Goal == /\ refund[o][r].status # "NONE" => refund'[o][r].status # "NONE"
                   /\ refund'[o][r].status # "NONE" =>
                         refund[o][r].status # "NONE" \/ (ledger' = ledger /\ RefundBegins(o, r))
<1> TypeOK /\ CheckoutCoherent /\ SaleIsCaptured
  BY DEF StockInv
<1>t. /\ refund \in [Order -> [Reason -> RefundRow]]
      /\ \A o2 \in Order, r2 \in Reason : refund[o2][r2] \in RefundRow
  BY DEF TypeOK
<1>s. \A row \in RefundRow : \A status : [row EXCEPT !.status = status].status = status
  BY DEF RefundRow
<1>1. CASE UNCHANGED refund
  BY <1>1
<1>2. ASSUME NEW o2 \in Order, RequestRefund(o2)
      PROVE  Goal
  <2>1. Captured \in ledger[o2] /\ ledger' = ledger
    BY <1>2 DEF RequestRefund, StockConsumed, SaleIsCaptured
  <2>2. \/ ~HasRefund(o2) /\ refund' = [refund EXCEPT ![o2]["cancelacion"].status = "PENDING"]
        \/ \E r2 \in Reason : /\ refund[o2][r2].status = "FAILED"
                              /\ refund' = [refund EXCEPT ![o2][r2].status = "PENDING"]
    BY <1>2 DEF RequestRefund
  <2>3. CASE ~HasRefund(o2) /\ refund' = [refund EXCEPT ![o2]["cancelacion"].status = "PENDING"]
    <3>1. "cancelacion" \in Reason
      BY DEF Reason
    <3>2. refund'[o][r].status = IF o = o2 /\ r = "cancelacion" THEN "PENDING" ELSE refund[o][r].status
      BY <1>t, <1>s, <2>3, <3>1
    <3> QED
      BY <2>1, <3>2 DEF RefundBegins
  <2>4. ASSUME NEW r2 \in Reason, refund[o2][r2].status = "FAILED",
               refund' = [refund EXCEPT ![o2][r2].status = "PENDING"]
        PROVE  Goal
    <3>1. refund'[o][r].status = IF o = o2 /\ r = r2 THEN "PENDING" ELSE refund[o][r].status
      BY <1>t, <1>s, <2>4
    <3> QED
      BY <2>4, <3>1
  <2> QED
    BY <2>2, <2>3, <2>4
<1>3. ASSUME NEW w \in Worker, KeepPending(w) \/ MarkFailedWrites(w)
      PROVE  Goal
  <2> DEFINE o2 == worker[w].order
             r2 == worker[w].why
  <2>1. worker[w].stage # "idle" /\ worker[w] # IdleWorker
    BY <1>3 DEF KeepPending, MarkFailedWrites, IdleWorker
  <2>2. o2 \in Order /\ r2 \in Reason /\ refund[o2][r2].status # "NONE"
    BY <2>1, WorkerRows DEF TypeOK, ExecutionTraced, Traced
  <2>3. \/ refund' = [refund EXCEPT ![o2][r2] = [status |-> "PENDING", id |-> worker[w].id]]
        \/ refund' = [refund EXCEPT ![o2][r2].status = "FAILED"]
    BY <1>3 DEF KeepPending, MarkFailedWrites
  <2> HIDE DEF o2, r2
  <2>4. refund'[o][r].status = refund[o][r].status
           \/ (o = o2 /\ r = r2 /\ refund'[o][r].status # "NONE")
    <3>1. CASE refund' = [refund EXCEPT ![o2][r2] = [status |-> "PENDING", id |-> worker[w].id]]
      BY <1>t, <2>2, <3>1
    <3>2. CASE refund' = [refund EXCEPT ![o2][r2].status = "FAILED"]
      BY <1>t, <1>s, <2>2, <3>2
    <3> QED
      BY <2>3, <3>1, <3>2
  <2> QED
    BY <2>2, <2>4
<1>4. ASSUME NEW d \in Delivery, RecordLatePayment(d)
      PROVE  Goal
  <2> DEFINE c == PaysFor[delivery[d].by]
             late == "late_payment_after_expiry"
  <2>1. /\ refund'[o] = IF o \in OrdersOf(c) /\ refund[o][late].status = "NONE"
                        THEN [refund[o] EXCEPT ![late].status = "PENDING"] ELSE refund[o]
        /\ payment'[o] = IF o \in OrdersOf(c) /\ ~Recorded(o, delivery[d].by)
                         THEN [status |-> "APPROVED", by |-> delivery[d].by] ELSE payment[o]
        /\ checkout[c] \in {"EXPIRED", "CANCELLED"} /\ ledger' = ledger
    BY <1>4 DEF RecordLatePayment, ClosedUnsold
  <2>2. delivery[d].by # Nothing
    <3>1. delivery[d] # IdleDelivery /\ delivery[d] \in DeliveryRow
      BY <1>4 DEF RecordLatePayment, Claim, TypeOK
    <3> QED
      BY <3>1, DeliveryRows, OrderPaymentsAssumption
  <2>3. o \in OrdersOf(c) => payment'[o].by # Nothing /\ Captured \notin ledger[o]
    BY <2>1, <2>2 DEF Recorded, OrdersOf, CheckoutCoherent, SaleIsCaptured
  <2>4. late \in Reason /\ late # "cancelacion"
    BY DEF Reason
  <2>5. refund'[o][r].status = IF o \in OrdersOf(c) /\ r = late /\ refund[o][late].status = "NONE"
                               THEN "PENDING" ELSE refund[o][r].status
    BY <1>t, <1>s, <2>1, <2>4
  <2> QED
    BY <2>1, <2>3, <2>4, <2>5 DEF RefundBegins
<1>5. CASE (\E d \in Delivery : SyncProviderRefunded(d)) \/ (\E w \in Worker : CompleteRefund(w))
  <2>1. PICK S, why, id : Completes(S, why, id)
    BY <1>5, Finalized
  <2>2. /\ o \notin S => refund'[o] = refund[o]
        /\ o \in S => /\ refund'[o][why[o]].status = "COMPLETED"
                      /\ \A r2 \in Reason \ {why[o]} : refund'[o][r2] = refund[o][r2]
    BY <2>1, FinalizeRows
  <2>4. CASE o \in S /\ r = why[o]
    <3>1. refund[o][r].status # "NONE" /\ refund'[o][r].status = "COMPLETED"
      BY <2>1, <2>2, <2>4 DEF Completes
    <3> QED
      BY <3>1
  <2>5. CASE ~(o \in S /\ r = why[o])
    <3>1. refund'[o][r] = refund[o][r]
      BY <2>2, <2>5
    <3> QED
      BY <3>1
  <2> QED
    BY <2>4, <2>5
<1>6. ASSUME NEW o2 \in Order, Confirm(o2)
      PROVE  UNCHANGED refund
  BY <1>6 DEF Confirm
<1>7. ASSUME NEW d \in Delivery, ApplyApproved(d)
      PROVE  UNCHANGED refund
  BY <1>7 DEF ApplyApproved
<1> QED
  BY <1>1, <1>2, <1>3, <1>4, <1>5, <1>6, <1>7, MoneySteps

\* An order is captured when its payment is applied, and stays so.
LEMMA CaptureMoves ==
  ASSUME StockInv, [Next]_vars, NEW o \in Order
  PROVE  /\ Captured \in ledger[o] => Captured \in ledger'[o]
         /\ Captured \in ledger'[o] =>
               \/ Captured \in ledger[o]
               \/ o \in UnpaidOrders /\ refund' = refund /\ payment'[o].by # Nothing
<1> DEFINE Goal == /\ Captured \in ledger[o] => Captured \in ledger'[o]
                   /\ Captured \in ledger'[o] =>
                         \/ Captured \in ledger[o]
                         \/ o \in UnpaidOrders /\ refund' = refund /\ payment'[o].by # Nothing
<1> TypeOK
  BY DEF StockInv
<1>1. CASE UNCHANGED ledger
  BY <1>1
<1>2. ASSUME NEW o2 \in Order, Confirm(o2)
      PROVE  Goal
  <2>1. ledger' = [ledger EXCEPT ![o2] = ledger[o2] \cup {Payable}]
    BY <1>2 DEF Confirm
  <2>2. Captured # Payable
    BY DEF Captured, Payable
  <2> QED
    BY <2>1, <2>2 DEF TypeOK
<1>3. ASSUME NEW d \in Delivery, ApplyApproved(d)
      PROVE  Goal
  <2> DEFINE S == PendingOrders(PaysFor[delivery[d].by])
  <2>1. /\ ledger'[o] = IF o \in S THEN ledger[o] \cup {Captured} ELSE ledger[o]
        /\ payment'[o] = IF o \in S THEN [status |-> "HELD", by |-> delivery[d].by] ELSE payment[o]
        /\ refund' = refund
    BY <1>3 DEF ApplyApproved
  <2>2. delivery[d].by # Nothing
    <3>1. delivery[d] # IdleDelivery /\ delivery[d] \in DeliveryRow
      BY <1>3 DEF ApplyApproved, Claim, TypeOK
    <3> QED
      BY <3>1, DeliveryRows, OrderPaymentsAssumption
  <2>3. o \in S => o \in UnpaidOrders
    BY DEF PendingOrders, UnpaidOrders
  <2> HIDE DEF S
  <2> QED
    BY <2>1, <2>2, <2>3
<1>4. ASSUME NEW S, NEW why, NEW id, FinalizeRefunds(S, why, id)
      PROVE  Goal
  BY <1>4 DEF FinalizeRefunds, Captured, RefundEntry
<1>5. ASSUME NEW d \in Delivery, SyncProviderRefunded(d)
      PROVE  Goal
  BY <1>4, <1>5 DEF SyncProviderRefunded
<1>6. ASSUME NEW w \in Worker, CompleteRefund(w)
      PROVE  Goal
  BY <1>4, <1>6 DEF CompleteRefund
<1>7. ASSUME NEW d \in Delivery, RecordLatePayment(d)
      PROVE  UNCHANGED ledger
  BY <1>7 DEF RecordLatePayment
<1> QED
  BY <1>1, <1>2, <1>3, <1>5, <1>6, <1>7, MoneySteps

\* An order names another payment only when a delivery found that payment taken.
LEMMA PayerMoves ==
  ASSUME TypeOK, FetchedIsTrue, [Next]_vars, NEW o \in Order
  PROVE  \/ payment'[o].by = payment[o].by
         \/ /\ payment'[o].by \in ProviderPayment
            /\ PaysFor[payment'[o].by] = CheckoutOf[o] /\ Taken(payment'[o].by)
<1> DEFINE Goal == \/ payment'[o].by = payment[o].by
                   \/ /\ payment'[o].by \in ProviderPayment
                      /\ PaysFor[payment'[o].by] = CheckoutOf[o] /\ Taken(payment'[o].by)
<1>t. payment \in [Order -> PaymentRow]
  BY DEF TypeOK
<1>s. \A o2 \in Order : \A status : [payment[o2] EXCEPT !.status = status].by = payment[o2].by
  BY <1>t DEF PaymentRow
<1>1. CASE UNCHANGED payment
  BY <1>1
<1>2. ASSUME NEW c \in Checkout, AskPreference(c)
      PROVE  Goal
  BY <1>2, <1>s DEF AskPreference
<1>3. ASSUME NEW d \in Delivery, ApplyRejected(d)
      PROVE  Goal
  BY <1>3, <1>s DEF ApplyRejected
<1>4. ASSUME NEW o2 \in Order, Confirm(o2)
      PROVE  Goal
  <2>1. payment' = [payment EXCEPT ![o2] = [payment[o2] EXCEPT !.status = "RELEASED"]]
    BY <1>4 DEF Confirm
  <2> QED
    BY <1>t, <1>s, <2>1
<1>5. ASSUME NEW d \in Delivery, ApplyApproved(d) \/ RecordLatePayment(d)
      PROVE  Goal
  <2> DEFINE p == delivery[d].by
  <2>1. /\ delivery[d] # IdleDelivery /\ delivery[d].status = "approved"
        /\ \/ payment'[o] = payment[o]
           \/ payment'[o].by = p /\ o \in OrdersOf(PaysFor[p])
    BY <1>5 DEF ApplyApproved, RecordLatePayment, Claim, PendingOrders
  <2>2. p \in ProviderPayment /\ Taken(p)
    BY <2>1, DeliveryRows DEF TypeOK, FetchedIsTrue, Fetched
  <2> QED
    BY <2>1, <2>2 DEF OrdersOf
<1>6. ASSUME NEW S, NEW why, NEW id, FinalizeRefunds(S, why, id)
      PROVE  Goal
  BY <1>6, <1>s DEF FinalizeRefunds
<1>7. ASSUME NEW d \in Delivery, SyncProviderRefunded(d)
      PROVE  Goal
  BY <1>6, <1>7 DEF SyncProviderRefunded
<1>8. ASSUME NEW w \in Worker, CompleteRefund(w)
      PROVE  Goal
  BY <1>6, <1>8 DEF CompleteRefund
<1> QED
  BY <1>1, <1>2, <1>3, <1>4, <1>5, <1>7, <1>8, MoneySteps

----------------------------------------------------------------------------
(* What orders and executions name.                                        *)

\* An execution starts on a refund that is open, with the payment its order names, and asks
\* for nothing else later; it is approved when the provider has given the money back.
Starts(w, o, r) ==
    /\ r \in OpenReasons(o)
    /\ worker'[w].order = o /\ worker'[w].why = r /\ worker'[w].by = payment[o].by
    /\ worker'[w].stage # "approved"

BackNow(p, o, r) == provider'[p] = "refunded" \/ providerRefund'[p][o][r] = "approved"

GoesOn(w) ==
    /\ worker[w] # IdleWorker
    /\ worker'[w].order = worker[w].order
    /\ worker'[w].why = worker[w].why
    /\ worker'[w].by = worker[w].by
    /\ worker'[w].stage = "approved" => BackNow(worker[w].by, worker[w].order, worker[w].why)

LEMMA WorkerMoves ==
  ASSUME TypeOK, ExecutionTraced, [Next]_vars, NEW w \in Worker
  PROVE  \/ worker'[w] = worker[w] \/ worker'[w] = IdleWorker
         \/ \E o \in Order, r \in Reason : Starts(w, o, r)
         \/ GoesOn(w)
<1> DEFINE Goal == \/ worker'[w] = worker[w] \/ worker'[w] = IdleWorker
                   \/ \E o \in Order, r \in Reason : Starts(w, o, r)
                   \/ GoesOn(w)
<1> USE DEF localVars, callVars, providerVars, history
<1>t. worker \in [Worker -> WorkerRow]
  BY DEF TypeOK
<1>1. CASE UNCHANGED worker
  BY <1>1
<1>2. ASSUME NEW w2 \in Worker, RefundStep(w2)
      PROVE  Goal
  <2> DEFINE p == worker[w].by
             o == worker[w].order
             r == worker[w].why
  <2>1. CASE w2 # w
    <3>1. ASSUME NEW row, worker' = [worker EXCEPT ![w2] = row]
          PROVE  Goal
      BY <1>t, <2>1, <3>1
    <3> QED
      BY <1>2, <3>1, RefundStepWrites
  <2>2. CASE w2 = w
    <3>1. ASSUME FreeWorker(w)
          PROVE  Goal
      BY <1>t, <3>1 DEF FreeWorker
    <3>2. ASSUME worker[w].stage # "idle"
          PROVE  /\ worker[w] # IdleWorker
                 /\ p \in ProviderPayment /\ o \in Order /\ r \in Reason
                 /\ \A stage : LET row == [worker[w] EXCEPT !.stage = stage]
                               IN  row.order = o /\ row.why = r /\ row.by = p /\ row.stage = stage
                 /\ \A stage, id : LET row == [worker[w] EXCEPT !.stage = stage, !.id = id]
                                   IN  row.order = o /\ row.why = r /\ row.by = p /\ row.stage = stage
      <4>1. worker[w] # IdleWorker
        BY <3>2 DEF IdleWorker
      <4>2. p \in ProviderPayment /\ o \in Order /\ r \in Reason
        BY <1>t, <3>2, <4>1, WorkerRows DEF ExecutionTraced, Traced
      <4>3. worker[w] \in [stage : {"calling", "approved", "pending", "error", "failing"},
                           order : Order, why : Reason, by : ProviderPayment \cup {Nothing},
                           id : RefundId \cup {Nothing}]
        BY <1>t, <4>1 DEF WorkerRow
      <4>4. /\ \A stage : LET row == [worker[w] EXCEPT !.stage = stage]
                          IN  row.order = o /\ row.why = r /\ row.by = p /\ row.stage = stage
            /\ \A stage, id : LET row == [worker[w] EXCEPT !.stage = stage, !.id = id]
                              IN  row.order = o /\ row.why = r /\ row.by = p /\ row.stage = stage
        BY <4>3
      <4> QED
        BY <4>1, <4>2, <4>4
    <3>3. ASSUME NEW stage, worker[w].stage # "idle", StepTo(w, stage), stage # "approved"
          PROVE  Goal
      <4>1. worker'[w] = [worker[w] EXCEPT !.stage = stage]
        BY <1>t, <3>3 DEF StepTo
      <4> QED
        BY <3>2, <3>3, <4>1 DEF GoesOn
    <3>4. ASSUME NEW stage, NEW id, worker[w].stage # "idle", Answer(w, stage, id),
                 stage = "approved" => BackNow(p, o, r)
          PROVE  Goal
      <4>1. worker'[w] = [worker[w] EXCEPT !.stage = stage, !.id = id]
        BY <1>t, <3>4 DEF Answer
      <4> QED
        BY <3>2, <3>4, <4>1 DEF GoesOn
    <3>5. ASSUME NEW o2 \in Order, NEW r2 \in Reason, StartRefund(w, o2, r2)
          PROVE  Goal
      <4>1. /\ r2 \in OpenReasons(o2)
            /\ worker'[w] = [stage |-> IF payment[o2].by = Nothing THEN "error" ELSE "calling",
                             order |-> o2, why |-> r2, by |-> payment[o2].by, id |-> Nothing]
        BY <1>t, <3>5 DEF StartRefund
      <4> QED
        BY <4>1 DEF Starts
    <3>6. CASE ProviderRefunds(w)
      <4>1. p \in ProviderPayment /\ o \in Order /\ r \in Reason /\ worker[w].stage # "idle"
        BY <3>2, <3>6 DEF ProviderRefunds
      <4>2. BackNow(p, o, r)
        <5>1. GiveBack(p, o, r) /\ UNCHANGED <<localVars, request, delivery, processed>>
          BY <3>6 DEF ProviderRefunds
        <5>2. providerRefund'[p][o][r] = "approved"
          BY <4>1, <5>1, GiveBackIsForward
        <5> QED
          BY <5>2 DEF BackNow
      <4> QED
        BY <3>3, <3>4, <3>6, <4>1, <4>2 DEF ProviderRefunds
    <3>7. CASE ProviderDefers(w)
      BY <3>4, <3>7 DEF ProviderDefers
    <3>8. CASE ProviderReplays(w)
      <4>1. worker[w].stage # "idle" /\ providerRefund' = providerRefund
        BY <3>8 DEF ProviderReplays
      <4>2. Answer(w, IF Known(w) = "approved" THEN "approved" ELSE "pending", OwnId(w))
        BY <3>8 DEF ProviderReplays
      <4>3. CASE Known(w) = "approved"
        <5>1. BackNow(p, o, r)
          BY <4>1, <4>3 DEF Known, BackNow
        <5> QED
          BY <3>4, <4>1, <4>2, <4>3, <5>1
      <4>4. CASE Known(w) # "approved"
        BY <3>4, <4>1, <4>2, <4>4
      <4> QED
        BY <4>3, <4>4
    <3>9. CASE ProviderAlreadyRefunded(w)
      <4>1. worker[w].stage # "idle" /\ BackNow(p, o, r)
        BY <3>9 DEF ProviderAlreadyRefunded, BackNow
      <4>2. \E id : Answer(w, "approved", id)
        BY <3>9 DEF ProviderAlreadyRefunded
      <4> QED
        BY <3>4, <4>1, <4>2
    <3>10. CASE ProviderFails(w) \/ CompleteRefundThrows(w) \/ MarkFailedReads(w)
      BY <3>1, <3>3, <3>10 DEF ProviderFails, CompleteRefundThrows, MarkFailedReads
    <3>11. CASE \/ CompleteRefund(w) \/ CompletedMeanwhile(w) \/ KeepPending(w)
                \/ MarkFailedWrites(w) \/ WorkerDies(w)
      BY <3>1, <3>11 DEF CompleteRefund, CompletedMeanwhile, KeepPending, MarkFailedWrites, WorkerDies
    <3> QED
      BY <1>2, <2>2, <3>5, <3>6, <3>7, <3>8, <3>9, <3>10, <3>11 DEF RefundStep
  <2> QED
    BY <2>1, <2>2
<1>3. ASSUME NEW c \in Checkout, CheckoutStep(c)
      PROVE  UNCHANGED worker
  BY <1>3 DEF CheckoutStep, CreateCheckout, AskPreference, AttachPreference, BecomeDue, ExpireCheckout
<1>4. ASSUME NEW o \in Order, OrderStep(o)
      PROVE  UNCHANGED worker
  BY <1>4 DEF OrderStep, CancelUnpaid, RequestRefund, Confirm
<1>5. ASSUME NEW p \in ProviderPayment, ProviderStep(p)
      PROVE  UNCHANGED worker
  BY <1>5 DEF ProviderStep, Pay, Decide, RefundOutside, SettleRefund
<1>6. ASSUME NEW d \in Delivery, WebhookStep(d)
      PROVE  UNCHANGED worker
  BY <1>6 DEF WebhookStep, FetchPayment, DropDelivery, ApplyApproved, RecordLatePayment, PeekUnsold,
              ApplyRejected, AcknowledgeOnly, AcknowledgePending, SyncProviderRefunded
<1>7. ASSUME NEW q \in Request, RequestStep(q)
      PROVE  UNCHANGED worker
  BY <1>7 DEF RequestStep, ReadForUpdate, WriteStatus
<1> QED
  BY <1>1, <1>2, <1>3, <1>4, <1>5, <1>6, <1>7 DEF Next, vars

\* The inductive invariant of refunds.
RefundInv == OneRefundPerOrder /\ FetchedIsTrue /\ PaymentTraced /\ ExecutionTraced

LEMMA RefundInvStep ==
  StockInv /\ TypeOK' /\ UnpaidIsClean /\ RefundInv /\ [Next]_vars => RefundInv'
<1> SUFFICES ASSUME StockInv, TypeOK', UnpaidIsClean, RefundInv, [Next]_vars
             PROVE  RefundInv'
  OBVIOUS
<1> TypeOK /\ OneRefundPerOrder /\ FetchedIsTrue /\ PaymentTraced /\ ExecutionTraced
  BY DEF StockInv, RefundInv
<1>1. \A o \in Order, r \in Reason :
        /\ refund[o][r].status # "NONE" => refund'[o][r].status # "NONE"
        /\ refund'[o][r].status # "NONE" =>
              refund[o][r].status # "NONE" \/ (ledger' = ledger /\ RefundBegins(o, r))
  BY RefundMoves
<1>2. \A o \in Order :
        /\ Captured \in ledger[o] => Captured \in ledger'[o]
        /\ Captured \in ledger'[o] =>
              \/ Captured \in ledger[o]
              \/ o \in UnpaidOrders /\ refund' = refund /\ payment'[o].by # Nothing
  BY CaptureMoves
<1>3. \A p \in ProviderPayment : Taken(p) => Taken(p)'
  BY ProviderMoves, ForwardKeeps
<1>4. \A p \in ProviderPayment, o \in Order, r \in Reason : GivenBack(p, o, r) => GivenBack(p, o, r)'
  BY ProviderMoves, ForwardKeeps
<1>5. OneRefundPerOrder'
  <2> SUFFICES ASSUME NEW o \in Order, NEW r \in Reason, refund'[o][r].status # "NONE"
               PROVE  r = "cancelacion" <=> Captured \in ledger'[o]
    BY DEF OneRefundPerOrder
  <2>1. CASE Captured \in ledger'[o] <=> Captured \in ledger[o]
    BY <1>1, <2>1 DEF OneRefundPerOrder, RefundBegins
  <2>2. CASE o \in UnpaidOrders /\ refund' = refund
    BY <2>2 DEF UnpaidIsClean, HasRefund
  <2> QED
    BY <1>2, <2>1, <2>2
<1>6. PaymentTraced'
  <2> SUFFICES ASSUME NEW o \in Order
               PROVE  /\ payment'[o].by # Nothing =>
                             /\ PaysFor[payment'[o].by] = CheckoutOf[o]
                             /\ provider'[payment'[o].by] \in {"approved", "refunded"}
                      /\ HasRefund(o)' \/ Captured \in ledger'[o] => payment'[o].by # Nothing
    BY DEF PaymentTraced, Taken
  <2>1. payment[o].by \in ProviderPayment \cup {Nothing}
    BY PaymentRows DEF TypeOK, PaymentRow
  <2>2. \/ payment'[o].by = payment[o].by
        \/ /\ payment'[o].by \in ProviderPayment
           /\ PaysFor[payment'[o].by] = CheckoutOf[o] /\ Taken(payment'[o].by)
    BY PayerMoves
  <2>3. payment'[o].by # Nothing => /\ PaysFor[payment'[o].by] = CheckoutOf[o]
                                    /\ provider'[payment'[o].by] \in {"approved", "refunded"}
    <3>1. payment'[o].by # Nothing =>
             /\ payment'[o].by \in ProviderPayment
             /\ PaysFor[payment'[o].by] = CheckoutOf[o] /\ Taken(payment'[o].by)
      BY <2>1, <2>2 DEF PaymentTraced
    <3> QED
      BY <1>3, <3>1 DEF Taken
  <2>4. payment[o].by # Nothing => payment'[o].by # Nothing
    BY <2>2, OrderPaymentsAssumption
  <2>5. HasRefund(o)' => payment'[o].by # Nothing
    <3> SUFFICES ASSUME NEW r \in Reason, refund'[o][r].status # "NONE"
                 PROVE  payment'[o].by # Nothing
      BY DEF HasRefund
    <3> QED
      BY <1>1, <2>4 DEF PaymentTraced, HasRefund, RefundBegins
  <2>6. Captured \in ledger'[o] => payment'[o].by # Nothing
    BY <1>2, <2>4 DEF PaymentTraced
  <2> QED
    BY <2>3, <2>5, <2>6
<1>7. ExecutionTraced'
  <2> SUFFICES ASSUME NEW w \in Worker, worker'[w] # IdleWorker
               PROVE  Traced(w)'
    BY DEF ExecutionTraced
  <2>1. ASSUME worker[w] # IdleWorker,
               worker'[w].order = worker[w].order, worker'[w].why = worker[w].why,
               worker'[w].by = worker[w].by,
               worker'[w].stage = "approved" =>
                  \/ worker[w].stage = "approved"
                  \/ BackNow(worker[w].by, worker[w].order, worker[w].why)
        PROVE  Traced(w)'
    <3>1. Traced(w)
      BY <2>1 DEF ExecutionTraced
    <3>2. worker[w].stage # "idle"
      BY <2>1 DEF TypeOK, WorkerRow
    <3>3. worker[w].order \in Order /\ worker[w].why \in Reason /\ worker[w].by \in ProviderPayment
      BY <3>1, <3>2, WorkerRows DEF TypeOK, Traced
    <3> QED
      BY <1>1, <1>3, <1>4, <2>1, <3>1, <3>3 DEF Traced, Taken, GivenBack, BackNow
  <2>2. ASSUME NEW o \in Order, NEW r \in Reason, Starts(w, o, r)
        PROVE  Traced(w)'
    <3>1. refund[o][r].status # "NONE"
      BY <2>2 DEF Starts, OpenReasons
    <3>2. payment[o].by # Nothing
      BY <3>1 DEF PaymentTraced, HasRefund
    <3>3. payment[o].by \in ProviderPayment /\ PaysFor[payment[o].by] = CheckoutOf[o] /\ Taken(payment[o].by)
      BY <3>2, PaymentRows DEF TypeOK, PaymentTraced, PaymentRow
    <3> QED
      BY <1>1, <1>3, <2>2, <3>1, <3>2, <3>3 DEF Starts, Traced, Taken
  <2>3. CASE worker'[w] = worker[w]
    BY <2>1, <2>3
  <2>4. CASE GoesOn(w)
    BY <2>1, <2>4 DEF GoesOn
  <2> QED
    BY <2>2, <2>3, <2>4, WorkerMoves
<1>8. FetchedIsTrue'
  BY FetchedStep
<1> QED
  BY <1>5, <1>6, <1>7, <1>8 DEF RefundInv

\* The refund invariant holds in every reachable state.
LEMMA RefundInvariant == Spec => []RefundInv
<1>1. Init => RefundInv
  BY DEF Init, RefundInv, OneRefundPerOrder, FetchedIsTrue, PaymentTraced, ExecutionTraced, HasRefund, Settled
<1>2. StockInv /\ StockInv' /\ UnpaidIsClean /\ RefundInv /\ [Next]_vars => RefundInv'
  BY RefundInvStep DEF StockInv
<1> QED
  BY <1>1, <1>2, StockInvariant, UnpaidStaysClean, PTL DEF Spec

\* An order has one refund at most: that of a cancelled sale if it was captured, that of a late
\* payment if it never was (refunds.service.ts, payments.service.ts).
THEOREM RefundsTellTheirStory == Spec => []OneRefundPerOrder
<1>1. RefundInv => OneRefundPerOrder
  BY DEF RefundInv
<1> QED
  BY <1>1, RefundInvariant, PTL

----------------------------------------------------------------------------
(* The ledger and the payment rows.                                        *)

\* Nothing else completes a refund.
LEMMA NothingCompleted ==
  ASSUME TypeOK,
         \/ UNCHANGED refund
         \/ \E o \in Order : RequestRefund(o)
         \/ \E w \in Worker : KeepPending(w) \/ MarkFailedWrites(w)
         \/ \E d \in Delivery : RecordLatePayment(d),
         NEW o \in Order, NEW r \in Reason, refund'[o][r].status = "COMPLETED"
  PROVE  refund[o][r].status = "COMPLETED"
<1>t. /\ refund \in [Order -> [Reason -> RefundRow]]
      /\ \A o2 \in Order, r2 \in Reason : refund[o2][r2] \in RefundRow
  BY DEF TypeOK
<1>s. \A row \in RefundRow : \A status : [row EXCEPT !.status = status].status = status
  BY DEF RefundRow
<1>1. ASSUME NEW o2, NEW r2, NEW status \in {"PENDING", "FAILED"},
             refund' = [refund EXCEPT ![o2][r2].status = status]
      PROVE  refund[o][r].status = "COMPLETED"
  BY <1>t, <1>s, <1>1
<1>2. ASSUME NEW o2 \in Order, RequestRefund(o2)
      PROVE  refund[o][r].status = "COMPLETED"
  BY <1>1, <1>2 DEF RequestRefund
<1>3. ASSUME NEW w \in Worker, KeepPending(w) \/ MarkFailedWrites(w)
      PROVE  refund[o][r].status = "COMPLETED"
  <2>1. CASE KeepPending(w)
    BY <1>t, <2>1 DEF KeepPending
  <2>2. CASE MarkFailedWrites(w)
    BY <1>1, <2>2 DEF MarkFailedWrites
  <2> QED
    BY <1>3, <2>1, <2>2
<1>4. ASSUME NEW d \in Delivery, RecordLatePayment(d)
      PROVE  refund[o][r].status = "COMPLETED"
  BY <1>t, <1>s, <1>4 DEF RecordLatePayment
<1> QED
  BY <1>2, <1>3, <1>4

\* What the ledger says of an order is what its payment and its refunds say, and it names
\* refunds that exist.
Matches(o) ==
    /\ payment[o].status \in {"HELD", "RELEASED"} => Captured \in ledger[o]
    /\ payment[o].status = "RELEASED" => Payable \in ledger[o]
    /\ Payable \in ledger[o] => Captured \in ledger[o] /\ payment[o].status \in {"RELEASED", "REFUNDED"}
    /\ \A r \in Reason : refund[o][r].status = "COMPLETED" => RefundEntry(r) \in ledger[o]
    /\ payment[o].status = "REFUNDED" => \E r \in Reason : RefundEntry(r) \in ledger[o]
    /\ PaidOnce(CheckoutOf[o]) /\ (\E r \in Reason : RefundEntry(r) \in ledger[o])
           => payment[o].status = "REFUNDED"
    /\ \A r \in Reason : RefundEntry(r) \in ledger[o] => refund[o][r].status # "NONE"

LedgerInv == \A o \in Order : Matches(o)

LEMMA LedgerStep ==
  StockInv /\ TypeOK' /\ UnpaidIsClean /\ RefundInv /\ LedgerInv /\ [Next]_vars => LedgerInv'
<1> SUFFICES ASSUME StockInv, TypeOK', UnpaidIsClean, RefundInv, LedgerInv, [Next]_vars,
                    NEW o \in Order
             PROVE  Matches(o)'
  BY DEF LedgerInv
<1> /\ TypeOK /\ CheckoutCoherent /\ SaleIsCaptured
    /\ FetchedIsTrue /\ PaymentTraced /\ ExecutionTraced /\ Matches(o)
  BY DEF StockInv, RefundInv, LedgerInv
<1>t. payment[o] \in PaymentRow /\ \A status : [payment[o] EXCEPT !.status = status].status = status
  BY DEF TypeOK, PaymentRow
<1>1. PaidOnce(CheckoutOf[o])' => PaidOnce(CheckoutOf[o])
  BY ProviderMoves, ForwardKeeps, OrderPaymentsAssumption
<1>2. \A r \in Reason : refund[o][r].status # "NONE" => refund'[o][r].status # "NONE"
  BY RefundMoves
<1>3. ASSUME ledger'[o] = ledger[o],
             \A r \in Reason : refund'[o][r].status = "COMPLETED" => refund[o][r].status = "COMPLETED",
             \/ payment'[o].status = payment[o].status
             \/ /\ payment'[o].status \notin {"HELD", "RELEASED", "REFUNDED"}
                /\ payment[o].status \notin {"RELEASED", "REFUNDED"}
             \/ /\ payment'[o].status = "APPROVED" /\ Payable \notin ledger[o]
                /\ payment[o].status = "REFUNDED" => ~PaidOnce(CheckoutOf[o])
      PROVE  Matches(o)'
  BY <1>1, <1>2, <1>3 DEF Matches
<1>4. CASE UNCHANGED <<payment, refund, ledger>>
  BY <1>3, <1>4
<1>5. ASSUME NEW c \in Checkout, AskPreference(c), UNCHANGED <<refund, ledger>>
      PROVE  Matches(o)'
  <2>1. payment'[o] \in {payment[o], [payment[o] EXCEPT !.status = "PENDING"]}
        /\ (payment'[o] # payment[o] => payment[o].status = "NONE")
    BY <1>5 DEF AskPreference
  <2> QED
    BY <1>3, <1>5, <1>t, <2>1
<1>6. ASSUME NEW d \in Delivery, ApplyRejected(d), UNCHANGED <<refund, ledger>>
      PROVE  Matches(o)'
  <2>1. CASE o \in PendingOrders(PaysFor[delivery[d].by])
    <3>1. ledger[o] = {} /\ \A r \in Reason : refund[o][r].status = "NONE"
      BY <2>1 DEF PendingOrders, UnpaidOrders, UnpaidIsClean, HasRefund
    <3>2. payment[o].status \notin {"RELEASED", "REFUNDED"}
      BY <3>1 DEF Matches
    <3>3. payment'[o].status \in {payment[o].status, "REJECTED"}
      BY <1>6, <1>t DEF ApplyRejected
    <3> QED
      BY <1>3, <1>6, <3>2, <3>3
  <2>2. CASE o \notin PendingOrders(PaysFor[delivery[d].by])
    BY <1>3, <1>6, <2>2 DEF ApplyRejected
  <2> QED
    BY <2>1, <2>2
<1>7. ASSUME UNCHANGED <<payment, ledger>>,
             \/ \E o2 \in Order : RequestRefund(o2)
             \/ \E w \in Worker : KeepPending(w) \/ MarkFailedWrites(w)
      PROVE  Matches(o)'
  BY <1>3, <1>7, NothingCompleted
<1>8. ASSUME NEW o2 \in Order, Confirm(o2)
      PROVE  Matches(o)'
  <2>1. /\ payment' = [payment EXCEPT ![o2] = [payment[o2] EXCEPT !.status = "RELEASED"]]
        /\ ledger' = [ledger EXCEPT ![o2] = ledger[o2] \cup {Payable}]
        /\ payment[o2].status = "HELD" /\ refund' = refund
    BY <1>8 DEF Confirm, CanConfirm
  <2>2. CASE o # o2
    BY <1>3, <2>1, <2>2 DEF TypeOK
  <2>3. CASE o = o2
    <3>1. payment'[o].status = "RELEASED" /\ ledger'[o] = ledger[o] \cup {Payable}
      BY <1>t, <2>1, <2>3 DEF TypeOK
    <3>2. \A r : RefundEntry(r) # Payable
      BY DEF RefundEntry, Payable
    <3> QED
      BY <1>1, <2>1, <2>3, <3>1, <3>2 DEF Matches
  <2> QED
    BY <2>2, <2>3
<1>9. ASSUME NEW d \in Delivery, ApplyApproved(d)
      PROVE  Matches(o)'
  <2> DEFINE S == PendingOrders(PaysFor[delivery[d].by])
  <2>1. /\ payment'[o] = IF o \in S THEN [status |-> "HELD", by |-> delivery[d].by] ELSE payment[o]
        /\ ledger'[o] = IF o \in S THEN ledger[o] \cup {Captured} ELSE ledger[o]
        /\ refund' = refund
    BY <1>9 DEF ApplyApproved
  <2>2. o \in S => ledger[o] = {} /\ \A r \in Reason : refund[o][r].status = "NONE"
    BY DEF PendingOrders, UnpaidOrders, UnpaidIsClean, HasRefund
  <2>3. Captured # Payable /\ \A r : RefundEntry(r) # Captured
    BY DEF RefundEntry, Payable, Captured
  <2> HIDE DEF S
  <2>4. CASE o \in S
    BY <2>1, <2>2, <2>3, <2>4 DEF Matches
  <2>5. CASE o \notin S
    BY <1>3, <2>1, <2>5
  <2> QED
    BY <2>4, <2>5
<1>10. ASSUME NEW d \in Delivery, RecordLatePayment(d)
       PROVE  Matches(o)'
  <2> DEFINE p == delivery[d].by
             c == PaysFor[p]
  <2>1. /\ payment'[o] = IF o \in OrdersOf(c) /\ ~Recorded(o, p)
                         THEN [status |-> "APPROVED", by |-> p] ELSE payment[o]
        /\ checkout[c] \in {"EXPIRED", "CANCELLED"} /\ ledger' = ledger
    BY <1>10 DEF RecordLatePayment, ClosedUnsold
  <2>2. \A r \in Reason : refund'[o][r].status = "COMPLETED" => refund[o][r].status = "COMPLETED"
    BY <1>10, NothingCompleted
  <2>3. CASE o \in OrdersOf(c) /\ ~Recorded(o, p)
    <3>1. Payable \notin ledger[o]
      BY <2>1, <2>3 DEF OrdersOf, CheckoutCoherent, SaleIsCaptured, Matches
    <3>2. delivery[d] # IdleDelivery /\ delivery[d].status = "approved"
      BY <1>10 DEF RecordLatePayment, Claim
    <3>3. p \in Approvals(c)
      BY <3>2, DeliveryRows DEF TypeOK, FetchedIsTrue, Fetched, Taken, Approvals
    <3>4. payment[o].status = "REFUNDED" => ~PaidOnce(CheckoutOf[o])
      <4> SUFFICES ASSUME payment[o].status = "REFUNDED", PaidOnce(CheckoutOf[o])
                   PROVE  FALSE
        OBVIOUS
      <4>1. HasRefund(o)
        BY DEF Matches, HasRefund
      <4>2. payment[o].by # Nothing /\ PaysFor[payment[o].by] = CheckoutOf[o] /\ Taken(payment[o].by)
        BY <4>1 DEF PaymentTraced
      <4>3. payment[o].by \in Approvals(c) /\ CheckoutOf[o] = c
        BY <1>t, <2>3, <4>2 DEF PaymentRow, Taken, Approvals, OrdersOf
      <4>4. payment[o].by = p
        BY <3>3, <4>3 DEF PaidOnce
      <4> QED
        BY <2>3, <4>4 DEF Recorded
    <3> QED
      BY <1>3, <2>1, <2>2, <2>3, <3>1, <3>4
  <2>4. CASE ~(o \in OrdersOf(c) /\ ~Recorded(o, p))
    BY <1>3, <2>1, <2>2, <2>4
  <2> QED
    BY <2>3, <2>4
<1>11. CASE (\E d \in Delivery : SyncProviderRefunded(d)) \/ (\E w \in Worker : CompleteRefund(w))
  <2>1. PICK S, why, id : Completes(S, why, id)
    BY <1>11, Finalized
  <2>2. /\ o \notin S => /\ payment'[o] = payment[o]
                         /\ refund'[o] = refund[o]
                         /\ ledger'[o] = ledger[o]
        /\ o \in S => /\ payment'[o].status = "REFUNDED"
                      /\ refund'[o][why[o]].status = "COMPLETED"
                      /\ \A r \in Reason \ {why[o]} : refund'[o][r] = refund[o][r]
                      /\ ledger'[o] = ledger[o] \cup {RefundEntry(why[o])}
    BY <2>1, FinalizeRows
  <2>3. CASE o \notin S
    BY <1>3, <2>2, <2>3
  <2>4. CASE o \in S
    <3>1. why[o] \in Reason /\ HasRefund(o)
      BY <2>1, <2>4 DEF Completes, HasRefund
    <3>2. /\ Captured # RefundEntry(why[o]) /\ Payable # RefundEntry(why[o])
          /\ \A r : RefundEntry(r) = RefundEntry(why[o]) => r = why[o]
      BY DEF Captured, Payable, RefundEntry
    <3>3. /\ Captured \in ledger[o] => Captured \in ledger'[o]
          /\ Payable \in ledger'[o] <=> Payable \in ledger[o]
          /\ \A r \in Reason : RefundEntry(r) \in ledger'[o] <=> r = why[o] \/ RefundEntry(r) \in ledger[o]
      BY <2>2, <2>4, <3>2
    <3>4. \A r \in Reason : /\ refund'[o][r].status = "COMPLETED" => RefundEntry(r) \in ledger'[o]
                            /\ RefundEntry(r) \in ledger'[o] => refund'[o][r].status # "NONE"
      BY <2>2, <2>4, <3>1, <3>3 DEF Matches
    <3> QED
      BY <2>2, <2>4, <3>1, <3>3, <3>4 DEF Matches
  <2> QED
    BY <2>3, <2>4
<1> QED
  BY <1>4, <1>5, <1>6, <1>7, <1>8, <1>9, <1>10, <1>11, MoneySteps

\* The ledger invariant holds in every reachable state.
LEMMA LedgerInvariant == Spec => []LedgerInv
<1>1. Init => LedgerInv
  BY DEF Init, LedgerInv, Matches
<1>2. StockInv /\ StockInv' /\ UnpaidIsClean /\ RefundInv /\ LedgerInv /\ [Next]_vars => LedgerInv'
  BY LedgerStep DEF StockInv
<1> QED
  BY <1>1, <1>2, StockInvariant, UnpaidStaysClean, RefundInvariant, PTL DEF Spec

\* The issues reconciliation looks for between payments, refunds and the ledger never arise,
\* whatever writes of staff, webhooks and the scheduler overlap (recon-rules.ts).
THEOREM LedgersMatchPayments == Spec => []LedgerMatchesPayment
<1>1. LedgerInv => LedgerMatchesPayment
  BY DEF LedgerInv, Matches, LedgerMatchesPayment
<1> QED
  BY <1>1, LedgerInvariant, PTL

----------------------------------------------------------------------------
(* The stock a sale takes and a refund gives back.                         *)

\* What late writes overtook is never forgotten.
LEMMA OvertakenGrows ==
  ASSUME TypeOK, [Next]_vars, NEW o \in Order
  PROVE  overtaken[o] \subseteq overtaken'[o]
<1> USE DEF localVars, callVars, providerVars, history
<1> overtaken \in [Order -> SUBSET Overtaking]
  BY DEF TypeOK
<1>1. ASSUME NEW o2, NEW what, NEW late, Overtakes(o2, what, late)
      PROVE  overtaken[o] \subseteq overtaken'[o]
  BY <1>1 DEF Overtakes
<1>2. ASSUME NEW c \in Checkout, CheckoutStep(c)
      PROVE  UNCHANGED overtaken
  BY <1>2 DEF CheckoutStep, CreateCheckout, AskPreference, AttachPreference, BecomeDue, ExpireCheckout
<1>3. ASSUME NEW o2 \in Order, OrderStep(o2)
      PROVE  UNCHANGED overtaken
  BY <1>3 DEF OrderStep, CancelUnpaid, RequestRefund, Confirm
<1>4. ASSUME NEW p \in ProviderPayment, ProviderStep(p)
      PROVE  UNCHANGED overtaken
  BY <1>4 DEF ProviderStep, Pay, Decide, RefundOutside, SettleRefund
<1>5. ASSUME NEW d \in Delivery, WebhookStep(d)
      PROVE  UNCHANGED overtaken
  BY <1>5 DEF WebhookStep, FetchPayment, DropDelivery, ApplyApproved, RecordLatePayment, PeekUnsold,
              ApplyRejected, AcknowledgeOnly, AcknowledgePending, SyncProviderRefunded
<1>6. ASSUME NEW w \in Worker, RefundStep(w)
      PROVE  overtaken[o] \subseteq overtaken'[o]
  <2>1. CASE KeepPending(w)
    BY <1>1, <2>1 DEF KeepPending
  <2>2. CASE MarkFailedWrites(w)
    BY <1>1, <2>2 DEF MarkFailedWrites
  <2>3. CASE ~KeepPending(w) /\ ~MarkFailedWrites(w)
    BY <1>6, <2>3 DEF RefundStep, StartRefund, ProviderRefunds, ProviderDefers, ProviderReplays,
                      ProviderAlreadyRefunded, ProviderFails, CompleteRefund, CompletedMeanwhile,
                      CompleteRefundThrows, MarkFailedReads, WorkerDies
  <2> QED
    BY <2>1, <2>2, <2>3
<1>7. ASSUME NEW q \in Request, RequestStep(q)
      PROVE  overtaken[o] \subseteq overtaken'[o]
  <2>1. CASE WriteStatus(q)
    BY <1>1, <2>1 DEF WriteStatus, IsRefunded
  <2>2. CASE ~WriteStatus(q)
    BY <1>7, <2>2 DEF RequestStep, ReadForUpdate
  <2> QED
    BY <2>1, <2>2
<1> QED
  BY <1>2, <1>3, <1>4, <1>5, <1>6, <1>7 DEF Next, vars

\* An order the ledger has refunded is back to PAID or PREPARING only by a late write, and
\* its refund is out of COMPLETED only by one.
OvertakenInv ==
    /\ \A o \in Order : IsRefunded(o) /\ order[o] \in StockConsumed => "order" \in overtaken[o]
    /\ \A o \in Order, r \in Reason :
          RefundEntry(r) \in ledger[o] => refund[o][r].status = "COMPLETED" \/ "refund" \in overtaken[o]

\* Only a late write puts a refunded order back.
LEMMA OrderOvertaken ==
  ASSUME StockInv, TypeOK', UnpaidIsClean, RefundInv, OvertakenInv, [Next]_vars, NEW o \in Order,
         IsRefunded(o)', order'[o] \in StockConsumed
  PROVE  "order" \in overtaken'[o]
<1> TypeOK /\ FetchedIsTrue /\ PaymentTraced /\ ExecutionTraced
  BY DEF StockInv, RefundInv
<1>1. overtaken[o] \subseteq overtaken'[o]
  BY OvertakenGrows
<1>2. CASE IsRefunded(o) /\ order[o] \in StockConsumed
  BY <1>1, <1>2 DEF OvertakenInv
<1>3. CASE UNCHANGED <<checkout, order, ledger, listing, request>>
  BY <1>2, <1>3 DEF IsRefunded
<1>4. ASSUME NEW S, NEW status, status \notin StockConsumed, order' = SetStatus(S, status), ledger' = ledger
      PROVE  "order" \in overtaken'[o]
  BY <1>2, <1>4 DEF SetStatus, IsRefunded
<1>5. ASSUME NEW c \in Checkout, CreateCheckout(c) \/ ExpireCheckout(c)
      PROVE  "order" \in overtaken'[o]
  BY <1>4, <1>5 DEF CreateCheckout, ExpireCheckout, DropReservations, StockConsumed
<1>6. ASSUME NEW o2 \in Order, CancelUnpaid(o2)
      PROVE  "order" \in overtaken'[o]
  BY <1>4, <1>6 DEF CancelUnpaid, DropReservations, StockConsumed
<1>7. ASSUME NEW o2 \in Order, Confirm(o2)
      PROVE  "order" \in overtaken'[o]
  <2>1. /\ order' = [order EXCEPT ![o2] = "COMPLETED"]
        /\ ledger' = [ledger EXCEPT ![o2] = ledger[o2] \cup {Payable}]
    BY <1>7 DEF Confirm
  <2>2. o # o2
    BY <2>1 DEF TypeOK, StockConsumed
  <2> QED
    BY <1>2, <2>1, <2>2 DEF IsRefunded
<1>8. ASSUME NEW d \in Delivery, ApplyApproved(d)
      PROVE  "order" \in overtaken'[o]
  <2> DEFINE S == PendingOrders(PaysFor[delivery[d].by])
  <2>1. /\ ledger'[o] = IF o \in S THEN ledger[o] \cup {Captured} ELSE ledger[o]
        /\ order'[o] = IF o \in S THEN "PAID" ELSE order[o]
    BY <1>8 DEF ApplyApproved, SetStatus
  <2>2. o \in S => ledger[o] = {}
    BY DEF PendingOrders, UnpaidOrders, UnpaidIsClean
  <2>3. \A r : RefundEntry(r) # Captured
    BY DEF RefundEntry, Captured
  <2> HIDE DEF S
  <2>4. o \notin S
    BY <2>1, <2>2, <2>3 DEF IsRefunded
  <2> QED
    BY <1>2, <2>1, <2>4 DEF IsRefunded
<1>9. ASSUME NEW d \in Delivery, ApplyRejected(d)
      PROVE  "order" \in overtaken'[o]
  BY <1>4, <1>9 DEF ApplyRejected, DropReservations, StockConsumed
<1>10. CASE (\E d \in Delivery : SyncProviderRefunded(d)) \/ (\E w \in Worker : CompleteRefund(w))
  <2>1. PICK S, why, id : Completes(S, why, id)
    BY <1>10, Finalized
  <2>2. order'[o] = order[o] /\ ~(o \in S /\ order[o] \in StockConsumed)
    BY <2>1 DEF Completes, FinalizeRefunds, SetStatus, StockConsumed
  <2>3. ledger'[o] = ledger[o]
    BY <2>1, <2>2, FinalizeRows
  <2> QED
    BY <1>2, <2>2, <2>3 DEF IsRefunded
<1>11. ASSUME NEW q \in Request, RequestStep(q)
       PROVE  "order" \in overtaken'[o]
  <2>1. ledger' = ledger
    BY <1>11 DEF RequestStep, ReadForUpdate, WriteStatus, localVars
  <2>2. CASE WriteStatus(q) /\ request[q].order = o
    BY <2>1, <2>2 DEF WriteStatus, Overtakes, IsRefunded, TypeOK
  <2>3. CASE ~(WriteStatus(q) /\ request[q].order = o)
    <3>1. order'[o] = order[o]
      BY <1>11, <2>3 DEF RequestStep, ReadForUpdate, WriteStatus, localVars, TypeOK
    <3> QED
      BY <1>2, <2>1, <3>1 DEF IsRefunded
  <2> QED
    BY <2>2, <2>3
<1> QED
  <2>1. CASE UNCHANGED vars
    BY <1>3, <2>1 DEF vars, localVars, callVars
  <2>2. CASE Next
    BY <1>3, <1>5, <1>6, <1>7, <1>8, <1>9, <1>10, <1>11, <2>2, StockSteps
  <2> QED
    BY <2>1, <2>2

\* Only a late write takes a refund of the ledger out of COMPLETED.
LEMMA RefundOvertaken ==
  ASSUME StockInv, TypeOK', UnpaidIsClean, RefundInv, LedgerInv, OvertakenInv, [Next]_vars,
         NEW o \in Order, NEW r \in Reason, RefundEntry(r) \in ledger'[o]
  PROVE  refund'[o][r].status = "COMPLETED" \/ "refund" \in overtaken'[o]
<1> DEFINE Goal == refund'[o][r].status = "COMPLETED" \/ "refund" \in overtaken'[o]
<1> TypeOK /\ FetchedIsTrue /\ PaymentTraced /\ ExecutionTraced
  BY DEF StockInv, RefundInv
<1>1. overtaken[o] \subseteq overtaken'[o]
  BY OvertakenGrows
<1>2. CASE /\ RefundEntry(r) \in ledger[o]
           /\ \/ refund'[o][r].status = refund[o][r].status
              \/ refund[o][r].status # "COMPLETED"
  BY <1>1, <1>2 DEF OvertakenInv
<1>3. CASE UNCHANGED <<refund, ledger>>
  BY <1>2, <1>3
<1>4. ASSUME NEW o2 \in Order, RequestRefund(o2), UNCHANGED <<payment, ledger>>
      PROVE  Goal
  <2>1. PICK r2 \in Reason : /\ refund[o2][r2].status \in {"NONE", "FAILED"}
                             /\ refund' = [refund EXCEPT ![o2][r2].status = "PENDING"]
    BY <1>4 DEF RequestRefund, HasRefund, Reason, TypeOK, RefundRow, RefundStatus
  <2>2. CASE o2 = o /\ r2 = r
    BY <1>2, <1>4, <2>1, <2>2
  <2>3. CASE ~(o2 = o /\ r2 = r)
    <3>1. refund'[o][r] = refund[o][r]
      BY <2>1, <2>3 DEF TypeOK
    <3> QED
      BY <1>2, <1>4, <3>1
  <2> QED
    BY <2>2, <2>3
<1>5. ASSUME NEW w \in Worker, KeepPending(w) \/ MarkFailedWrites(w), UNCHANGED <<payment, ledger>>
      PROVE  Goal
  <2>1. CASE worker[w].order = o /\ worker[w].why = r
    <3>1. Overtakes(o, "refund", TRUE)
      BY <1>5, <2>1 DEF KeepPending, MarkFailedWrites
    <3> QED
      BY <3>1 DEF Overtakes, TypeOK
  <2>2. CASE ~(worker[w].order = o /\ worker[w].why = r)
    <3>1. refund'[o][r] = refund[o][r]
      BY <1>5, <2>2 DEF KeepPending, MarkFailedWrites, TypeOK
    <3> QED
      BY <1>2, <1>5, <3>1
  <2> QED
    BY <2>1, <2>2
<1>6. ASSUME NEW o2 \in Order, Confirm(o2)
      PROVE  Goal
  <2>1. refund' = refund /\ ledger' = [ledger EXCEPT ![o2] = ledger[o2] \cup {Payable}]
    BY <1>6 DEF Confirm
  <2>2. RefundEntry(r) # Payable
    BY DEF RefundEntry, Payable
  <2>3. RefundEntry(r) \in ledger[o]
    BY <2>1, <2>2 DEF TypeOK
  <2> QED
    BY <1>2, <2>1, <2>3
<1>7. ASSUME NEW d \in Delivery, ApplyApproved(d)
      PROVE  Goal
  <2>1. refund' = refund /\ ledger'[o] \subseteq ledger[o] \cup {Captured}
    BY <1>7 DEF ApplyApproved
  <2>2. RefundEntry(r) # Captured
    BY DEF RefundEntry, Captured
  <2> QED
    BY <1>2, <2>1, <2>2
<1>8. ASSUME NEW d \in Delivery, RecordLatePayment(d)
      PROVE  Goal
  <2>1. /\ ledger' = ledger
        /\ \/ refund'[o] = refund[o]
           \/ \E late \in Reason : /\ refund[o][late].status = "NONE"
                                   /\ refund'[o] = [refund[o] EXCEPT ![late].status = "PENDING"]
    BY <1>8 DEF RecordLatePayment, Reason
  <2> QED
    BY <1>2, <2>1 DEF TypeOK
<1>9. CASE (\E d \in Delivery : SyncProviderRefunded(d)) \/ (\E w \in Worker : CompleteRefund(w))
  <2>1. PICK S, why, id : Completes(S, why, id)
    BY <1>9, Finalized
  <2>2. CASE o \in S /\ why[o] = r
    BY <2>1, <2>2, FinalizeRows
  <2>3. CASE ~(o \in S /\ why[o] = r)
    <3>1. /\ refund'[o][r] = refund[o][r]
          /\ ledger'[o] = ledger[o] \/ (o \in S /\ ledger'[o] = ledger[o] \cup {RefundEntry(why[o])})
      BY <2>1, <2>3, FinalizeRows
    <3>2. o \in S => RefundEntry(why[o]) # RefundEntry(r)
      BY <2>3 DEF RefundEntry
    <3> QED
      BY <1>2, <3>1, <3>2
  <2> QED
    BY <2>2, <2>3
<1> QED
  BY <1>3, <1>4, <1>5, <1>6, <1>7, <1>8, <1>9, MoneySteps

LEMMA OvertakenInvariant == Spec => []OvertakenInv
<1>1. Init => OvertakenInv
  BY DEF Init, OvertakenInv, IsRefunded
<1>2. StockInv /\ StockInv' /\ UnpaidIsClean /\ RefundInv /\ LedgerInv /\ OvertakenInv /\ [Next]_vars
         => OvertakenInv'
  <2> SUFFICES ASSUME StockInv, TypeOK', UnpaidIsClean, RefundInv, LedgerInv, OvertakenInv, [Next]_vars
               PROVE  OvertakenInv'
    BY DEF StockInv
  <2>1. \A o \in Order : IsRefunded(o)' /\ order'[o] \in StockConsumed => "order" \in overtaken'[o]
    BY OrderOvertaken
  <2>2. \A o \in Order, r \in Reason :
           RefundEntry(r) \in ledger'[o] => refund'[o][r].status = "COMPLETED" \/ "refund" \in overtaken'[o]
    BY RefundOvertaken
  <2> QED
    BY <2>1, <2>2 DEF OvertakenInv, StockConsumed
<1> QED
  BY <1>1, <1>2, StockInvariant, UnpaidStaysClean, RefundInvariant, LedgerInvariant, PTL DEF Spec

\* Sales whose stock has not come back.
Outstanding == CapturedOf \ RefundedSales

\* A listing that no overtaken order holds was in no overtaken order before.
LEMMA NotOvertakenBefore ==
  ASSUME TypeOK, TypeOK', [Next]_vars, NEW l, Pieces(FullyOvertaken', l) = 0
  PROVE  Pieces(FullyOvertaken, l) = 0
<1>1. \A o \in Order : overtaken[o] \subseteq overtaken'[o] /\ overtaken'[o] \subseteq Overtaking
  BY OvertakenGrows DEF TypeOK
<1>2. FullyOvertaken \subseteq FullyOvertaken'
  BY <1>1 DEF FullyOvertaken
<1> QED
  BY <1>2, PiecesMonotonic, PiecesNat

\* A step that moves no quantity, capture or refund entry keeps the account.
LEMMA AccountKept ==
  ASSUME TypeOK, TypeOK', [Next]_vars, StockAccounted,
         CapturedOf' = CapturedOf, RefundedSales' = RefundedSales,
         \A l \in Listing : listing'[l].quantity = listing[l].quantity
  PROVE  StockAccounted'
BY NotOvertakenBefore DEF StockAccounted

\* Dropped reservations leave the quantity alone.
LEMMA DropKeepsAccount ==
  ASSUME TypeOK, TypeOK', [Next]_vars, StockAccounted, NEW S, DropReservations(S), ledger' = ledger
  PROVE  StockAccounted'
<1>1. CapturedOf' = CapturedOf /\ RefundedSales' = RefundedSales
  BY DEF CapturedOf, RefundedSales, IsRefunded
<1>2. \A l \in Listing : listing'[l].quantity = listing[l].quantity
  BY DEF TypeOK, ListingRow, DropReservations, Release
<1> QED
  BY <1>1, <1>2, AccountKept

\* Completed refunds put back what their orders took, unless late writes overtook an order
\* that was refunded before.
LEMMA FinalizeKeepsAccount ==
  ASSUME TypeOK, TypeOK', [Next]_vars, SaleIsCaptured, OneRefundPerOrder, LedgerInv, OvertakenInv,
         StockAccounted, NEW S, NEW why, NEW id, Completes(S, why, id)
  PROVE  StockAccounted'
<1> DEFINE back == {o \in S : order[o] \in StockConsumed}
           first == back \ RefundedSales
           again == back \cap RefundedSales
<1>1. S \subseteq Order /\ (\A o \in S : why[o] \in Reason) /\ FinalizeRefunds(S, why, id)
  BY DEF Completes
<1>2. \A o \in Order : /\ Captured \in ledger'[o] <=> Captured \in ledger[o]
                       /\ IsRefunded(o) => IsRefunded(o)'
                       /\ o \in S => IsRefunded(o)'
  <2> SUFFICES ASSUME NEW o \in Order
               PROVE  /\ Captured \in ledger'[o] <=> Captured \in ledger[o]
                      /\ IsRefunded(o) => IsRefunded(o)'
                      /\ o \in S => IsRefunded(o)'
    OBVIOUS
  <2>1. /\ o \notin S => ledger'[o] = ledger[o]
        /\ o \in S => ledger'[o] = ledger[o] \cup {RefundEntry(why[o])}
    BY FinalizeRows
  <2>2. o \in S => Captured # RefundEntry(why[o])
    BY DEF Captured, RefundEntry
  <2> QED
    BY <1>1, <2>1, <2>2 DEF IsRefunded
<1>3. CapturedOf' = CapturedOf
  BY <1>2 DEF CapturedOf
<1>4. back \subseteq CapturedOf
  BY <1>1 DEF CapturedOf, SaleIsCaptured, StockConsumed
<1>5. first \subseteq Outstanding /\ Outstanding' \subseteq Outstanding \ first
  <2>1. first \subseteq Outstanding
    BY <1>4 DEF Outstanding
  <2>2. RefundedSales \subseteq RefundedSales' /\ first \subseteq RefundedSales'
    <3> SUFFICES ASSUME NEW o \in CapturedOf, IsRefunded(o) \/ o \in S
                 PROVE  o \in RefundedSales'
      BY <1>4 DEF RefundedSales
    <3> QED
      BY <1>2, <1>3 DEF RefundedSales, CapturedOf
  <2> QED
    BY <1>3, <2>1, <2>2 DEF Outstanding
<1>6. again \subseteq FullyOvertaken
  <2> SUFFICES ASSUME NEW o \in again
               PROVE  overtaken[o] = Overtaking /\ o \in Order
    BY DEF FullyOvertaken
  <2>1. o \in Order /\ o \in S /\ order[o] \in StockConsumed /\ IsRefunded(o) /\ Captured \in ledger[o]
    BY <1>1 DEF RefundedSales, CapturedOf
  <2>2. PICK r \in Reason : RefundEntry(r) \in ledger[o]
    BY <2>1 DEF IsRefunded
  <2>3. refund[o][r].status # "NONE"
    BY <2>1, <2>2 DEF LedgerInv, Matches
  <2>4. why[o] \in Reason /\ refund[o][why[o]].status \notin {"NONE", "COMPLETED"}
    BY <1>1, <2>1 DEF Completes
  <2>5. r = why[o]
    BY <2>1, <2>3, <2>4 DEF OneRefundPerOrder, Reason
  <2>6. "refund" \in overtaken[o]
    BY <2>1, <2>2, <2>4, <2>5 DEF OvertakenInv
  <2>7. "order" \in overtaken[o]
    BY <2>1 DEF OvertakenInv
  <2> QED
    BY <2>1, <2>6, <2>7 DEF TypeOK, Overtaking
<1>7. first \cap again = {} /\ first \cup again = back
  OBVIOUS
<1> HIDE DEF first, again
<1> SUFFICES ASSUME NEW l \in Listing
             PROVE  /\ listing'[l].quantity >= InitialQuantity[l] - Pieces(CapturedOf', l)
                    /\ Pieces(FullyOvertaken', l) = 0 =>
                          listing'[l].quantity <= InitialQuantity[l] - Pieces(Outstanding', l)
  BY DEF StockAccounted, Outstanding
<1>8. listing'[l].quantity = listing[l].quantity + Pieces(back, l)
  BY <1>1 DEF TypeOK, ListingRow, FinalizeRefunds, Restore
<1> HIDE DEF back
<1>9. /\ Pieces(back, l) \in Nat /\ Pieces(first, l) \in Nat /\ Pieces(again, l) \in Nat
      /\ Pieces(CapturedOf, l) \in Nat /\ Pieces(Outstanding, l) \in Nat
      /\ Pieces(Outstanding', l) \in Nat /\ Pieces(Outstanding \ first, l) \in Nat
      /\ Pieces(FullyOvertaken, l) \in Nat
      /\ listing[l].quantity \in Nat /\ InitialQuantity[l] \in Nat
  BY PiecesNat, OrderPaymentsAssumption DEF TypeOK, ListingRow
<1>10. Pieces(back, l) = Pieces(first, l) + Pieces(again, l)
  BY <1>7, PiecesUnion
<1>11. Pieces(Outstanding', l) <= Pieces(Outstanding, l) - Pieces(first, l)
  <2>1. Pieces(Outstanding', l) <= Pieces(Outstanding \ first, l)
    BY <1>5, PiecesMonotonic
  <2>2. Pieces(Outstanding \ first, l) = Pieces(Outstanding, l) - Pieces(first, l)
    BY <1>5, PiecesLess
  <2> QED
    BY <2>1, <2>2
<1>12. Pieces(again, l) <= Pieces(FullyOvertaken, l)
  BY <1>6, PiecesMonotonic
<1>13. Pieces(FullyOvertaken', l) = 0 => Pieces(FullyOvertaken, l) = 0
  BY NotOvertakenBefore
<1>14. /\ listing[l].quantity >= InitialQuantity[l] - Pieces(CapturedOf, l)
       /\ Pieces(FullyOvertaken, l) = 0 =>
             listing[l].quantity <= InitialQuantity[l] - Pieces(Outstanding, l)
  BY DEF StockAccounted, Outstanding
<1>15. listing'[l].quantity >= InitialQuantity[l] - Pieces(CapturedOf', l)
  BY <1>3, <1>8, <1>9, <1>14
<1>16. ASSUME Pieces(FullyOvertaken', l) = 0
       PROVE  listing'[l].quantity <= InitialQuantity[l] - Pieces(Outstanding', l)
  BY <1>8, <1>9, <1>10, <1>11, <1>12, <1>13, <1>14, <1>16
<1> QED
  BY <1>15, <1>16

\* No step breaks the account.
LEMMA AccountStep ==
  /\ StockInv /\ TypeOK' /\ UnpaidIsClean /\ RefundInv /\ LedgerInv /\ OvertakenInv
  /\ StockAccounted /\ [Next]_vars
  => StockAccounted'
<1> SUFFICES ASSUME StockInv, TypeOK', UnpaidIsClean, RefundInv, LedgerInv, OvertakenInv,
                    StockAccounted, [Next]_vars
             PROVE  StockAccounted'
  OBVIOUS
<1> USE DEF localVars, callVars, providerVars, history
<1> /\ TypeOK /\ SaleIsCaptured
    /\ OneRefundPerOrder /\ FetchedIsTrue /\ PaymentTraced /\ ExecutionTraced
  BY DEF StockInv, RefundInv
<1>1. CASE UNCHANGED <<checkout, order, ledger, listing, request>>
  BY <1>1, AccountKept DEF CapturedOf, RefundedSales, IsRefunded
<1>2. ASSUME NEW c \in Checkout, CreateCheckout(c)
      PROVE  StockAccounted'
  <2>1. \A l \in Listing : listing'[l].quantity = listing[l].quantity
    BY <1>2 DEF TypeOK, ListingRow, CreateCheckout, Reserve
  <2> QED
    BY <1>2, <2>1, AccountKept DEF CreateCheckout, CapturedOf, RefundedSales, IsRefunded
<1>3. ASSUME NEW c \in Checkout, ExpireCheckout(c)
      PROVE  StockAccounted'
  BY <1>3, DropKeepsAccount DEF ExpireCheckout
<1>4. ASSUME NEW o \in Order, CancelUnpaid(o)
      PROVE  StockAccounted'
  BY <1>4, DropKeepsAccount DEF CancelUnpaid
<1>5. ASSUME NEW o \in Order, Confirm(o)
      PROVE  StockAccounted'
  <2>1. ledger' = [ledger EXCEPT ![o] = ledger[o] \cup {Payable}] /\ listing' = listing
    BY <1>5 DEF Confirm
  <2>2. Payable # Captured /\ \A r : Payable # RefundEntry(r)
    BY DEF Payable, Captured, RefundEntry
  <2>3. \A o2 \in Order : \A e : e # Payable => (e \in ledger'[o2] <=> e \in ledger[o2])
    BY <2>1 DEF TypeOK
  <2>4. CapturedOf' = CapturedOf /\ RefundedSales' = RefundedSales
    BY <2>2, <2>3 DEF CapturedOf, RefundedSales, IsRefunded
  <2> QED
    BY <2>1, <2>4, AccountKept
<1>6. ASSUME NEW d \in Delivery, ApplyApproved(d)
      PROVE  StockAccounted'
  <2> DEFINE S == PendingOrders(PaysFor[delivery[d].by])
  <2>1. \A o \in Order : ledger'[o] = IF o \in S THEN ledger[o] \cup {Captured} ELSE ledger[o]
    BY <1>6 DEF ApplyApproved
  <2>2. CapturedOf' = CapturedOf \cup S /\ CapturedOf \cap S = {}
    BY <2>1 DEF CapturedOf, PendingOrders, OrdersOf, StockInv, SaleIsCaptured
  <2>3. RefundedSales' = RefundedSales /\ RefundedSales \cap S = {}
    <3>1. \A r : Captured # RefundEntry(r)
      BY DEF Captured, RefundEntry
    <3> HIDE DEF S
    <3>2. \A o \in Order : \A r : RefundEntry(r) \in ledger'[o] <=> RefundEntry(r) \in ledger[o]
      BY <2>1, <3>1
    <3>3. \A o \in S, r \in Reason : RefundEntry(r) \notin ledger[o]
      BY DEF S, PendingOrders, OrdersOf, UnpaidIsClean, UnpaidOrders
    <3> QED
      BY <2>2, <3>2, <3>3 DEF RefundedSales, CapturedOf, IsRefunded
  <2>4. Outstanding' = Outstanding \cup S /\ Outstanding \cap S = {}
    BY <2>2, <2>3 DEF Outstanding
  <2> SUFFICES ASSUME NEW l \in Listing
               PROVE  /\ listing'[l].quantity >= InitialQuantity[l] - Pieces(CapturedOf', l)
                      /\ Pieces(FullyOvertaken', l) = 0 =>
                            listing'[l].quantity <= InitialQuantity[l] - Pieces(Outstanding', l)
    BY DEF StockAccounted, Outstanding
  <2>5. /\ Pieces(CapturedOf', l) = Pieces(CapturedOf, l) + Pieces(S, l)
        /\ Pieces(Outstanding', l) = Pieces(Outstanding, l) + Pieces(S, l)
    BY <2>2, <2>4, PiecesUnion
  <2>6. listing'[l].quantity = listing[l].quantity - Pieces(S, l)
    BY <1>6 DEF ApplyApproved, Consume
  <2> HIDE DEF S
  <2>7. /\ Pieces(S, l) \in Nat /\ Pieces(CapturedOf, l) \in Nat /\ Pieces(Outstanding, l) \in Nat
        /\ listing[l].quantity \in Nat /\ InitialQuantity[l] \in Nat
    BY PiecesNat, OrderPaymentsAssumption DEF TypeOK, ListingRow
  <2>8. /\ listing[l].quantity >= InitialQuantity[l] - Pieces(CapturedOf, l)
        /\ Pieces(FullyOvertaken, l) = 0 =>
              listing[l].quantity <= InitialQuantity[l] - Pieces(Outstanding, l)
    BY DEF StockAccounted, Outstanding
  <2>9. Pieces(FullyOvertaken', l) = 0 => Pieces(FullyOvertaken, l) = 0
    BY NotOvertakenBefore
  <2> QED
    BY <2>5, <2>6, <2>7, <2>8, <2>9
<1>7. ASSUME NEW d \in Delivery, ApplyRejected(d)
      PROVE  StockAccounted'
  BY <1>7, DropKeepsAccount DEF ApplyRejected
<1>8. CASE (\E d \in Delivery : SyncProviderRefunded(d)) \/ (\E w \in Worker : CompleteRefund(w))
  <2>1. PICK S, why, id : Completes(S, why, id)
    BY <1>8, Finalized
  <2> QED
    BY <2>1, FinalizeKeepsAccount
<1>9. ASSUME NEW q \in Request, RequestStep(q)
      PROVE  StockAccounted'
  <2>1. UNCHANGED <<ledger, listing>>
    BY <1>9 DEF RequestStep, ReadForUpdate, WriteStatus
  <2> QED
    BY <2>1, AccountKept DEF CapturedOf, RefundedSales, IsRefunded
<1> QED
  <2>1. CASE UNCHANGED vars
    BY <1>1, <2>1 DEF vars
  <2>2. CASE Next
    BY <1>1, <1>2, <1>3, <1>4, <1>5, <1>6, <1>7, <1>8, <1>9, <2>2, StockSteps
  <2> QED
    BY <2>1, <2>2

\* Pieces leave a listing once per captured order and come back once with the refund of one,
\* unless late writes overtook both that order and its refund.
THEOREM StockIsAccounted == Spec => []StockAccounted
<1>1. Init => StockAccounted
  <2> SUFFICES ASSUME Init PROVE StockAccounted
    OBVIOUS
  <2>1. CapturedOf = {} /\ CapturedOf \ RefundedSales = {}
    BY DEF Init, CapturedOf, RefundedSales
  <2>2. \A l \in Listing : listing[l].quantity = InitialQuantity[l] /\ InitialQuantity[l] \in Nat
    BY OrderPaymentsAssumption DEF Init
  <2> QED
    BY <2>1, <2>2, PiecesEmpty DEF StockAccounted
<1>2. /\ StockInv /\ StockInv' /\ UnpaidIsClean /\ RefundInv /\ LedgerInv /\ OvertakenInv
      /\ StockAccounted /\ [Next]_vars
      => StockAccounted'
  BY AccountStep DEF StockInv
<1> QED
  BY <1>1, <1>2, StockInvariant, UnpaidStaysClean, RefundInvariant, LedgerInvariant,
     OvertakenInvariant, PTL DEF Spec

----------------------------------------------------------------------------
(* The provider's money.                                                   *)

\* A refund is completed when its money is back, and the payment of an order that was paid
\* for once is not replaced.
LEMMA RealStep ==
  StockInv /\ RefundInv /\ CompletedRefundIsReal /\ [Next]_vars => CompletedRefundIsReal'
<1> SUFFICES ASSUME StockInv, RefundInv, CompletedRefundIsReal, [Next]_vars,
                    NEW o \in Order, NEW r \in Reason,
                    PaidOnce(CheckoutOf[o])', refund'[o][r].status = "COMPLETED"
             PROVE  BackNow(payment'[o].by, o, r)
  BY DEF CompletedRefundIsReal, GivenBack, BackNow
<1> TypeOK /\ FetchedIsTrue /\ PaymentTraced /\ ExecutionTraced
  BY DEF StockInv, RefundInv
<1>1. PaidOnce(CheckoutOf[o])
  BY ProviderMoves, ForwardKeeps, OrderPaymentsAssumption
<1>2. refund[o][r].status # "NONE" /\ GivenBack(payment[o].by, o, r) => BackNow(payment'[o].by, o, r)
  <2> SUFFICES ASSUME refund[o][r].status # "NONE", GivenBack(payment[o].by, o, r)
               PROVE  BackNow(payment'[o].by, o, r)
    OBVIOUS
  <2>1. payment[o].by # Nothing /\ PaysFor[payment[o].by] = CheckoutOf[o] /\ Taken(payment[o].by)
    BY DEF PaymentTraced, HasRefund
  <2>2. payment[o].by \in ProviderPayment
    BY <2>1, PaymentRows DEF TypeOK, PaymentRow
  <2>3. payment'[o].by = payment[o].by
    BY <1>1, <2>1, <2>2, PayerMoves DEF PaidOnce, Approvals, Taken
  <2>4. GivenBack(payment[o].by, o, r) => BackNow(payment[o].by, o, r)
    BY <2>2, ProviderMoves DEF Forward, GivenBack, BackNow
  <2> QED
    BY <2>3, <2>4
<1>3. CASE refund[o][r].status = "COMPLETED"
  BY <1>1, <1>2, <1>3 DEF CompletedRefundIsReal
<1>4. CASE refund[o][r].status # "COMPLETED"
  <2>1. (\E d \in Delivery : SyncProviderRefunded(d)) \/ (\E w \in Worker : CompleteRefund(w))
    BY <1>4, MoneySteps, NothingCompleted DEF Confirm, ApplyApproved
  <2>2. PICK S, why, id : Completes(S, why, id)
    BY <2>1, Finalized
  <2>3. o \in S /\ r = why[o]
    BY <1>4, <2>2, FinalizeRows
  <2> QED
    BY <1>1, <1>2, <2>2, <2>3 DEF Completes
<1> QED
  BY <1>3, <1>4

\* A refund the program calls COMPLETED is money the provider gave back, if the checkout was
\* paid once (refunds.service.ts).
THEOREM CompletedRefundsAreReal == Spec => []CompletedRefundIsReal
<1>1. Init => CompletedRefundIsReal
  BY DEF Init, CompletedRefundIsReal
<1>2. StockInv /\ RefundInv /\ CompletedRefundIsReal /\ [Next]_vars => CompletedRefundIsReal'
  BY RealStep
<1> QED
  BY <1>1, <1>2, StockInvariant, RefundInvariant, PTL DEF Spec

----------------------------------------------------------------------------
(* Charges.                                                                *)

\* An order that was cancelled before the rest of its checkout was paid for stays so.
LEMMA CancelledStays ==
  ASSUME StockInv, [Next]_vars, NEW o \in Order,
         checkout[CheckoutOf[o]] = "PAID", order[o] = "CANCELLED"
  PROVE  checkout'[CheckoutOf[o]] = "PAID" /\ order'[o] = "CANCELLED"
<1> DEFINE Goal == checkout'[CheckoutOf[o]] = "PAID" /\ order'[o] = "CANCELLED"
<1> TypeOK /\ CheckoutCoherent /\ SaleIsCaptured
  BY DEF StockInv
<1> CheckoutOf \in [Order -> Checkout]
  BY OrderPaymentsAssumption
<1>1. CASE UNCHANGED <<checkout, order>>
  BY <1>1
<1>2. ASSUME NEW c \in Checkout, CreateCheckout(c)
      PROVE  Goal
  BY <1>2 DEF CreateCheckout, SetStatus, OrdersOf, TypeOK
<1>3. ASSUME NEW c \in Checkout, ExpireCheckout(c)
      PROVE  Goal
  BY <1>3 DEF ExpireCheckout, CanExpire, DropReservations, SetStatus, PendingOrders, TypeOK
<1>4. ASSUME NEW o2 \in Order, CancelUnpaid(o2)
      PROVE  Goal
  <2>1. checkout[CheckoutOf[o2]] # "PAID" /\ o2 # o
    BY <1>4 DEF CancelUnpaid, CheckoutCoherent
  <2> QED
    BY <1>4, <2>1 DEF CancelUnpaid, DropReservations, SetStatus, TypeOK
<1>5. ASSUME NEW o2 \in Order, Confirm(o2)
      PROVE  Goal
  BY <1>5 DEF Confirm, CanConfirm, TypeOK
<1>6. ASSUME NEW d \in Delivery, ApplyApproved(d)
      PROVE  Goal
  <2>1. /\ checkout[PaysFor[delivery[d].by]] = "PENDING_PAYMENT"
        /\ checkout' = [checkout EXCEPT ![PaysFor[delivery[d].by]] = "PAID"]
        /\ order'[o] = order[o]
    BY <1>6 DEF ApplyApproved, PendingOrders, SetStatus
  <2> QED
    BY <2>1 DEF TypeOK
<1>7. ASSUME NEW d \in Delivery, ApplyRejected(d)
      PROVE  Goal
  <2>1. /\ checkout[PaysFor[delivery[d].by]] = "PENDING_PAYMENT"
        /\ checkout' = [checkout EXCEPT ![PaysFor[delivery[d].by]] = "CANCELLED"]
        /\ order'[o] = "CANCELLED"
    BY <1>7 DEF ApplyRejected, DropReservations, PendingOrders, SetStatus
  <2> QED
    BY <2>1 DEF TypeOK
<1>8. ASSUME NEW S, NEW why, NEW id, FinalizeRefunds(S, why, id), UNCHANGED checkout
      PROVE  Goal
  BY <1>8 DEF FinalizeRefunds, SetStatus, StockConsumed
<1>9. ASSUME NEW d \in Delivery, SyncProviderRefunded(d)
      PROVE  Goal
  BY <1>8, <1>9 DEF SyncProviderRefunded
<1>10. ASSUME NEW w \in Worker, CompleteRefund(w)
       PROVE  Goal
  BY <1>8, <1>10 DEF CompleteRefund
<1>11. ASSUME NEW q \in Request, RequestStep(q)
       PROVE  Goal
  <2>1. Captured \notin ledger[o]
    BY DEF SaleIsCaptured
  <2>2. CASE WriteStatus(q)
    <3>1. request[q].order # o
      BY <2>1, <2>2 DEF WriteStatus, SaleIsCaptured
    <3> QED
      BY <2>2, <3>1 DEF WriteStatus, TypeOK
  <2>3. CASE ~WriteStatus(q)
    BY <1>1, <1>11, <2>3 DEF RequestStep, ReadForUpdate, localVars
  <2> QED
    BY <2>2, <2>3
<1> QED
  <2>1. CASE UNCHANGED vars
    BY <1>1, <2>1 DEF vars, localVars
  <2>2. CASE Next
    BY <1>1, <1>2, <1>3, <1>4, <1>5, <1>6, <1>7, <1>9, <1>10, <1>11, <2>2, StockSteps
  <2> QED
    BY <2>1, <2>2

\* An event becomes settled when a delivery of it is applied.
LEMMA SettledMoves ==
  ASSUME [Next]_vars, NEW e \in Settled', e \notin Settled
  PROVE  \E d \in Delivery :
            /\ e = EventOf(d)
            /\ ApplyApproved(d) \/ RecordLatePayment(d) \/ ApplyRejected(d)
                  \/ AcknowledgeOnly(d) \/ SyncProviderRefunded(d)
<1> USE DEF localVars, callVars, providerVars, history
<1>1. ASSUME NEW d \in Delivery, WebhookStep(d)
      PROVE  /\ e = EventOf(d)
             /\ ApplyApproved(d) \/ RecordLatePayment(d) \/ ApplyRejected(d)
                   \/ AcknowledgeOnly(d) \/ SyncProviderRefunded(d)
  <2>1. ASSUME Processed(d), early' = early PROVE e = EventOf(d)
    BY <2>1 DEF Processed, Settled
  <2>2. ~AcknowledgePending(d)
    BY DEF AcknowledgePending, Processed, Settled
  <2>3. ~(\E p \in ProviderPayment, kind \in EventKind : FetchPayment(d, p, kind))
    BY DEF FetchPayment, Settled
  <2>4. ~DropDelivery(d) /\ ~PeekUnsold(d)
    BY DEF DropDelivery, PeekUnsold, Settled
  <2>5. \/ ApplyApproved(d) \/ RecordLatePayment(d) \/ ApplyRejected(d)
        \/ AcknowledgeOnly(d) \/ SyncProviderRefunded(d)
    BY <1>1, <2>2, <2>3, <2>4 DEF WebhookStep
  <2>6. Processed(d) /\ early' = early
    BY <2>5 DEF ApplyApproved, RecordLatePayment, ApplyRejected, AcknowledgeOnly, SyncProviderRefunded
  <2> QED
    BY <2>1, <2>5, <2>6
<1>2. ASSUME NEW c \in Checkout, CheckoutStep(c)
      PROVE  UNCHANGED <<processed, early>>
  BY <1>2 DEF CheckoutStep, CreateCheckout, AskPreference, AttachPreference, BecomeDue, ExpireCheckout
<1>3. ASSUME NEW o \in Order, OrderStep(o)
      PROVE  UNCHANGED <<processed, early>>
  BY <1>3 DEF OrderStep, CancelUnpaid, RequestRefund, Confirm
<1>4. ASSUME NEW p \in ProviderPayment, ProviderStep(p)
      PROVE  UNCHANGED <<processed, early>>
  BY <1>4 DEF ProviderStep, Pay, Decide, RefundOutside, SettleRefund
<1>5. ASSUME NEW w \in Worker, RefundStep(w)
      PROVE  UNCHANGED <<processed, early>>
  BY <1>5, RefundStepWrites
<1>6. ASSUME NEW q \in Request, RequestStep(q)
      PROVE  UNCHANGED <<processed, early>>
  BY <1>6 DEF RequestStep, ReadForUpdate, WriteStatus
<1> QED
  BY <1>1, <1>2, <1>3, <1>4, <1>5, <1>6 DEF Next, vars, Settled

\* An order answers for a charge of its checkout: it was cancelled before, was sold or is
\* to be refunded.
Answers(c, o) ==
    \/ checkout[c] = "PAID" /\ order[o] = "CANCELLED"
    \/ Captured \in ledger[o]
    \/ HasRefund(o)

ChargeInv ==
    \A p \in ProviderPayment, kind \in EventKind :
        <<p, kind>> \in Settled /\ provider[p] = "approved" =>
            \A o \in OrdersOf(PaysFor[p]) : Answers(PaysFor[p], o)

LEMMA ChargeInvStep ==
  StockInv /\ TypeOK' /\ RefundInv /\ ChargeInv /\ [Next]_vars => ChargeInv'
<1> SUFFICES ASSUME StockInv, TypeOK', RefundInv, ChargeInv, [Next]_vars,
                    NEW p \in ProviderPayment, NEW kind \in EventKind,
                    <<p, kind>> \in Settled', provider'[p] = "approved",
                    NEW o \in OrdersOf(PaysFor[p])
             PROVE  Answers(PaysFor[p], o)'
  BY DEF ChargeInv, OrdersOf
<1> TypeOK /\ CheckoutCoherent /\ SaleIsCaptured /\ FetchedIsTrue /\ PaymentTraced /\ ExecutionTraced
  BY DEF StockInv, RefundInv
<1> DEFINE c == PaysFor[p]
<1>o. o \in Order /\ CheckoutOf[o] = c
  BY DEF OrdersOf
<1>1. CASE <<p, kind>> \in Settled
  <2>1. provider[p] = "approved"
    BY <1>1, ProviderMoves DEF Forward, FetchedIsTrue, Decided
  <2>2. Answers(c, o)
    BY <1>1, <2>1 DEF ChargeInv
  <2>3. CASE checkout[c] = "PAID" /\ order[o] = "CANCELLED"
    BY <1>o, <2>3, CancelledStays DEF Answers
  <2>4. CASE Captured \in ledger[o]
    BY <1>o, <2>4, CaptureMoves DEF Answers
  <2>5. CASE HasRefund(o)
    BY <1>o, <2>5, RefundMoves DEF Answers, HasRefund
  <2> QED
    BY <2>2, <2>3, <2>4, <2>5 DEF Answers
<1>2. CASE <<p, kind>> \notin Settled
  <2>1. PICK d \in Delivery :
            /\ <<p, kind>> = EventOf(d)
            /\ ApplyApproved(d) \/ RecordLatePayment(d) \/ ApplyRejected(d)
                  \/ AcknowledgeOnly(d) \/ SyncProviderRefunded(d)
    BY <1>2, SettledMoves
  <2>2. p = delivery[d].by /\ delivery[d] # IdleDelivery /\ provider' = provider
    BY <2>1 DEF EventOf, Claim, ApplyApproved, RecordLatePayment, ApplyRejected, AcknowledgeOnly,
                SyncProviderRefunded, providerVars, history
  <2>3. delivery[d].status \notin {"rejected", "refunded", "refunded_unsold"}
    BY <2>2 DEF FetchedIsTrue, Fetched
  <2>4. CASE ApplyApproved(d)
    <3>1. /\ checkout[c] = "PENDING_PAYMENT" /\ checkout' = [checkout EXCEPT ![c] = "PAID"]
          /\ o \in PendingOrders(c) => ledger'[o] = ledger[o] \cup {Captured}
          /\ o \notin PendingOrders(c) => order'[o] = order[o]
      BY <1>o, <2>2, <2>4 DEF ApplyApproved, SetStatus
    <3>2. o \notin PendingOrders(c) => order[o] = "CANCELLED"
      BY <1>o, <3>1 DEF PendingOrders, CheckoutCoherent
    <3>3. checkout'[c] = "PAID"
      BY <3>1, OrderPaymentsAssumption DEF TypeOK
    <3> QED
      BY <3>1, <3>2, <3>3 DEF Answers
  <2>5. CASE RecordLatePayment(d)
    <3> DEFINE late == "late_payment_after_expiry"
    <3>1. refund'[o] = IF refund[o][late].status = "NONE"
                       THEN [refund[o] EXCEPT ![late].status = "PENDING"] ELSE refund[o]
      BY <1>o, <2>2, <2>5 DEF RecordLatePayment
    <3>2. late \in Reason /\ refund[o] \in [Reason -> RefundRow]
      BY <1>o DEF TypeOK, Reason
    <3>3. [refund[o] EXCEPT ![late].status = "PENDING"][late].status = "PENDING"
      BY <3>2 DEF RefundRow
    <3>4. refund'[o][late].status # "NONE"
      BY <3>1, <3>3
    <3> QED
      BY <3>2, <3>4 DEF Answers, HasRefund
  <2>6. CASE AcknowledgeOnly(d)
    <3>1. checkout[c] = "PAID" /\ UNCHANGED <<checkout, order, ledger>>
      BY <2>2, <2>3, <2>6 DEF AcknowledgeOnly, Duplicate, localVars
    <3> QED
      BY <1>o, <3>1 DEF CheckoutCoherent, SaleIsCaptured, Answers
  <2> QED
    BY <2>1, <2>3, <2>4, <2>5, <2>6 DEF ApplyRejected, SyncProviderRefunded
<1> QED
  BY <1>1, <1>2

\* Once an event of it is processed that was fetched after the provider decided, an approved
\* charge has bought every order of the checkout or has a refund on its way, unless the order
\* was cancelled before (payments.service.ts:165).
THEOREM ChargesAreAccounted == Spec => []ChargeAccounted
<1>1. Init => ChargeInv
  BY DEF Init, ChargeInv, Settled
<1>2. StockInv /\ StockInv' /\ RefundInv /\ ChargeInv /\ [Next]_vars => ChargeInv'
  BY ChargeInvStep DEF StockInv
<1>3. StockInv /\ RefundInv /\ ChargeInv => ChargeAccounted
  <2> SUFFICES ASSUME StockInv, RefundInv, ChargeInv, NEW p \in ProviderPayment, NEW kind \in EventKind,
                      <<p, kind>> \in Settled, provider[p] = "approved", NEW o \in OrdersOf(PaysFor[p])
               PROVE  \/ CancelledBeforePaid(o)
                      \/ /\ Captured \in ledger[o] \/ HasRefund(o)
                         /\ PaidOnce(PaysFor[p]) => payment[o].by = p
    BY DEF ChargeAccounted, Settled
  <2>1. Answers(PaysFor[p], o)
    BY DEF ChargeInv
  <2>2. ASSUME Captured \in ledger[o] \/ HasRefund(o), PaidOnce(PaysFor[p])
        PROVE  payment[o].by = p
    <3>1. o \in Order /\ CheckoutOf[o] = PaysFor[p]
      BY DEF OrdersOf
    <3>2. payment[o].by # Nothing /\ PaysFor[payment[o].by] = CheckoutOf[o] /\ Taken(payment[o].by)
      BY <2>2, <3>1 DEF RefundInv, PaymentTraced
    <3>3. payment[o].by \in ProviderPayment
      BY <3>1, <3>2, PaymentRows DEF StockInv, TypeOK, PaymentRow
    <3> QED
      BY <2>2, <3>1, <3>2, <3>3 DEF PaidOnce, Approvals, Taken
  <2> QED
    BY <2>1, <2>2 DEF Answers, CancelledBeforePaid, OrdersOf
<1> QED
  BY <1>1, <1>2, <1>3, StockInvariant, RefundInvariant, PTL DEF Spec
=============================================================================
