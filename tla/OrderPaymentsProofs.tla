------------------------- MODULE OrderPaymentsProofs -------------------------
(***************************************************************************)
(* What holds of the money path for any number of checkouts, orders,       *)
(* listings, provider payments and calls in flight.                        *)
(***************************************************************************)
EXTENDS OrderPayments, FiniteSetTheorems, TLAPS

----------------------------------------------------------------------------
(* Pieces, the quantity of a listing that orders hold, is a cardinality.   *)

\* The quantity of a listing in some orders is a natural number.
LEMMA PiecesNat == ASSUME NEW S, NEW l PROVE Pieces(S, l) \in Nat
<1>1. IsFiniteSet({u \in Piece : OrderOf[u] \in S /\ ListingOf[u] = l})
  BY PieceAssumption, FS_Subset
<1> QED
  BY <1>1, FS_CardinalityType DEF Pieces

\* No order, no piece.
LEMMA PiecesEmpty == ASSUME NEW l PROVE Pieces({}, l) = 0
<1>1. {u \in Piece : OrderOf[u] \in {} /\ ListingOf[u] = l} = {}
  OBVIOUS
<1> QED
  BY <1>1, FS_EmptySet DEF Pieces

\* The pieces of disjoint sets of orders add up.
LEMMA PiecesUnion ==
  ASSUME NEW S, NEW T, NEW l, S \cap T = {}
  PROVE  Pieces(S \cup T, l) = Pieces(S, l) + Pieces(T, l)
<1> DEFINE PS == {u \in Piece : OrderOf[u] \in S /\ ListingOf[u] = l}
<1> DEFINE PT == {u \in Piece : OrderOf[u] \in T /\ ListingOf[u] = l}
<1> DEFINE Both == {u \in Piece : OrderOf[u] \in S \cup T /\ ListingOf[u] = l}
<1>1. IsFiniteSet(PS) /\ IsFiniteSet(PT)
  BY PieceAssumption, FS_Subset
<1>2. PS \cap PT = {} /\ PS \cup PT = Both
  OBVIOUS
<1>3. /\ Pieces(S, l) = Cardinality(PS)
      /\ Pieces(T, l) = Cardinality(PT)
      /\ Pieces(S \cup T, l) = Cardinality(Both)
  BY DEF Pieces
<1> HIDE DEF PS, PT, Both
<1>4. Cardinality(Both) = Cardinality(PS) + Cardinality(PT) - Cardinality({})
  BY <1>1, <1>2, FS_Union
<1>5. Cardinality({}) = 0
  BY FS_EmptySet
<1>6. Cardinality(PS) \in Nat /\ Cardinality(PT) \in Nat
  BY <1>1, FS_CardinalityType
<1> QED
  BY <1>3, <1>4, <1>5, <1>6

\* What orders hold goes down by what those that leave held.
LEMMA PiecesLess ==
  ASSUME NEW S, NEW T, NEW l, T \subseteq S
  PROVE  Pieces(S \ T, l) = Pieces(S, l) - Pieces(T, l)
<1>1. (S \ T) \cap T = {} /\ (S \ T) \cup T = S
  OBVIOUS
<1>2. Pieces(S, l) = Pieces(S \ T, l) + Pieces(T, l)
  BY <1>1, PiecesUnion
<1>3. Pieces(S \ T, l) \in Nat /\ Pieces(T, l) \in Nat
  BY PiecesNat
<1> QED
  BY <1>2, <1>3

\* Some of the orders hold no more than all of them.
LEMMA PiecesMonotonic ==
  ASSUME NEW S, NEW T, NEW l, T \subseteq S
  PROVE  Pieces(T, l) <= Pieces(S, l)
<1>1. Pieces(S \ T, l) = Pieces(S, l) - Pieces(T, l)
  BY PiecesLess
<1>2. Pieces(S \ T, l) \in Nat /\ Pieces(S, l) \in Nat /\ Pieces(T, l) \in Nat
  BY PiecesNat
<1> QED
  BY <1>1, <1>2

----------------------------------------------------------------------------
(* Types: a record update, or a step of the calls in flight, keeps the     *)
(* type of the row.                                                        *)

\* A stock update that its WHERE clause lets through leaves natural numbers.
LEMMA StockRows ==
  ASSUME NEW row \in ListingRow, NEW n \in Nat
  PROVE  /\ Reserve(row, n) \in ListingRow
         /\ CanRelease(row, n) => Release(row, n) \in ListingRow
         /\ CanConsume(row, n) => Consume(row, n) \in ListingRow
         /\ Restore(row, n) \in ListingRow
<1> USE DEF ListingRow, ListingStatus
<1>1. Reserve(row, n) \in ListingRow
  BY DEF Reserve
<1>2. ASSUME CanRelease(row, n) PROVE Release(row, n) \in ListingRow
  BY <1>2 DEF CanRelease, Release
<1>3. ASSUME CanConsume(row, n) PROVE Consume(row, n) \in ListingRow
  <2>1. row.quantity - n \in Nat /\ row.reserved - n \in Nat
    BY <1>3 DEF CanConsume
  <2> DEFINE status == IF n > 0 /\ row.quantity - n <= 0 THEN "SOLD" ELSE row.status
  <2>2. status \in {"ACTIVE", "SOLD"}
    OBVIOUS
  <2>3. Consume(row, n) = [quantity |-> row.quantity - n, reserved |-> row.reserved - n,
                           status |-> status]
    BY DEF Consume
  <2> HIDE DEF status
  <2>4. [quantity |-> row.quantity - n, reserved |-> row.reserved - n, status |-> status]
            \in ListingRow
    BY <2>1, <2>2
  <2> QED
    BY <2>3, <2>4
<1>4. Restore(row, n) \in ListingRow
  <2> DEFINE status == IF n > 0 /\ row.status = "SOLD" THEN "ACTIVE" ELSE row.status
  <2>1. status \in {"ACTIVE", "SOLD"} /\ row.quantity + n \in Nat
    OBVIOUS
  <2>2. Restore(row, n) = [row EXCEPT !.quantity = row.quantity + n, !.status = status]
    BY DEF Restore
  <2> HIDE DEF status
  <2> QED
    BY <2>1, <2>2
<1> QED
  BY <1>1, <1>2, <1>3, <1>4

\* Orders move to a status.
LEMMA OrderRows ==
  ASSUME TypeOK, NEW S, NEW status \in OrderStatus
  PROVE  SetStatus(S, status) \in [Order -> OrderStatus]
BY DEF TypeOK, SetStatus

\* A refund row changes status, or is replaced.
LEMMA RefundRows ==
  ASSUME NEW rows \in [Reason -> RefundRow], NEW r,
         NEW status \in RefundStatus, NEW id \in RefundId \cup {Nothing}
  PROVE  /\ [rows EXCEPT ![r].status = status] \in [Reason -> RefundRow]
         /\ [rows EXCEPT ![r] = [status |-> status, id |-> id]] \in [Reason -> RefundRow]
<1>1. [status |-> status, id |-> id] \in RefundRow
  BY DEF RefundRow
<1>2. \A row \in RefundRow : [row EXCEPT !.status = status] \in RefundRow
  BY DEF RefundRow
<1> QED
  BY <1>1, <1>2

\* A payment row changes status, or is replaced.
LEMMA PaymentRows ==
  ASSUME NEW row \in PaymentRow, NEW status \in PaymentStatus, NEW p \in ProviderPayment
  PROVE  /\ [row EXCEPT !.status = status] \in PaymentRow
         /\ [status |-> status, by |-> p] \in PaymentRow
         /\ row.status \in PaymentStatus
         /\ row.by \in ProviderPayment \cup {Nothing}
BY DEF PaymentRow

\* A worker in the middle of an execution moves to another stage, with or without the
\* id the provider answered.
LEMMA WorkerRows ==
  ASSUME NEW row \in WorkerRow, row.stage # "idle",
         NEW stage \in {"calling", "approved", "pending", "error", "failing"},
         NEW id \in RefundId \cup {Nothing}
  PROVE  /\ [row EXCEPT !.stage = stage] \in WorkerRow
         /\ [row EXCEPT !.stage = stage, !.id = id] \in WorkerRow
         /\ row.order \in Order /\ row.why \in Reason
         /\ row.by \in ProviderPayment \cup {Nothing}
         /\ row.id \in RefundId \cup {Nothing}
<1> DEFINE Stages == {"calling", "approved", "pending", "error", "failing"}
           Ids == RefundId \cup {Nothing}
           Payers == ProviderPayment \cup {Nothing}
           Rows == [stage : Stages, order : Order, why : Reason, by : Payers, id : Ids]
<1>1. row \in Rows
  BY DEF WorkerRow, IdleWorker
<1>2. Rows \subseteq WorkerRow
  BY DEF WorkerRow
<1> HIDE DEF Stages, Ids, Payers
<1>3. stage \in Stages /\ id \in Ids
  BY DEF Stages, Ids
<1>4. [row EXCEPT !.stage = stage] \in Rows
  BY <1>1, <1>3
<1>5. [row EXCEPT !.stage = stage, !.id = id] \in Rows
  BY <1>1, <1>3
<1>6. row.order \in Order /\ row.why \in Reason /\ row.by \in Payers /\ row.id \in Ids
  BY <1>1
<1> QED
  BY <1>2, <1>4, <1>5, <1>6 DEF Payers, Ids

\* A delivery in flight is about a payment the provider knows.
LEMMA DeliveryRows ==
  ASSUME NEW row \in DeliveryRow, row # IdleDelivery
  PROVE  /\ row.by \in ProviderPayment /\ row.kind \in EventKind
         /\ [row EXCEPT !.status = "refunded_unsold"] \in DeliveryRow
BY DEF DeliveryRow, DeliveryStatus

\* What lets go of reservations, and what completes refunds, keeps the types.
LEMMA DropTypes ==
  ASSUME TypeOK, NEW S, DropReservations(S)
  PROVE  /\ order' \in [Order -> OrderStatus]
         /\ listing' \in [Listing -> ListingRow]
<1>1. "CANCELLED" \in OrderStatus
  BY DEF OrderStatus
<1>2. \A l \in Listing : Release(listing[l], Pieces(S, l)) \in ListingRow
  BY StockRows, PiecesNat DEF TypeOK, DropReservations
<1> QED
  BY <1>1, <1>2, OrderRows DEF DropReservations

LEMMA FinalizeTypes ==
  ASSUME TypeOK, NEW S, NEW why \in [S -> Reason], NEW id \in [S -> RefundId \cup {Nothing}],
         FinalizeRefunds(S, why, id)
  PROVE  /\ order' \in [Order -> OrderStatus]
         /\ listing' \in [Listing -> ListingRow]
         /\ refund' \in [Order -> [Reason -> RefundRow]]
         /\ payment' \in [Order -> PaymentRow]
         /\ ledger' \in [Order -> SUBSET LedgerEntry]
<1> DEFINE back == {o \in S : order[o] \in StockConsumed}
<1>1. order' \in [Order -> OrderStatus]
  BY OrderRows DEF FinalizeRefunds, OrderStatus
<1>2. listing' \in [Listing -> ListingRow]
  <2>1. \A l \in Listing : Restore(listing[l], Pieces(back, l)) \in ListingRow
    BY StockRows, PiecesNat DEF TypeOK
  <2> QED
    BY <2>1 DEF FinalizeRefunds
<1>3. refund' \in [Order -> [Reason -> RefundRow]]
  <2>1. "COMPLETED" \in RefundStatus
    BY DEF RefundStatus
  <2>2. \A o \in Order \cap S :
           [refund[o] EXCEPT ![why[o]] = [status |-> "COMPLETED", id |-> id[o]]]
               \in [Reason -> RefundRow]
    BY <2>1, RefundRows DEF TypeOK
  <2> QED
    BY <2>2 DEF TypeOK, FinalizeRefunds
<1>4. payment' \in [Order -> PaymentRow]
  <2>1. payment \in [Order -> PaymentRow]
    BY DEF TypeOK
  <2>2. \A o \in Order : [payment[o] EXCEPT !.status = "REFUNDED"] \in PaymentRow
    BY <2>1 DEF PaymentRow, PaymentStatus
  <2> QED
    BY <2>1, <2>2 DEF FinalizeRefunds
<1>5. ledger' \in [Order -> SUBSET LedgerEntry]
  <2>1. \A o \in Order \cap S : RefundEntry(why[o]) \in LedgerEntry
    BY DEF LedgerEntry
  <2> QED
    BY <2>1 DEF TypeOK, FinalizeRefunds
<1> QED
  BY <1>1, <1>2, <1>3, <1>4, <1>5

\* So is the history of an order that a late write overtakes.
LEMMA OvertakesTypes ==
  ASSUME TypeOK, NEW o \in Order, NEW what \in Overtaking, NEW late, Overtakes(o, what, late)
  PROVE  overtaken' \in [Order -> SUBSET Overtaking]
BY DEF TypeOK, Overtakes

\* The initial state is of these types.
LEMMA InitTypes == Init => TypeOK
<1> SUFFICES ASSUME Init PROVE TypeOK
  OBVIOUS
<1>1. /\ checkout \in [Checkout -> CheckoutStatus]
      /\ order \in [Order -> OrderStatus]
      /\ provider \in [ProviderPayment -> ProviderStatus]
      /\ providerRefund \in [ProviderPayment -> [Order -> [Reason -> ProviderRefundStatus]]]
  BY DEF Init, CheckoutStatus, OrderStatus, ProviderStatus, ProviderRefundStatus
<1>2. payment \in [Order -> PaymentRow] /\ refund \in [Order -> [Reason -> RefundRow]]
  BY DEF Init, PaymentRow, PaymentStatus, RefundRow, RefundStatus
<1>3. listing \in [Listing -> ListingRow]
  BY OrderPaymentsAssumption DEF Init, ListingRow, ListingStatus
<1>4. /\ request \in [Request -> RequestRow]
      /\ delivery \in [Delivery -> DeliveryRow]
      /\ worker \in [Worker -> WorkerRow]
  BY DEF Init, RequestRow, DeliveryRow, WorkerRow
<1> QED
  BY <1>1, <1>2, <1>3, <1>4 DEF Init, TypeOK

\* Every variable keeps its type, in particular no stock column goes below zero: an
\* update that would is refused by its WHERE clause.
THEOREM TypeCorrect == Spec => []TypeOK
<1> USE DEF localVars, callVars, providerVars, history
<1>1. Init => TypeOK
  BY InitTypes
<1>2. TypeOK /\ [Next]_vars => TypeOK'
  <2> SUFFICES ASSUME TypeOK, [Next]_vars
               PROVE  TypeOK'
    OBVIOUS
  <2>1. ASSUME NEW c \in Checkout, CheckoutStep(c)
        PROVE  TypeOK'
    <3>1. CASE CreateCheckout(c)
      <4>1. order' \in [Order -> OrderStatus]
        BY <3>1, OrderRows DEF CreateCheckout, OrderStatus
      <4>2. \A l \in Listing : Reserve(listing[l], Pieces(OrdersOf(c), l)) \in ListingRow
        BY StockRows, PiecesNat DEF TypeOK
      <4> QED
        BY <3>1, <4>1, <4>2 DEF TypeOK, CreateCheckout, CheckoutStatus
    <3>2. CASE AskPreference(c)
      <4>1. payment' \in [Order -> PaymentRow]
        BY <3>2, ZenonT(60) DEF TypeOK, AskPreference, PaymentRow, PaymentStatus
      <4> QED
        BY <3>2, <4>1 DEF TypeOK, AskPreference
    <3>3. CASE AttachPreference(c)
      BY <3>3 DEF TypeOK, AttachPreference
    <3>4. CASE BecomeDue(c)
      BY <3>4 DEF TypeOK, BecomeDue
    <3>5. CASE ExpireCheckout(c)
      BY <3>5, DropTypes DEF TypeOK, ExpireCheckout, CheckoutStatus
    <3> QED
      BY <2>1, <3>1, <3>2, <3>3, <3>4, <3>5 DEF CheckoutStep
  <2>2. ASSUME NEW o \in Order, OrderStep(o)
        PROVE  TypeOK'
    <3>1. CASE CancelUnpaid(o)
      BY <3>1, DropTypes DEF TypeOK, CancelUnpaid, CheckoutStatus
    <3>2. CASE RequestRefund(o)
      <4>1. PICK r \in Reason : refund' = [refund EXCEPT ![o][r].status = "PENDING"]
        BY <3>2 DEF RequestRefund, Reason
      <4>2. refund' = [refund EXCEPT ![o] = [refund[o] EXCEPT ![r].status = "PENDING"]]
        BY <4>1
      <4>3. [refund[o] EXCEPT ![r].status = "PENDING"] \in [Reason -> RefundRow]
        BY RefundRows DEF TypeOK, RefundRow, RefundStatus
      <4> QED
        BY <3>2, <4>2, <4>3 DEF TypeOK, RequestRefund
    <3>3. CASE Confirm(o)
      <4>1. payment' \in [Order -> PaymentRow]
        BY <3>3 DEF TypeOK, Confirm, PaymentRow, PaymentStatus
      <4> QED
        BY <3>3, <4>1 DEF TypeOK, Confirm, OrderStatus, LedgerEntry
    <3> QED
      BY <2>2, <3>1, <3>2, <3>3 DEF OrderStep
  <2>3. ASSUME NEW p \in ProviderPayment, ProviderStep(p)
        PROVE  TypeOK'
    <3>1. CASE \/ \E outcome \in {"pending", "approved", "rejected"} : Pay(p, outcome)
               \/ \E outcome \in {"approved", "rejected"} : Decide(p, outcome)
      BY <3>1 DEF TypeOK, Pay, Decide, ProviderStatus
    <3>2. CASE RefundOutside(p)
      BY <3>2 DEF TypeOK, RefundOutside, ProviderStatus
    <3>3. CASE \E o \in Order, r \in Reason : SettleRefund(p, o, r)
      BY <3>3 DEF TypeOK, SettleRefund, GiveBack, ProviderStatus, ProviderRefundStatus
    <3> QED
      BY <2>3, <3>1, <3>2, <3>3 DEF ProviderStep
  <2>4. ASSUME NEW d \in Delivery, WebhookStep(d)
        PROVE  TypeOK'
    <3> DEFINE p == delivery[d].by
    <3>1. ASSUME Claim(d)
          PROVE  /\ p \in ProviderPayment
                 /\ EventOf(d) \in Event
      BY <3>1, DeliveryRows DEF TypeOK, Claim, EventOf, Event
    <3>2. ASSUME Finish(d)
          PROVE  delivery' \in [Delivery -> DeliveryRow]
      BY <3>2 DEF TypeOK, Finish, DeliveryRow
    <3>3. CASE \E pp \in ProviderPayment, kind \in EventKind : FetchPayment(d, pp, kind)
      BY <3>3 DEF TypeOK, FetchPayment, DeliveryRow, DeliveryStatus
    <3>4. CASE DropDelivery(d)
      BY <3>2, <3>4 DEF TypeOK, DropDelivery
    <3>5. CASE ApplyApproved(d)
      <4>1. order' \in [Order -> OrderStatus]
        BY <3>5, OrderRows DEF ApplyApproved, OrderStatus
      <4>2. listing' \in [Listing -> ListingRow]
        <5> DEFINE S == PendingOrders(PaysFor[p])
        <5>1. \A l \in Listing : Consume(listing[l], Pieces(S, l)) \in ListingRow
          BY <3>5, StockRows, PiecesNat DEF TypeOK, ApplyApproved
        <5> QED
          BY <3>5, <5>1 DEF ApplyApproved
      <4>3. payment' \in [Order -> PaymentRow]
        BY <3>1, <3>5 DEF TypeOK, ApplyApproved, PaymentRow, PaymentStatus
      <4>4. ledger' \in [Order -> SUBSET LedgerEntry]
        BY <3>5 DEF TypeOK, ApplyApproved, LedgerEntry
      <4> QED
        BY <3>1, <3>2, <3>5, <4>1, <4>2, <4>3, <4>4
           DEF TypeOK, ApplyApproved, Processed, CheckoutStatus
    <3>6. CASE RecordLatePayment(d)
      <4> DEFINE late == "late_payment_after_expiry"
      <4>1. payment' \in [Order -> PaymentRow]
        BY <3>1, <3>6 DEF TypeOK, RecordLatePayment, PaymentRow, PaymentStatus
      <4>2. \A o \in Order : [refund[o] EXCEPT ![late].status = "PENDING"] \in [Reason -> RefundRow]
        BY RefundRows DEF TypeOK, RefundRow, RefundStatus
      <4>3. refund' \in [Order -> [Reason -> RefundRow]]
        BY <3>6, <4>2 DEF TypeOK, RecordLatePayment
      <4> QED
        BY <3>1, <3>2, <3>6, <4>1, <4>3 DEF TypeOK, RecordLatePayment, Processed
    <3>7. CASE PeekUnsold(d)
      BY <3>7, DeliveryRows DEF TypeOK, PeekUnsold, Claim
    <3>8. CASE ApplyRejected(d)
      <4>1. payment' \in [Order -> PaymentRow]
        BY <3>8 DEF TypeOK, ApplyRejected, PaymentRow, PaymentStatus
      <4> QED
        BY <3>1, <3>2, <3>8, <4>1, DropTypes DEF TypeOK, ApplyRejected, Processed, CheckoutStatus
    <3>9. CASE AcknowledgeOnly(d)
      BY <3>1, <3>2, <3>9 DEF TypeOK, AcknowledgeOnly, Processed
    <3>11. CASE AcknowledgePending(d)
      BY <3>1, <3>2, <3>11 DEF TypeOK, AcknowledgePending, Processed
    <3>10. CASE SyncProviderRefunded(d)
      <4> DEFINE S == {o \in OrdersOf(PaysFor[p]) : payment[o].status # "REFUNDED" /\ OpenReasons(o) # {}}
                 why == [o \in S |-> CHOOSE r \in OpenReasons(o) : TRUE]
                 id == [o \in S |-> IF refund[o][why[o]].id # Nothing THEN refund[o][why[o]].id
                                    ELSE [by |-> payment[o].by, of |-> Nothing, why |-> "mp_wh"]]
      <4>1. S \subseteq Order /\ why \in [S -> Reason]
        BY DEF OpenReasons, OrdersOf
      <4>2. id \in [S -> RefundId \cup {Nothing}]
        <5>1. \A o \in S : refund[o][why[o]].id \in RefundId \cup {Nothing}
          <6> HIDE DEF S, why
          <6> QED
            BY <4>1 DEF TypeOK, RefundRow
        <5>2. \A o \in S : [by |-> payment[o].by, of |-> Nothing, why |-> "mp_wh"] \in RefundId
          <6> HIDE DEF S, why
          <6> QED
            BY <4>1 DEF TypeOK, PaymentRow, RefundId
        <5> HIDE DEF S, why
        <5> QED
          BY <5>1, <5>2
      <4>3. FinalizeRefunds(S, why, id)
        BY <3>10 DEF SyncProviderRefunded
      <4> HIDE DEF S, why, id
      <4> QED
        BY <3>1, <3>2, <3>10, <4>2, <4>1, <4>3, FinalizeTypes
           DEF TypeOK, SyncProviderRefunded, Processed
    <3> QED
      BY <2>4, <3>3, <3>4, <3>5, <3>6, <3>7, <3>8, <3>9, <3>10, <3>11 DEF WebhookStep
  <2>5. ASSUME NEW w \in Worker, RefundStep(w)
        PROVE  TypeOK'
    <3>1. ASSUME worker[w].stage # "idle",
                 NEW stage \in {"calling", "approved", "pending", "error", "failing"},
                 StepTo(w, stage)
          PROVE  worker' \in [Worker -> WorkerRow]
      <4>1. [worker[w] EXCEPT !.stage = stage] \in WorkerRow
        BY <3>1, WorkerRows DEF TypeOK
      <4> QED
        BY <3>1, <4>1 DEF TypeOK, StepTo
    <3>2. ASSUME worker[w].stage # "idle",
                 NEW stage \in {"approved", "pending"}, NEW id \in RefundId,
                 Answer(w, stage, id)
          PROVE  worker' \in [Worker -> WorkerRow]
      <4>1. [worker[w] EXCEPT !.stage = stage, !.id = id] \in WorkerRow
        BY <3>2, WorkerRows DEF TypeOK
      <4>2. worker' = [worker EXCEPT ![w] = [worker[w] EXCEPT !.stage = stage, !.id = id]]
        BY <3>2 DEF Answer, TypeOK
      <4> QED
        BY <4>1, <4>2 DEF TypeOK
    <3>3. ASSUME worker[w].stage # "idle"
          PROVE  OwnId(w) \in RefundId
      BY <3>3, WorkerRows DEF TypeOK, OwnId, RefundId
    <3>4. ASSUME FreeWorker(w)
          PROVE  worker' \in [Worker -> WorkerRow]
      BY <3>4 DEF TypeOK, FreeWorker, WorkerRow
    <3>5. CASE \E o \in Order, r \in Reason : StartRefund(w, o, r)
      <4>1. PICK o \in Order, r \in Reason : StartRefund(w, o, r)
        BY <3>5
      <4>2. payment[o].by \in ProviderPayment \cup {Nothing}
        BY DEF TypeOK, PaymentRow
      <4>3. [stage |-> IF payment[o].by = Nothing THEN "error" ELSE "calling",
             order |-> o, why |-> r, by |-> payment[o].by, id |-> Nothing] \in WorkerRow
        BY <4>2 DEF WorkerRow
      <4> QED
        BY <4>1, <4>3 DEF TypeOK, StartRefund
    <3>6. CASE ProviderRefunds(w)
      <4>1. worker' \in [Worker -> WorkerRow]
        BY <3>1, <3>2, <3>3, <3>6 DEF ProviderRefunds
      <4>2. /\ provider' \in [ProviderPayment -> ProviderStatus]
            /\ providerRefund' \in [ProviderPayment -> [Order -> [Reason -> ProviderRefundStatus]]]
        BY ZenonT(40), <3>6 DEF TypeOK, ProviderRefunds, GiveBack, ProviderStatus, ProviderRefundStatus
      <4> QED
        BY <3>6, <4>1, <4>2 DEF TypeOK, ProviderRefunds
    <3>7. CASE ProviderDefers(w)
      <4>1. worker' \in [Worker -> WorkerRow]
        BY <3>2, <3>3, <3>7 DEF ProviderDefers
      <4>2. providerRefund' \in [ProviderPayment -> [Order -> [Reason -> ProviderRefundStatus]]]
        BY <3>7 DEF TypeOK, ProviderDefers, ProviderRefundStatus
      <4> QED
        BY <3>7, <4>1, <4>2 DEF TypeOK, ProviderDefers
    <3>8. CASE ProviderReplays(w)
      <4>1. worker' \in [Worker -> WorkerRow]
        BY <3>2, <3>3, <3>8 DEF ProviderReplays
      <4> QED
        BY <3>8, <4>1 DEF TypeOK, ProviderReplays
    <3>9. CASE ProviderAlreadyRefunded(w)
      <4>1. worker[w].stage = "calling"
        BY <3>9 DEF ProviderAlreadyRefunded
      <4>2. worker[w].by \in ProviderPayment \cup {Nothing}
        BY <4>1, WorkerRows DEF TypeOK
      <4>3. \E id \in RefundId : Answer(w, "approved", id)
        BY <3>9, <4>2 DEF ProviderAlreadyRefunded, OrdersOf, RefundId
      <4>4. worker' \in [Worker -> WorkerRow]
        BY <3>2, <4>1, <4>3
      <4> QED
        BY <3>9, <4>4 DEF TypeOK, ProviderAlreadyRefunded
    <3>10. CASE ProviderFails(w)
      <4>1. worker' \in [Worker -> WorkerRow]
        BY <3>1, <3>10 DEF ProviderFails
      <4> QED
        BY <3>10, <4>1 DEF TypeOK, ProviderFails
    <3>11. CASE CompleteRefund(w)
      <4> DEFINE o == worker[w].order
                 why == [o2 \in {o} |-> worker[w].why]
                 id == [o2 \in {o} |-> worker[w].id]
      <4>1. why \in [{o} -> Reason] /\ id \in [{o} -> RefundId \cup {Nothing}]
        BY <3>11, WorkerRows DEF TypeOK, CompleteRefund, Confirmed
      <4>2. FinalizeRefunds({o}, why, id)
        BY <3>11 DEF CompleteRefund
      <4> HIDE DEF o, why, id
      <4> QED
        BY <3>4, <3>11, <4>1, <4>2, FinalizeTypes DEF TypeOK, CompleteRefund
    <3>12. CASE CompletedMeanwhile(w)
      BY <3>4, <3>12 DEF TypeOK, CompletedMeanwhile
    <3>13. CASE CompleteRefundThrows(w)
      <4>1. worker' \in [Worker -> WorkerRow]
        BY <3>1, <3>13 DEF CompleteRefundThrows
      <4> QED
        BY <3>13, <4>1 DEF TypeOK, CompleteRefundThrows
    <3>14. CASE KeepPending(w)
      <4> DEFINE o == worker[w].order
                 row == [status |-> "PENDING", id |-> worker[w].id]
      <4>1. o \in Order /\ worker[w].why \in Reason /\ worker[w].id \in RefundId \cup {Nothing}
        BY <3>14, WorkerRows DEF TypeOK, KeepPending
      <4>2. [refund[o] EXCEPT ![worker[w].why] = row] \in [Reason -> RefundRow]
        BY <4>1, RefundRows DEF TypeOK, RefundStatus
      <4>3. refund' = [refund EXCEPT ![o] = [refund[o] EXCEPT ![worker[w].why] = row]]
        BY <3>14 DEF KeepPending
      <4>4. refund' \in [Order -> [Reason -> RefundRow]]
        BY <4>2, <4>3 DEF TypeOK
      <4> QED
        BY <3>4, <3>14, <4>1, <4>4, OvertakesTypes DEF TypeOK, KeepPending, Overtaking
    <3>15. CASE MarkFailedReads(w)
      <4>1. worker' \in [Worker -> WorkerRow]
        BY <3>1, <3>4, <3>15 DEF MarkFailedReads
      <4> QED
        BY <3>15, <4>1 DEF TypeOK, MarkFailedReads
    <3>16. CASE MarkFailedWrites(w)
      <4> DEFINE o == worker[w].order
      <4>1. o \in Order /\ worker[w].why \in Reason
        BY <3>16, WorkerRows DEF TypeOK, MarkFailedWrites
      <4>2. [refund[o] EXCEPT ![worker[w].why].status = "FAILED"] \in [Reason -> RefundRow]
        BY <4>1, RefundRows DEF TypeOK, RefundRow, RefundStatus
      <4>3. refund' = [refund EXCEPT ![o] = [refund[o] EXCEPT ![worker[w].why].status = "FAILED"]]
        BY <3>16 DEF MarkFailedWrites
      <4>4. refund' \in [Order -> [Reason -> RefundRow]]
        BY <4>2, <4>3 DEF TypeOK
      <4> QED
        BY <3>4, <3>16, <4>1, <4>4, OvertakesTypes DEF TypeOK, MarkFailedWrites, Overtaking
    <3>17. CASE WorkerDies(w)
      BY <3>4, <3>17 DEF TypeOK, WorkerDies
    <3> QED
      BY <2>5, <3>5, <3>6, <3>7, <3>8, <3>9, <3>10, <3>11, <3>12, <3>13, <3>14, <3>15, <3>16, <3>17
         DEF RefundStep
  <2>6. ASSUME NEW q \in Request, RequestStep(q)
        PROVE  TypeOK'
    <3>1. CASE \E o \in Order, status \in UnlockedStatus : ReadForUpdate(q, o, status)
      BY <3>1 DEF TypeOK, ReadForUpdate, RequestRow
    <3>2. CASE WriteStatus(q)
      <4>1. request[q].to \in OrderStatus
        BY <3>2 DEF TypeOK, WriteStatus, RequestRow, UnlockedStatus, OrderStatus
      <4> QED
        BY <3>2, <4>1, OvertakesTypes DEF TypeOK, WriteStatus, RequestRow, Overtaking
    <3> QED
      BY <2>6, <3>1, <3>2 DEF RequestStep
  <2>7. CASE UNCHANGED vars
    BY <2>7 DEF TypeOK, vars
  <2> QED
    BY <2>1, <2>2, <2>3, <2>4, <2>5, <2>6, <2>7 DEF Next
<1> QED
  BY <1>1, <1>2, PTL DEF Spec

----------------------------------------------------------------------------
(* Stock: what is reserved is what unpaid orders hold, pieces leave once   *)
(* per sale, and the money path implements StockReservation.               *)
(*                                                                         *)
(* The inductive invariant: reservations are backed, a checkout and its    *)
(* orders agree, and the orders past their payment are those captured.     *)
(* Each needs the others: a reservation stays backed because no unlocked   *)
(* write is about an unpaid order, and that holds because a captured order *)
(* never becomes unpaid again.                                             *)
StockInv == TypeOK /\ ReservationBacked /\ CheckoutCoherent /\ SaleIsCaptured

\* Reservations dropped by unpaid orders, or taken by new ones, stay backed.
LEMMA DropStaysBacked ==
  ASSUME TypeOK, ReservationBacked, NEW S, S \subseteq PendingOf, DropReservations(S)
  PROVE  ReservationBacked'
<1> SUFFICES ASSUME NEW l \in Listing
             PROVE  /\ listing'[l].reserved = Pieces(PendingOf', l)
                    /\ listing'[l].reserved <= listing'[l].quantity
  BY DEF ReservationBacked
<1>1. PendingOf' = PendingOf \ S
  BY DEF TypeOK, PendingOf, DropReservations, SetStatus
<1>2. Pieces(PendingOf', l) = Pieces(PendingOf, l) - Pieces(S, l)
  BY <1>1, PiecesLess
<1>3. listing[l].reserved \in Nat /\ listing[l].quantity \in Nat
  BY DEF TypeOK, ListingRow
<1>4. Pieces(S, l) \in Nat
  BY PiecesNat
<1>5. /\ listing'[l].reserved = listing[l].reserved - Pieces(S, l)
      /\ listing'[l].quantity = listing[l].quantity
  BY DEF TypeOK, ListingRow, DropReservations, Release
<1> QED
  BY <1>2, <1>3, <1>4, <1>5 DEF ReservationBacked

\* Completing refunds does not touch a reservation.
LEMMA FinalizeStaysBacked ==
  ASSUME TypeOK, ReservationBacked, NEW S, NEW why, NEW id, FinalizeRefunds(S, why, id)
  PROVE  ReservationBacked'
<1> SUFFICES ASSUME NEW l \in Listing
             PROVE  /\ listing'[l].reserved = Pieces(PendingOf', l)
                    /\ listing'[l].reserved <= listing'[l].quantity
  BY DEF ReservationBacked
<1> DEFINE back == {o \in S : order[o] \in StockConsumed}
<1>1. PendingOf' = PendingOf
  BY DEF TypeOK, PendingOf, FinalizeRefunds, SetStatus, StockConsumed
<1>2. listing[l].reserved \in Nat /\ listing[l].quantity \in Nat /\ Pieces(back, l) \in Nat
  BY PiecesNat DEF TypeOK, ListingRow
<1>3. /\ listing'[l].reserved = listing[l].reserved
      /\ listing'[l].quantity = listing[l].quantity + Pieces(back, l)
  BY DEF TypeOK, ListingRow, FinalizeRefunds, Restore
<1> QED
  BY <1>1, <1>2, <1>3 DEF ReservationBacked

\* What a step of an execution leaves alone; its three writes of the program's own tables are
\* named, and so are the two of the provider's.
LEMMA RefundStepWrites ==
  ASSUME NEW w \in Worker, RefundStep(w)
  PROVE  /\ UNCHANGED <<request, delivery, processed, early>>
         /\ \/ UNCHANGED <<checkout, due, asking, preference, order, payment, refund, ledger, listing>>
            \/ /\ KeepPending(w) \/ MarkFailedWrites(w)
               /\ UNCHANGED <<checkout, due, asking, preference, order, payment, ledger, listing>>
            \/ CompleteRefund(w)
         /\ ProviderRefunds(w) \/ ProviderDefers(w) \/ UNCHANGED <<provider, providerRefund>>
         /\ \E row : worker' = [worker EXCEPT ![w] = row]
<1> DEFINE Local == UNCHANGED <<checkout, due, asking, preference, order, payment, refund, ledger, listing>>
           Deliveries == UNCHANGED <<request, delivery, processed, early>>
           Provider == UNCHANGED <<provider, providerRefund>>
           Worker1 == \E row : worker' = [worker EXCEPT ![w] = row]
<1> USE DEF localVars, providerVars, history, FreeWorker, StepTo, Answer
<1>1. ASSUME NEW o \in Order, NEW r \in Reason, StartRefund(w, o, r)
      PROVE  Local /\ Deliveries /\ Provider /\ Worker1
  BY <1>1 DEF StartRefund
<1>2. CASE ProviderRefunds(w)
  <2>1. Local /\ Deliveries
    BY <1>2 DEF ProviderRefunds
  <2>2. Worker1
    BY <1>2 DEF ProviderRefunds
  <2> QED BY <1>2, <2>1, <2>2
<1>3. CASE ProviderDefers(w)
  <2>1. Local /\ Deliveries /\ Worker1
    BY <1>3 DEF ProviderDefers
  <2> QED BY <1>3, <2>1
<1>4. CASE ProviderReplays(w) \/ ProviderFails(w)
  <2>1. Local /\ Deliveries /\ Provider /\ Worker1
    BY <1>4 DEF ProviderReplays, ProviderFails
  <2> QED BY <2>1
<1>5. CASE ProviderAlreadyRefunded(w)
  <2>1. Local /\ Deliveries /\ Provider
    BY <1>5 DEF ProviderAlreadyRefunded
  <2>2. PICK id : Answer(w, "approved", id)
    <3> DEFINE p == worker[w].by
               own == {[by |-> p, of |-> o, why |-> r] : o \in OrdersOf(PaysFor[p]), r \in Reason}
               listed == {i \in own : providerRefund[p][i.of][i.why] = "approved"}
               all == listed \cup {[by |-> p, of |-> Nothing, why |-> "outside"]}
    <3> HIDE DEF localVars, providerVars, history, FreeWorker, StepTo, Answer
    <3>1. \E id \in all : Answer(w, "approved", id)
      BY <1>5 DEF ProviderAlreadyRefunded
    <3> HIDE DEF all
    <3> QED BY <3>1
  <2>3. Worker1
    BY <2>2
  <2> QED BY <2>1, <2>3
<1>6. CASE CompleteRefund(w)
  <2>1. Deliveries /\ Provider /\ Worker1
    BY <1>6 DEF CompleteRefund
  <2> QED BY <1>6, <2>1
<1>7. CASE CompletedMeanwhile(w) \/ CompleteRefundThrows(w) \/ WorkerDies(w)
  <2>1. Local /\ Deliveries /\ Provider /\ Worker1
    BY <1>7 DEF CompletedMeanwhile, CompleteRefundThrows, WorkerDies
  <2> QED BY <2>1
<1>8. CASE KeepPending(w) \/ MarkFailedWrites(w)
  <2>1. /\ UNCHANGED <<checkout, due, asking, preference, order, payment, ledger, listing>>
        /\ Deliveries /\ Provider /\ Worker1
    BY <1>8 DEF KeepPending, MarkFailedWrites
  <2> QED BY <1>8, <2>1
<1>9. CASE MarkFailedReads(w)
  <2>1. Local /\ Deliveries /\ Provider
    BY <1>9 DEF MarkFailedReads
  <2>2. Worker1
    BY <1>9 DEF MarkFailedReads
  <2> QED BY <2>1, <2>2
<1> HIDE DEF localVars, providerVars, history, FreeWorker, StepTo, Answer, Local, Deliveries, Provider, Worker1
<1>10. \/ \E o \in Order, r \in Reason : StartRefund(w, o, r)
       \/ ProviderRefunds(w) \/ ProviderDefers(w) \/ ProviderReplays(w) \/ ProviderAlreadyRefunded(w)
       \/ ProviderFails(w) \/ CompleteRefund(w) \/ CompletedMeanwhile(w) \/ CompleteRefundThrows(w)
       \/ KeepPending(w) \/ MarkFailedReads(w) \/ MarkFailedWrites(w) \/ WorkerDies(w)
  BY DEF RefundStep
<1>11. CASE \E o \in Order, r \in Reason : StartRefund(w, o, r)
  BY <1>1, <1>11 DEF Local, Deliveries, Provider, Worker1
<1> QED BY <1>2, <1>3, <1>4, <1>5, <1>6, <1>7, <1>8, <1>9, <1>10, <1>11

\* The invariant only looks at checkouts, orders, captures, stock and unlocked writes,
\* and these are the steps that change any of them.
LEMMA StockSteps ==
  ASSUME Next
  PROVE  \/ UNCHANGED <<checkout, order, ledger, listing, request>>
         \/ \E c \in Checkout : CreateCheckout(c) \/ ExpireCheckout(c)
         \/ \E o \in Order : CancelUnpaid(o) \/ Confirm(o)
         \/ \E d \in Delivery : ApplyApproved(d) \/ ApplyRejected(d) \/ SyncProviderRefunded(d)
         \/ \E w \in Worker : CompleteRefund(w)
         \/ \E q \in Request : RequestStep(q)
<1> USE DEF localVars, callVars, providerVars, history
<1>1. ASSUME NEW c \in Checkout, CheckoutStep(c)
      PROVE  \/ UNCHANGED <<checkout, order, ledger, listing, request>>
             \/ CreateCheckout(c) \/ ExpireCheckout(c)
  BY <1>1 DEF CheckoutStep, AskPreference, AttachPreference, BecomeDue
<1>2. ASSUME NEW o \in Order, OrderStep(o)
      PROVE  \/ UNCHANGED <<checkout, order, ledger, listing, request>>
             \/ CancelUnpaid(o) \/ Confirm(o)
  BY <1>2 DEF OrderStep, RequestRefund
<1>3. ASSUME NEW p \in ProviderPayment, ProviderStep(p)
      PROVE  UNCHANGED <<checkout, order, ledger, listing, request>>
  BY <1>3 DEF ProviderStep, Pay, Decide, RefundOutside, SettleRefund
<1>4. ASSUME NEW d \in Delivery, WebhookStep(d)
      PROVE  \/ UNCHANGED <<checkout, order, ledger, listing, request>>
             \/ ApplyApproved(d) \/ ApplyRejected(d) \/ SyncProviderRefunded(d)
  BY <1>4 DEF WebhookStep, FetchPayment, DropDelivery, RecordLatePayment, PeekUnsold,
              AcknowledgeOnly, AcknowledgePending
<1>5. ASSUME NEW w \in Worker, RefundStep(w)
      PROVE  \/ UNCHANGED <<checkout, order, ledger, listing, request>>
             \/ CompleteRefund(w)
  BY <1>5, RefundStepWrites DEF KeepPending, MarkFailedWrites
<1> QED
  BY <1>1, <1>2, <1>3, <1>4, <1>5 DEF Next

\* Orders leave an open checkout for CANCELLED; the checkout closes with the last one.
LEMMA DropStaysCoherent ==
  ASSUME StockInv, NEW c \in Checkout, checkout[c] = "PENDING_PAYMENT",
         NEW S, S \subseteq PendingOrders(c), DropReservations(S),
         NEW closed \in {"EXPIRED", "CANCELLED"},
         checkout' = IF PendingOrders(c) = S THEN [checkout EXCEPT ![c] = closed] ELSE checkout,
         UNCHANGED <<ledger, request>>
  PROVE  ReservationBacked' /\ CheckoutCoherent' /\ SaleIsCaptured'
<1> USE DEF StockInv
<1>1. \A o \in Order : order'[o] = IF o \in S THEN "CANCELLED" ELSE order[o]
  BY DEF DropReservations, SetStatus
<1>2. \A o \in S : o \in Order /\ CheckoutOf[o] = c /\ order[o] = "PENDING_PAYMENT"
  BY DEF PendingOrders, OrdersOf
<1>3. ReservationBacked'
  BY <1>2, DropStaysBacked DEF PendingOf
<1>4. SaleIsCaptured'
  BY <1>1, <1>2 DEF SaleIsCaptured
<1>5. ASSUME NEW b \in Checkout, checkout'[b] = "PENDING_PAYMENT"
      PROVE  PendingOrders(b)' # {}
  <2>1. CASE b = c
    <3>1. PendingOrders(c) # S
      BY <1>5, <2>1 DEF TypeOK
    <3>2. PICK o \in PendingOrders(c) : o \notin S
      BY <3>1
    <3> QED
      BY <1>1, <2>1, <3>2 DEF PendingOrders, OrdersOf
  <2>2. CASE b # c
    <3>1. checkout[b] = "PENDING_PAYMENT"
      BY <1>5, <2>2 DEF TypeOK
    <3>2. PICK o \in PendingOrders(b) : TRUE
      BY <3>1 DEF CheckoutCoherent
    <3>3. o \notin S
      BY <1>2, <2>2, <3>2 DEF PendingOrders, OrdersOf
    <3> QED
      BY <1>1, <3>2, <3>3 DEF PendingOrders, OrdersOf
  <2> QED
    BY <2>1, <2>2
<1>6. ASSUME NEW o \in Order
      PROVE  /\ checkout'[CheckoutOf[o]] = "NONE" => order'[o] = "NONE"
             /\ checkout'[CheckoutOf[o]] = "PENDING_PAYMENT"
                    => order'[o] \in {"PENDING_PAYMENT", "CANCELLED"}
             /\ checkout'[CheckoutOf[o]] = "PAID" => order'[o] \notin {"NONE", "PENDING_PAYMENT"}
             /\ checkout'[CheckoutOf[o]] \in {"EXPIRED", "CANCELLED"} => order'[o] = "CANCELLED"
  <2>1. CheckoutOf[o] \in Checkout
    BY OrderPaymentsAssumption
  <2>2. CASE CheckoutOf[o] = c
    <3>1. order[o] \in {"PENDING_PAYMENT", "CANCELLED"}
      BY <2>2 DEF CheckoutCoherent
    <3>2. order[o] = "PENDING_PAYMENT" => o \in PendingOrders(c)
      BY <2>2 DEF PendingOrders, OrdersOf
    <3> QED
      BY <1>1, <2>1, <2>2, <3>1, <3>2 DEF TypeOK
  <2>3. CASE CheckoutOf[o] # c
    <3>1. o \notin S /\ checkout'[CheckoutOf[o]] = checkout[CheckoutOf[o]]
      BY <1>2, <2>1, <2>3 DEF TypeOK
    <3> QED
      BY <1>1, <3>1 DEF CheckoutCoherent
  <2> QED
    BY <2>2, <2>3
<1>7. CheckoutCoherent'
  BY <1>5, <1>6 DEF CheckoutCoherent
<1> QED
  BY <1>3, <1>4, <1>7

\* The rest of the invariant when orders past their payment move among the statuses past
\* payment, and checkouts, captures and reservations stay.
LEMMA PastPaymentStaysCoherent ==
  ASSUME StockInv, NEW order2 \in [Order -> OrderStatus],
         \A o \in Order : order2[o] # order[o] =>
             /\ order[o] \notin {"NONE", "PENDING_PAYMENT", "CANCELLED"}
             /\ order2[o] \notin {"NONE", "PENDING_PAYMENT", "CANCELLED"},
         order' = order2, checkout' = checkout,
         \A o \in Order : Captured \in ledger'[o] <=> Captured \in ledger[o]
  PROVE  /\ CheckoutCoherent'
         /\ PendingOf' = PendingOf
         /\ \A o \in Order : Captured \in ledger'[o] <=>
                order'[o] \notin {"NONE", "PENDING_PAYMENT", "CANCELLED"}
<1> USE DEF StockInv
<1>1. \A o \in Order : CheckoutOf[o] \in Checkout
  BY OrderPaymentsAssumption
<1>2. PendingOf' = PendingOf
  BY DEF PendingOf
<1>3. \A c \in Checkout : PendingOrders(c)' = PendingOrders(c)
  BY DEF PendingOrders, OrdersOf
<1>4. \A o \in Order : order'[o] # order[o] => checkout[CheckoutOf[o]] = "PAID"
  BY <1>1 DEF TypeOK, CheckoutCoherent, CheckoutStatus
<1>5. CheckoutCoherent'
  BY <1>3, <1>4 DEF CheckoutCoherent
<1> QED
  BY <1>2, <1>5 DEF SaleIsCaptured

\* No step breaks the invariant.
LEMMA StockInvStep == StockInv /\ TypeOK' /\ [Next]_vars => StockInv'
<1> SUFFICES ASSUME StockInv, TypeOK', [Next]_vars
             PROVE  ReservationBacked' /\ CheckoutCoherent' /\ SaleIsCaptured'
  BY DEF StockInv
<1> USE DEF StockInv, localVars, callVars, providerVars, history
<1>1. CASE UNCHANGED <<checkout, order, ledger, listing, request>>
  <2>1. PendingOf' = PendingOf /\ \A c \in Checkout : PendingOrders(c)' = PendingOrders(c)
    BY <1>1 DEF PendingOf, PendingOrders, OrdersOf
  <2> QED
    BY <1>1, <2>1 DEF ReservationBacked, CheckoutCoherent, SaleIsCaptured
<1>2. ASSUME NEW c \in Checkout, CreateCheckout(c)
      PROVE  ReservationBacked' /\ CheckoutCoherent' /\ SaleIsCaptured'
  <2> DEFINE S == OrdersOf(c)
  <2>1. \A o \in Order : /\ order'[o] = IF o \in S THEN "PENDING_PAYMENT" ELSE order[o]
                         /\ o \in S <=> CheckoutOf[o] = c
                         /\ o \in S => order[o] = "NONE"
    BY <1>2 DEF CreateCheckout, SetStatus, OrdersOf, CheckoutCoherent
  <2>2. PendingOf' = PendingOf \cup S /\ PendingOf \cap S = {}
    BY <2>1 DEF PendingOf, OrdersOf
  <2>3. ReservationBacked'
    <3> SUFFICES ASSUME NEW l \in Listing
                 PROVE  /\ listing'[l].reserved = Pieces(PendingOf', l)
                        /\ listing'[l].reserved <= listing'[l].quantity
      BY DEF ReservationBacked
    <3>1. Pieces(PendingOf', l) = Pieces(PendingOf, l) + Pieces(S, l)
      BY <2>2, PiecesUnion
    <3>2. listing[l].reserved \in Nat /\ listing[l].quantity \in Nat /\ Pieces(S, l) \in Nat
      BY PiecesNat DEF TypeOK, ListingRow
    <3>3. /\ listing'[l].reserved = listing[l].reserved + Pieces(S, l)
          /\ listing'[l].quantity = listing[l].quantity
      BY <1>2 DEF TypeOK, ListingRow, CreateCheckout, Reserve
    <3>4. Pieces(S, l) > 0 => listing[l].quantity - listing[l].reserved >= Pieces(S, l)
      BY <1>2 DEF CreateCheckout, CanReserve
    <3> QED
      BY <3>1, <3>2, <3>3, <3>4 DEF ReservationBacked
  <2>4. CheckoutCoherent'
    <3>1. ASSUME NEW b \in Checkout, checkout'[b] = "PENDING_PAYMENT"
          PROVE  PendingOrders(b)' # {}
      <4>1. PICK o \in Order : CheckoutOf[o] = b /\ (b # c => order[o] = "PENDING_PAYMENT")
        BY <1>2, <3>1, OrderPaymentsAssumption
           DEF TypeOK, CreateCheckout, CheckoutCoherent, PendingOrders, OrdersOf
      <4> QED
        BY <2>1, <4>1 DEF PendingOrders, OrdersOf
    <3>2. \A o \in Order : CheckoutOf[o] \in Checkout
      BY OrderPaymentsAssumption
    <3>3. \A b \in Checkout : checkout'[b] = IF b = c THEN "PENDING_PAYMENT" ELSE checkout[b]
      BY <1>2 DEF TypeOK, CreateCheckout
    <3> QED
      BY <2>1, <3>1, <3>2, <3>3 DEF CheckoutCoherent
  <2>5. SaleIsCaptured'
    BY <1>2, <2>1 DEF CreateCheckout, SaleIsCaptured
  <2> QED
    BY <2>3, <2>4, <2>5
<1>3. ASSUME NEW c \in Checkout, ExpireCheckout(c)
      PROVE  ReservationBacked' /\ CheckoutCoherent' /\ SaleIsCaptured'
  BY <1>3, DropStaysCoherent DEF ExpireCheckout, CanExpire
<1>4. ASSUME NEW o \in Order, CancelUnpaid(o)
      PROVE  ReservationBacked' /\ CheckoutCoherent' /\ SaleIsCaptured'
  <2>1. /\ CheckoutOf[o] \in Checkout
        /\ checkout[CheckoutOf[o]] = "PENDING_PAYMENT"
    BY <1>4, OrderPaymentsAssumption DEF TypeOK, CancelUnpaid, CheckoutCoherent, CheckoutStatus
  <2>2. {o} \subseteq PendingOrders(CheckoutOf[o])
    BY <1>4 DEF CancelUnpaid, PendingOrders, OrdersOf
  <2> QED
    BY <1>4, <2>1, <2>2, DropStaysCoherent DEF CancelUnpaid, IsLastPending
<1>5. ASSUME NEW o \in Order, Confirm(o)
      PROVE  ReservationBacked' /\ CheckoutCoherent' /\ SaleIsCaptured'
  <2>1. /\ order' = [order EXCEPT ![o] = "COMPLETED"]
        /\ order[o] = "DELIVERED"
        /\ \A o2 \in Order : Captured \in ledger'[o2] <=> Captured \in ledger[o2]
    BY <1>5 DEF TypeOK, Confirm, CanConfirm, Captured, Payable
  <2>2. [order EXCEPT ![o] = "COMPLETED"] \in [Order -> OrderStatus]
    BY <2>1 DEF TypeOK
  <2>3. /\ CheckoutCoherent'
        /\ PendingOf' = PendingOf
        /\ \A o2 \in Order : Captured \in ledger'[o2] <=>
               order'[o2] \notin {"NONE", "PENDING_PAYMENT", "CANCELLED"}
    BY <1>5, <2>1, <2>2, PastPaymentStaysCoherent DEF TypeOK, Confirm
  <2> QED
    BY <1>5, <2>1, <2>3 DEF TypeOK, RequestRow, Confirm, ReservationBacked, SaleIsCaptured
<1>6. ASSUME NEW d \in Delivery, ApplyApproved(d)
      PROVE  ReservationBacked' /\ CheckoutCoherent' /\ SaleIsCaptured'
  <2> DEFINE c == PaysFor[delivery[d].by]
             S == PendingOrders(c)
  <2>1. c \in Checkout /\ checkout[c] = "PENDING_PAYMENT"
    BY <1>6, DeliveryRows, OrderPaymentsAssumption DEF TypeOK, ApplyApproved, Claim
  <2>2. \A o \in Order : /\ order'[o] = IF o \in S THEN "PAID" ELSE order[o]
                         /\ Captured \in ledger'[o] <=> o \in S \/ Captured \in ledger[o]
                         /\ o \in S <=> CheckoutOf[o] = c /\ order[o] = "PENDING_PAYMENT"
    BY <1>6 DEF ApplyApproved, SetStatus, PendingOrders, OrdersOf
  <2>3. PendingOf' = PendingOf \ S /\ S \subseteq PendingOf
    BY <2>2 DEF PendingOf, PendingOrders, OrdersOf
  <2>4. ReservationBacked'
    <3> SUFFICES ASSUME NEW l \in Listing
                 PROVE  /\ listing'[l].reserved = Pieces(PendingOf', l)
                        /\ listing'[l].reserved <= listing'[l].quantity
      BY DEF ReservationBacked
    <3>1. Pieces(PendingOf', l) = Pieces(PendingOf, l) - Pieces(S, l)
      BY <2>3, PiecesLess
    <3>2. listing[l].reserved \in Nat /\ listing[l].quantity \in Nat /\ Pieces(S, l) \in Nat
      BY PiecesNat DEF TypeOK, ListingRow
    <3>3. /\ listing'[l].reserved = listing[l].reserved - Pieces(S, l)
          /\ listing'[l].quantity = listing[l].quantity - Pieces(S, l)
      BY <1>6 DEF ApplyApproved, Consume
    <3> QED
      BY <3>1, <3>2, <3>3 DEF ReservationBacked
  <2>5. CheckoutCoherent'
    <3>1. \A b \in Checkout : checkout'[b] = IF b = c THEN "PAID" ELSE checkout[b]
      BY <1>6 DEF TypeOK, ApplyApproved
    <3>2. \A o \in Order : CheckoutOf[o] \in Checkout
      BY OrderPaymentsAssumption
    <3>3. ASSUME NEW b \in Checkout, checkout'[b] = "PENDING_PAYMENT"
          PROVE  PendingOrders(b)' # {}
      BY <2>2, <3>1, <3>3 DEF CheckoutCoherent, PendingOrders, OrdersOf
    <3> HIDE DEF c, S
    <3> QED
      BY <2>1, <2>2, <3>1, <3>2, <3>3 DEF CheckoutCoherent
  <2>6. SaleIsCaptured'
    <3> HIDE DEF c, S
    <3>1. request' = request
      BY <1>6 DEF ApplyApproved
    <3>2. \A q \in Request : request[q] # IdleRequest => request[q].order \in Order
      BY DEF TypeOK, RequestRow
    <3> QED
      BY <2>2, <3>1, <3>2 DEF SaleIsCaptured
  <2> QED
    BY <2>4, <2>5, <2>6
<1>7. ASSUME NEW d \in Delivery, ApplyRejected(d)
      PROVE  ReservationBacked' /\ CheckoutCoherent' /\ SaleIsCaptured'
  <2>1. PaysFor[delivery[d].by] \in Checkout
    BY <1>7, DeliveryRows, OrderPaymentsAssumption DEF TypeOK, ApplyRejected, Claim
  <2> QED
    BY <1>7, <2>1, DropStaysCoherent DEF ApplyRejected
<1>8. ASSUME NEW S, NEW why, NEW id, FinalizeRefunds(S, why, id), UNCHANGED <<checkout, request>>
      PROVE  ReservationBacked' /\ CheckoutCoherent' /\ SaleIsCaptured'
  <2>1. \A o \in Order : Captured \in ledger'[o] <=> Captured \in ledger[o]
    BY <1>8 DEF FinalizeRefunds, Captured, RefundEntry
  <2>2. \A o \in Order : order'[o] # order[o] =>
            order[o] \in {"PAID", "PREPARING"} /\ order'[o] = "REFUNDED"
    BY <1>8 DEF TypeOK, FinalizeRefunds, SetStatus, StockConsumed
  <2>3. order' \in [Order -> OrderStatus]
    BY DEF TypeOK
  <2>4. /\ CheckoutCoherent'
        /\ \A o \in Order : Captured \in ledger'[o] <=>
               order'[o] \notin {"NONE", "PENDING_PAYMENT", "CANCELLED"}
    BY <1>8, <2>1, <2>2, <2>3, PastPaymentStaysCoherent
  <2>5. ReservationBacked'
    BY <1>8, FinalizeStaysBacked
  <2> QED
    BY <1>8, <2>1, <2>4, <2>5 DEF TypeOK, RequestRow, SaleIsCaptured
<1>9. ASSUME NEW d \in Delivery, SyncProviderRefunded(d)
      PROVE  ReservationBacked' /\ CheckoutCoherent' /\ SaleIsCaptured'
  BY <1>8, <1>9 DEF SyncProviderRefunded
<1>10. ASSUME NEW w \in Worker, CompleteRefund(w)
       PROVE  ReservationBacked' /\ CheckoutCoherent' /\ SaleIsCaptured'
  BY <1>8, <1>10 DEF CompleteRefund
<1>11. ASSUME NEW q \in Request, RequestStep(q)
       PROVE  ReservationBacked' /\ CheckoutCoherent' /\ SaleIsCaptured'
  <2>1. ASSUME NEW o \in Order, NEW status \in UnlockedStatus, ReadForUpdate(q, o, status)
        PROVE  ReservationBacked' /\ CheckoutCoherent' /\ SaleIsCaptured'
    <3>1. UNCHANGED <<checkout, order, ledger, listing>>
      BY <2>1 DEF ReadForUpdate
    <3>2. PendingOf' = PendingOf /\ \A c \in Checkout : PendingOrders(c)' = PendingOrders(c)
      BY <3>1 DEF PendingOf, PendingOrders, OrdersOf
    <3>3. Captured \in ledger[o]
      BY <2>1 DEF ReadForUpdate, MayBecome, MayDispute, SaleIsCaptured
    <3>4. \A q2 \in Request : request'[q2] # IdleRequest => Captured \in ledger[request'[q2].order]
      BY <2>1, <3>3 DEF TypeOK, ReadForUpdate, SaleIsCaptured
    <3> QED
      BY <3>1, <3>2, <3>4 DEF ReservationBacked, CheckoutCoherent, SaleIsCaptured
  <2>2. CASE WriteStatus(q)
    <3> DEFINE o == request[q].order
    <3>1. o \in Order /\ Captured \in ledger[o] /\ request[q].to \in UnlockedStatus
      BY <2>2 DEF TypeOK, WriteStatus, RequestRow, SaleIsCaptured
    <3>2. UNCHANGED <<checkout, ledger, listing>> /\ order' = [order EXCEPT ![o] = request[q].to]
      BY <2>2 DEF WriteStatus
    <3>3. order[o] \notin {"NONE", "PENDING_PAYMENT", "CANCELLED"}
      BY <3>1 DEF SaleIsCaptured
    <3>4. order' \in [Order -> OrderStatus]
      BY DEF TypeOK
    <3>5. request[q].to \notin {"NONE", "PENDING_PAYMENT", "CANCELLED"}
      BY <3>1 DEF UnlockedStatus
    <3> HIDE DEF o
    <3>6. \A o2 \in Order : order'[o2] # order[o2] =>
             /\ order[o2] \notin {"NONE", "PENDING_PAYMENT", "CANCELLED"}
             /\ order'[o2] \notin {"NONE", "PENDING_PAYMENT", "CANCELLED"}
      BY <3>1, <3>2, <3>3, <3>5 DEF TypeOK
    <3>7. /\ CheckoutCoherent'
          /\ PendingOf' = PendingOf
          /\ \A o2 \in Order : Captured \in ledger'[o2] <=>
                 order'[o2] \notin {"NONE", "PENDING_PAYMENT", "CANCELLED"}
      BY <3>2, <3>4, <3>6, PastPaymentStaysCoherent
    <3>8. \A q2 \in Request : request'[q2] # IdleRequest => Captured \in ledger[request'[q2].order]
      BY <2>2 DEF TypeOK, WriteStatus, SaleIsCaptured
    <3> QED
      BY <3>2, <3>7, <3>8 DEF ReservationBacked, SaleIsCaptured
  <2> QED
    BY <1>11, <2>1, <2>2 DEF RequestStep
<1> QED
  <2>1. CASE UNCHANGED vars
    BY <1>1, <2>1 DEF vars
  <2>2. CASE Next
    BY <1>1, <1>2, <1>3, <1>4, <1>5, <1>6, <1>7, <1>9, <1>10, <1>11, <2>2, StockSteps
  <2> QED
    BY <2>1, <2>2

\* The invariant holds of every reachable state.
THEOREM StockInvariant == Spec => []StockInv
<1>1. Init => StockInv
  <2> SUFFICES ASSUME Init PROVE StockInv
    OBVIOUS
  <2>1. TypeOK
    BY InitTypes
  <2>2. PendingOf = {}
    BY DEF Init, PendingOf
  <2>3. ReservationBacked
    BY <2>2, PiecesEmpty, OrderPaymentsAssumption DEF Init, ReservationBacked
  <2>4. CheckoutCoherent /\ SaleIsCaptured
    BY OrderPaymentsAssumption DEF Init, CheckoutCoherent, SaleIsCaptured
  <2> QED
    BY <2>1, <2>3, <2>4 DEF StockInv
<1>2. TypeOK /\ TypeOK' /\ StockInv /\ [Next]_vars => StockInv'
  BY StockInvStep
<1> QED
  BY <1>1, <1>2, TypeCorrect, PTL DEF Spec

\* A reservation is exactly what unpaid orders hold, and is never more than there is.
THEOREM ReservationsAreBacked == Spec => []ReservationBacked
<1>1. StockInv => ReservationBacked
  BY DEF StockInv
<1> QED
  BY <1>1, StockInvariant, PTL

\* A checkout and its orders agree.
THEOREM CheckoutsAreCoherent == Spec => []CheckoutCoherent
<1>1. StockInv => CheckoutCoherent
  BY DEF StockInv
<1> QED
  BY <1>1, StockInvariant, PTL

\* Exactly the captured orders are past their payment, and late writes are about those.
THEOREM SalesAreCaptured == Spec => []SaleIsCaptured
<1>1. StockInv => SaleIsCaptured
  BY DEF StockInv
<1> QED
  BY <1>1, StockInvariant, PTL

----------------------------------------------------------------------------
(* The money path implements StockReservation: the initial state maps to   *)
(* its initial state, and every step to one of its steps or to none.       *)

\* What the mapped variables are, before and after a step.
LEMMA Mapped ==
  ASSUME StockInv, StockInv'
  PROVE  /\ \A c \in Checkout :
              /\ (outcomes[c] = "none") <=> (checkout[c] = "NONE")
              /\ (outcomes[c] = "open") <=> (checkout[c] = "PENDING_PAYMENT")
              /\ outcomes'[c] = IF checkout'[c] = "NONE" THEN "none"
                                ELSE IF checkout'[c] = "PENDING_PAYMENT" THEN "open"
                                ELSE IF checkout'[c] = "PAID" THEN "paid" ELSE "lost"
              /\ checkout'[c] = checkout[c] => outcomes'[c] = outcomes[c]
         /\ \A o \in Order :
              /\ (phases[o] = "held") <=> (order[o] = "PENDING_PAYMENT")
              /\ (phases[o] = "sold") <=>
                    order[o] \notin {"NONE", "PENDING_PAYMENT", "CANCELLED"}
              /\ phases'[o] = IF order'[o] = "NONE" THEN "none"
                              ELSE IF order'[o] = "PENDING_PAYMENT" THEN "held"
                              ELSE IF order'[o] = "CANCELLED" THEN "dropped" ELSE "sold"
              /\ order'[o] = order[o] => phases'[o] = phases[o]
         /\ \A l \in Listing :
              /\ freeStock[l] = listing[l].quantity - listing[l].reserved
              /\ freeStock'[l] = listing'[l].quantity - listing'[l].reserved
<1>1. \A c \in Checkout :
        /\ outcomes[c] = IF checkout[c] = "NONE" THEN "none"
                         ELSE IF checkout[c] = "PENDING_PAYMENT" THEN "open"
                         ELSE IF checkout[c] = "PAID" THEN "paid" ELSE "lost"
        /\ outcomes'[c] = IF checkout'[c] = "NONE" THEN "none"
                          ELSE IF checkout'[c] = "PENDING_PAYMENT" THEN "open"
                          ELSE IF checkout'[c] = "PAID" THEN "paid" ELSE "lost"
  BY DEF StockInv, TypeOK, CheckoutStatus, outcomes, Outcome
<1>2. \A o \in Order :
        /\ phases[o] = IF order[o] = "NONE" THEN "none"
                       ELSE IF order[o] = "PENDING_PAYMENT" THEN "held"
                       ELSE IF order[o] = "CANCELLED" THEN "dropped" ELSE "sold"
        /\ phases'[o] = IF order'[o] = "NONE" THEN "none"
                        ELSE IF order'[o] = "PENDING_PAYMENT" THEN "held"
                        ELSE IF order'[o] = "CANCELLED" THEN "dropped" ELSE "sold"
  BY DEF phases, Phase
<1>3. \A l \in Listing :
        /\ freeStock[l] = listing[l].quantity - listing[l].reserved
        /\ freeStock'[l] = listing'[l].quantity - listing'[l].reserved
  BY DEF freeStock
<1> QED
  BY <1>1, <1>2, <1>3

\* The reservations a checkout or an order drops go back to free stock.
LEMMA DropMapped ==
  ASSUME StockInv, StockInv', NEW S, S \subseteq Order, DropReservations(S)
  PROVE  Promise!Move(S, "dropped") /\ Promise!GetBack(S)
<1>1. \A o \in Order : order'[o] = IF o \in S THEN "CANCELLED" ELSE order[o]
  BY DEF DropReservations, SetStatus
<1>2. \A o \in Order : phases'[o] = IF o \in S THEN "dropped" ELSE phases[o]
  BY <1>1, Mapped
<1>3. phases' = [o \in Order |-> phases'[o]] /\ freeStock' = [l \in Listing |-> freeStock'[l]]
  BY DEF phases, freeStock
<1>4. Promise!Move(S, "dropped")
  BY <1>2, <1>3 DEF Promise!Move
<1>5. ASSUME NEW l \in Listing
      PROVE  freeStock'[l] = freeStock[l] + Pieces(S, l)
  <2>1. /\ listing'[l].reserved = listing[l].reserved - Pieces(S, l)
        /\ listing'[l].quantity = listing[l].quantity
        /\ listing[l].reserved \in Nat /\ listing[l].quantity \in Nat
    BY DEF StockInv, TypeOK, ListingRow, DropReservations, Release
  <2>2. Pieces(S, l) \in Nat
    BY PiecesNat
  <2> QED
    BY <2>1, <2>2, Mapped
<1>6. Promise!GetBack(S)
  BY <1>3, <1>5 DEF Promise!GetBack
<1> QED
  BY <1>4, <1>6

\* The orders the promise calls held are those the code calls pending.
LEMMA HeldArePending ==
  ASSUME StockInv, StockInv', NEW c \in Checkout
  PROVE  Promise!Held(c) = PendingOrders(c) /\ Promise!In(c) = OrdersOf(c)
BY Mapped DEF Promise!Held, Promise!In, PendingOrders, OrdersOf

\* A step that completes refunds takes back what it puts on sale again.
LEMMA FinalizeMapped ==
  ASSUME StockInv, StockInv', NEW S, S \subseteq Order, NEW why, NEW id,
         FinalizeRefunds(S, why, id), checkout' = checkout
  PROVE  Promise!StockNext
<1> DEFINE back == {o \in S : order[o] \in StockConsumed}
<1>1. \A o \in Order : order'[o] = IF o \in back THEN "REFUNDED" ELSE order[o]
  BY DEF FinalizeRefunds, SetStatus
<1>2. \A o \in back : order[o] \in {"PAID", "PREPARING"}
  BY DEF StockConsumed
<1>3. \A o \in Order : phases'[o] = phases[o]
  BY <1>1, <1>2, Mapped
<1>4. ASSUME NEW l \in Listing
      PROVE  freeStock'[l] = freeStock[l] + Pieces(back, l)
  <2>1. /\ listing'[l].reserved = listing[l].reserved
        /\ listing'[l].quantity = listing[l].quantity + Pieces(back, l)
        /\ listing[l].reserved \in Nat /\ listing[l].quantity \in Nat
    BY DEF StockInv, TypeOK, ListingRow, FinalizeRefunds, Restore
  <2>2. Pieces(back, l) \in Nat
    BY PiecesNat
  <2> QED
    BY <2>1, <2>2, Mapped
<1>5. /\ outcomes = [c \in Checkout |-> outcomes[c]] /\ outcomes' = [c \in Checkout |-> outcomes'[c]]
      /\ phases = [o \in Order |-> phases[o]] /\ phases' = [o \in Order |-> phases'[o]]
      /\ freeStock' = [l \in Listing |-> freeStock'[l]]
  BY DEF outcomes, phases, freeStock
<1>6. \A o \in back : phases[o] = "sold"
  BY <1>2, Mapped
<1>7. back \in SUBSET Order
  OBVIOUS
<1> HIDE DEF back
<1>8. outcomes' = outcomes
  BY <1>5, Mapped
<1>9. phases' = phases
  BY <1>3, <1>5
<1>10. Promise!GetBack(back)
  BY <1>4, <1>5 DEF Promise!GetBack
<1>11. Promise!TakeBack(back)
  BY <1>6, <1>8, <1>9, <1>10 DEF Promise!TakeBack
<1> QED
  BY <1>7, <1>11 DEF Promise!StockNext

\* Every step is a step of the promise, or none.
LEMMA StepMapped ==
  ASSUME StockInv, StockInv', [Next]_vars
  PROVE  Promise!StockNext \/ UNCHANGED <<outcomes, phases, freeStock>>
<1> USE DEF localVars, callVars, providerVars, history
<1>1. /\ outcomes = [c \in Checkout |-> outcomes[c]] /\ outcomes' = [c \in Checkout |-> outcomes'[c]]
      /\ phases = [o \in Order |-> phases[o]] /\ phases' = [o \in Order |-> phases'[o]]
      /\ freeStock = [l \in Listing |-> freeStock[l]]
      /\ freeStock' = [l \in Listing |-> freeStock'[l]]
  BY DEF outcomes, phases, freeStock
<1>2. CASE UNCHANGED <<checkout, order, ledger, listing, request>>
  BY <1>1, <1>2, Mapped
<1>3. ASSUME NEW c \in Checkout, CreateCheckout(c)
      PROVE  Promise!StockNext
  <2> DEFINE S == OrdersOf(c)
  <2>1. \A o \in Order : order'[o] = IF o \in S THEN "PENDING_PAYMENT" ELSE order[o]
    BY <1>3 DEF CreateCheckout, SetStatus
  <2>2. Promise!Move(S, "held")
    BY <1>1, <2>1, Mapped DEF Promise!Move
  <2>3. ASSUME NEW l \in Listing
        PROVE  Pieces(S, l) <= freeStock[l] /\ freeStock'[l] = freeStock[l] - Pieces(S, l)
    <3>1. /\ listing'[l].reserved = listing[l].reserved + Pieces(S, l)
          /\ listing'[l].quantity = listing[l].quantity
          /\ listing[l].reserved \in Nat /\ listing[l].quantity \in Nat
      BY <1>3 DEF StockInv, TypeOK, ListingRow, CreateCheckout, Reserve
    <3>2. /\ Pieces(S, l) \in Nat
          /\ Pieces(S, l) > 0 => listing[l].quantity - listing[l].reserved >= Pieces(S, l)
          /\ listing[l].reserved <= listing[l].quantity
      BY <1>3, PiecesNat DEF CreateCheckout, CanReserve, StockInv, ReservationBacked
    <3> QED
      BY <3>1, <3>2, Mapped
  <2>4. outcomes' = [outcomes EXCEPT ![c] = "open"] /\ outcomes[c] = "none"
    <3>1. \A b \in Checkout : outcomes'[b] = IF b = c THEN "open" ELSE outcomes[b]
      BY <1>3, Mapped DEF CreateCheckout, StockInv, TypeOK
    <3> QED
      BY <1>1, <1>3, <3>1, Mapped DEF CreateCheckout
  <2>5. Promise!In(c) = S
    BY HeldArePending
  <2>6. Promise!Open(c)
    BY <1>1, <2>2, <2>3, <2>4, <2>5 DEF Promise!Open
  <2> QED
    BY <2>6 DEF Promise!StockNext
<1>4. ASSUME NEW c \in Checkout, checkout[c] = "PENDING_PAYMENT",
             NEW closed \in {"EXPIRED", "CANCELLED"},
             checkout' = [checkout EXCEPT ![c] = closed], DropReservations(PendingOrders(c))
      PROVE  Promise!StockNext
  <2>1. Promise!Held(c) = PendingOrders(c) /\ PendingOrders(c) \subseteq Order
    BY HeldArePending DEF PendingOrders, OrdersOf
  <2>2. Promise!Move(PendingOrders(c), "dropped") /\ Promise!GetBack(PendingOrders(c))
    BY <1>4, <2>1, DropMapped
  <2>3. \A b \in Checkout : outcomes'[b] = IF b = c THEN "lost" ELSE outcomes[b]
    BY <1>4, Mapped DEF StockInv, TypeOK
  <2>4. Promise!Lose(c)
    BY <1>1, <1>4, <2>1, <2>2, <2>3, Mapped DEF Promise!Lose
  <2> QED
    BY <2>4 DEF Promise!StockNext
<1>5. ASSUME NEW c \in Checkout, ExpireCheckout(c)
      PROVE  Promise!StockNext
  BY <1>4, <1>5 DEF ExpireCheckout, CanExpire
<1>6. ASSUME NEW o \in Order, CancelUnpaid(o)
      PROVE  Promise!StockNext
  <2> DEFINE c == CheckoutOf[o]
  <2>1. c \in Checkout /\ Promise!Held(c) = PendingOrders(c)
    BY OrderPaymentsAssumption, HeldArePending
  <2>2. Promise!Move({o}, "dropped") /\ Promise!GetBack({o})
    BY <1>6, DropMapped DEF CancelUnpaid
  <2>3. outcomes' = IF PendingOrders(c) = {o} THEN [outcomes EXCEPT ![c] = "lost"] ELSE outcomes
    <3>1. \A b \in Checkout : checkout'[b] = IF b = c /\ PendingOrders(c) = {o} THEN "CANCELLED"
                                             ELSE checkout[b]
      BY <1>6 DEF CancelUnpaid, IsLastPending, StockInv, TypeOK
    <3>2. \A b \in Checkout : outcomes'[b] = IF b = c /\ PendingOrders(c) = {o} THEN "lost"
                                             ELSE outcomes[b]
      BY <3>1, Mapped
    <3> QED
      BY <1>1, <2>1, <3>2
  <2>4. phases[o] = "held"
    BY <1>6, Mapped DEF CancelUnpaid
  <2>5. Promise!Withdraw(o)
    BY <2>1, <2>2, <2>3, <2>4 DEF Promise!Withdraw
  <2> QED
    BY <2>5 DEF Promise!StockNext
<1>7. ASSUME NEW d \in Delivery, ApplyApproved(d)
      PROVE  Promise!StockNext
  <2> DEFINE c == PaysFor[delivery[d].by]
             S == PendingOrders(c)
  <2>1. c \in Checkout /\ checkout[c] = "PENDING_PAYMENT"
    BY <1>7, DeliveryRows, OrderPaymentsAssumption DEF StockInv, TypeOK, ApplyApproved, Claim
  <2>2. Promise!Held(c) = S /\ S # {}
    BY <2>1, HeldArePending DEF StockInv, CheckoutCoherent
  <2>3. \A o \in Order : order'[o] = IF o \in S THEN "PAID" ELSE order[o]
    BY <1>7 DEF ApplyApproved, SetStatus
  <2>4. \A b \in Checkout : checkout'[b] = IF b = c THEN "PAID" ELSE checkout[b]
    BY <1>7 DEF ApplyApproved, StockInv, TypeOK
  <2>5. ASSUME NEW l \in Listing
        PROVE  freeStock'[l] = freeStock[l]
    <3>1. /\ listing'[l].reserved = listing[l].reserved - Pieces(S, l)
          /\ listing'[l].quantity = listing[l].quantity - Pieces(S, l)
          /\ listing[l].reserved \in Nat /\ listing[l].quantity \in Nat
      BY <1>7 DEF StockInv, TypeOK, ListingRow, ApplyApproved, Consume
    <3>2. Pieces(S, l) \in Nat
      BY PiecesNat
    <3> QED
      BY <3>1, <3>2, Mapped
  <2> HIDE DEF c, S
  <2>6. Promise!Move(S, "sold")
    BY <1>1, <2>3, Mapped DEF Promise!Move
  <2>7. outcomes' = [outcomes EXCEPT ![c] = "paid"] /\ outcomes[c] = "open"
    <3>1. \A b \in Checkout : outcomes'[b] = IF b = c THEN "paid" ELSE outcomes[b]
      BY <2>4, Mapped
    <3> QED
      BY <1>1, <2>1, <3>1, Mapped
  <2>8. Promise!Win(c)
    BY <1>1, <2>2, <2>5, <2>6, <2>7 DEF Promise!Win
  <2> QED
    BY <2>1, <2>8 DEF Promise!StockNext
<1>8. ASSUME NEW d \in Delivery, ApplyRejected(d)
      PROVE  Promise!StockNext
  <2>1. PaysFor[delivery[d].by] \in Checkout
    BY <1>8, DeliveryRows, OrderPaymentsAssumption DEF StockInv, TypeOK, ApplyRejected, Claim
  <2> QED
    BY <1>4, <1>8, <2>1 DEF ApplyRejected
<1>9. ASSUME NEW d \in Delivery, SyncProviderRefunded(d)
      PROVE  Promise!StockNext
  <2>1. PICK S, why, id : S \subseteq Order /\ FinalizeRefunds(S, why, id) /\ checkout' = checkout
    BY <1>9 DEF SyncProviderRefunded, OrdersOf
  <2> QED
    BY <2>1, FinalizeMapped
<1>10. ASSUME NEW w \in Worker, CompleteRefund(w)
       PROVE  Promise!StockNext
  <2>1. worker[w].order \in Order
    BY <1>10, WorkerRows DEF StockInv, TypeOK, CompleteRefund, Confirmed
  <2>2. PICK why, id : FinalizeRefunds({worker[w].order}, why, id)
    BY <1>10 DEF CompleteRefund
  <2>3. checkout' = checkout
    BY <1>10 DEF CompleteRefund
  <2> QED
    BY <2>1, <2>2, <2>3, FinalizeMapped
<1>11. ASSUME checkout' = checkout, listing' = listing,
              \A o \in Order : order'[o] # order[o] =>
                  /\ order[o] \notin {"NONE", "PENDING_PAYMENT", "CANCELLED"}
                  /\ order'[o] \notin {"NONE", "PENDING_PAYMENT", "CANCELLED"}
       PROVE  UNCHANGED <<outcomes, phases, freeStock>>
  BY <1>1, <1>11, Mapped
<1>12. ASSUME NEW o \in Order, Confirm(o)
       PROVE  UNCHANGED <<outcomes, phases, freeStock>>
  BY <1>11, <1>12 DEF Confirm, CanConfirm, StockInv, TypeOK
<1>13. ASSUME NEW q \in Request, RequestStep(q)
       PROVE  UNCHANGED <<outcomes, phases, freeStock>>
  <2>1. CASE \E o \in Order, status \in UnlockedStatus : ReadForUpdate(q, o, status)
    BY <1>11, <2>1 DEF ReadForUpdate
  <2>2. CASE WriteStatus(q)
    <3>1. /\ request[q].order \in Order /\ request[q].to \in UnlockedStatus
          /\ order[request[q].order] \notin {"NONE", "PENDING_PAYMENT", "CANCELLED"}
      BY <2>2 DEF WriteStatus, StockInv, TypeOK, RequestRow, SaleIsCaptured
    <3>2. checkout' = checkout /\ listing' = listing
      BY <2>2 DEF WriteStatus
    <3>3. \A o \in Order : order'[o] # order[o] =>
              o = request[q].order /\ order'[o] = request[q].to
      BY <2>2, <3>1 DEF WriteStatus, StockInv, TypeOK
    <3> QED
      BY <1>11, <3>1, <3>2, <3>3 DEF UnlockedStatus
  <2> QED
    BY <1>13, <2>1, <2>2 DEF RequestStep
<1> QED
  <2>1. CASE UNCHANGED vars
    BY <1>2, <2>1 DEF vars
  <2>2. CASE Next
    BY <1>2, <1>3, <1>5, <1>6, <1>7, <1>8, <1>9, <1>10, <1>12, <1>13, <2>2, StockSteps
  <2> QED
    BY <2>1, <2>2

\* Whatever payments, webhooks, timeouts and refunds do, stock is handled as
\* StockReservation promises.
THEOREM StockPromiseKept == Spec => ImplementsStockReservation
<1>1. Init => Promise!StockInit
  <2> SUFFICES ASSUME Init PROVE Promise!StockInit
    OBVIOUS
  <2>1. outcomes = [c \in Checkout |-> "none"] /\ phases = [o \in Order |-> "none"]
    BY DEF Init, outcomes, Outcome, phases, Phase
  <2>2. freeStock = InitialQuantity
    BY OrderPaymentsAssumption DEF Init, freeStock
  <2> QED
    BY <2>1, <2>2 DEF Promise!StockInit
<1>2. StockInv /\ StockInv' /\ [Next]_vars => [Promise!StockNext]_(Promise!stockVars)
  BY StepMapped DEF Promise!stockVars
<1> QED
  BY <1>1, <1>2, StockInvariant, PTL DEF Spec, ImplementsStockReservation, Promise!StockSpec
=============================================================================
