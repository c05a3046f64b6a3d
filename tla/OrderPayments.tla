---------------------------- MODULE OrderPayments ----------------------------
(***************************************************************************)
(* The money path of a purchase: checkouts and their orders, the stock     *)
(* they reserve, the provider's payments, the webhooks that report them    *)
(* and the refunds (apps/api/src/orders, apps/api/src/payments).           *)
(*                                                                         *)
(* A transaction that takes lockCheckoutGraph and re-reads under the lock  *)
(* is one action.  What the code does outside such a transaction is split  *)
(* where another request can come in between:                              *)
(*   - a webhook reads the provider's payment before its transaction;      *)
(*   - prepare, ship, deliver and dispute read the order, then write it    *)
(*     without a lock;                                                     *)
(*   - a refund reads its row, calls the provider, then records the answer.*)
(* Each such call in flight sits in a slot: Delivery, Request and Worker   *)
(* are the calls that can be in flight at once.                            *)
(***************************************************************************)
EXTENDS Stock

CONSTANTS Checkout,
          CheckoutOf,       \* the checkout of an order (one order per seller)
          InitialQuantity,  \* of each listing
          ProviderPayment,  \* payments the buyer may make at the provider
          PaysFor,          \* the checkout of a provider payment (external_reference)
          Delivery,         \* webhook requests in flight
          Request,          \* order requests in flight
          Worker,           \* refund executions in flight
          EventKind,        \* the notifications that a payment's events tell apart
          Nothing           \* null

ASSUME OrderPaymentsAssumption ==
    /\ CheckoutOf \in [Order -> Checkout]
    /\ InitialQuantity \in [Listing -> Nat]
    /\ PaysFor \in [ProviderPayment -> Checkout]
    /\ Nothing \notin ProviderPayment \cup Order
    /\ EventKind \subseteq {"created", "decided", "refunded", "payment"}
    /\ \A c \in Checkout : \E o \in Order : CheckoutOf[o] = c

VARIABLES
    checkout,        \* status of each checkout
    due,             \* checkouts whose expiresAt has passed
    asking,          \* checkouts whose preference is being created
    preference,      \* checkouts with a payable preference
    order,           \* status of each order
    payment,         \* the payment row of each order
    refund,          \* the refund rows of each order, by reason
    ledger,          \* ledger entries of each order
    listing,         \* stock columns of each listing
    request,         \* unlocked writes in flight
    delivery,        \* webhook deliveries between getPayment and their transaction
    processed,       \* webhook events with processedAt
    worker,          \* refund executions between their steps
    provider,        \* EXTERNAL: status of each provider payment
    providerRefund,  \* EXTERNAL: the provider's refunds, by idempotency key
    early,           \* HISTORY: events processed while their payment was not decided
    overtaken        \* HISTORY: what late writes took back of each order's refund

localVars == <<checkout, due, asking, preference, order, payment, refund, ledger, listing>>
callVars == <<request, delivery, processed, worker>>
providerVars == <<provider, providerRefund>>
history == <<early, overtaken>>
vars == <<localVars, callVars, providerVars, history>>

----------------------------------------------------------------------------
(* Types *)

CheckoutStatus == {"NONE", "PENDING_PAYMENT", "PAID", "EXPIRED", "CANCELLED"}

\* SHIPPED stands for READY_FOR_MEETUP too; CONFIRMED is never written.
OrderStatus == {"NONE", "PENDING_PAYMENT", "PAID", "PREPARING", "SHIPPED", "DELIVERED",
                "COMPLETED", "CANCELLED", "DISPUTED", "REFUNDED"}

PaymentStatus == {"NONE", "PENDING", "APPROVED", "REJECTED", "HELD", "RELEASED", "REFUNDED"}

PaymentRow == [status : PaymentStatus, by : ProviderPayment \cup {Nothing}]

\* A refund is asked for by cancel() or by a payment that came too late.
Reason == {"cancelacion", "late_payment_after_expiry"}

RefundStatus == {"NONE", "PENDING", "COMPLETED", "FAILED"}

\* Ids of refunds at the provider: the refund of one local refund row, the
\* refund of a whole payment made outside this program, and the id a refunded
\* webhook makes up when the row has none.
RefundId == [by : ProviderPayment \cup {Nothing}, of : Order \cup {Nothing},
             why : Reason \cup {"outside", "mp_wh"}]

RefundRow == [status : RefundStatus, id : RefundId \cup {Nothing}]

Captured == <<"PAYMENT_CAPTURED">>
Payable  == <<"SELLER_PAYABLE">>
RefundEntry(r) == <<"REFUND", r>>
LedgerEntry == {Captured, Payable} \cup {RefundEntry(r) : r \in Reason}

UnlockedStatus == {"PREPARING", "SHIPPED", "DELIVERED", "DISPUTED"}

\* A payment is notified when it is created and when it changes.  A notification with an
\* id is an event of its own; those without one share the event "payment".  What an event
\* tells is whatever the provider answers when the payment is fetched.
Event == ProviderPayment \X EventKind

\* "pending" is in_process too, "rejected" is cancelled too.
ProviderStatus == {"none", "pending", "approved", "rejected", "refunded"}

\* What a payment may have become once a notification of it is out.
NotifiedStatus ==
    [created  |-> {"pending", "approved", "rejected", "refunded"},
     decided  |-> {"approved", "rejected", "refunded"},
     refunded |-> {"refunded"},
     payment  |-> {"pending", "approved", "rejected", "refunded"}]

\* A delivery carries the status it fetched; "refunded_unsold" once it also read the
\* checkout as PENDING_PAYMENT, before locking it.
DeliveryStatus == ProviderStatus \cup {"refunded_unsold"}

IdleRequest == [order |-> Nothing, to |-> "none"]
RequestRow == [order : Order, to : UnlockedStatus] \cup {IdleRequest}

IdleDelivery == [by |-> Nothing, kind |-> "none", status |-> "none"]
DeliveryRow == [by : ProviderPayment, kind : EventKind, status : DeliveryStatus] \cup {IdleDelivery}

IdleWorker == [stage |-> "idle", order |-> Nothing, why |-> "none", by |-> Nothing, id |-> Nothing]
WorkerRow == [stage : {"calling", "approved", "pending", "error", "failing"},
              order : Order, why : Reason, by : ProviderPayment \cup {Nothing},
              id : RefundId \cup {Nothing}] \cup {IdleWorker}

ProviderRefundStatus == {"none", "in_process", "approved"}

\* A late write took the order out of REFUNDED, or the refund out of COMPLETED.
Overtaking == {"order", "refund"}

TypeOK ==
    /\ checkout \in [Checkout -> CheckoutStatus]
    /\ due \subseteq Checkout
    /\ asking \subseteq Checkout
    /\ preference \subseteq Checkout
    /\ order \in [Order -> OrderStatus]
    /\ payment \in [Order -> PaymentRow]
    /\ refund \in [Order -> [Reason -> RefundRow]]
    /\ ledger \in [Order -> SUBSET LedgerEntry]
    /\ listing \in [Listing -> ListingRow]
    /\ request \in [Request -> RequestRow]
    /\ delivery \in [Delivery -> DeliveryRow]
    /\ processed \subseteq Event
    /\ worker \in [Worker -> WorkerRow]
    /\ provider \in [ProviderPayment -> ProviderStatus]
    /\ providerRefund \in [ProviderPayment -> [Order -> [Reason -> ProviderRefundStatus]]]
    /\ early \subseteq processed
    /\ overtaken \in [Order -> SUBSET Overtaking]

Init ==
    /\ checkout = [c \in Checkout |-> "NONE"]
    /\ due = {}
    /\ asking = {}
    /\ preference = {}
    /\ order = [o \in Order |-> "NONE"]
    /\ payment = [o \in Order |-> [status |-> "NONE", by |-> Nothing]]
    /\ refund = [o \in Order |-> [r \in Reason |-> [status |-> "NONE", id |-> Nothing]]]
    /\ ledger = [o \in Order |-> {}]
    /\ listing = [l \in Listing |-> [quantity |-> InitialQuantity[l], reserved |-> 0,
                                     status |-> "ACTIVE"]]
    /\ request = [q \in Request |-> IdleRequest]
    /\ delivery = [d \in Delivery |-> IdleDelivery]
    /\ processed = {}
    /\ worker = [w \in Worker |-> IdleWorker]
    /\ provider = [p \in ProviderPayment |-> "none"]
    /\ providerRefund = [p \in ProviderPayment |->
                            [o \in Order |-> [r \in Reason |-> "none"]]]
    /\ early = {}
    /\ overtaken = [o \in Order |-> {}]

----------------------------------------------------------------------------
(* Rows the code reads *)

OrdersOf(c) == {o \in Order : CheckoutOf[o] = c}

PendingOrders(c) == {o \in OrdersOf(c) : order[o] = "PENDING_PAYMENT"}

OpenReasons(o) == {r \in Reason : refund[o][r].status \in {"PENDING", "FAILED"}}

HasRefund(o) == \E r \in Reason : refund[o][r].status # "NONE"

\* The ledger has the refund of the order, whatever its rows say now.
IsRefunded(o) == \E r \in Reason : RefundEntry(r) \in ledger[o]

\* Orders whose sale took stock that nobody has shipped yet.
StockConsumed == {"PAID", "PREPARING"}

SetStatus(S, status) == [o \in Order |-> IF o \in S THEN status ELSE order[o]]

\* recordLatePayment leaves alone a payment it finds recorded.
Recorded_Never(o, p) == FALSE
Recorded(o, p) == payment[o].by = p /\ payment[o].status \in {"APPROVED", "HELD", "REFUNDED"}

\* provider_refund_id is unique over all refund rows.
TakenElsewhere(o, r, id) == \E o2 \in Order, r2 \in Reason :
                                <<o2, r2>> # <<o, r>> /\ refund[o2][r2].id = id

----------------------------------------------------------------------------
(* Checkout: creation, preference, expiry, cancellation *)

\* createCheckout: one transaction that locks the listings, reserves every
\* item and creates one order per seller.
CreateCheckout(c) ==
    /\ checkout[c] = "NONE"
    /\ \A l \in Listing : CanReserve(listing[l], Pieces(OrdersOf(c), l))
    /\ checkout' = [checkout EXCEPT ![c] = "PENDING_PAYMENT"]
    /\ order' = SetStatus(OrdersOf(c), "PENDING_PAYMENT")
    /\ listing' = [l \in Listing |-> Reserve(listing[l], Pieces(OrdersOf(c), l))]
    /\ UNCHANGED <<due, asking, preference, payment, refund, ledger, callVars, providerVars, history>>

\* createPreference: refused once the checkout is closed or due.  Every order gets a payment
\* row before the provider is called.
AskPreference(c) ==
    /\ checkout[c] = "PENDING_PAYMENT"
    /\ c \notin due \cup asking \cup preference
    /\ asking' = asking \cup {c}
    /\ payment' = [o \in Order |->
                      IF o \in OrdersOf(c) /\ payment[o].status = "NONE"
                      THEN [payment[o] EXCEPT !.status = "PENDING"] ELSE payment[o]]
    /\ UNCHANGED <<checkout, due, preference, order, refund, ledger, listing, callVars,
                   providerVars, history>>

\* The provider answers, or fails: what was checked may be over.  The preference has no
\* expiry and stays payable.
AttachPreference(c) ==
    /\ c \in asking
    /\ asking' = asking \ {c}
    /\ preference' = preference \cup {c} \/ UNCHANGED preference
    /\ UNCHANGED <<checkout, due, order, payment, refund, ledger, listing, callVars,
                   providerVars, history>>

\* The clock passes expiresAt.
BecomeDue(c) ==
    /\ checkout[c] = "PENDING_PAYMENT"
    /\ c \notin due
    /\ due' = due \cup {c}
    /\ UNCHANGED <<checkout, asking, preference, order, payment, refund, ledger, listing,
                   callVars, providerVars, history>>

\* The orders of S give their reservation back and end CANCELLED.
DropReservations_KeepsStock(S) == order' = SetStatus(S, "CANCELLED") /\ UNCHANGED listing
DropReservations(S) ==
    /\ \A l \in Listing : CanRelease(listing[l], Pieces(S, l))
    /\ order' = SetStatus(S, "CANCELLED")
    /\ listing' = [l \in Listing |-> Release(listing[l], Pieces(S, l))]

\* expireIfNeeded, by the expire-checkouts job or by whoever looks at the checkout: what
\* it reads again under the lock.
CanExpire_NotReread(c) == checkout[c] # "NONE" /\ c \in due
CanExpire_Unasked(c) == checkout[c] = "PENDING_PAYMENT" /\ c \in due \ preference
CanExpire(c) == checkout[c] = "PENDING_PAYMENT" /\ c \in due

ExpireCheckout(c) ==
    /\ CanExpire(c)
    /\ DropReservations(PendingOrders(c))
    /\ checkout' = [checkout EXCEPT ![c] = "EXPIRED"]
    /\ UNCHANGED <<due, asking, preference, payment, refund, ledger, callVars, providerVars, history>>

\* cancel() of one unpaid order: the checkout stays payable for the others.
IsLastPending_Any(o) == TRUE
IsLastPending(o) == PendingOrders(CheckoutOf[o]) = {o}

CancelUnpaid(o) ==
    /\ order[o] = "PENDING_PAYMENT"
    /\ DropReservations({o})
    /\ checkout' = IF IsLastPending(o)
                   THEN [checkout EXCEPT ![CheckoutOf[o]] = "CANCELLED"] ELSE checkout
    /\ UNCHANGED <<due, asking, preference, payment, refund, ledger, callVars, providerVars, history>>

\* cancel() of a paid order that is not shipped: it asks for the refund of the
\* payment, or for another try of the refund it finds FAILED.
RequestRefund(o) ==
    /\ order[o] \in StockConsumed
    /\ payment[o].status # "NONE"
    /\ \/ /\ ~HasRefund(o)
          /\ refund' = [refund EXCEPT ![o]["cancelacion"].status = "PENDING"]
       \/ \E r \in Reason :
             /\ refund[o][r].status = "FAILED"
             /\ refund' = [refund EXCEPT ![o][r].status = "PENDING"]
    /\ UNCHANGED <<checkout, due, asking, preference, order, payment, ledger, listing,
                   callVars, providerVars, history>>

----------------------------------------------------------------------------
(* The provider, as the code uses it *)

\* The buyer pays the preference; the provider may turn the payment down, or decide later.
Pay(p, outcome) ==
    /\ PaysFor[p] \in preference
    /\ provider[p] = "none"
    /\ provider' = [provider EXCEPT ![p] = outcome]
    /\ UNCHANGED <<localVars, callVars, providerRefund, history>>

Decide(p, outcome) ==
    /\ provider[p] = "pending"
    /\ provider' = [provider EXCEPT ![p] = outcome]
    /\ UNCHANGED <<localVars, callVars, providerRefund, history>>

\* The whole payment is refunded outside this program.
RefundOutside(p) ==
    /\ provider[p] = "approved"
    /\ provider' = [provider EXCEPT ![p] = "refunded"]
    /\ UNCHANGED <<localVars, callVars, providerRefund, history>>

\* The provider gives back the part of payment p that refund <<o, r>> asked for;
\* the payment is refunded once every order of its checkout is.
GiveBack(p, o, r) ==
    /\ provider[p] = "approved"
    /\ providerRefund' = [providerRefund EXCEPT ![p][o][r] = "approved"]
    /\ provider' = IF \A o2 \in OrdersOf(PaysFor[p]) \ {o} :
                         \E r2 \in Reason : providerRefund[p][o2][r2] = "approved"
                   THEN [provider EXCEPT ![p] = "refunded"] ELSE provider

\* A refund the provider had answered as in process goes through.
SettleRefund(p, o, r) ==
    /\ providerRefund[p][o][r] = "in_process"
    /\ GiveBack(p, o, r)
    /\ UNCHANGED <<localVars, callVars, history>>

----------------------------------------------------------------------------
(* Webhooks: handleWebhook fetches the payment, then runs one transaction  *)
(* that claims the event, applies the status it fetched and sets           *)
(* processedAt.  The provider delivers an event as often as it likes.      *)

FetchPayment(d, p, kind) ==
    /\ delivery[d] = IdleDelivery
    /\ provider[p] \in NotifiedStatus[kind]
    /\ delivery' = [delivery EXCEPT ![d] = [by |-> p, kind |-> kind, status |-> provider[p]]]
    /\ UNCHANGED <<localVars, request, processed, worker, providerVars, history>>

EventOf(d) == <<delivery[d].by, delivery[d].kind>>

\* The transaction of delivery d holds the claim on an event nobody processed: the
\* event's row is locked until the transaction ends.
Claim(d) ==
    /\ delivery[d] # IdleDelivery
    /\ EventOf(d) \notin processed
    /\ \A d2 \in Delivery \ {d} :
          EventOf(d2) = EventOf(d) => delivery[d2].status # "refunded_unsold"

Finish(d) == delivery' = [delivery EXCEPT ![d] = IdleDelivery]

Processed(d) == processed' = processed \cup {EventOf(d)}

\* Nothing to do: the event was already processed, the request dies, or its
\* transaction is rolled back.
DropDelivery(d) ==
    /\ delivery[d] # IdleDelivery
    /\ Finish(d)
    /\ UNCHANGED <<localVars, request, processed, worker, providerVars, history>>

\* Approved while the checkout is PENDING_PAYMENT: the reservation is sold.
ApplyApproved(d) ==
    LET p == delivery[d].by
        c == PaysFor[p]
        S == PendingOrders(c)
    IN  /\ Claim(d)
        /\ delivery[d].status = "approved"
        /\ checkout[c] = "PENDING_PAYMENT"
        /\ \A l \in Listing : CanConsume(listing[l], Pieces(S, l))
        /\ listing' = [l \in Listing |-> Consume(listing[l], Pieces(S, l))]
        /\ payment' = [o \in Order |-> IF o \in S THEN [status |-> "HELD", by |-> p] ELSE payment[o]]
        /\ ledger' = [o \in Order |-> IF o \in S THEN ledger[o] \cup {Captured} ELSE ledger[o]]
        /\ order' = SetStatus(S, "PAID")
        /\ checkout' = [checkout EXCEPT ![c] = "PAID"]
        /\ Processed(d) /\ Finish(d)
        /\ UNCHANGED <<due, asking, preference, refund, request, worker, providerVars, history>>

\* Approved after the checkout closed: the charge is recorded and its refund asked for.
ClosedUnsold_OrPaid == {"EXPIRED", "CANCELLED", "PAID"}
ClosedUnsold_Expired == {"EXPIRED"}
ClosedUnsold == {"EXPIRED", "CANCELLED"}

RecordLatePayment(d) ==
    LET p == delivery[d].by
        c == PaysFor[p]
        late == "late_payment_after_expiry"
    IN  /\ Claim(d)
        /\ delivery[d].status = "approved"
        /\ checkout[c] \in ClosedUnsold
        /\ payment' = [o \in Order |-> IF o \in OrdersOf(c) /\ ~Recorded(o, p)
                                       THEN [status |-> "APPROVED", by |-> p] ELSE payment[o]]
        /\ refund' = [o \in Order |-> IF o \in OrdersOf(c) /\ refund[o][late].status = "NONE"
                                      THEN [refund[o] EXCEPT ![late].status = "PENDING"]
                                      ELSE refund[o]]
        /\ Processed(d) /\ Finish(d)
        /\ UNCHANGED <<checkout, due, asking, preference, order, ledger, listing, request, worker,
                       providerVars, history>>

\* Refunded: the webhook looks at the checkout before it locks it.
PeekUnsold(d) ==
    /\ Claim(d)
    /\ delivery[d].status = "refunded"
    /\ checkout[PaysFor[delivery[d].by]] = "PENDING_PAYMENT"
    /\ delivery' = [delivery EXCEPT ![d].status = "refunded_unsold"]
    /\ UNCHANGED <<localVars, request, processed, worker, providerVars, history>>

\* Rejected, or refunded before anything was sold: the checkout is cancelled.
ApplyRejected(d) ==
    LET c == PaysFor[delivery[d].by]
        S == PendingOrders(c)
    IN  /\ Claim(d)
        /\ delivery[d].status \in {"rejected", "refunded_unsold"}
        /\ checkout[c] = "PENDING_PAYMENT"
        /\ DropReservations(S)
        /\ payment' = [o \in Order |-> IF o \in S /\ payment[o].status # "NONE"
                                       THEN [payment[o] EXCEPT !.status = "REJECTED"] ELSE payment[o]]
        /\ checkout' = [checkout EXCEPT ![c] = "CANCELLED"]
        /\ Processed(d) /\ Finish(d)
        /\ UNCHANGED <<due, asking, preference, refund, ledger, request, worker, providerVars, history>>

\* Approved again for a PAID checkout, or rejected for one found closed under the lock.
Duplicate_Closed(c) == checkout[c] # "PENDING_PAYMENT"
Duplicate(c) == checkout[c] = "PAID"

AcknowledgeOnly(d) ==
    LET c == PaysFor[delivery[d].by]
    IN  /\ Claim(d)
        /\ \/ delivery[d].status = "approved" /\ Duplicate(c)
           \/ /\ delivery[d].status \in {"rejected", "refunded_unsold"}
              /\ checkout[c] # "PENDING_PAYMENT"
        /\ Processed(d) /\ Finish(d)
        /\ UNCHANGED <<localVars, request, worker, providerVars, history>>

\* Fetched before the provider decided: the event is processed with no effect.
AcknowledgePending(d) ==
    /\ Claim(d)
    /\ delivery[d].status = "pending"
    /\ early' = early \cup {EventOf(d)}
    /\ Processed(d) /\ Finish(d)
    /\ UNCHANGED <<localVars, request, worker, providerVars, overtaken>>

\* finalizeInTx for the refund why[o] of each order o of S, with the provider
\* refund id id[o]: stock back if it was not shipped, refund COMPLETED, payment
\* and order REFUNDED, ledger REFUND.
FinalizeRefunds(S, why, id) ==
    LET back == {o \in S : order[o] \in StockConsumed}
    IN  /\ listing' = [l \in Listing |-> Restore(listing[l], Pieces(back, l))]
        /\ order' = SetStatus(back, "REFUNDED")
        /\ refund' = [o \in Order |-> IF o \in S
                          THEN [refund[o] EXCEPT ![why[o]] = [status |-> "COMPLETED", id |-> id[o]]]
                          ELSE refund[o]]
        /\ payment' = [o \in Order |-> IF o \in S THEN [payment[o] EXCEPT !.status = "REFUNDED"]
                                       ELSE payment[o]]
        /\ ledger' = [o \in Order |-> IF o \in S THEN ledger[o] \cup {RefundEntry(why[o])}
                                      ELSE ledger[o]]

\* Refunded at the provider, checkout not pending: every open refund of the
\* checkout is completed.  Two made-up ids of one payment are equal, and the
\* unique index then rolls the transaction back (DropDelivery).
SyncProviderRefunded(d) ==
    LET c == PaysFor[delivery[d].by]
        S == {o \in OrdersOf(c) : payment[o].status # "REFUNDED" /\ OpenReasons(o) # {}}
        why == [o \in S |-> CHOOSE r \in OpenReasons(o) : TRUE]
        id == [o \in S |-> IF refund[o][why[o]].id # Nothing THEN refund[o][why[o]].id
                           ELSE [by |-> payment[o].by, of |-> Nothing, why |-> "mp_wh"]]
    IN  /\ Claim(d)
        /\ delivery[d].status = "refunded"
        /\ checkout[c] # "PENDING_PAYMENT"
        /\ \A o \in S : ~TakenElsewhere(o, why[o], id[o])
        /\ \A o1, o2 \in S : o1 # o2 => id[o1] # id[o2]
        /\ FinalizeRefunds(S, why, id)
        /\ Processed(d) /\ Finish(d)
        /\ UNCHANGED <<checkout, due, asking, preference, request, worker, providerVars, history>>

----------------------------------------------------------------------------
(* Refund execution: after cancel(), after a webhook, by the refund-retry  *)
(* job or by an administrator, any open refund may be executed again.      *)

StepTo(w, stage) == worker' = [worker EXCEPT ![w].stage = stage]

FreeWorker(w) == worker' = [worker EXCEPT ![w] = IdleWorker]

StartRefund(w, o, r) ==
    /\ worker[w] = IdleWorker
    /\ r \in OpenReasons(o)
    /\ worker' = [worker EXCEPT ![w] =
           [stage |-> IF payment[o].by = Nothing THEN "error" ELSE "calling",
            order |-> o, why |-> r, by |-> payment[o].by, id |-> Nothing]]
    /\ UNCHANGED <<localVars, request, delivery, processed, providerVars, history>>

\* The id the provider gives the refund that worker w asks for.
OwnId(w) == [by |-> worker[w].by, of |-> worker[w].order, why |-> worker[w].why]

Answer(w, stage, id) ==
    worker' = [worker EXCEPT ![w].stage = stage, ![w].id = id]

\* What the provider holds under the idempotency key of the refund of worker w.
Known(w) == providerRefund[worker[w].by][worker[w].order][worker[w].why]

\* The provider refunds at once; the answer may be lost (timeout).
ProviderRefunds(w) ==
    /\ worker[w].stage = "calling"
    /\ Known(w) = "none"
    /\ GiveBack(worker[w].by, worker[w].order, worker[w].why)
    /\ Answer(w, "approved", OwnId(w)) \/ StepTo(w, "error")
    /\ UNCHANGED <<localVars, request, delivery, processed, history>>

\* The provider will refund later.
ProviderDefers(w) ==
    /\ worker[w].stage = "calling"
    /\ Known(w) = "none"
    /\ provider[worker[w].by] = "approved"
    /\ providerRefund' = [providerRefund EXCEPT
           ![worker[w].by][worker[w].order][worker[w].why] = "in_process"]
    /\ Answer(w, "pending", OwnId(w))
    /\ UNCHANGED <<localVars, request, delivery, processed, provider, history>>

\* A known idempotency key gets its answer again.
ProviderReplays(w) ==
    /\ worker[w].stage = "calling"
    /\ Known(w) # "none"
    /\ Answer(w, IF Known(w) = "approved" THEN "approved" ELSE "pending", OwnId(w))
    /\ UNCHANGED <<localVars, request, delivery, processed, providerVars, history>>

\* already_refunded: the id of a refund the provider lists for the payment.
ProviderAlreadyRefunded(w) ==
    LET p == worker[w].by
        own == {[by |-> p, of |-> o, why |-> r] : o \in OrdersOf(PaysFor[p]), r \in Reason}
        listed == {i \in own : providerRefund[p][i.of][i.why] = "approved"}
    IN  /\ worker[w].stage = "calling"
        /\ Known(w) = "none"
        /\ provider[p] = "refunded"
        /\ \E id \in listed \cup {[by |-> p, of |-> Nothing, why |-> "outside"]} :
              Answer(w, "approved", id)
        /\ UNCHANGED <<localVars, request, delivery, processed, providerVars, history>>

\* The call fails and nothing happens at the provider.
ProviderFails(w) ==
    /\ worker[w].stage = "calling"
    /\ StepTo(w, "error")
    /\ UNCHANGED <<localVars, request, delivery, processed, providerVars, history>>

\* complete(): under the lock, unless the refund was completed meanwhile.
Confirmed_OrAccepted(w) == worker[w].stage \in {"approved", "pending"}
Confirmed(w) == worker[w].stage = "approved"

StillOpen_NotReread(o, r) == TRUE
StillOpen(o, r) == refund[o][r].status # "COMPLETED"

CompleteRefund(w) ==
    LET o == worker[w].order
        r == worker[w].why
    IN  /\ Confirmed(w)
        /\ StillOpen(o, r)
        /\ ~TakenElsewhere(o, r, worker[w].id)
        /\ FinalizeRefunds({o}, [o2 \in {o} |-> r], [o2 \in {o} |-> worker[w].id])
        /\ FreeWorker(w)
        /\ UNCHANGED <<checkout, due, asking, preference, request, delivery, processed, providerVars, history>>

CompletedMeanwhile(w) ==
    /\ worker[w].stage = "approved"
    /\ refund[worker[w].order][worker[w].why].status = "COMPLETED"
    /\ FreeWorker(w)
    /\ UNCHANGED <<localVars, request, delivery, processed, providerVars, history>>

\* The transaction throws: the unique index refuses the id, or it times out.
CompleteRefundThrows(w) ==
    /\ worker[w].stage = "approved"
    /\ StepTo(w, "error")
    /\ UNCHANGED <<localVars, request, delivery, processed, providerVars, history>>

\* HISTORY only: a write of order o that does not look at what it writes over.
Overtakes(o, what, late) ==
    overtaken' = IF late THEN [overtaken EXCEPT ![o] = overtaken[o] \cup {what}] ELSE overtaken

\* Not approved: the row is updated as PENDING, whatever it has become.
KeepPending(w) ==
    /\ worker[w].stage = "pending"
    /\ refund' = [refund EXCEPT ![worker[w].order][worker[w].why] =
                     [status |-> "PENDING", id |-> worker[w].id]]
    /\ Overtakes(worker[w].order, "refund", RefundEntry(worker[w].why) \in ledger[worker[w].order])
    /\ FreeWorker(w)
    /\ UNCHANGED <<checkout, due, asking, preference, order, payment, ledger, listing,
                   request, delivery, processed, providerVars, early>>

\* markFailed(): reads the row, then writes FAILED.
MarkFailedReads(w) ==
    /\ worker[w].stage = "error"
    /\ IF refund[worker[w].order][worker[w].why].status = "COMPLETED"
       THEN FreeWorker(w) ELSE StepTo(w, "failing")
    /\ UNCHANGED <<localVars, request, delivery, processed, providerVars, history>>

MarkFailedWrites(w) ==
    /\ worker[w].stage = "failing"
    /\ refund' = [refund EXCEPT ![worker[w].order][worker[w].why].status = "FAILED"]
    /\ Overtakes(worker[w].order, "refund", RefundEntry(worker[w].why) \in ledger[worker[w].order])
    /\ FreeWorker(w)
    /\ UNCHANGED <<checkout, due, asking, preference, order, payment, ledger, listing,
                   request, delivery, processed, providerVars, early>>

\* The process stops between two steps of an execution.
WorkerDies(w) ==
    /\ worker[w] # IdleWorker
    /\ FreeWorker(w)
    /\ UNCHANGED <<localVars, request, delivery, processed, providerVars, history>>

----------------------------------------------------------------------------
(* The order after payment.  prepare, ship, deliver and dispute check what *)
(* they read and then write the status without a lock.                     *)

\* What prepare, ship and deliver have to read: the first two are refused while a refund
\* is open.
MayBecome(o, status) ==
    \/ status = "PREPARING" /\ order[o] = "PAID" /\ OpenReasons(o) = {}
    \/ status = "SHIPPED" /\ order[o] = "PREPARING" /\ OpenReasons(o) = {}
    \/ status = "DELIVERED" /\ order[o] = "SHIPPED"

\* A dispute may be opened on any paid order; one that is DISPUTED already is not written.
MayDispute_Unpaid(o) == order[o] \notin {"NONE", "DISPUTED"}
MayDispute(o) == order[o] \in {"PAID", "PREPARING", "SHIPPED", "DELIVERED", "COMPLETED"}

ReadForUpdate(q, o, status) ==
    /\ request[q] = IdleRequest
    /\ MayBecome(o, status) \/ (status = "DISPUTED" /\ MayDispute(o))
    /\ request' = [request EXCEPT ![q] = [order |-> o, to |-> status]]
    /\ UNCHANGED <<localVars, delivery, processed, worker, providerVars, history>>

WriteStatus(q) ==
    /\ request[q] # IdleRequest
    /\ order' = [order EXCEPT ![request[q].order] = request[q].to]
    /\ Overtakes(request[q].order, "order", IsRefunded(request[q].order))
    /\ request' = [request EXCEPT ![q] = IdleRequest]
    /\ UNCHANGED <<checkout, due, asking, preference, payment, refund, ledger, listing,
                   delivery, processed, worker, providerVars, early>>

\* confirm() of the buyer, re-checked under the lock: the money becomes payable.
CanConfirm_ByOrder(o) == order[o] = "DELIVERED"
CanConfirm(o) == order[o] = "DELIVERED" /\ payment[o].status = "HELD"

Confirm(o) ==
    /\ CanConfirm(o)
    /\ payment' = [payment EXCEPT ![o].status = "RELEASED"]
    /\ order' = [order EXCEPT ![o] = "COMPLETED"]
    /\ ledger' = [ledger EXCEPT ![o] = ledger[o] \cup {Payable}]
    /\ UNCHANGED <<checkout, due, asking, preference, refund, listing, callVars, providerVars, history>>

----------------------------------------------------------------------------
CheckoutStep(c) ==
    \/ CreateCheckout(c)
    \/ AskPreference(c)
    \/ AttachPreference(c)
    \/ BecomeDue(c)
    \/ ExpireCheckout(c)

OrderStep(o) == CancelUnpaid(o) \/ RequestRefund(o) \/ Confirm(o)

ProviderStep(p) ==
    \/ \E outcome \in {"pending", "approved", "rejected"} : Pay(p, outcome)
    \/ \E outcome \in {"approved", "rejected"} : Decide(p, outcome)
    \/ RefundOutside(p)
    \/ \E o \in Order, r \in Reason : SettleRefund(p, o, r)

WebhookStep(d) ==
    \/ \E p \in ProviderPayment, kind \in EventKind : FetchPayment(d, p, kind)
    \/ DropDelivery(d)
    \/ ApplyApproved(d)
    \/ RecordLatePayment(d)
    \/ PeekUnsold(d)
    \/ ApplyRejected(d)
    \/ AcknowledgeOnly(d)
    \/ AcknowledgePending(d)
    \/ SyncProviderRefunded(d)

RefundStep(w) ==
    \/ \E o \in Order, r \in Reason : StartRefund(w, o, r)
    \/ ProviderRefunds(w)
    \/ ProviderDefers(w)
    \/ ProviderReplays(w)
    \/ ProviderAlreadyRefunded(w)
    \/ ProviderFails(w)
    \/ CompleteRefund(w)
    \/ CompletedMeanwhile(w)
    \/ CompleteRefundThrows(w)
    \/ KeepPending(w)
    \/ MarkFailedReads(w)
    \/ MarkFailedWrites(w)
    \/ WorkerDies(w)

RequestStep(q) ==
    \/ \E o \in Order, status \in UnlockedStatus : ReadForUpdate(q, o, status)
    \/ WriteStatus(q)

Next ==
    \/ \E c \in Checkout : CheckoutStep(c)
    \/ \E o \in Order : OrderStep(o)
    \/ \E p \in ProviderPayment : ProviderStep(p)
    \/ \E d \in Delivery : WebhookStep(d)
    \/ \E w \in Worker : RefundStep(w)
    \/ \E q \in Request : RequestStep(q)

Spec == Init /\ [][Next]_vars

\* An event of p ends processed.
ProcessEvent(p, kind) ==
    \E d \in Delivery :
        /\ EventOf(d) = <<p, kind>>
        /\ ApplyApproved(d) \/ RecordLatePayment(d) \/ ApplyRejected(d)
              \/ AcknowledgeOnly(d) \/ AcknowledgePending(d) \/ SyncProviderRefunded(d)

\* Time passes, the expire-checkouts job runs every minute, a webhook request ends one
\* way or the other, and the provider delivers an event again until one delivery of it
\* succeeds.
Fairness ==
    /\ \A c \in Checkout : WF_vars(BecomeDue(c)) /\ WF_vars(ExpireCheckout(c))
    /\ \A d \in Delivery : WF_vars(DropDelivery(d))
    /\ \A p \in ProviderPayment, kind \in EventKind :
          /\ SF_vars(\E d \in Delivery : FetchPayment(d, p, kind))
          /\ SF_vars(ProcessEvent(p, kind))

FairSpec == Spec /\ Fairness

----------------------------------------------------------------------------
(* Safety *)

PendingOf == {o \in Order : order[o] = "PENDING_PAYMENT"}

CapturedOf == {o \in Order : Captured \in ledger[o]}

RefundedSales == {o \in CapturedOf : IsRefunded(o)}

\* What a listing holds reserved is what unpaid orders hold of it, no more and no
\* less, and never more than there is: a reservation is neither lost nor given
\* back twice whatever expiry, cancellation, rejection and payment race for it.
ReservationBacked ==
    \A l \in Listing :
        /\ listing[l].reserved = Pieces(PendingOf, l)
        /\ listing[l].reserved <= listing[l].quantity

\* A checkout and its orders agree: an open checkout has an unpaid order, a paid one
\* none, and no order of an expired or cancelled one is ever sold.
CheckoutCoherent ==
    /\ \A c \in Checkout : checkout[c] = "PENDING_PAYMENT" => PendingOrders(c) # {}
    /\ \A o \in Order :
        LET status == checkout[CheckoutOf[o]]
        IN  /\ status = "NONE" => order[o] = "NONE"
            /\ status = "PENDING_PAYMENT" => order[o] \in {"PENDING_PAYMENT", "CANCELLED"}
            /\ status = "PAID" => order[o] \notin {"NONE", "PENDING_PAYMENT"}
            /\ status \in {"EXPIRED", "CANCELLED"} => order[o] = "CANCELLED"

\* An order is past its payment exactly when its payment was captured.  A write in flight
\* is about such an order, so that whatever prepare, ship, deliver or dispute write late,
\* they never touch an order that holds a reservation.
SaleIsCaptured ==
    /\ \A o \in Order :
          Captured \in ledger[o] <=> order[o] \notin {"NONE", "PENDING_PAYMENT", "CANCELLED"}
    /\ \A q \in Request : request[q] # IdleRequest => Captured \in ledger[request[q].order]

\* A refund executed twice gives stock back twice only once late writes took both its row
\* out of COMPLETED and its order out of REFUNDED.
FullyOvertaken == {o \in Order : overtaken[o] = Overtaking}

\* Pieces leave a listing once per captured order and come back at most once, with the
\* refund of one; the refund of a payment that came too late has no stock to give back.
\* Where late writes overtook both the order and its refund, the second restock is the
\* code's (RestockedOnce).
StockAccounted ==
    \A l \in Listing :
        /\ listing[l].quantity >= InitialQuantity[l] - Pieces(CapturedOf, l)
        /\ Pieces(FullyOvertaken, l) = 0 =>
              listing[l].quantity <= InitialQuantity[l] - Pieces(CapturedOf \ RefundedSales, l)

\* At most one of the payments the buyer tried for a checkout was approved.
Approvals(c) == {p \in ProviderPayment : PaysFor[p] = c /\ provider[p] \in {"approved", "refunded"}}
PaidOnce(c) == \A p, q \in Approvals(c) : p = q

\* An order has one refund at most, and its reason tells its story: a cancelled sale was
\* captured, a late payment never was.  cancel() takes the first refund it finds and the
\* webhook the first open one, whatever the reason.
OneRefundPerOrder ==
    \A o \in Order, r \in Reason :
        refund[o][r].status # "NONE" => (r = "cancelacion" <=> Captured \in ledger[o])

\* The issues reconciliation looks for between payments and the ledger never arise:
\* held money is captured, payable money was captured and released, a payment is refunded
\* only when the ledger says so, and always when the ledger says so unless a second
\* approved payment of the checkout took the row.
LedgerMatchesPayment ==
    \A o \in Order :
        /\ payment[o].status \in {"HELD", "RELEASED"} => Captured \in ledger[o]
        /\ payment[o].status = "RELEASED" => Payable \in ledger[o]
        /\ Payable \in ledger[o] => Captured \in ledger[o] /\ payment[o].status \in {"RELEASED", "REFUNDED"}
        /\ \A r \in Reason : refund[o][r].status = "COMPLETED" => RefundEntry(r) \in ledger[o]
        /\ payment[o].status = "REFUNDED" => \E r \in Reason : RefundEntry(r) \in ledger[o]
        /\ PaidOnce(CheckoutOf[o]) /\ (\E r \in Reason : RefundEntry(r) \in ledger[o])
               => payment[o].status = "REFUNDED"

\* The provider gave back what the refund of an order asked for, or the whole payment.
GivenBack(p, o, r) == provider[p] = "refunded" \/ providerRefund[p][o][r] = "approved"

\* A refund the program calls COMPLETED is money the provider gave back.
CompletedRefundIsReal ==
    \A o \in Order, r \in Reason :
        PaidOnce(CheckoutOf[o]) /\ refund[o][r].status = "COMPLETED" => GivenBack(payment[o].by, o, r)

\* An order that was cancelled before the rest of its checkout was paid for
\* (CancelledIsNotCharged).
CancelledBeforePaid(o) == checkout[CheckoutOf[o]] = "PAID" /\ order[o] = "CANCELLED"

\* Once an event of it is processed that was fetched after the provider decided, an
\* approved charge is accounted for on every order of the checkout: the order is sold, or a
\* refund is on its way, and it is that payment the order names unless the buyer paid the
\* checkout twice.
ChargeAccounted ==
    \A p \in ProviderPayment, kind \in EventKind :
        <<p, kind>> \in processed \ early /\ provider[p] = "approved" =>
            \A o \in OrdersOf(PaysFor[p]) :
                \/ CancelledBeforePaid(o)
                \/ /\ Captured \in ledger[o] \/ HasRefund(o)
                   /\ PaidOnce(PaysFor[p]) => payment[o].by = p

\* The seller of a refunded order is never made payable for it afterwards.
RefundedIsNeverReleased ==
    [][\A o \in Order, r \in Reason :
          RefundEntry(r) \in ledger[o] /\ Payable \notin ledger[o] => Payable \notin ledger'[o]]_vars

\* The refund of a sale goes to the payment that bought it: the provider payment of
\* a captured order never changes.
ChargeKeepsItsPayment ==
    [][\A o \in Order : Captured \in ledger[o] => payment'[o].by = payment[o].by]_vars

----------------------------------------------------------------------------
(* Liveness, under FairSpec *)

\* A checkout does not hold stock for ever: it is paid, expires or is cancelled.
CheckoutIsDecided ==
    \A c \in Checkout : checkout[c] = "PENDING_PAYMENT" ~> checkout[c] # "PENDING_PAYMENT"

\* Money the provider took ends up with a sale or with a refund asked for, unless the
\* provider gives it back itself, whatever becomes of the checkout in the meantime and
\* whenever the provider decides: each notification of the payment is an event of its own.
ApprovedIsAccounted ==
    \A p \in ProviderPayment :
        provider[p] = "approved" ~>
            \/ provider[p] = "refunded"
            \/ \A o \in OrdersOf(PaysFor[p]) :
                  Captured \in ledger[o] \/ HasRefund(o) \/ CancelledBeforePaid(o)

----------------------------------------------------------------------------
(* What it implements *)

Outcome(c) ==
    CASE checkout[c] = "NONE" -> "none"
      [] checkout[c] = "PENDING_PAYMENT" -> "open"
      [] checkout[c] = "PAID" -> "paid"
      [] checkout[c] \in {"EXPIRED", "CANCELLED"} -> "lost"

\* An order whose payment arrived was sold, whatever came after.
Phase(o) ==
    CASE order[o] = "NONE" -> "none"
      [] order[o] = "PENDING_PAYMENT" -> "held"
      [] order[o] = "CANCELLED" -> "dropped"
      [] order[o] \notin {"NONE", "PENDING_PAYMENT", "CANCELLED"} -> "sold"

outcomes == [c \in Checkout |-> Outcome(c)]
phases == [o \in Order |-> Phase(o)]
freeStock == [l \in Listing |-> listing[l].quantity - listing[l].reserved]

Promise == INSTANCE StockReservation WITH
               outcome <- outcomes, phase <- phases, free <- freeStock

\* The money path implements the promise about stock.
ImplementsStockReservation == Promise!StockSpec

----------------------------------------------------------------------------
(* What the documentation says and the code does not keep *)

\* A refunded order is not prepared, shipped or delivered: orders are said to be re-read
\* under the lock, and prepare, ship and deliver write what they read before it.
RefundedIsNotShipped ==
    \A o \in Order : payment[o].status = "REFUNDED" =>
        order[o] \notin {"PREPARING", "SHIPPED", "DELIVERED"}

\* A payment approved for a checkout that is closed has a refund under way: the second
\* one of the same checkout finds the refund of the first, and gets none.
LateChargeIsRefunded ==
    \A o \in Order : payment[o].status = "APPROVED" => OpenReasons(o) # {}

\* Cancelling an order before it is paid costs the buyer nothing: the preference still
\* charges the whole checkout, and the cancelled order is skipped when it is paid.
CancelledIsNotCharged ==
    \A o \in Order, p \in ProviderPayment, kind \in EventKind :
        /\ order[o] = "CANCELLED"
        /\ PaysFor[p] = CheckoutOf[o]
        /\ <<p, kind>> \in processed \ early
        /\ provider[p] = "approved"
        => HasRefund(o)

\* A refund gives stock back once: a late execution takes the refund out of COMPLETED, a
\* late prepare the order out of REFUNDED, and the next execution restores again.
RestockedOnce ==
    \A l \in Listing :
        listing[l].quantity <= InitialQuantity[l] - Pieces(CapturedOf \ RefundedSales, l)

\* A refund takes from the seller what a capture gave: the refund of a payment that came
\* too late is entered against a seller who was never credited with the sale.
RefundTakesBackACapture ==
    \A o \in Order, r \in Reason : RefundEntry(r) \in ledger[o] => Captured \in ledger[o]
=============================================================================
