--------------------------- MODULE MC_OrderPayments ---------------------------
(***************************************************************************)
(* Small instances of OrderPayments for TLC.                               *)
(***************************************************************************)
EXTENDS OrderPayments, TLC

CONSTANTS c1, c2, o1, o2, o3, l1, l2, p1, p2, u1, u2, u3, u4, d1, d2, w1, w2, q1, q2

\* One checkout of one order of one piece.
MC_OneCheckoutOf == o1 :> c1
MC_OneOrderOf == u1 :> o1
MC_OneListingOf == u1 :> l1
MC_OneQuantity == l1 :> 1
MC_OnePaysFor == p1 :> c1

\* Two sellers' orders in one checkout, one of them of two pieces, and another checkout
\* after the last piece of the other.
MC_RaceCheckoutOf == o1 :> c1 @@ o2 :> c1 @@ o3 :> c2
MC_RaceOrderOf == u1 :> o1 @@ u2 :> o1 @@ u3 :> o2 @@ u4 :> o3
MC_RaceListingOf == u1 :> l1 @@ u2 :> l1 @@ u3 :> l2 @@ u4 :> l2
MC_RaceQuantity == l1 :> 3 @@ l2 :> 1
MC_RacePaysFor == p1 :> c1 @@ p2 :> c2

\* Two sellers' orders in one checkout.
MC_TwoCheckoutOf == o1 :> c1 @@ o2 :> c1
MC_TwoOrderOf == u1 :> o1 @@ u2 :> o2
MC_TwoListingOf == u1 :> l1 @@ u2 :> l2
MC_TwoQuantity == l1 :> 1 @@ l2 :> 1

\* One checkout that the buyer pays twice.
MC_TwicePaysFor == p1 :> c1 @@ p2 :> c1

\* Notifications with an id each, or none with one.
MC_OwnEvents == {"created", "decided"}
MC_AllOwnEvents == {"created", "decided", "refunded"}
MC_SharedEvent == {"payment"}

\* Calls in flight of one kind are interchangeable.
MC_Symmetry == Permutations(Delivery) \cup Permutations(Request) \cup Permutations(Worker)

\* So are two payments of one checkout.
MC_TwiceSymmetry == MC_Symmetry \cup Permutations(ProviderPayment)

\* At most three calls are in flight; once the buyer has tried a second payment, one of a
\* kind, and neither payment is undecided or was when an event of it was processed.
MC_InFlight == Cardinality({d \in Delivery : delivery[d] # IdleDelivery})
               + Cardinality({w \in Worker : worker[w] # IdleWorker})
               + Cardinality({q \in Request : request[q] # IdleRequest})

MC_Bound ==
    /\ MC_InFlight <= 3
    /\ (\A p \in ProviderPayment : provider[p] # "none") =>
        /\ Cardinality({d \in Delivery : delivery[d] # IdleDelivery}) <= 1
        /\ Cardinality({w \in Worker : worker[w] # IdleWorker}) <= 1
        /\ \A q \in Request : request[q] = IdleRequest
        /\ early = {} /\ \A p \in ProviderPayment : provider[p] # "pending"
=============================================================================
