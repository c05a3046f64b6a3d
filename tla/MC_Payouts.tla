------------------------------ MODULE MC_Payouts ------------------------------
(***************************************************************************)
(* Small instances of Payouts for TLC.                                     *)
(***************************************************************************)
EXTENDS Payouts, TLC

CONSTANTS s1, o1, o2, p1, p2, d1, d2, k1, k2, a1

\* Two orders of one seller, of different amounts, one without commission.
MC_SellerOf == o1 :> s1 @@ o2 :> s1
MC_Total == o1 :> 3 @@ o2 :> 5
MC_Commission == o1 :> 1 @@ o2 :> 0
MC_Correction == {-3}

\* Calls in flight, and payouts and disputes that do not exist yet, are
\* interchangeable.
MC_Symmetry == Permutations(Call) \cup Permutations(Payout) \cup Permutations(Dispute)

\* One order is refunded.  At most three at a time of: a call in flight, a
\* refund under way or completed, a payout.  An adjustment counts for two of
\* them.  A suspension, which only keeps a payout from being created, comes
\* before them.
MC_Bound ==
    /\ Cardinality({o \in Order : refund[o] # "NONE"}) <= 1
    /\ Cardinality({o \in Order : refund[o] = "COMPLETED"})
           + Cardinality({k \in Call : call[k].stage # "idle"})
           + Cardinality({o \in Order : settling[o].on})
           + Cardinality({p \in Payout : payout[p].status # "NONE"})
           + 3 * Cardinality(suspended)
           + 2 * Cardinality({a \in Adjustment : Has(ledger, "ADJUSTMENT", a)}) <= 3
=============================================================================
