SPECIFICATION Spec
CONSTANTS
    s1 = s1
    o1 = o1
    o2 = o2
    p1 = p1
    p2 = p2
    d1 = d1
    d2 = d2
    k1 = k1
    k2 = k2
    a1 = a1
    Nothing = Nothing
    Seller = {s1}
    Order = {o1, o2}
    Payout = {p1, p2}
    Adjustment = {a1}
    Dispute = {d1}
    Call = {k1, k2}
    SellerOf <- MC_SellerOf
    Total <- MC_Total
    Commission <- MC_Commission
    Correction <- MC_Correction
SYMMETRY MC_Symmetry
INVARIANTS
    OrderInOnePayout
    BalanceIsWhatIsOwed
    RefundedIsNotPayable
    DisputedIsWithdrawn
    LedgerIsComplete
CONSTRAINT MC_Bound
CHECK_DEADLOCK FALSE
