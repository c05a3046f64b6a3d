SPECIFICATION Spec
CONSTANTS
    Nothing = Nothing
    Proc = {p, q}
    Job = {hk, wk}
    Housekeeping = hk
    MaxFaults = 1
    Refund = {r1, r2}
    Take = 1
    MaxAttempts = 2
    Pay = {a, b}
    Checkout = co
    Charge = mp
    Price = 1
    Finding = {f1}
    Run = {k1, k2}
    IssueRow = {i1, i2, i3}
    Admin = {adm1, adm2}
    Submission = {s1, s2}
    Key = {x, y}
INVARIANTS
    
    FoundIsShown
    CardOnce
PROPERTIES
    LeaderHoldsLease
    StaleRunEnds
    RefundRetried
CHECK_DEADLOCK FALSE
