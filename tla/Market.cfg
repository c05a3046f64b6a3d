SPECIFICATION Spec
CONSTANTS
    Nothing = Nothing
    l1 = l1
    own = own
    o1 = o1
    o2 = o2
    o3 = o3
    lot1 = lot1
    lot2 = lot2
    s1 = s1
    s2 = s2
    a1 = a1
    a2 = a2
    Call = {k1, k2}
    Listing = {l1}
    Sale = {s1, s2}
    MaxQuantity = 2
    Report = {r1, r2, r3}
    Reported = {t1, t2}
    MaxReports = 1
    CartListing = {l1, own}
    Own = {own}
    Cart = {c1, c2}
    Inquiry = {i1}
    MaxAsked = 2
    User = {u1}
    CardListing = {v1}
    Price = {80, 100}
    DropBps = 1000
    Lot = {lot1, lot2}
    LotOrder = {o1, o2, o3}
    Items <- MC_Items
    MaxLot = 3
    Session = {s1, s2, s3}
    MaxVersion = 1
    Assignment = {as1, as2}
    Purchase = {co}
    MaxTime = 2
    Subtotal = {33, 500000}
    MaxChange = 3
    MylCard = {"p"}
    ApiCard = {"p", "q"}
    MaxRows = 3
    MaxSlug = 4
    Address = {a1, a2}
    MaxChoices = 2
    MaxTouches = 3
    Offer <- MC_Offers
    FirstLots <- MC_Lots
    PageSize = 2
    MaxLots = 3
    MaxDay = 2
    MaxTurns = 2
    MaxChanges = 1
INVARIANTS
    ReservedWithinStock
    SuspendedIsOffline
    ReportsBounded
    BoughtWasAsked
    HitMailedOnce
    LotMatchesSales
    ReimportRepairs
    SessionsEnded
    FeeOfPlan
    PagesFitApi
    CheckoutAsShown
    SearchFits
    CollectionFits
PROPERTY ClosedStaysClosed
SYMMETRY MC_Symmetry
CONSTRAINTS
    MC_Bound
    MC_Visit
    MC_Lists
CHECK_DEADLOCK FALSE
