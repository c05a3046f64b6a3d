CONSTANTS
    c1 = c1  c2 = c2  o1 = o1  o2 = o2  o3 = o3  l1 = l1  l2 = l2  p1 = p1  p2 = p2
    u1 = u1  u2 = u2  u3 = u3  u4 = u4  d1 = d1  d2 = d2  w1 = w1  w2 = w2  q1 = q1  q2 = q2
    Checkout = {c1, c2}
    Order = {o1, o2, o3}
    Listing = {l1, l2}
    Piece = {u1, u2, u3, u4}
    CheckoutOf <- MC_RaceCheckoutOf
    OrderOf <- MC_RaceOrderOf
    ListingOf <- MC_RaceListingOf
    InitialQuantity <- MC_RaceQuantity
    ProviderPayment = {p1}
    PaysFor <- MC_OnePaysFor
    Delivery = {d1}
    Request = {}
    Worker = {}
    EventKind <- MC_AllOwnEvents
    Nothing = Nothing

SPECIFICATION FairSpec
INVARIANTS ReservationBacked CheckoutCoherent
PROPERTIES ImplementsStockReservation CheckoutIsDecided ApprovedIsAccounted
CHECK_DEADLOCK FALSE
