CONSTANTS
    c1 = c1  c2 = c2  o1 = o1  o2 = o2  o3 = o3  l1 = l1  l2 = l2  p1 = p1  p2 = p2
    u1 = u1  u2 = u2  u3 = u3  u4 = u4  d1 = d1  d2 = d2  w1 = w1  w2 = w2  q1 = q1  q2 = q2
    Checkout = {c1}
    Order = {o1}
    Listing = {l1}
    Piece = {u1}
    CheckoutOf <- MC_OneCheckoutOf
    OrderOf <- MC_OneOrderOf
    ListingOf <- MC_OneListingOf
    InitialQuantity <- MC_OneQuantity
    ProviderPayment = {p1}
    PaysFor <- MC_OnePaysFor
    Delivery = {d1, d2}
    Request = {q1}
    Worker = {w1, w2}
    EventKind <- MC_OwnEvents
    Nothing = Nothing

SPECIFICATION Spec
INVARIANTS RestockedOnce
CHECK_DEADLOCK FALSE
