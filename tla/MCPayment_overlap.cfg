SPECIFICATION Spec
CONSTANTS
    w1 = w1  w2 = w2  o1 = o1  o2 = o2  u1 = u1  u2 = u2  p1 = p1  p2 = p2
    Workers = {w1, w2}
    Orders = {o1}
    NoOrder = NoOrder
    Users = {u1}
    Products = {p1}
    Offer <- OfferOne
    Price = 2
    Period = 2
    PendingTimeout = 1
    MatchWindow = 0
    Channel = "alipay"
    Echoes = {TRUE}
    MaxClock = 3
    MaxRows = 4
SYMMETRY Symmetric
INVARIANTS
    SettledOnlyIfPaid
    ProIsPaid
    RequestsOK
    SettledHasReceipt
    RefundsBacked
CHECK_DEADLOCK FALSE
