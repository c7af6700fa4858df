SPECIFICATION Spec
CONSTANTS
    w1 = w1  w2 = w2  o1 = o1  o2 = o2  u1 = u1  u2 = u2  p1 = p1  p2 = p2
    Workers = {w1}
    Orders = {o1, o2}
    NoOrder = NoOrder
    Users = {u1}
    Products = {p1}
    Offer <- OfferSame
    Price = 2
    Period = 2
    PendingTimeout = 1
    MatchWindow = 0
    Channel = "alipay"
    Echoes = {TRUE}
    MaxClock = 4
    MaxRows = 2
INVARIANTS
    TypeOK
    OneFreshPending
    ClosedIsUnpaid
    FullRefundIsRefunded
PROPERTIES
    ExtendedBySettlement
    SettledIsFinal
    ImplementsLedger
CHECK_DEADLOCK FALSE
