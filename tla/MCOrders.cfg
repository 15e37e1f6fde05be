SPECIFICATION Spec
CONSTANTS
    o1 = o1
    o2 = o2
    p1 = p1
    p2 = p2
    Order = {o1, o2}
    Product = {p1, p2}
    Desk = {d1, d2}
    NoOrder = NoOrder
    Quantity <- MCQuantity
    OpeningStock <- MCOpeningStock
    Fulfillment <- MCFulfillment
    WithPhone = {o1}
    MaxAttempts = 2
CONSTRAINT Scope
INVARIANTS
    LifecycleTypeOK
    PreparedIsSold
    StockCoversSales
    AckTypeOK
    CallsAreLimited
    SoleSender
    OnlySoldIsAcknowledged
PROPERTIES
    ConfirmedOnce
    ImplementsAtMostOnce
CHECK_DEADLOCK FALSE
SYMMETRY Symmetry
