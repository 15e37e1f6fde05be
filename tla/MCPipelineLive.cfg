SPECIFICATION SweptSpec
CONSTANTS
    c1 = c1
    m1 = m1
    m2 = m2
    Customer = {c1}
    Message = {m1, m2}
    Holder = {w1, w2}
    Conv = {s1}
    OrderId = {o1}
    None = None
    CustomerOf <- OneCustomer
    BlankMessage = {m2}
    Lease = 1
    MaxTime = 1
    IdleThreshold = 1
    DrainLimit = 1
    SlowWrites = FALSE
    MaxDeliveries = 2
    MaxFailures = 1
PROPERTIES
    QueueDrains
    CallsEnd
CHECK_DEADLOCK FALSE
