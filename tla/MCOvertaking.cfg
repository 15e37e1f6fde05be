SPECIFICATION Spec
CONSTANTS
    c1 = c1
    m1 = m1
    m2 = m2
    Customer = {c1}
    Message = {m1, m2}
    Holder = {w1, w2}
    Conv = {s1, s2}
    OrderId = {o1, o2}
    None = None
    CustomerOf <- OneCustomer
    BlankMessage = {}
    Lease = 1
    MaxTime = 2
    IdleThreshold = 0
    DrainLimit = 1
    SlowWrites = FALSE
    MaxDeliveries = 2
    MaxFailures = 0
PROPERTIES
    NoOvertaking
CHECK_DEADLOCK FALSE
