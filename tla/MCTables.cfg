SPECIFICATION MCSpec
CONSTANTS
    Customer = {c1, c2}
    Holder = {h1, h2, h3}
    None = None
    Lease = 2
    MaxTime = 4
    Message = {m1}
    Conv = {s1, s2}
    OrderId = {o1, o2}
CONSTRAINT Scope
INVARIANTS
    ClaimTypeOK
    LeaseExclusion
    StoreTypeOK
    OneOpenSession
PROPERTIES
    OnlyTheHolderDisturbsALiveClaim
    ImplementsLeaseLock
SYMMETRY Symmetry
