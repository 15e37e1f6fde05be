SPECIFICATION Spec
CONSTANTS
    o1 = o1
    o2 = o2
    p1 = p1
    p2 = p2
    Order = {o1, o2}
    Product = {p1, p2}
    Session = {s1, s2}
    NoOrder = NoOrder
    NoProduct = NoProduct
    NotLoaded = NotLoaded
    Units <- MCUnits
    OpeningStock <- MCOpeningStock
    Fulfillment <- MCFulfillment
    Moves = {"cancelled"}
    MaxFaults = 1
INVARIANTS
    DeskTypeOK
    SoldIsBooked
    StockCoversMovements
    DraftIsFound
    RetryIsNotRefused
SYMMETRY Symmetry
