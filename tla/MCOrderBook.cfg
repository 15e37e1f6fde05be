SPECIFICATION Spec
CONSTANTS
    Product <- Products
    Text <- Texts
    Normalized <- NormalizedTexts
    Phone <- Phones
    NoPhone = NoPhone
    Category <- Categories
    Conversation = {c1}
    NoConversation = NoConversation
    Page = {p1}
    SessionPhone <- SessionPhones
    Canonical <- CanonicalPhones
    Active <- Products
    Price <- Prices
    Parses <- Snapshots
    Forms <- FormRequests
    TypedPhones = {"300-1"}
    Moves <- StatusMoves
    Instants <- Hours
    MaxTurns = 2
    MaxOrders = 2
INVARIANTS
    BookTypeOK
    DraftIsWhatWasSaid
    DuplicatesAreRaces
    FiguresAgree
    MoneyAddsUp
CHECK_DEADLOCK FALSE
