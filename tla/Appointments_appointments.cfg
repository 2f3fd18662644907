SPECIFICATION Spec
CONSTANTS
    Ids = {b1, b2}
    Clients = {c1}
    MaxRequests = 1
    Handlers = {h1, h2}
    Lengths = {2, 3}
    Starts = {3, 6}
    Ranges <- TwoRanges
    Noon = 4
    Cutoff = 6
    Pack = 1
    Policy = "allow"
    KeepWishes = TRUE
    None = None
SYMMETRY Symmetry
INVARIANTS TypeOK ReplacedIsReleased RefundedIsOver LedgerBalances GrantedOnce OffersAreRight
PROPERTY ImplementsDiary
CHECK_DEADLOCK FALSE
