SPECIFICATION Spec
CONSTANTS
    Ids = {b1, b2}
    Clients = {c1}
    Instances = {i1, i2}
    Handlers = {h1}
    Packs = {1}
    MaxCapacity = 1
    Policy = "allow"
    AllowMulti = TRUE
    None = None
    Unlimited = Unlimited
SYMMETRY Symmetry
INVARIANTS TypeOK NoRefundedSeat SupersededReleased
