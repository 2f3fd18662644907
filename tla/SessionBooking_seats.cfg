SPECIFICATION Spec
CONSTANTS
    Ids = {b1, b2, b3}
    Clients = {c1, c2}
    Instances = {i1}
    Handlers = {h1}
    Packs = {}
    MaxCapacity = 2
    Policy = "allow"
    AllowMulti = FALSE
    None = None
    Unlimited = Unlimited
SYMMETRY Symmetry
INVARIANTS SeatsCovered ClosedClassEmpty
PROPERTIES NeverOverbooks OutcomeIsFinal ImplementsClassSeats
