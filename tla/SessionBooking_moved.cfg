SPECIFICATION Spec
CONSTANTS
    Ids = {b1, b2}
    Clients = {c1}
    Instances = {i1, i2}
    Handlers = {h1}
    Packs = {2}
    MaxCapacity = 2
    Policy = "allow"
    AllowMulti = FALSE
    None = None
    Unlimited = Unlimited
SYMMETRY Symmetry
PROPERTIES RescheduleStillPaid
