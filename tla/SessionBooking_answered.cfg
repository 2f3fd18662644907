SPECIFICATION FairSpec
CONSTANTS
    Ids = {b1, b2}
    Clients = {c1, c2}
    Instances = {i1}
    Handlers = {h1}
    Packs = {Unlimited}
    MaxCapacity = 1
    Policy = "block"
    AllowMulti = FALSE
    None = None
    Unlimited = Unlimited
PROPERTIES PendingResolved
