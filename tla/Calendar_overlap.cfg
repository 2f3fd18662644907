SPECIFICATION FairSpec
CONSTANTS
    NBookings = 1
    Events = {e1}
    Links = {l1}
    BatchLimit = 1
    MaxRetries = 1
    Sweeps = {s1, s2}
    Cancels = {}
    None = None
    Unused = Unused
PROPERTIES AbandonedForGood
CHECK_DEADLOCK FALSE
