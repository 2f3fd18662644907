SPECIFICATION FairSpec
CONSTANTS
    NBookings = 2
    Events = {e1}
    Links = {l1}
    BatchLimit = 1
    MaxRetries = 2
    Sweeps = {s1}
    Cancels = {c1}
    None = None
    Unused = Unused
INVARIANTS TypeOK LinkWorksOnce OneNoticePerConnection GivenUpIsSpent
PROPERTIES SyncSettles LeftAlone
CHECK_DEADLOCK FALSE
