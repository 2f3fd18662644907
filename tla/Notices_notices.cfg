SPECIFICATION FairSpec
CONSTANTS
    Items = {i1, i2}
    Sweeps = {s1, s2}
    MaxFailures = 1
    MaxCrashes = 1
INVARIANTS TypeOK AtMostOnce ClaimedIsAttempted
PROPERTIES NoticeTakenUp ImplementsOutbox
CHECK_DEADLOCK FALSE
