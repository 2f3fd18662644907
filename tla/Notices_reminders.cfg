SPECIFICATION Spec
CONSTANTS
    Items = {i1}
    Sweeps = {s1}
    MaxFailures = 0
    MaxCrashes = 0
INVARIANT RemindedExactlyOnce
CHECK_DEADLOCK FALSE
