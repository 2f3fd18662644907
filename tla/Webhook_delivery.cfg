SPECIFICATION FairSpec
CONSTANTS
    Updates = {u1, u2}
    Clients = {c1}
    MaxCrashes = 1
    None = None
INVARIANTS TypeOK StoredWithConsent RelayedOncePerTap
PROPERTIES ImplementsDelivery EveryUpdateAcked ConsentSticks DecidedOnce
CHECK_DEADLOCK FALSE
