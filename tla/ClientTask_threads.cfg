SPECIFICATION FairSpec
CONSTANTS
    MaxRequests = 3
    Keys = {k1}
    NoKey = none
    MaxFaults = 2
    FaultKinds = {"break", "refuse", "late", "timeout", "write", "stall"}
    IdleReadTimeout = FALSE
INVARIANTS
    HandOverIsSound
    MpdModeIsRespected
PROPERTIES
    ImplementsService
    Recovers
    RequestsSettle
    ChangesReachTheEventLoop
