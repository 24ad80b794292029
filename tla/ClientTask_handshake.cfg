SPECIFICATION FairSpec
CONSTANTS
    MaxRequests = 0
    Keys = {k1}
    NoKey = none
    MaxFaults = 1
    FaultKinds = {"break", "handshake"}
    IdleReadTimeout = TRUE
PROPERTIES
    Recovers
