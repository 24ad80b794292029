SPECIFICATION FairSpec
CONSTANTS
    a = a
    b = b
    c = c
    d = d
    Songs <- FourSongs
    MaxMoves = 1
    MaxForeign = 1
    MaxReconnects = 1
INVARIANTS
    IgnoresBalanced
    PendingReconcileComes
PROPERTIES
    ViewConverges
CHECK_DEADLOCK FALSE
