SPECIFICATION ManagerFairSpec
CONSTANTS
    MaxDownloads = 3
    MaxMenus = 4
INVARIANTS
    ShownIsInFlight
    OneAtATimeUnlessRetried
PROPERTIES
    DownloadsSettle
CHECK_DEADLOCK FALSE
