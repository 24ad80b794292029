SPECIFICATION FairSpec
CONSTANTS
    Playing = TRUE
    MaxApp = 1
    MaxBreaks = 1
    MaxTimeouts = 1
INVARIANTS
    CommandsOutsideIdle
    QueuedMessagesInterrupt
PROPERTIES
    CallsSettle
    ChangesAreReportedWhileTicking
CHECK_DEADLOCK FALSE
