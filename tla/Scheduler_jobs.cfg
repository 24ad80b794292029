SPECIFICATION FairSpec
CONSTANTS
    Ids = {id1}
    Guards = {g1}
    Delays <- OneOrTwo
    MaxTime = 5
    MaxBusy = 1
    MaxSent = 3
    MaxStarts = 2
INVARIANTS
    TimerCoversJobs
    HeapIsCurrent
PROPERTIES
    JobsSettle
    StopReturns
CHECK_DEADLOCK FALSE
