SPECIFICATION Spec
CONSTANTS
    Letters = {"j", "r", "m"}
    Others = {"/"}
    Wide = {"m"}
    Columns = 3
    Keys = {"/", "r", "m", "j", "PopLeft"}
    Bindings <- MCBindings
    MaxKeys = 5
    MaxModals = 2
INVARIANTS PendingEnds TextArrives ActsOnce
CHECK_DEADLOCK FALSE
