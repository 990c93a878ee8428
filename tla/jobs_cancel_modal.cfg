CONSTANTS
    Jobs = {j1}
    MaxTries = 1
    Slots = 1
    Env <- Cancels
SPECIFICATION Spec
CHECK_DEADLOCK FALSE
PROPERTY
    CancelStopsRun
