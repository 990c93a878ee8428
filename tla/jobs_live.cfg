CONSTANTS
    Jobs = {j1}
    MaxTries = 2
    Slots = 1
    Env <- Accidents
SPECIFICATION FairSpec
CHECK_DEADLOCK FALSE
INVARIANT
    OutcomesAgree
PROPERTIES
    Settles
    ImplementsRecord
