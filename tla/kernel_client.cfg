CONSTANTS
    Cells = {c1, c2}
    MaxRuns = 3
    MaxClients = 2
    MaxOutputs = 1
    MaxEdits = 1
SPECIFICATION Spec
CHECK_DEADLOCK FALSE
INVARIANTS
    TypeOK
    NobodyWaitsInVain
    OneConnection
