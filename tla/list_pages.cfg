CONSTANTS
    Items = {f1, f2}
    Refs = {s1}
    None = none
    MaxAsked = 2
    MaxActs = 2
    MaxFails = 1
SYMMETRY Symmetry
SPECIFICATION ListsSpec
CHECK_DEADLOCK FALSE
INVARIANTS
    ListsTypeOK
    
