CONSTANTS
    Autos = {a1, a2}
    MaxEdits = 2
    MaxSaves = 2
SPECIFICATION FairSpec
CHECK_DEADLOCK FALSE
INVARIANTS
    TypeOK
    SavedIsTrue
PROPERTY
    EditsReachServer
