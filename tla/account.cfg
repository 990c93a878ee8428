CONSTANTS
    Accounts = {ann, bob}
    Slots = {s1, s2}
    MaxUploads = 2
    MaxActs = 4
SPECIFICATION Spec
CHECK_DEADLOCK FALSE
SYMMETRY Symmetry
INVARIANTS
    TypeOK
    SessionIsOne
    AvatarExists
