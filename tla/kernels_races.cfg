CONSTANTS
    Notebooks = {n1}
    Containers = {c1, c2}
    Starts = {r1, r2}
    Proxies = {p1}
    MaxFaults = 1
SPECIFICATION FairSpec
CHECK_DEADLOCK FALSE
INVARIANTS
    TypeOK
    StoppedIsGone
PROPERTIES
    StoppedForGood
    IdleIsReaped
    DeadIsMarked
