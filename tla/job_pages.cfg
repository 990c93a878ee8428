CONSTANTS
    Jobs = {j1}
    Runs = {1}
    NoRun = 0
    MaxAsked = 2
    MaxVisits = 1
    MaxFails = 1
SPECIFICATION FairSpec
INVARIANTS
    TypeOK
    

    
