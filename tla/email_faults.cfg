CONSTANTS
    Notes = {n1, n2}
    MailTries = 3
    Env <- Faults
SPECIFICATION FairSpec
CHECK_DEADLOCK FALSE
INVARIANTS
    SentWasAccepted
    VerdictsCount
PROPERTIES
    SentIsFinal
    RetriesEnd
