CONSTANTS
    Files = {f1}
    Retries = 2
    ImportTries = 3
    Env <- Everything
SPECIFICATION FairSpec
CHECK_DEADLOCK FALSE
INVARIANTS
    TypeOK
    ReadyIsDownloadable
    ImportingHasTask
PROPERTY
    ImportSettles
