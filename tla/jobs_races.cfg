CONSTANTS
    Jobs = {j1}
    MaxTries = 2
    Slots = 1
    Env <- Races
SPECIFICATION Spec
CHECK_DEADLOCK FALSE
INVARIANTS
    TypeOK
    SucceededIsTrue
    OneLocalRun
    NoticeFollowsCommit
    MailedOnce
    FailedRunIsOver
PROPERTY
    TrackedRunIsOnly
