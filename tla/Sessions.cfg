SPECIFICATION FairSpec
CONSTANTS
    Sessions = {s1, s2, s3}
    MaxSessions = 2
    MaxMkdirFailures = 1
    MaxRmdirFailures = 1
    MaxRefused = 1
    Overlap = FALSE
    NULL = NULL
INVARIANTS
    SessionIdsDiffer
    IdsConserved
    OpenSessionHasRundir
    RunningNotDangling
PROPERTIES
    SessionsKeepOpening
\* when all ids are lost and no more sessions may be refused, nothing is left
CHECK_DEADLOCK FALSE
