SPECIFICATION Spec
CONSTANTS
    Threads = {t1, t2, t3}
    MaxIds = 2
    MaxFailedGets = 0
    Overlap = TRUE
INVARIANT UniqueIds
CHECK_DEADLOCK FALSE
