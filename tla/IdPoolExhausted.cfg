SPECIFICATION FairSpec
CONSTANTS
    Threads = {t1}
    MaxIds = 1
    MaxFailedGets = 1
    Overlap = FALSE
PROPERTY ReleaseReturnsId
CHECK_DEADLOCK FALSE
