SPECIFICATION FairSpec
CONSTANTS
    Threads = {t1, t2, t3}
    MaxIds = 2
    MaxFailedGets = 1
    Overlap = FALSE
INVARIANTS
    PhasedInv
    UniqueIds
    SlotsNotShared
    NoIdLost
    CounterSound
PROPERTIES
    Implements
    IsAtomic
    ReleasedComesBack
\* when all ids are lost and no more gets may fail, no call is possible
CHECK_DEADLOCK FALSE
