SPECIFICATION Spec
CONSTANTS
    Sessions = {s1, s2}
    Resources = {r1, r2, r3}
    MaxResources = 2
    Racing = {}
    MaxRegistrations = 2
    MaxHostFailures = 1
    MaxExhausted = 1
    Overlap = FALSE
    NULL = NULL
SYMMETRY Symmetry
INVARIANTS
    NotDestroyedInUse
    RefcountExact
    PoolSound
    LookupExact
    RundirKept
    HostCovers
\* vaccel_fini is the end
CHECK_DEADLOCK FALSE
