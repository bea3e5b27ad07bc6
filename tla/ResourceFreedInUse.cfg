SPECIFICATION Spec
CONSTANTS
    Sessions = {s1}
    Resources = {r1}
    MaxResources = 1
    Racing = {}
    MaxRegistrations = 1
    MaxHostFailures = 0
    MaxExhausted = 0
    Overlap = FALSE
    NULL = NULL
INVARIANT RegisteredIsLive
CHECK_DEADLOCK FALSE
