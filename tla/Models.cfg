SPECIFICATION Spec
CONSTANTS
    Sizes = {3}
    Block = 2
    SavedModels = {m1}
    TorchModels = {t1}
    Singles = {s1}
    MaxResources = 2
    MaxFailures = 1
    Overlap = FALSE
INVARIANTS
    NoStaleFiles
    FilesOnDisk
    FilesOwned
PROPERTIES
    DestroyLeavesNothing
\* failed gets lose ids (see IdPool): at the bound on failures none is left
CHECK_DEADLOCK FALSE
