SPECIFICATION Spec
CONSTANTS
    Sizes = {1}
    Block = 2
    SavedModels = {m1}
    TorchModels = {}
    Singles = {}
    MaxResources = 1
    MaxFailures = 2
    Overlap = FALSE
PROPERTY
    RundirEmptied
CHECK_DEADLOCK FALSE
