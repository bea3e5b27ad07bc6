SPECIFICATION Spec
CONSTANTS
    Blocks = {b1, b2, b3, b4, b5}
    Tensors = {t1, t2, t3}
    Buffers = {u1}
    Nodes = {n1}
    NULL = NULL
    Informed = TRUE
SYMMETRY Symmetry
INVARIANTS
    OwnershipInv
    NothingLost
PROPERTY
    LentKept
\* lost blocks are not given back
CHECK_DEADLOCK FALSE
