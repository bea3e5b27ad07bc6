SPECIFICATION Spec
CONSTANTS
    Programs <- MCPrograms
    Code <- MCCode
    Backends = {"none", "noop", "exec"}
INVARIANTS
    CallsLegal
    NothingLeft
    FailureReported
    ServedByNoop
\* the process ends
CHECK_DEADLOCK FALSE
