SPECIFICATION Spec
CONSTANTS
    Workers = {w1, w2}
    Copies <- CopiesInstance
    MaxRepairs = 1
SYMMETRY Symmetry
INVARIANTS
    AgentsCalledOnce
    CommittedIsDurable
    FinalOnReviewedOutput
PROPERTIES
    UncertainIsFinal
CHECK_DEADLOCK FALSE
