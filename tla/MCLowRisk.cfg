SPECIFICATION Spec
CONSTANTS
    Workers = {w1}
    Copies <- CopiesInstance
    MaxRepairs = 1
INVARIANTS
    LowRiskSkipsRedTeam
CHECK_DEADLOCK FALSE
