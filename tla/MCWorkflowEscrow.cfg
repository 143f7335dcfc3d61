SPECIFICATION Spec
CONSTANTS
    Tasks = {t1, t2}
    Refs = {r1, r2}
    Nodes = {n1, n2}
    Workflows = {w1}
    Accounts = {alice, platform}
    Arbiter = platform
    Treasury = platform
    NoOne = NoOne
    NoRef = NoRef
    NoWorkflow = NoWorkflow
    Budgets = {20}
    Stakes = {1}
    Shares = {1, 2}
    InitialFunds = 22
    FeePercent = 6
    TotalShare = 3
    MaxVersion = 1
INVARIANTS
    EscrowSolvent
    FullAcceptanceCoversEveryNode
PROPERTIES
    KeepsPromise
SYMMETRY Symmetry
CHECK_DEADLOCK FALSE
