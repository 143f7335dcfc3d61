SPECIFICATION SafetySpec
CONSTANTS
    Calls = {c1}
    Hashes = {h1, h2}
    Blocks = {b1, b2}
    NoHash = NoHash
    NoBlock = NoBlock
    MinConfirmations = 2
    FinalDepth = 3
    MaxOutages = 1
INVARIANT ConfirmedBlockStands
SYMMETRY Symmetry
CHECK_DEADLOCK FALSE
