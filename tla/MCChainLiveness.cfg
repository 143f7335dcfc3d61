SPECIFICATION Spec
CONSTANTS
    Calls = {c1, c2}
    Hashes = {h1}
    Blocks = {b1, b2}
    NoHash = NoHash
    NoBlock = NoBlock
    MinConfirmations = 1
    FinalDepth = 2
    MaxOutages = 1
PROPERTY FinalIsConfirmed
CHECK_DEADLOCK FALSE
