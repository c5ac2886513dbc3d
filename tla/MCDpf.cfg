CONSTANTS
    Bits = {0, 1, 2}
    Depth = 3
    Pow <- MCPow
    Expand <- MCExpand
    Hash <- MCHash
    Betas <- MCBetas
SPECIFICATION Spec
INVARIANTS
    TypeOK
    DifferOnPath
    PointFunction
    ProofsAgree
    BatchIsPointwise
CHECK_DEADLOCK FALSE
