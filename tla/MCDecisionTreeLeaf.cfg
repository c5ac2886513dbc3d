CONSTANTS
    MaxNodes = 7
    Samples <- MCPure
SPECIFICATION Spec
INVARIANT
    WalkEndsAtLeaf
CHECK_DEADLOCK FALSE
