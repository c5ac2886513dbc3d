CONSTANTS
    MaxNodes = 11
    Samples <- MCPure
SPECIFICATION Spec
INVARIANTS
    WalkEndsAtLeafOrParent
    LabelIsClassification
    RowsLeadToRows
CHECK_DEADLOCK FALSE
