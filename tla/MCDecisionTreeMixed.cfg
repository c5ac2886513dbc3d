CONSTANTS
    MaxNodes = 5
    Samples <- MCMixed
SPECIFICATION Spec
INVARIANT
    LabelIsClassification
CHECK_DEADLOCK FALSE
