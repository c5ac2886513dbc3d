CONSTANTS
    Bits = {0}
    MaxOps = 3
    Operands = {1, 2}
    Inputs <- MCInputs
    Streams <- MCStreams
    BuffSize = 2
SPECIFICATION FairSpec
INVARIANTS
    MatchesLockstep
    SharesHoldValue
    RevealsValue
    AtMostTwoAhead
PROPERTIES
    NobodyWaitsForever
CHECK_DEADLOCK FALSE
