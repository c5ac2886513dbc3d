CONSTANTS
    Bits = {0, 1, 2, 3}
    Width = 4
    Stride = 12
    Triples <- MCTriples
    IndexBits = {0, 1, 2}
    FssR <- MCFssR
    FssK <- MCFssK
    Depth = 2
    Starts <- MCStarts
    Masks <- MCMasks
    Times <- MCTimes
SPECIFICATION WalkSpec
INVARIANTS
    BlocksCompared
    TriplesUsedOnce
    WalksPlainTree
    SelectsInBounds
    HonestChecksPass
PROPERTIES
    ImplementsTravelTree
CONSTRAINTS
    FirstComparison
CHECK_DEADLOCK FALSE
