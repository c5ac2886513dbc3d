CONSTANTS
    NumDpf = 2
    Cap = 1
    NumLeaves = 16
    Spoils <- MCSpoils
SPECIFICATION FairSpec
INVARIANTS
    HoldersMatch
    CheckSeesFirstSixteenth
PROPERTIES
    EveryoneFinishes
CHECK_DEADLOCK FALSE
