CONSTANTS
    Width = 5
    Prompt = TRUE
    Registers <- MCRegisters
    Programs <- MCPrograms
    Circuits <- MCCircuits
    Starts <- MCStarts
    Prf <- MCPrf
SPECIFICATION FairSpec
INVARIANTS
    RegistersHoldValue
    PadsPair
    NoWireReadEarly
PROPERTIES
    EveryoneFinishes
CHECK_DEADLOCK FALSE
