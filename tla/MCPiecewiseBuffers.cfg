CONSTANTS
    Width = 5
    Prompt = FALSE
    Registers <- MCRegisters
    Programs <- MCPrograms
    Circuits <- MCCircuits
    Starts <- CircuitStarts
    Prf <- MCPrf
SPECIFICATION Spec
INVARIANTS
    SentAsComputed
CHECK_DEADLOCK FALSE
