SPECIFICATION Spec
CONSTANTS
    Bits16 = 2
    Bits32 = 3
    Unparsable = Unparsable
    Inputs <- MCInputs
CHECK_DEADLOCK FALSE
INVARIANTS
    AcceptedAsGiven
    PrintedFileKeepsSettings
