SPECIFICATION Spec
CONSTANTS
    None = None
    Inputs <- MCInputs
    Second = 3
    Half = 1024
INVARIANTS
    PrecedenceHolds
    ConfigFileHonoured
    PanicIsMeant
    FailedStartKeepsFile
