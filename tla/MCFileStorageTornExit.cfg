SPECIFICATION Spec
CONSTANTS
    r1 = r1
    r2 = r2
    Requests <- One
    NonFinite <- None
    Restore = TRUE
    MaxErrors = 0
    MaxRestarts = 0
INVARIANTS
    ExitFileIntact
