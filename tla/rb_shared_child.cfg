CONSTANTS
    Obj = {1, 2, 3, 4}
    Child <- SharedChild
    Roots = {4}
    Crashes = FALSE
    MaxWrites = 12
SPECIFICATION Spec
INVARIANTS
    SanityCheck
CHECK_DEADLOCK FALSE
