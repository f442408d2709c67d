CONSTANTS
    Obj = {1, 2, 3, 4, 5, 6}
    Child <- TreeChild
    Roots = {1, 2, 3, 4, 5, 6}
    Crashes = FALSE
    MaxWrites = 12
SPECIFICATION Spec
INVARIANTS
    TypeOK
PROPERTIES
    CommitStored
CHECK_DEADLOCK FALSE
