CONSTANTS
    Obj = {1, 2}
    Child <- LeafChild
    Roots = {1, 2}
    Crashes = TRUE
    MaxWrites = 4
SPECIFICATION Spec
INVARIANTS
    NoFault
CHECK_DEADLOCK FALSE
