CONSTANTS
    Obj = {1, 2, 3}
    Child <- ChainChild
    Roots = {3}
    Crashes = FALSE
    MaxWrites = 12
SPECIFICATION Spec
INVARIANTS
    NoFault
CHECK_DEADLOCK FALSE
