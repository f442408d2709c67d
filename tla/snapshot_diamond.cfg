CONSTANTS
    Obj = {1, 2, 3, 4}
    Child <- DiamondChild
    Roots = {4}
    Snap = {s1}
SPECIFICATION Spec
INVARIANTS
    NoFault
CHECK_DEADLOCK FALSE
