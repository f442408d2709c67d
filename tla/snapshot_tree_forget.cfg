CONSTANTS
    Obj = {1, 2, 3, 4, 5}
    Child <- TreeChild
    Roots = {5}
    Snap = {s1}
SPECIFICATION Spec
INVARIANTS
    NoFault
CHECK_DEADLOCK FALSE
