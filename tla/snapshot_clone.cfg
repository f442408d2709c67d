CONSTANTS
    Obj = {1, 2, 3}
    Child <- ChainChild
    Roots = {3}
    Snap = {s1, s2}
SPECIFICATION Spec
INVARIANTS
    PinnedSubtreeStored
CHECK_DEADLOCK FALSE
