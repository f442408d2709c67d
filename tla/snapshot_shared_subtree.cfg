CONSTANTS
    Obj = {1, 2, 3, 4}
    Child <- SharedChild
    Roots = {3, 4}
    Snap = {s1, s2}
SPECIFICATION Spec
INVARIANTS
    PinnedSubtreeStored
CHECK_DEADLOCK FALSE
