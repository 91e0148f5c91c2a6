SPECIFICATION Spec
CONSTANTS
    N = 3
    Versions = {1, 2, 3}
    First = 1
    Faults = {"crash", "io", "delete"}
INVARIANTS NothingLost InstalledIsComplete
CHECK_DEADLOCK FALSE
