SPECIFICATION Spec
CONSTANTS
    N = 3
    Versions = {1, 2, 3}
    First <- Missing
    Faults = {"io"}
INVARIANTS OneVersion
CHECK_DEADLOCK FALSE
