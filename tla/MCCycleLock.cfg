CONSTANTS
    p1 = p1
    p2 = p2
    p3 = p3
    none = none
    shell = shell
    Pids = {p1, p2, p3}
    NoPid = none
    Hands = {}
    Overtaking = FALSE
    MaxReboots = 1
SPECIFICATION Spec
CHECK_DEADLOCK FALSE
INVARIANTS
    TypeOK
    OneExperiment
    NoneKilled
PROPERTIES
    LockFreed
