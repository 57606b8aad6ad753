CONSTANTS
    tick = tick
    hand = hand
    lever = lever
    combo = combo
    Procs = {tick, hand}
    Topics = {lever, combo}
    Urgent = {combo}
    Protected = {combo}
    MaxAttempts = 2
    MaxTasks = 2
    MaxSeeds = 1
    MaxDispatches = 2
    MaxEdits = 1
    MaxPicks = 3
SYMMETRY EitherProcess
SPECIFICATION Spec
CHECK_DEADLOCK FALSE
INVARIANTS
    TypeOK
    MergedOnce
    CommitsRecorded
    MergedIsOnMaster
    AttemptsBound
