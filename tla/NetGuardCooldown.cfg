CONSTANTS
    cron = cron
    manual = manual
    Procs = {cron, manual}
    DelayOf <- MCDelayOf
    Jitter = 1
    Budget = 2
    Cooldown = 2
    LockTimeout = 1
    DayLength = 4
    StartTime = 5
    MaxTime = 11
SPECIFICATION Spec
CHECK_DEADLOCK FALSE
PROPERTIES
    CooldownHeld
