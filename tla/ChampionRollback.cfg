CONSTANTS
    Aucs = {55, 57}
    Levels <- MCLevels
    FirstAuc = 54
    MinAuc = 53
    MinImprovement = 2
    LegacyCap = 53
    Tolerance = 2
    KeepBackups = 3
    MaxModels = 4
    MaxBackups = 4
    MaxCrashes = 0
SPECIFICATION Spec
CHECK_DEADLOCK FALSE
PROPERTIES
    RollbackRestores
