CONSTANTS
    sweep = sweep
    follow = follow
    none = none
    Items = {sweep, follow}
    Handed = {follow}
    Commanded = {sweep, follow}
    Needs <- NeedsSweep
    Unparsed = {sweep}
    RetryMax = 2
    NoItem = none
    MaxRuns = 2
    MaxIngests = 0
    MaxFaults = 2
SPECIFICATION Spec
PROPERTIES
    DeathsRecorded
