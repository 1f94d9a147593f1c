SPECIFICATION HarnessSpec
CONSTANTS
    NServers = 2
    Commands = {v1, v2}
    MaxIndex = 2
    MaxCrashes = 1
    SnapShotInterval = 2
SYMMETRY CommandSymmetry
CHECK_DEADLOCK FALSE
INVARIANTS
    HarnessTypeOK
    LogsAgree
    OneIsAgreed
    NoFalseAlarm
PROPERTIES
    NothingForgotten
