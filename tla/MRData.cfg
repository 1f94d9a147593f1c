SPECIFICATION DataSpec
CONSTANTS
    Keys = {1, 2, 3}
    NFiles = 2
    MaxWords = 2
    HashOf = {0, 1, 2}
    NReduce = 2
CHECK_DEADLOCK FALSE
INVARIANTS
    SameAsSequential
