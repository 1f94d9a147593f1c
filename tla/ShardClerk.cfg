SPECIFICATION ShardFairSpec
CONSTANTS
    ck = ck mck = mck v = v
    Clerks = {ck, mck}
    KvClerks = {ck}
    NCtrlers = 2
    Gids = {1, 2}
    NServers <- Sizes
    Values = {v}
    NoValue = NoValue
    MaxNum = 2
    Asked <- Plan
    MaxLate = 1
CHECK_DEADLOCK FALSE
INVARIANTS
    ResultsAreReal
PROPERTIES
    ClerksReturn
