SPECIFICATION Spec
CONSTANTS
    w1 = w1 w2 = w2 w3 = w3 m1 = m1 m2 = m2 d1 = d1 d2 = d2 a1 = a1 a2 = a2
    MapTasks = {m1, m2}
    NReduce = 2
    Addresses = {a1, a2}
    NoAddress = NoAddress
    NoTask = NoTask
    Workers = {w1, w2}
    Dirs = {d1, d2}
    Dir <- TwoDirs
    Addr <- TwoAddrs
    NLines = 1
    FaultKinds = {"app", "restart"}
    MaxFaults = 1
    Slow <- NoTasks
INVARIANTS
    OutputsCorrectAtExit
