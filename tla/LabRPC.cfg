SPECIFICATION ClusterFairSpec
CONSTANTS
    k1 = k1 s1 = s1 s2 = s2 ck = ck
    Calls = {k1}
    Ends <- AllEnds
    Servers = {s1, s2}
    Clerks = {ck}
    NoServer = NoServer
    MaxInstances = 2
CHECK_DEADLOCK FALSE
INVARIANTS
    RPCTypeOK
    AckedIsSaved
    LinksSound
PROPERTIES
    CallsReturn
