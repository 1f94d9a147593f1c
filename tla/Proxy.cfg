SPECIFICATION ProxyFairSpec
CONSTANTS
    c1 = c1 c2 = c2 c3 = c3
    Conns = {c1, c2, c3}
    MaxConnections = 2
    Requests <- EveryHost
    Registered = {"GET"}
    Statuses = {200, 400, 500, 501}
    NoRequest = NoRequest
    Origin = Origin
    Closed = Closed
    NoPeer = NoPeer
CHECK_DEADLOCK FALSE
INVARIANTS
    ProxyTypeOK
    SlotsMatch
    ConnectionLimit
    OutgoingLimit
PROPERTIES
    StarvedOnlyByStuck
