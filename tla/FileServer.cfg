SPECIFICATION FileSpec
CONSTANTS
    c1 = c1 c2 = c2 b0 = b0 b1 = b1 b2 = b2
    Conns = {c1, c2}
    MaxConnections = 2
    Requests <- Mixed
    Registered = {"GET", "POST"}
    Statuses = {200, 201, 400, 404, 500, 501}
    NoRequest = NoRequest
    TextNames <- Texts
    DotNames <- Dots
    Segments <- EverySegment
    Paths <- EveryPath
    Directories <- Dirs
    FirstFiles <- First
    Bodies = {b0, b1, b2}
    FirstBody = b0
    NoBody = NoBody
    NChunks = 1
    OSErrors = {400, 404, 500}
    Deaths = {"process", "machine"}
SYMMETRY ConnSymmetry
INVARIANTS
    FileTypeOK
    TempsRemoved
    PathsSound
PROPERTIES
    ImplementsStore
