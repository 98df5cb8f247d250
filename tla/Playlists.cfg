SPECIFICATION MCSpec
CONSTANTS
    Default = Default
    None = None
    Playlist = {Default, p1, p2, p3}
    Nested = {n1}
    Asset = {a1, a2}
    Request = {r1, r2}
    Worker = {r1, r2}
    MaxDepth = 3
    MaxRequests = 6
    MayRestart = TRUE
    MaxListed = 2
    MaxEdits = 3
    Alone = 1
SYMMETRY Symmetric
INVARIANTS
    SerialEditsStayScheduled
PROPERTIES
    NestTakesOnlyFromSchedule
    AskedOrderIsKept
\* The bound on requests ends every behaviour.
CHECK_DEADLOCK FALSE
