SPECIFICATION Spec
CONSTANTS
    Default = Default
    Playlist = {Default, p1, p2, p3}
    Request = {r1, r2}
    MaxDepth = 8
    MaxRequests = 5
    MayRestart = FALSE
INVARIANTS
    Acyclic
\* The bound on requests ends every behaviour.
CHECK_DEADLOCK FALSE
