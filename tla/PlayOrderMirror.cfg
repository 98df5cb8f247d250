SPECIFICATION Spec
CONSTANTS
    None = None
    Asset = {a1, a2}
    Nested = {}
    Worker = {w1}
    MaxListed = 2
    MaxEdits = 3
    Alone = 3
PROPERTIES
    OrderReachesSchedule
\* The bound on requests ends every behaviour.
CHECK_DEADLOCK FALSE
