SPECIFICATION MCSpec
CONSTANTS
    None = None Pid = {1, 2} MaxAttempts = 2 MaxCrashes = 4
    Chunks = 3 Retries = 2 MaxMishaps = 5
    Adapter = {0, 1} MaxCommands = 2 MaxUnrest = 2
    Socket = {s1}
    Writer = {w1, w2}
    MaxChanges = 2
    MaxFrames = 1
    MaxHandshakes = 2
INVARIANTS
    NoFrameAfterRevocation
    ReportIsTrue
    OnlyViewersAreSignalled
    HandleOwnsName
PROPERTIES
    RevocationSparesReconnects
    OutcomeIsHonest
\* The bounds on saves, frames, connections and faults end every behaviour.
CHECK_DEADLOCK FALSE
SYMMETRY Symmetric
