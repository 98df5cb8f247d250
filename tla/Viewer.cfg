SPECIFICATION MCSpec
CONSTANTS
    None = None
    p1 = p1 p2 = p2 h1 = h1 h2 = h2 h3 = h3 i1 = i1
    Page = {p1, p2}
    Image = {i1}
    NoCache = {p2}
    Header = {h1, h2, h3}
    Owner <- MCOwner
    Rotations <- MCRotations
    Binaries = {TRUE, FALSE}
    MaxAttempts = 2
    MaxFaults = 2
    MaxEdits = 2
    Shown = {"image", "clip", "lost"}
    Clips = {"clip"}
    Lost = {"lost"}
    Loops = 2
    MaxCommands = 3
INVARIANTS
    SkippedLoadIsOnScreen
    FlagsAgree
PROPERTY ViewerFollows
\* A paused loop with no command left is at rest.
CHECK_DEADLOCK FALSE
