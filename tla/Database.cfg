SPECIFICATION MCSpec
CONSTANTS
    Playlist = {1, 2, 3}
    Asset = {11, 12}
    DayLength = 3
    MaxDepth = 2
    Cap = 2
    Inputs <- MCInputs
    t1 = t1 t2 = t2 n1 = n1 n2 = n2 p1 = p1 None = None
INVARIANTS
    WindowsMeanWhatTheySay
    NoFlipWithoutDeadline
    ExpansionIsDepthFirst
    DownloadHoldsCommits
    CommitsSurvive
    OldLogIsNotReplayed
    NobodyIsLockedOut
\* One download and one restore end every behaviour of the file.
CHECK_DEADLOCK FALSE
