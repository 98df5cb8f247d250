SPECIFICATION MCSpec
CONSTANTS
    None = None Blank = Blank Video = Video
    Page = {p1, p2}
    Image = {i1, i2}
    MaxRequests = 3
    MaxFaults = 1
    Clip = {c1, c2}
    MaxPlays = 3
    MaxQueued = 2
    MaxErrors = 2
    MaxShows = 2
    MaxResets = 1
    MaxMishaps = 1
    Cap = 3
    MaxPlugs = 3
    MaxUpsets = 3
    MaxMoves = 2
    MaxOutages = 2
INVARIANT RestartsAreCapped
PROPERTIES
    SplashShowsOwnAddress
    ScreenFollows
    LateAnswersAreDropped
    PlayersKeepPromise
\* The bounds on requests and plays end the behaviours of every part.
CHECK_DEADLOCK FALSE
