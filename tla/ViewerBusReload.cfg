SPECIFICATION FairSpec
CONSTANTS
    Command = {"next", "previous", "reload"}
    NeedsScheduler = {"previous"}
    InitialDelay = 1
    MaxDelay = 3
    MaxQueue = 2
    MaxOutages = 3
    MaxMessages = 3
PROPERTY ReloadReachesHandler
