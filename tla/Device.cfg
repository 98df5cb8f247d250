SPECIFICATION MCSpec
CONSTANTS
    lan = lan ap = ap Missing = Missing
    Command = {"next", "previous", "reload"}
    NeedsScheduler = {"previous"}
    InitialDelay = 1
    MaxDelay = 3
    MaxQueue = 2
    MaxOutages = 3
    MaxMessages = 3
INVARIANT FailingOnlyIfHurt
PROPERTIES
    DeviceFollows
    WarningIsHonest
\* With the bounds used up the subscriber waits for the next message.
CHECK_DEADLOCK FALSE
