SPECIFICATION FairSpec
CONSTANTS
    Worker = {1, 2}
    Kinds = {"convert", "downscale", "probe", "download"}
    Threshold = 1
    SweepAge = 1
    MaxQueue = 1
    MaxFaults = 1
INVARIANTS
    ReadyRowHasItsFile
    UploadOutlivesCrashes
PROPERTIES
    SweepSparesReferenced
    FinishedStaysFinished
    UploadSettles
