SPECIFICATION MCSpec
CONSTANTS
    MaxJob = 2
    MaxTime = 5
    Limits = {2, 3}
    Skew = 1
    Asset = {a1}
    Way = {checked, unchecked}
    Worker = {w1, w2} w1 = w1
    Soft = 1 Hard = 2 Slack = 1
    Debounce = 1 Cooldown = 1
    MaxEdits = 0 MaxFaults = 1
INVARIANTS
    GenuineLimitIsHonoured
    StaleSignalSparesTheRunningJob
    NoRivalSweep
PROPERTIES
    VerdictSettles
\* The bounds on jobs and time end the guard's behaviours.
CHECK_DEADLOCK FALSE
