SPECIFICATION LiveSpec
CONSTANTS
    Worker = {w1}
    NoWorker = NoWorker
    MaxTry = 1
    MaxAttempts = 1
    MaxPull = 1
    MaxCrash = 0
PROPERTIES
    VerdictReachesCard
CHECK_DEADLOCK FALSE
