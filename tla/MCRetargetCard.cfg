SPECIFICATION LiveSpec
CONSTANTS
    Worker = {w1}
    NoWorker = NoWorker
    MaxTry = 2
    MaxAttempts = 1
    MaxPull = 2
    MaxCrash = 1
INVARIANTS
    OneEffectivePost
    UnsentIsUnsent
    SuccessIsReal
PROPERTIES
    CardSettles
CHECK_DEADLOCK FALSE
