SPECIFICATION LiveSpec
CONSTANTS
    N = 2
    MaxFault = 2
    MaxAsk = 3
    MaxResume = 3
INVARIANTS
    QuietWhenStopped
PROPERTIES
    DeadIsRevived
    StopReturns
