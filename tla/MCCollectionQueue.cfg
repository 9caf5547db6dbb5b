SPECIFICATION LiveSpec
CONSTANTS
    MaxFault = 1
    MaxWorld = 1
    MaxAsk = 1
    MaxFence = 10
INVARIANTS
    RequestIsNotSwallowed
PROPERTIES
    NeverBackwards
    CommitsAsAuthorized
    CatchesUp
