SPECIFICATION Spec
CONSTANTS
    MaxFault = 1
    MaxWorld = 1
    MaxAsk = 1
    MaxFence = 10
PROPERTIES
    LeaseSurvivesRequest
