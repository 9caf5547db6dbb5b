SPECIFICATION Spec
CONSTANTS
    N = 2
    MaxFault = 0
    MaxAsk = 2
    MaxResume = 1
PROPERTIES
    UserStopStands
