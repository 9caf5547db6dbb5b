SPECIFICATION LiveSpec
CONSTANTS
    Worker = {w1}
    NoWorker = NoWorker
    Cycle = {c1}
    Card = {d1}
    NoCard = NoCard
    CycleOf <- SharedCycle
    MaxTry = 1
    MaxAttempts = 2
    MaxCrash = 1
    MaxSlow = 0
PROPERTIES
    IntentSettles
    ProjectionDrains
    CardsEnd
