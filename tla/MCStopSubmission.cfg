SPECIFICATION Spec
CONSTANTS
    Worker = {w1, w2}
    NoWorker = NoWorker
    Cycle = {c1}
    Card = {d1}
    NoCard = NoCard
    CycleOf <- SharedCycle
    MaxTry = 2
    MaxAttempts = 2
    MaxCrash = 1
    MaxSlow = 1
SYMMETRY Symmetry
INVARIANTS
    PostOnce
    FailedMeansRefused
    OneStopPerCycle
PROPERTIES
    EvidenceIsMonotonic
    ImplementsAttempts
