SPECIFICATION Spec
CONSTANTS
    Account = account
    Plan = {p}
    N = 2
    MaxTrouble = 2
INVARIANTS
    CoverageIsRead
    PhasesAreKept
PROPERTIES
    CoverageOnlyGrows
CHECK_DEADLOCK FALSE
