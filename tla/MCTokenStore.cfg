SPECIFICATION Spec
CONSTANTS
    c1 = c1
    c2 = c2
    p1 = p1
    p2 = p2
    Caller <- MCCaller
    Page <- MCPage
    App = {"x", "y"}
    MaxRev = 4
    MaxFault = 1
SYMMETRY Symmetric
INVARIANTS
    LatestChoiceStands
    GrantKept
    EvidenceFollowsGrant
    ClearedMeansDetached
PROPERTIES
    WorkingTokenKept
