SPECIFICATION Spec
CONSTANTS
    Clients = {c1, c2}
    MaxRequests = 2
    WindowMs = 2
    PenaltyMs = 4
    SecondMs = 3
    MaxClock = 7
SYMMETRY Symmetry
INVARIANTS
    TypeOK
    BurstBound
    RetryAfterIsExact
PROPERTIES
    PenaltyIsExact
    PenaltyIsEarned
CHECK_DEADLOCK FALSE
