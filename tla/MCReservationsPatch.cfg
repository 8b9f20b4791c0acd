SPECIFICATION Spec
CONSTANTS
    u1 = u1
    u2 = u2
    r1 = r1
    r2 = r2
    d1 = d1
    EmptySettings = EmptySettings
    NoRestaurant = NoRestaurant
    NoRequest = NoRequest
    Requests = {p1, p2, p3}
    Users = {u1, u2}
    Restaurants = {r1}
    Dates <- MCDates
    Times <- MCTimes
    MaxPartySize = 2
    Settings <- CapacityOnly
    MalformedSettings <- NoSettings
    CreateRequests <- LunchRequests
    ByIdRequests <- CancelRequests
    MaxAttempts = 2
    SlotStart <- MCSlotStart
    MaxClock = 0
    Faults = FALSE
SYMMETRY Symmetry
PROPERTY AdmittedUnderCurrentSettings
CHECK_DEADLOCK FALSE
