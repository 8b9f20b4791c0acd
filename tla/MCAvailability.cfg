\* Two creations and a cancellation, and a view of the day.
SPECIFICATION AvailabilitySpec
CONSTANTS
    u1 = u1
    u2 = u2
    r1 = r1
    r2 = r2
    d1 = d1
    EmptySettings = EmptySettings
    NoRestaurant = NoRestaurant
    NoRequest = NoRequest
    Requests = {p1, p2, p3}
    Views = {v1}
    Queries <- MCQueries
    NoQuery = NoQuery
    DayEnd <- MCDayEnd
    ServerOffset = 0
    Users = {u1, u2}
    Restaurants = {r1}
    Dates <- MCDates
    Times <- MCTimes
    MaxPartySize = 2
    Settings <- OneSettings
    MalformedSettings <- MCMalformedSettings
    CreateRequests <- PartiesOfOne
    ByIdRequests <- CancelFirst
    MaxAttempts = 2
    SlotStart <- MCDaySlotStart
    MaxClock = 1
    Faults = FALSE
INVARIANT ViewsTypeOK
PROPERTIES
    ShownSlotsAreTrue
    EveryRequestAnswered
    EveryViewAnswered
CHECK_DEADLOCK FALSE
