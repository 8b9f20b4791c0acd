SPECIFICATION Spec
CONSTANTS
    u1 = u1
    u2 = u2
    n1 = n1
    n2 = n2
    b1 = b1
    b2 = b2
    NoRequest = NoRequest
    Requests = {p1, p2, p3}
    Users = {u1, u2}
    Names = {n1, n2}
    Bodies = {b1, b2}
    Ratings <- MCRatings
    Asked <- MCAsked
    SeededRestaurants <- MCRestaurants
    SeededComments <- MCComments
    SeededFavourites <- MCFavourites
SYMMETRY Symmetry
INVARIANTS
    TypeOK
    ReferentialIntegrity
    AnswersWereTrue
    ShownNumbersWereTrue
    ErrorsMeanGone
    LedgerBalances
PROPERTIES
    OnlyOwnersChange
    PatchesMerge
CHECK_DEADLOCK FALSE
