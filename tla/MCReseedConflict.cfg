\* Two registrations of strangers and one seed.
CONSTANTS
    p1 = p1
    p2 = p2
    c1 = c1
    NoRequest = NoRequest
    NoToken = NoToken
    NoUser = NoUser
    Requests = {p1, p2}
    Clients = {c1}
    Accounts <- MCConflictAccounts
    Asked <- MCRegistrations
    OldTokens <- MCNoTokens
    SeedUsers <- MCSeedUsers
    OwnerName = "roberto"
    SeedComments <- MCSeedComments
    InitialRows <- MCSeededRows
    InitialIds <- MCSeededIds
SPECIFICATION Spec
CHECK_DEADLOCK FALSE
PROPERTY ConflictMeansDuplicate
