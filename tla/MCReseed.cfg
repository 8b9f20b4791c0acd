\* Two requests and one seed, from every assortment of cookies.
CONSTANTS
    p1 = p1
    p2 = p2
    c1 = c1
    NoRequest = NoRequest
    NoToken = NoToken
    NoUser = NoUser
    Requests = {p1, p2}
    Clients = {c1}
    Accounts <- MCAccounts
    Asked <- MCAsked
    OldTokens <- MCOldTokens
    SeedUsers <- MCSeedUsers
    OwnerName = "roberto"
    SeedComments <- MCSeedComments
    InitialRows <- MCInitialRows
    InitialIds <- MCInitialIds
SPECIFICATION Spec
CHECK_DEADLOCK FALSE
INVARIANTS
    TypeOK
    AccountsAreDistinct
    FreshIdsAreFree
    ReferencesHold
    RefusedOnlyIfDisturbed
PROPERTIES
    SeedIsWhole
    ForTheirUser
    EverythingEnds
