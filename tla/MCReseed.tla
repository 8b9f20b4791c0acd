-------------------------------- MODULE MCReseed --------------------------------
EXTENDS Reseed

CONSTANTS p1, p2, c1

Person(name, email) ==
    [username |-> name, email |-> email, passwordHash |-> "12345"]

MCOwner == Person("roberto", "roberto@example.com")
MCSeedUsers == {MCOwner, Person("aida", "aida@example.com")}
\* One who is new, and one who asks for roberto's name.
MCNewcomers ==
    {Person("dora", "dora@example.com"),
     [username |-> "roberto", email |-> "r@example.com", passwordHash |-> "54321"]}
MCRegistered == Person("carla", "carla@example.com")
MCAccounts == MCSeedUsers \cup MCNewcomers \cup {MCRegistered}

\* dora had an account before the last seed, and her browser has its cookie still.
MCOldTokens == {[sub |-> 4, username |-> "dora"]}

\* An earlier seed created aida first; carla has registered since and commented.
MCInitialRows ==
    [user |-> <<Person("aida", "aida@example.com"), MCOwner, MCRegistered>>,
     restaurant |-> <<[ownerId |-> 2]>>,
     comment |-> <<[userId |-> 3, restaurantId |-> 1]>>,
     favourite |-> <<[userId |-> 3, restaurantId |-> 1]>>,
     reservation |-> <<[userId |-> 1, restaurantId |-> 1]>>]
\* A comment has been deleted since that seed.
MCInitialIds ==
    [user |-> 3, restaurant |-> 1, comment |-> 2, favourite |-> 1, reservation |-> 1]
MCSeedComments == <<1>>

MCAsked ==
    [op : {"register"}, client : {c1}, account : MCNewcomers]
    \cup {[op |-> "login", client |-> c1, username |-> a.username, password |-> a.passwordHash] :
              a \in MCNewcomers}
    \cup [op : Guarded \cup {"view"}, client : {c1}, id : {1}]

\* Two who are new to a database that was seeded and not used since.
MCSeededRows ==
    [user |-> <<Person("aida", "aida@example.com"), MCOwner>>,
     restaurant |-> <<[ownerId |-> 2]>>,
     comment |-> <<[userId |-> 2, restaurantId |-> 1]>>,
     favourite |-> <<>>,
     reservation |-> <<>>]
MCSeededIds == [t \in Tables |-> Len(MCSeededRows[t])]
MCNoTokens == {}
MCStrangers == {Person("dora", "dora@example.com"), Person("emil", "emil@example.com")}
MCConflictAccounts == MCAccounts \cup MCStrangers
MCRegistrations == [op : {"register"}, client : {c1}, account : MCStrangers]
================================================================================
