--------------------------------- MODULE Reseed ---------------------------------
(***************************************************************************)
(* The seed beside a running server.                                       *)
(*                                                                         *)
(* Every deployment runs the seed (railway:predeploy) while the server of  *)
(* the previous one still answers.  In one transaction it deletes every    *)
(* row, numbers the tables from 1 again and writes the default users,      *)
(* restaurants and comments.  The handlers beside it hold ids they looked  *)
(* up before it committed, and cookies that outlive the users they name.   *)
(*                                                                         *)
(* Of the catalogue this module has the operations whose outcome depends   *)
(* on who is logged in and that insert, delete or show; Catalogue has them *)
(* all, among themselves.                                                  *)
(***************************************************************************)
EXTENDS Accounts, Sequences

CONSTANTS
    SeedUsers,      \* rows of User
    OwnerName,      \* roberto
    SeedComments,   \* one number per restaurant of the file: of its comments
    InitialRows,    \* table -> id -> row: the database before the first request
    InitialIds      \* table -> the last value its sequence has given by then

ASSUME SeedAssumption ==
    /\ IsFiniteSet(SeedUsers) /\ SeedUsers \subseteq Accounts
    /\ \A a, b \in SeedUsers : a # b => ~SameKey("user", a, b)
    /\ \E a \in SeedUsers : a.username = OwnerName
    /\ SeedComments \in Seq(Nat)

\* What the schema says of the tables.
ASSUME InitialAssumption ==
    /\ InitialRows = [t \in Tables |-> InitialRows[t]]
    /\ InitialIds \in [Tables -> Nat]
    /\ \A t \in Tables :
           /\ DOMAIN InitialRows[t] \subseteq 1..InitialIds[t]
           /\ \A i \in DOMAIN InitialRows[t] :
                  /\ InitialRows[t][i] \in RowType(t)
                  /\ \A ref \in References(t, InitialRows[t][i]) :
                         ref[2] \in DOMAIN InitialRows[ref[1]]
           /\ \A i, j \in DOMAIN InitialRows[t] :
                  i # j => ~SameKey(t, InitialRows[t][i], InitialRows[t][j])

VARIABLES
    seed,       \* what the seed does next, or how it ended
    step,       \* the statements of its transaction that are done
    disturbed,  \* whether a request inserted a row while the transaction ran (history)
    newcomers,  \* ids of the users registered after it deleted the users (history)
    overtaken   \* the requests in flight when the transaction committed (history)

seeding == <<seed, step>>
history == <<disturbed, newcomers, overtaken>>
vars == <<db, handlers, seeding, history>>

\* The other ends: a constraint refuses a statement, the five seconds that Prisma
\* gives an interactive transaction are over, the database breaks a deadlock.
Ends == {"committed", "refused", "timedOut", "killed"}

TypeOK ==
    /\ HandlersTypeOK
    /\ \A t \in Tables : \A i \in DOMAIN rows[t] : i \in Ids /\ rows[t][i] \in RowType(t)
    /\ \A t \in Tables : \A i \in DOMAIN fresh[t] : i \in Ids /\ fresh[t][i] \in RowType(t)
    /\ lastId \in [Tables -> Nat]
    /\ \A t \in Tables : dead[t] \subseteq DOMAIN rows[t]
    /\ restarted \in [DOMAIN restarted -> Nat] /\ DOMAIN restarted \subseteq Tables
    /\ seed \in {"idle", "running"} \cup Ends
    /\ step \in Nat
    /\ disturbed \in BOOLEAN /\ newcomers \subseteq Ids /\ overtaken \subseteq Requests

Init ==
    /\ rows = InitialRows
    /\ lastId = InitialIds
    /\ NoTransaction
    /\ HandlersInit
    /\ seed = "idle" /\ step = 0
    /\ disturbed = FALSE /\ newcomers = {} /\ overtaken = {}

-------------------------------------------------------------------------------
(* The catalogue, for the user that the guard found.                       *)

\* CommentsService.create, FavouritesService.create: does the restaurant exist?
LookForRestaurant(p) ==
    /\ \E op \in {"createComment", "createFavourite"} : At(p, op, "handler")
    /\ IF req[p].id \in DOMAIN rows.restaurant THEN Goto(p, "draw") ELSE Answer(p, Says("notFound"))
    /\ Keep
    /\ UNCHANGED db

CreateRestaurant(p) == At(p, "createRestaurant", "handler") /\ Goto(p, "draw") /\ Keep /\ UNCHANGED db

\* GET /restaurants/:id
View(p) ==
    /\ At(p, "view", "handler")
    /\ IF req[p].id \in DOMAIN rows.restaurant
       THEN Answer(p, [status |-> "ok",
                       canEdit |-> /\ user[p] # NoUser
                                   /\ user[p].id = rows.restaurant[req[p].id].ownerId])
       ELSE Answer(p, Says("notFound"))
    /\ Keep
    /\ UNCHANGED db

LookAtComment(p) ==
    /\ At(p, "deleteComment", "handler")
    /\ CASE req[p].id \notin DOMAIN rows.comment -> Answer(p, Says("notFound"))
         [] req[p].id \in DOMAIN rows.comment ->
                IF rows.comment[req[p].id].userId = user[p].id
                THEN Goto(p, "delete") ELSE Answer(p, Says("forbidden"))
    /\ Keep
    /\ UNCHANGED db

DeleteComment(p) ==
    /\ pc[p] = "delete"
    /\ req[p].id \in Live("comment")
    /\ Removed("comment", req[p].id)
    /\ Answer(p, Says("deleted"))
    /\ Keep

\* P2025
DeleteFindsNone(p) ==
    /\ \/ pc[p] = "delete" /\ req[p].id \notin DOMAIN rows.comment
       \/ pc[p] = "blocked" /\ seed = "committed"
    /\ Answer(p, Says("notFound"))
    /\ Keep
    /\ UNCHANGED db

\* The DELETE found a row that the open transaction has deleted.
DeleteBlocks(p) ==
    /\ pc[p] = "delete"
    /\ req[p].id \in dead["comment"]
    /\ Goto(p, "blocked")
    /\ Keep
    /\ UNCHANGED db

\* The transaction rolled back: the row is there.
DeleteUnblocks(p) ==
    /\ pc[p] = "blocked"
    /\ seed \in Ends \ {"committed"}
    /\ Goto(p, "delete")
    /\ Keep
    /\ UNCHANGED db

-------------------------------------------------------------------------------
(* The seed.                                                               *)

\* A mutant: the users are deleted before the restaurants they own.
UsersFirst == <<"favourite", "comment", "reservation", "user", "restaurant">>

DeleteOrder == <<"favourite", "comment", "reservation", "restaurant", "user">>
RestartOrder == <<"favourite", "comment", "reservation", "restaurant", "user">>

\* The statements of the transaction, counted: five deletions, five restarts, the
\* users, and for each restaurant of the file two.
Restarts == Len(DeleteOrder)
Users == Restarts + Len(RestartOrder)
Restaurants == Users + Cardinality(SeedUsers)
End == Restaurants + 2 * Len(SeedComments)

Running(first, last) == seed = "running" /\ step \in first..(last - 1)

Done == step' = step + 1 /\ UNCHANGED <<seed, handlers, history>>

Fails(how) == seed' = how /\ step' = 0 /\ Rollback /\ UNCHANGED <<handlers, history>>

StartSeed ==
    /\ seed = "idle"
    /\ seed' = "running"
    /\ UNCHANGED <<db, handlers, step, history>>

SeedDeletes ==
    LET t == DeleteOrder[step + 1] IN
    /\ Running(0, Restarts)
    /\ IF \E i \in Live(t) : Held(t, i) THEN Fails("refused") ELSE DeleteMany(t) /\ Done

\* ALTER SEQUENCE waits for the INSERTs that have drawn an id and are not done.
SeedWaitsFor(p) ==
    /\ Running(Restarts, Users)
    /\ pc[p] = "insert"
    /\ TableOf(req[p].op) = RestartOrder[step - Restarts + 1]

SeedRestarts ==
    /\ Running(Restarts, Users)
    /\ \A p \in Requests : ~SeedWaitsFor(p)
    /\ RestartSequence(RestartOrder[step - Restarts + 1])
    /\ Done

SeedInserts(t, n, row) ==
    IF FreshCollides(t, n, row) THEN Fails("refused") ELSE InsertFresh(t, n, row) /\ Done

\* Promise.all: in any order.
SeedCreatesUser ==
    /\ Running(Users, Restaurants)
    /\ \E a \in SeedUsers :
           /\ \A i \in DOMAIN fresh.user : fresh.user[i] # a
           /\ SeedInserts("user", 1, a)

\* A mutant: the owner is the user 1.
FirstUser == 1

\* roberto.id
OwnerId == CHOOSE i \in DOMAIN fresh.user : fresh.user[i].username = OwnerName

SeedCreatesRestaurant ==
    /\ Running(Restaurants, End)
    /\ (step - Restaurants) % 2 = 0
    /\ SeedInserts("restaurant", 1, [ownerId |-> OwnerId])

SeedCreatesComments ==
    /\ Running(Restaurants, End)
    /\ (step - Restaurants) % 2 = 1
    /\ SeedInserts("comment", SeedComments[(step - Restaurants + 1) \div 2],
                   [userId |-> OwnerId, restaurantId |-> restarted.restaurant])

SeedCommits ==
    /\ seed = "running" /\ step = End
    /\ seed' = "committed" /\ step' = 0
    /\ Commit
    /\ overtaken' = {p \in Requests : pc[p] \notin {"idle", "done"}}
    /\ UNCHANGED <<handlers, disturbed, newcomers>>

\* Five seconds after it began, Prisma rolls an interactive transaction back.
SeedTimesOut == seed = "running" /\ Fails("timedOut")

SeedProceeds ==
    SeedDeletes \/ SeedRestarts \/ SeedCreatesUser \/ SeedCreatesRestaurant
    \/ SeedCreatesComments \/ SeedCommits

\* An INSERT that waits for the seed while the seed waits for its sequence: the
\* database gives up one of the two.
Deadlocked(p) == SeedWaitsFor(p) /\ InsertBlocked(p)

BreakDeadlock ==
    \E p \in Requests :
        /\ Deadlocked(p)
        /\ \/ Fails("killed")
           \/ /\ Answer(p, Says("error"))
              /\ Keep
              /\ UNCHANGED <<db, seeding, history>>

-------------------------------------------------------------------------------
Handle(p) ==
    /\ \/ HandleAccount(p)
       \/ LookForRestaurant(p) \/ CreateRestaurant(p) \/ View(p)
       \/ LookAtComment(p) \/ DeleteComment(p) \/ DeleteFindsNone(p)
       \/ DeleteBlocks(p) \/ DeleteUnblocks(p)
    /\ disturbed' = (disturbed \/ (seed = "running" /\ pc[p] = "insert" /\ rows' # rows))
    /\ newcomers' = IF Running(Restarts, End + 1) /\ At(p, "register", "insert") /\ rows' # rows
                    THEN newcomers \cup {drawn[p]} ELSE newcomers
    /\ UNCHANGED <<seeding, overtaken>>

Next ==
    \/ \E p \in Requests :
           \/ Submit(p) /\ UNCHANGED <<seeding, history>>
           \/ Handle(p)
    \/ \E c \in Clients : Expire(c) /\ UNCHANGED <<seeding, history>>
    \/ StartSeed \/ SeedProceeds \/ SeedTimesOut \/ BreakDeadlock

\* The event loop runs every handler on, the seed runs on, and the database
\* looks for deadlocks.  Clients and deployments come and go as they please.
Fairness ==
    /\ \A p \in Requests : WF_vars(Handle(p))
    /\ WF_vars(SeedProceeds)
    /\ WF_vars(BreakDeadlock)

Spec == Init /\ [][Next]_vars /\ Fairness

-------------------------------------------------------------------------------
(* Properties.                                                             *)

\* No two accounts share an email or a username, whatever registrations of one
\* name hash at once, and whether a seed deletes or creates that name meanwhile.
AccountsAreDistinct ==
    \A i, j \in DOMAIN rows.user :
        i # j => /\ rows.user[i].email # rows.user[j].email
                 /\ rows.user[i].username # rows.user[j].username

\* The rows of accounts that registered after the seed had deleted the users: these
\* may write while it runs, and it leaves what they wrote.
Theirs(t) ==
    {i \in DOMAIN rows[t] :
         CASE t = "user" -> i \in newcomers
           [] t = "restaurant" -> rows[t][i].ownerId \in newcomers
           [] OTHER -> rows[t][i].userId \in newcomers}
Others(t) == DOMAIN rows[t] \ Theirs(t)

\* A number that a table gives out again after a seed is free, unless one of those
\* accounts has it: the next id of a table is above every other id in it, whether
\* the seed that restarted the sequence committed or was rolled back.  (What comes
\* of an id that is not free, see ConflictMeansDuplicate.)
FreshIdsAreFree == \A t \in Tables : \A i \in Others(t) : i <= lastId[t]

\* Whatever a row refers to exists, though handlers insert for users and restaurants
\* that a seed deletes at the same time.
ReferencesHold ==
    /\ \A r \in DOMAIN rows.restaurant : rows.restaurant[r].ownerId \in DOMAIN rows.user
    /\ \A t \in {"favourite", "comment", "reservation"} : \A i \in DOMAIN rows[t] :
           /\ rows[t][i].userId \in DOMAIN rows.user
           /\ rows[t][i].restaurantId \in DOMAIN rows.restaurant

\* The whole dataset of the seed, and of what was there before only the accounts
\* that registered after it had deleted the users, and what they wrote.
SeedDataset ==
    LET owner == {i \in Others("user") : rows.user[i].username = OwnerName}
    IN /\ {rows.user[i] : i \in Others("user")} = SeedUsers
       /\ Cardinality(Others("user")) = Cardinality(SeedUsers)
       /\ Others("restaurant") = 1..Len(SeedComments)
       /\ \A r \in Others("restaurant") :
              /\ rows.restaurant[r].ownerId \in owner
              /\ Cardinality({c \in DOMAIN rows.comment : rows.comment[c].restaurantId = r})
                     = SeedComments[r]
       /\ \A c \in Others("comment") : rows.comment[c].userId \in owner
       /\ Others("favourite") = {} /\ rows.reservation = NoRows

\* The seed is seen whole or not at all, however its transaction ends and whatever
\* came between its statements: at its commit the dataset is there, owned by the
\* account named roberto whatever its id, and at no other step of it a row changes.
SeedIsWhole ==
    [][seed' # seed \/ step' # step =>
           IF seed' = "committed" THEN SeedDataset' ELSE UNCHANGED <<rows, lastId>>]_vars

\* The seed stops at a constraint only because a request wrote while it ran: by
\* itself it deletes the rows in an order that the foreign keys allow, and none of
\* the rows it writes is in the way of another.
RefusedOnlyIfDisturbed == seed = "refused" => disturbed

\* What the answer of a request says was done in the name of its client was done for
\* an account with the username that the client logged in as.
InTheirName(p) ==
    LET name == claim[p].username
        named(i) == rows'.user[i].username = name
        a == answer'[p]
    IN CASE "username" \in DOMAIN a -> a.username = name
         [] "canEdit" \in DOMAIN a ->
                a.canEdit => named(rows.restaurant[req[p].id].ownerId)
         [] req'[p].op = "createRestaurant" /\ a.status = "created" ->
                named(rows'.restaurant[drawn[p]].ownerId)
         [] req'[p].op \in {"createComment", "createFavourite"} /\ a.status = "created" ->
                named(rows'[TableOf(req'[p].op)][drawn[p]].userId)
         [] req'[p].op = "deleteComment" /\ a.status = "deleted" ->
                user[p].id \notin newcomers => named(rows.comment[req[p].id].userId)
         [] req'[p].op = "login" /\ a.status = "ok" ->
                LET token == jar'[req[p].client] IN
                rows.user[token.sub].username = token.username
         [] OTHER -> TRUE

\* What a request does in the name of its client it does for an account with the
\* username that the client logged in as, though the ids are handed out again:
\* the account it shows, the restaurant it lets edit, the row it writes or deletes
\* and the token it gives.  Only a request that a seed overtook between its guard
\* and its last statement may meet another account under the id it holds, and only
\* where a comment has a number that is given out again, that of an account which
\* registered while the seed ran, may it be another's by the time it is deleted.
ForTheirUser ==
    [][\A p \in Requests \ overtaken : answer'[p] # answer[p] => InTheirName(p)]_vars

\* A registration is answered 409 only when an account has its email or its
\* username, as the message and the API's documentation of the answer say.
ConflictMeansDuplicate ==
    [][\A p \in Requests :
           /\ answer[p] # answer'[p] /\ answer'[p].status = "conflict"
           /\ req[p].op = "register"
           => \E i \in DOMAIN rows.user : SameKey("user", rows.user[i], req[p].account)]_vars

\* Every request is answered and every seed ends, though they may wait for each other.
EverythingEnds ==
    /\ \A p \in Requests : pc[p] # "idle" ~> pc[p] = "done"
    /\ seed = "running" ~> seed \in Ends
================================================================================
