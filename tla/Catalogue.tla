------------------------------- MODULE Catalogue -------------------------------
(***************************************************************************)
(* The catalogue: the handlers that read and write restaurants, comments   *)
(* and favourites, and the three tables they share.                        *)
(*                                                                         *)
(* No handler uses a transaction.  Each looks first (does the restaurant   *)
(* exist, who wrote the comment, has the restaurant relations) and acts in *)
(* a later statement, and every await between the two lets other handlers  *)
(* in.  What holds it together is how the repositories read the errors of  *)
(* the database: P2003 (a foreign key), P2002 (a unique index) and P2025   *)
(* (no row to update or delete).  One action is what a handler does from   *)
(* one await to the next; statements of the database are atomic.           *)
(***************************************************************************)
EXTENDS Integers, FiniteSets

CONSTANTS
    Requests,            \* the HTTP requests to these endpoints
    Users,
    NoRequest,           \* in the place of a request that has not arrived
    Asked,               \* what clients may ask
    Names, Ratings, Bodies,
    SeededRestaurants,   \* the tables before the first request
    SeededComments,
    SeededFavourites

Restaurant == [ownerId : Users, name : Names]
Comment == [userId : Users, restaurantId : Nat \ {0}, rating : Ratings, body : Bodies]
\* A row of Favourite, without the id and the time that nothing here depends on.
Favourite == [userId : Users, restaurantId : Nat \ {0}]

\* The fields a body gives.  Only PATCH may leave some out.
RestaurantChange == UNION {[fs -> Names] : fs \in SUBSET {"name"}}
CommentChange ==
    {c \in UNION {[fs -> Ratings \cup Bodies] : fs \in SUBSET {"rating", "body"}} :
         /\ "rating" \in DOMAIN c => c.rating \in Ratings
         /\ "body" \in DOMAIN c => c.body \in Bodies}

\* The routes: "id" is the restaurant or the comment of the path.
RestaurantRequest ==
    [op : {"createRestaurant", "updateRestaurant", "deleteRestaurant", "viewRestaurant",
           "listRestaurants"}, userId : Users, id : Nat \ {0}, change : RestaurantChange]
CommentRequest ==
    [op : {"listComments", "createComment", "updateComment", "deleteComment"},
     userId : Users, id : Nat \ {0}, change : CommentChange]
FavouriteRequest ==
    [op : {"createFavourite", "deleteFavourite", "listFavourites"}, userId : Users, id : Nat \ {0},
     change : {<<>>}]
Request == RestaurantRequest \cup CommentRequest \cup FavouriteRequest

ASSUME AskedAssumption ==
    /\ Asked \subseteq Request
    /\ NoRequest \notin Request
    /\ \A q \in Asked : /\ q.op = "createRestaurant" => DOMAIN q.change = {"name"}
                        /\ q.op = "createComment" => DOMAIN q.change = {"rating", "body"}
ASSUME RatingsAssumption == Ratings \subseteq Nat \ {0}
ASSUME SeededAssumption ==
    /\ IsFiniteSet(DOMAIN SeededRestaurants) /\ IsFiniteSet(DOMAIN SeededComments)
    /\ SeededRestaurants \in [1..Cardinality(DOMAIN SeededRestaurants) -> Restaurant]
    /\ SeededComments \in [1..Cardinality(DOMAIN SeededComments) -> Comment]
    /\ \A c \in DOMAIN SeededComments :
           SeededComments[c].restaurantId \in DOMAIN SeededRestaurants
    /\ SeededFavourites \subseteq Favourite
    /\ \A f \in SeededFavourites : f.restaurantId \in DOMAIN SeededRestaurants

Statuses ==
    {"pending"}
    \cup {"listed", "shown", "updated"}                    \* 200
    \cup {"created"}                                       \* 201
    \cup {"deleted"}                                       \* 204
    \cup {"emptyUpdate"}                                   \* 400
    \cup {"forbidden"}                                     \* 403
    \cup {"noRestaurant", "noComment", "noFavourite"}      \* 404
    \cup {"hasRelations", "duplicate"}                     \* 409
    \cup {"error"}                                         \* 500

\* What an answer shows of a restaurant.  Its averageRating is total / count, and
\* null when the count is 0.
Shown == [count : Nat, total : Nat, canEdit : BOOLEAN]

\* An answer, with the ids in its body, or with what it shows of each restaurant.
IsAnswer(a) ==
    \/ a \in [status : Statuses, ids : SUBSET (Nat \ {0})]
    \/ /\ a.status = "shown"
       /\ DOMAIN a.shown \subseteq Nat \ {0}
       /\ a.shown \in [DOMAIN a.shown -> Shown]
Says(s) == [status |-> s, ids |-> {}]
SaysIds(s, ids) == [status |-> s, ids |-> ids]
Shows(restaurantsShown) == [status |-> "shown", shown |-> restaurantsShown]

VARIABLES
    restaurants, \* id -> row
    comments,    \* id -> row
    favourites,  \* the set of rows
    reserved,    \* the restaurants that have a reservation
    lastId,      \* the sequences that number restaurants and comments
    req,         \* request -> what the client asked, or NoRequest
    pc,          \* request -> the await its handler is at
    wanted,      \* request -> the restaurants of the favourites it has read
    counted,     \* request -> the restaurants it has read, with owner and _count
    answer,      \* request -> its answer
    truths,      \* request -> the answers that were true while it ran (history)
    torn         \* request -> whether what it had read changed before it was done (history)

tables == <<restaurants, comments, favourites, reserved, lastId>>
reading == <<wanted, counted>>
vars == <<tables, req, pc, reading, answer, truths, torn>>

TypeOK ==
    /\ DOMAIN restaurants \subseteq 1..lastId.restaurant
    /\ restaurants \in [DOMAIN restaurants -> Restaurant]
    /\ DOMAIN comments \subseteq 1..lastId.comment
    /\ comments \in [DOMAIN comments -> Comment]
    /\ favourites \subseteq Favourite
    /\ reserved \subseteq 1..lastId.restaurant
    /\ lastId \in [restaurant : Nat, comment : Nat]
    /\ req \in [Requests -> Request \cup {NoRequest}]
    /\ pc \in [Requests -> {"idle", "check", "relations", "write", "rows", "ratings", "done"}]
    /\ wanted \in [Requests -> SUBSET (Nat \ {0})]
    /\ \A p \in Requests :
           counted[p] \in [DOMAIN counted[p] -> [ownerId : Users, count : Nat]]
    /\ \A p \in Requests : \A a \in {answer[p]} \cup truths[p] : IsAnswer(a)
    /\ torn \in [Requests -> BOOLEAN]

Init ==
    /\ restaurants = SeededRestaurants
    /\ comments = SeededComments
    /\ favourites = SeededFavourites
    /\ reserved = {}
    /\ lastId = [restaurant |-> Cardinality(DOMAIN SeededRestaurants),
                 comment |-> Cardinality(DOMAIN SeededComments)]
    /\ req = [p \in Requests |-> NoRequest]
    /\ pc = [p \in Requests |-> "idle"]
    /\ answer = [p \in Requests |-> Says("pending")]
    /\ wanted = [p \in Requests |-> {}]
    /\ counted = [p \in Requests |-> <<>>]
    /\ truths = [p \in Requests |-> {}]
    /\ torn = [p \in Requests |-> FALSE]

-------------------------------------------------------------------------------
(* What the statements of the database do.                                 *)

RestaurantExists(id) == id \in DOMAIN restaurants
CommentExists(id) == id \in DOMAIN comments

\* A mutant: the fields that the PATCH leaves out are reset.
MergeOrReset(row, change) ==
    [f \in DOMAIN row |-> IF f \in DOMAIN change THEN change[f]
                          ELSE IF f = "body" THEN CHOOSE b \in Bodies : TRUE
                          ELSE row[f]]

\* UPDATE sets the columns the body gives and leaves the others as they are.
Merge(row, change) ==
    [f \in DOMAIN row |-> IF f \in DOMAIN change THEN change[f] ELSE row[f]]

Without(table, id) == [i \in DOMAIN table \ {id} |-> table[i]]

CommentsOf(id) == {c \in DOMAIN comments : comments[c].restaurantId = id}

Favourited(id) == \E f \in favourites : f.restaurantId = id

\* A mutant: the favourites are removed with their restaurant.
ReferencedButByFavourites(id) == CommentsOf(id) # {} \/ id \in reserved

\* ON DELETE RESTRICT: a restaurant that rows refer to is not deleted (P2003).
Referenced(id) == CommentsOf(id) # {} \/ Favourited(id) \/ id \in reserved

-------------------------------------------------------------------------------
(* Steps of a handler.                                                     *)

At(p, op, l) == pc[p] = l /\ req[p].op = op

Answer(p, a) ==
    /\ answer' = [answer EXCEPT ![p] = a]
    /\ pc' = [pc EXCEPT ![p] = "done"]
    /\ UNCHANGED req

Goto(p, l) == pc' = [pc EXCEPT ![p] = l] /\ UNCHANGED <<req, answer>>

\* A look at the tables: the handler goes on or answers, and changes nothing.
Look(p, op, l) == At(p, op, l) /\ UNCHANGED tables

\* A request arrives and its handler runs to its first await.
Submit(p) ==
    \E q \in Asked :
        /\ pc[p] = "idle"
        /\ req' = [req EXCEPT ![p] = q]
        /\ IF q.op = "updateComment" /\ q.change = <<>>
           THEN /\ answer' = [answer EXCEPT ![p] = Says("emptyUpdate")]
                /\ pc' = [pc EXCEPT ![p] = "done"]
           ELSE /\ pc' = [pc EXCEPT ![p] =
                             CASE q.op \in {"createRestaurant", "deleteFavourite"} -> "write"
                               [] q.op \in {"viewRestaurant", "listRestaurants"} -> "rows"
                               [] OTHER -> "check"]
                /\ UNCHANGED answer
        /\ UNCHANGED tables

-------------------------------------------------------------------------------
(* GET /restaurants, /restaurants/:id and /me/favourites.  A restaurant is *)
(* shown with the number and the average of its comments' ratings: Prisma  *)
(* counts them in the statement that reads the restaurant, and reads the   *)
(* ratings in the next one.                                                *)

CountOf(id) == Cardinality(CommentsOf(id))

\* reduce((total, comment) => total + comment.rating, 0): the stars of all comments.
TotalOf(id) == Cardinality(UNION {{c} \X (1..comments[c].rating) : c \in CommentsOf(id)})

\* toRestaurantResponse, now, of a row with its _count.  The list of favourites
\* passes no user on.
ShownOf(q, id, row) ==
    [count |-> row.count,
     total |-> IF row.count = 0 THEN 0 ELSE TotalOf(id),
     canEdit |-> q.op # "listFavourites" /\ row.ownerId = q.userId]

RowOf(id) == [ownerId |-> restaurants[id].ownerId, count |-> CountOf(id)]

FavouritesOf(u) == {f.restaurantId : f \in {f \in favourites : f.userId = u}}

Wanted(p) ==
    CASE req[p].op = "viewRestaurant" -> {req[p].id}
      [] req[p].op = "listRestaurants" -> DOMAIN restaurants
      [] req[p].op = "listFavourites" -> wanted[p]

ReadFavourites(p) ==
    /\ Look(p, "listFavourites", "check")
    /\ wanted' = [wanted EXCEPT ![p] = FavouritesOf(req[p].userId)]
    /\ Goto(p, "rows")
    /\ UNCHANGED counted

\* null: a 404 for the one restaurant; a favourite without its restaurant is
\* nothing that toFavouriteResponse can read.
ReadRestaurantGone(p) ==
    /\ pc[p] = "rows"
    /\ ~(Wanted(p) \subseteq DOMAIN restaurants)
    /\ Answer(p, Says(IF req[p].op = "viewRestaurant" THEN "noRestaurant" ELSE "error"))
    /\ UNCHANGED <<tables, reading>>

ReadRestaurants(p) ==
    /\ pc[p] = "rows"
    /\ Wanted(p) \subseteq DOMAIN restaurants
    /\ counted' = [counted EXCEPT ![p] = [id \in Wanted(p) |-> RowOf(id)]]
    /\ Goto(p, "ratings")
    /\ UNCHANGED <<tables, wanted>>

\* A mutant: the ratings are read without the condition on the restaurant.
ReadAllRatings(p) ==
    /\ pc[p] = "ratings"
    /\ LET total == Cardinality(UNION {{c} \X (1..comments[c].rating) : c \in DOMAIN comments})
       IN  Answer(p, Shows([id \in DOMAIN counted[p] |->
                                [ShownOf(req[p], id, counted[p][id]) EXCEPT !.total = total]]))
    /\ UNCHANGED <<tables, reading>>

ReadRatings(p) ==
    /\ pc[p] = "ratings"
    /\ Answer(p, Shows([id \in DOMAIN counted[p] |-> ShownOf(req[p], id, counted[p][id])]))
    /\ UNCHANGED <<tables, reading>>

-------------------------------------------------------------------------------
(* POST, PATCH and DELETE /restaurants.                                    *)

CreateRestaurant(p) ==
    LET id == lastId.restaurant + 1 IN
    /\ At(p, "createRestaurant", "write")
    /\ restaurants' = [i \in DOMAIN restaurants \cup {id} |->
                          IF i = id THEN [ownerId |-> req[p].userId,
                                          name |-> req[p].change.name]
                          ELSE restaurants[i]]
    /\ lastId' = [lastId EXCEPT !.restaurant = id]
    /\ Answer(p, SaysIds("created", {id}))
    /\ UNCHANGED <<comments, favourites, reserved>>

OwnsRestaurant(p) == restaurants[req[p].id].ownerId = req[p].userId

\* findExisting, and what update and delete do with the row they find.
RestaurantMissing(p) ==
    /\ \E op \in {"updateRestaurant", "deleteRestaurant"} : Look(p, op, "check")
    /\ ~RestaurantExists(req[p].id)
    /\ Answer(p, Says("noRestaurant"))

RestaurantForeign(p) ==
    /\ \E op \in {"updateRestaurant", "deleteRestaurant"} : Look(p, op, "check")
    /\ RestaurantExists(req[p].id)
    /\ ~OwnsRestaurant(p)
    /\ Answer(p, Says("forbidden"))

UpdateRestaurantProceeds(p) ==
    /\ Look(p, "updateRestaurant", "check")
    /\ RestaurantExists(req[p].id) /\ OwnsRestaurant(p)
    /\ Goto(p, "write")

UpdateRestaurant(p) ==
    LET id == req[p].id IN
    /\ At(p, "updateRestaurant", "write")
    /\ RestaurantExists(id)
    /\ restaurants' = [restaurants EXCEPT ![id] = Merge(@, req[p].change)]
    /\ Answer(p, Says("updated"))
    /\ UNCHANGED <<comments, favourites, reserved, lastId>>

\* P2025: the repository does not catch it.
UpdateRestaurantGone(p) ==
    /\ Look(p, "updateRestaurant", "write")
    /\ ~RestaurantExists(req[p].id)
    /\ Answer(p, Says("error"))

DeleteRestaurantProceeds(p) ==
    /\ Look(p, "deleteRestaurant", "check")
    /\ RestaurantExists(req[p].id) /\ OwnsRestaurant(p)
    /\ Goto(p, "relations")

\* hasRelations; a restaurant that is gone has none.
HasRelations(p) ==
    /\ Look(p, "deleteRestaurant", "relations")
    /\ IF RestaurantExists(req[p].id) /\ Referenced(req[p].id)
       THEN Answer(p, Says("hasRelations"))
       ELSE Goto(p, "write")

DeleteRestaurant(p) ==
    LET id == req[p].id IN
    /\ At(p, "deleteRestaurant", "write")
    /\ RestaurantExists(id) /\ ~Referenced(id)
    /\ restaurants' = Without(restaurants, id)
    /\ Answer(p, Says("deleted"))
    /\ UNCHANGED <<comments, favourites, reserved, lastId>>

\* P2003: a row has come to refer to the restaurant since hasRelations looked.
DeleteRestaurantReferenced(p) ==
    /\ Look(p, "deleteRestaurant", "write")
    /\ RestaurantExists(req[p].id) /\ Referenced(req[p].id)
    /\ Answer(p, Says("hasRelations"))

\* P2025: rethrown.
DeleteRestaurantGone(p) ==
    /\ Look(p, "deleteRestaurant", "write")
    /\ ~RestaurantExists(req[p].id)
    /\ Answer(p, Says("error"))

-------------------------------------------------------------------------------
(* GET and POST /restaurants/:restaurantId/comments.                       *)

CommentsRestaurantMissing(p) ==
    /\ \E op \in {"listComments", "createComment"} : Look(p, op, "check")
    /\ ~RestaurantExists(req[p].id)
    /\ Answer(p, Says("noRestaurant"))

CommentsRestaurantFound(p) ==
    /\ \E op \in {"listComments", "createComment"} : Look(p, op, "check")
    /\ RestaurantExists(req[p].id)
    /\ Goto(p, "write")

\* A second statement; the restaurant may be gone, and its comments with it.
ListComments(p) ==
    /\ Look(p, "listComments", "write")
    /\ Answer(p, SaysIds("listed", CommentsOf(req[p].id)))

CreateComment(p) ==
    LET id == lastId.comment + 1 IN
    /\ At(p, "createComment", "write")
    /\ RestaurantExists(req[p].id)
    /\ comments' = [i \in DOMAIN comments \cup {id} |->
                       IF i = id THEN [userId |-> req[p].userId, restaurantId |-> req[p].id,
                                       rating |-> req[p].change.rating,
                                       body |-> req[p].change.body]
                       ELSE comments[i]]
    /\ lastId' = [lastId EXCEPT !.comment = id]
    /\ Answer(p, SaysIds("created", {id}))
    /\ UNCHANGED <<restaurants, favourites, reserved>>

\* P2003: CommentRestaurantNotFoundError.  The failed insert uses up an id.
CreateCommentOrphan(p) ==
    /\ At(p, "createComment", "write")
    /\ ~RestaurantExists(req[p].id)
    /\ lastId' = [lastId EXCEPT !.comment = @ + 1]
    /\ Answer(p, Says("noRestaurant"))
    /\ UNCHANGED <<restaurants, comments, favourites, reserved>>

-------------------------------------------------------------------------------
(* PATCH and DELETE /comments/:commentId.                                  *)

\* A mutant: assertOwnership lets everyone pass.
AuthoredByAnyone(p) == req[p].id \in DOMAIN comments

Authored(p) == comments[req[p].id].userId = req[p].userId

CommentMissing(p) ==
    /\ \E op \in {"updateComment", "deleteComment"} : Look(p, op, "check")
    /\ ~CommentExists(req[p].id)
    /\ Answer(p, Says("noComment"))

CommentForeign(p) ==
    /\ \E op \in {"updateComment", "deleteComment"} : Look(p, op, "check")
    /\ CommentExists(req[p].id)
    /\ ~Authored(p)
    /\ Answer(p, Says("forbidden"))

CommentProceeds(p) ==
    /\ \E op \in {"updateComment", "deleteComment"} : Look(p, op, "check")
    /\ CommentExists(req[p].id)
    /\ Authored(p)
    /\ Goto(p, "write")

\* A mutant: an upsert in the place of the update.
UpsertComment(p) ==
    LET id == req[p].id IN
    /\ At(p, "updateComment", "write")
    /\ comments' = [i \in DOMAIN comments \cup {id} |->
                       IF i # id THEN comments[i]
                       ELSE IF CommentExists(id) THEN Merge(comments[id], req[p].change)
                       ELSE req[p].change]
    /\ Answer(p, Says("updated"))
    /\ UNCHANGED <<restaurants, favourites, reserved, lastId>>

UpdateComment(p) ==
    LET id == req[p].id IN
    /\ At(p, "updateComment", "write")
    /\ CommentExists(id)
    /\ comments' = [comments EXCEPT ![id] = Merge(@, req[p].change)]
    /\ Answer(p, Says("updated"))
    /\ UNCHANGED <<restaurants, favourites, reserved, lastId>>

DeleteComment(p) ==
    /\ At(p, "deleteComment", "write")
    /\ CommentExists(req[p].id)
    /\ comments' = Without(comments, req[p].id)
    /\ Answer(p, Says("deleted"))
    /\ UNCHANGED <<restaurants, favourites, reserved, lastId>>

\* A mutant: a row that is gone counts as deleted.
CommentGoneIsDeleted(p) ==
    /\ \E op \in {"updateComment", "deleteComment"} : Look(p, op, "write")
    /\ ~CommentExists(req[p].id)
    /\ Answer(p, Says(IF req[p].op = "deleteComment" THEN "deleted" ELSE "noComment"))

\* P2025: the comment was deleted between the look and the write.
CommentGone(p) ==
    /\ \E op \in {"updateComment", "deleteComment"} : Look(p, op, "write")
    /\ ~CommentExists(req[p].id)
    /\ Answer(p, Says("noComment"))

-------------------------------------------------------------------------------
(* POST and DELETE /me/favourites/:restaurantId.                           *)

FavouriteOf(p) == [userId |-> req[p].userId, restaurantId |-> req[p].id]

FavouriteRestaurantMissing(p) ==
    /\ Look(p, "createFavourite", "check")
    /\ ~RestaurantExists(req[p].id)
    /\ Answer(p, Says("noRestaurant"))

FavouriteRestaurantFound(p) ==
    /\ Look(p, "createFavourite", "check")
    /\ RestaurantExists(req[p].id)
    /\ Goto(p, "write")

CreateFavourite(p) ==
    /\ At(p, "createFavourite", "write")
    /\ RestaurantExists(req[p].id)
    /\ FavouriteOf(p) \notin favourites
    /\ favourites' = favourites \cup {FavouriteOf(p)}
    /\ Answer(p, Says("created"))
    /\ UNCHANGED <<restaurants, comments, reserved, lastId>>

\* A mutant: P2002 is not caught.
CreateFavouriteThrows(p) ==
    /\ Look(p, "createFavourite", "write")
    /\ FavouriteOf(p) \in favourites
    /\ Answer(p, Says("error"))

\* P2002: DuplicateFavouriteError.
CreateFavouriteAgain(p) ==
    /\ Look(p, "createFavourite", "write")
    /\ FavouriteOf(p) \in favourites
    /\ Answer(p, Says("duplicate"))

\* A mutant: the two error codes are swapped.
FavouriteOrphanIsDuplicate(p) ==
    /\ Look(p, "createFavourite", "write")
    /\ ~RestaurantExists(req[p].id)
    /\ Answer(p, Says("duplicate"))

\* P2003: FavouriteRestaurantNotFoundError.
CreateFavouriteOrphan(p) ==
    /\ Look(p, "createFavourite", "write")
    /\ ~RestaurantExists(req[p].id)
    /\ Answer(p, Says("noRestaurant"))

\* deleteMany: it counts the rows it deletes, and never fails for want of one.
DeleteFavourite(p) ==
    /\ At(p, "deleteFavourite", "write")
    /\ FavouriteOf(p) \in favourites
    /\ favourites' = favourites \ {FavouriteOf(p)}
    /\ Answer(p, Says("deleted"))
    /\ UNCHANGED <<restaurants, comments, reserved, lastId>>

DeleteFavouriteMissing(p) ==
    /\ Look(p, "deleteFavourite", "write")
    /\ FavouriteOf(p) \notin favourites
    /\ Answer(p, Says("noFavourite"))

-------------------------------------------------------------------------------
\* POST /reservations, seen from here: a row that is never deleted.
Reserve(id) ==
    /\ RestaurantExists(id)
    /\ id \notin reserved
    /\ reserved' = reserved \cup {id}
    /\ UNCHANGED <<restaurants, comments, favourites, lastId, req, pc, answer>>

(* What a handler that ran in one piece would answer now.                  *)

AnswerForRestaurant(q) ==
    IF q.op = "createRestaurant" THEN SaysIds("created", {lastId.restaurant + 1})
    ELSE IF q.op = "listRestaurants"
         THEN Shows([id \in DOMAIN restaurants |-> ShownOf(q, id, RowOf(id))])
    ELSE IF ~RestaurantExists(q.id) THEN Says("noRestaurant")
    ELSE IF q.op = "viewRestaurant"
         THEN Shows([id \in {q.id} |-> ShownOf(q, id, RowOf(id))])
    ELSE IF restaurants[q.id].ownerId # q.userId THEN Says("forbidden")
    ELSE IF q.op = "updateRestaurant" THEN Says("updated")
    ELSE Says(IF Referenced(q.id) THEN "hasRelations" ELSE "deleted")

AnswerForComment(q) ==
    CASE q.op \in {"listComments", "createComment"} ->
             IF ~RestaurantExists(q.id) THEN Says("noRestaurant")
             ELSE IF q.op = "listComments" THEN SaysIds("listed", CommentsOf(q.id))
             ELSE SaysIds("created", {lastId.comment + 1})
      [] q.op \in {"updateComment", "deleteComment"} ->
             IF q.op = "updateComment" /\ q.change = <<>> THEN Says("emptyUpdate")
             ELSE IF ~CommentExists(q.id) THEN Says("noComment")
             ELSE IF comments[q.id].userId # q.userId THEN Says("forbidden")
             ELSE Says(IF q.op = "updateComment" THEN "updated" ELSE "deleted")

AnswerForFavourite(q) ==
    LET row == [userId |-> q.userId, restaurantId |-> q.id] IN
    CASE q.op = "createFavourite" ->
             IF ~RestaurantExists(q.id) THEN Says("noRestaurant")
             ELSE Says(IF row \in favourites THEN "duplicate" ELSE "created")
      [] q.op = "deleteFavourite" ->
             Says(IF row \in favourites THEN "deleted" ELSE "noFavourite")
      [] q.op = "listFavourites" ->
             Shows([id \in FavouritesOf(q.userId) |-> ShownOf(q, id, RowOf(id))])

TrueAnswer(q) ==
    IF q \in RestaurantRequest THEN AnswerForRestaurant(q)
    ELSE IF q \in CommentRequest THEN AnswerForComment(q)
    ELSE AnswerForFavourite(q)

\* History: a request collects the answers that are true from its arrival until
\* the state in which it is answered.
RecordTruths ==
    truths' = [p \in Requests |->
                  IF req'[p] # NoRequest /\ answer[p].status = "pending"
                  THEN truths[p] \cup {TrueAnswer(req'[p])}
                  ELSE truths[p]]

\* History: the favourites that a list has read change before it reads their
\* restaurants, or the comments that it has counted before it reads their ratings.
RatingsOf(id) == [c \in CommentsOf(id) |-> comments[c].rating]

RecordTears ==
    torn' = [p \in Requests |->
                \/ torn[p]
                \/ /\ pc[p] = "rows" /\ req[p].op = "listFavourites"
                   /\ favourites' # favourites
                \/ /\ pc[p] = "ratings"
                   /\ \E id \in DOMAIN counted[p] : RatingsOf(id)' # RatingsOf(id)]

HandleView(p) ==
    ReadFavourites(p) \/ ReadRestaurantGone(p) \/ ReadRestaurants(p) \/ ReadRatings(p)

HandleRestaurant(p) ==
    \/ CreateRestaurant(p) \/ RestaurantMissing(p) \/ RestaurantForeign(p)
    \/ UpdateRestaurantProceeds(p) \/ UpdateRestaurant(p) \/ UpdateRestaurantGone(p)
    \/ DeleteRestaurantProceeds(p) \/ HasRelations(p) \/ DeleteRestaurant(p)
    \/ DeleteRestaurantReferenced(p) \/ DeleteRestaurantGone(p)

HandleComment(p) ==
    \/ CommentsRestaurantMissing(p) \/ CommentsRestaurantFound(p) \/ ListComments(p)
    \/ CreateComment(p) \/ CreateCommentOrphan(p)
    \/ CommentMissing(p) \/ CommentForeign(p) \/ CommentProceeds(p)
    \/ UpdateComment(p) \/ DeleteComment(p) \/ CommentGone(p)

HandleFavourite(p) ==
    \/ FavouriteRestaurantMissing(p) \/ FavouriteRestaurantFound(p)
    \/ CreateFavourite(p) \/ CreateFavouriteAgain(p) \/ CreateFavouriteOrphan(p)
    \/ DeleteFavourite(p) \/ DeleteFavouriteMissing(p)

Handle(p) ==
    \/ HandleView(p)
    \/ (HandleRestaurant(p) \/ HandleComment(p) \/ HandleFavourite(p)) /\ UNCHANGED reading

Next ==
    /\ \/ \E p \in Requests : (Submit(p) /\ UNCHANGED reading) \/ Handle(p)
       \/ \E id \in DOMAIN restaurants : Reserve(id) /\ UNCHANGED reading
    /\ RecordTruths
    /\ RecordTears

Spec == Init /\ [][Next]_vars

-------------------------------------------------------------------------------
(* Properties.                                                             *)

\* No row refers to a restaurant that is gone: not one inserted after a check that
\* found it, nor one inserted between hasRelations and the delete.
ReferentialIntegrity ==
    /\ \A c \in DOMAIN comments : RestaurantExists(comments[c].restaurantId)
    /\ \A f \in favourites : RestaurantExists(f.restaurantId)
    /\ \A id \in reserved : RestaurantExists(id)

\* Every answer but a 500 is one that a handler without awaits would have given at
\* some moment between the arrival of the request and the answer: the two or three
\* statements of a handler never add up to something that was true at no time (a
\* list of comments of a restaurant without any and already deleted, a conflict
\* with a row that came and went before, a success that comes too late).  The two
\* or three statements of a view are no transaction: it may show an average that was
\* never true, but only if what it had already read changed before its last one.
AnswersWereTrue ==
    \A p \in Requests :
        answer[p].status \notin {"pending", "error"} /\ ~torn[p] => answer[p] \in truths[p]

\* Also of a view that was torn, both numbers behind each average were true at some
\* moment between the arrival of the request and the answer, if not at the same one:
\* the comments counted, which the first statement read, and the sum of the stars,
\* which the second read, even if by then the comments, or the restaurant, are gone.
\* (A favourite may be no favourite any more when its restaurant is read, so the list
\* of favourites has no truths to compare with.)
ShownNumbersWereTrue ==
    \A p \in Requests :
        answer[p].status = "shown" /\ req[p].op # "listFavourites" =>
            \A id \in DOMAIN answer[p].shown, n \in {"count", "total"} :
                \E a \in truths[p] :
                    /\ a.status = "shown" /\ id \in DOMAIN a.shown
                    /\ a.shown[id][n] = answer[p].shown[id][n]

\* No request fails by itself: a 500 needs a restaurant that another request deleted
\* while the handler held it, or a favourite of it, from an earlier statement.
ErrorsMeanGone ==
    \A p \in Requests :
        answer[p].status = "error" =>
            \E q \in Requests \ {p} :
                /\ answer[q].status = "deleted" /\ req[q].op = "deleteRestaurant"
                /\ req[q].id \in wanted[p] \cup {req[p].id}

\* The requests that were told they inserted, or deleted, a row.
Inserted(op, a) == {p \in Requests : req[p] # NoRequest /\ req[p].op = op /\ answer[p] = a}
Deleted(op, id) ==
    {p \in Requests : req[p] # NoRequest /\ req[p].op = op /\ req[p].id = id
                      /\ answer[p].status = "deleted"}
FavouriteAnswers(op, s, row) ==
    {p \in Requests : req[p] # NoRequest /\ req[p].op = op /\ FavouriteOf(p) = row
                      /\ answer[p].status = s}

Count(b) == IF b THEN 1 ELSE 0

\* The acknowledged insertions of a row, less its acknowledged deletions, are 1
\* if the table has it and 0 if not: of concurrent deletions one is acknowledged,
\* of concurrent favourites of one restaurant one is, and a refusal left nothing.
LedgerBalances ==
    /\ \A id \in 1..lastId.restaurant :
           Count(id \in DOMAIN SeededRestaurants)
               + Cardinality(Inserted("createRestaurant", SaysIds("created", {id})))
               - Cardinality(Deleted("deleteRestaurant", id)) = Count(RestaurantExists(id))
    /\ \A id \in 1..lastId.comment :
           Count(id \in DOMAIN SeededComments)
               + Cardinality(Inserted("createComment", SaysIds("created", {id})))
               - Cardinality(Deleted("deleteComment", id)) = Count(CommentExists(id))
    /\ \A u \in Users, id \in 1..lastId.restaurant :
           LET row == [userId |-> u, restaurantId |-> id] IN
           Count(row \in SeededFavourites)
               + Cardinality(FavouriteAnswers("createFavourite", "created", row))
               - Cardinality(FavouriteAnswers("deleteFavourite", "deleted", row))
               = Count(row \in favourites)

\* The step is a write of a request by u, to row id, with one of the operations.
WriteBy(u, id, ops) ==
    \E p \in Requests :
        /\ pc[p] = "write" /\ pc'[p] = "done"
        /\ req[p].op \in ops /\ req[p].id = id /\ req[p].userId = u

\* Although the ownership is checked a statement earlier, a restaurant and a comment
\* are changed and deleted only by requests of the user who owns them then.
OnlyOwnersChange ==
    [][/\ \A id \in DOMAIN restaurants :
              (id \notin DOMAIN restaurants' \/ restaurants'[id] # restaurants[id])
                  => WriteBy(restaurants[id].ownerId, id,
                             {"updateRestaurant", "deleteRestaurant"})
       /\ \A id \in DOMAIN comments :
              (id \notin DOMAIN comments' \/ comments'[id] # comments[id])
                  => WriteBy(comments[id].userId, id, {"updateComment", "deleteComment"})]_vars

\* Two PATCHes of one comment lose nothing of each other: a field changes only in
\* the write of a PATCH that gives it, and to what it gives.
PatchesMerge ==
    [][\A id \in DOMAIN comments \cap DOMAIN comments', f \in {"rating", "body"} :
           comments'[id][f] # comments[id][f] =>
               \E p \in Requests :
                   /\ pc[p] = "write" /\ pc'[p] = "done"
                   /\ req[p].op = "updateComment" /\ req[p].id = id
                   /\ f \in DOMAIN req[p].change
                   /\ comments'[id][f] = req[p].change[f]]_vars

-------------------------------------------------------------------------------
(* What the documentation says and the code does not do.                   *)

\* PATCH and DELETE /restaurants/:id "return 404 Not Found when the restaurant does
\* not exist": also when it has been deleted since the handler looked.
GoneRestaurantIsNotFound ==
    [][\A p \in Requests :
           /\ req[p] # NoRequest
           /\ req[p].op \in {"updateRestaurant", "deleteRestaurant"}
           /\ answer[p].status = "pending" /\ answer'[p].status # "pending"
           /\ ~RestaurantExists(req[p].id)
           => answer'[p].status = "noRestaurant"]_vars
===============================================================================
