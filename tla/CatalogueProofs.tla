---------------------------- MODULE CatalogueProofs ----------------------------
(***************************************************************************)
(* Theorems about the handlers of restaurants, comments and favourites,    *)
(* for any number of requests, users and rows, and any interleaving of     *)
(* their statements.  The sum of the stars is one of the totals of the     *)
(* availability calculator, whose lemmas are used for it.                  *)
(***************************************************************************)
EXTENDS Catalogue, AvailabilityCalculatorProofs

ViewOps == {"viewRestaurant", "listRestaurants", "listFavourites"}
OwnerOps == {"updateRestaurant", "deleteRestaurant"}
AuthorOps == {"updateComment", "deleteComment"}

\* The tables, as TypeOK has them.
TablesOK ==
    /\ DOMAIN restaurants \subseteq 1..lastId.restaurant
    /\ restaurants \in [DOMAIN restaurants -> Restaurant]
    /\ DOMAIN comments \subseteq 1..lastId.comment
    /\ comments \in [DOMAIN comments -> Comment]
    /\ favourites \subseteq Favourite
    /\ reserved \subseteq 1..lastId.restaurant
    /\ lastId \in [restaurant : Nat, comment : Nat]

\* What a handler keeps, what it knows of its request, and when it has answered it.
HandlerOK(p) ==
    /\ req[p] \in Asked \cup {NoRequest}
    /\ pc[p] \in {"idle", "check", "relations", "write", "rows", "ratings", "done"}
    /\ pc[p] # "idle" => req[p] \in Asked
    /\ pc[p] = "done" <=> answer[p].status # "pending"
    /\ pc[p] \in {"rows", "ratings"} => req[p].op \in ViewOps
    /\ IsAnswer(answer[p])
    /\ wanted[p] \subseteq Nat \ {0}
    /\ DOMAIN counted[p] \subseteq Nat \ {0}
    /\ counted[p] \in [DOMAIN counted[p] -> [ownerId : Users, count : Nat]]

FunctionsOK ==
    /\ req = [p \in Requests |-> req[p]]
    /\ pc = [p \in Requests |-> pc[p]]
    /\ wanted = [p \in Requests |-> wanted[p]]
    /\ counted = [p \in Requests |-> counted[p]]
    /\ answer = [p \in Requests |-> answer[p]]

HistoryOK ==
    /\ truths = [p \in Requests |-> truths[p]]
    /\ \A p \in Requests : \A a \in truths[p] : IsAnswer(a)
    /\ torn \in [Requests -> BOOLEAN]

\* The inductive invariant that has the types.
TypeInv == TablesOK /\ FunctionsOK /\ HistoryOK /\ \A p \in Requests : HandlerOK(p)

\* What stays true of the rows that a handler looked at in an earlier statement:
\* an id is never given twice, and nobody takes over a restaurant or a comment.
KnownOK(p) ==
    /\ pc[p] \in {"relations", "write"} /\ req[p].op \in OwnerOps =>
           /\ req[p].id \in 1..lastId.restaurant
           /\ RestaurantExists(req[p].id) => OwnsRestaurant(p)
    /\ pc[p] = "write" /\ req[p].op \in AuthorOps =>
           /\ req[p].id \in 1..lastId.comment
           /\ CommentExists(req[p].id) => Authored(p)
    /\ wanted[p] \subseteq 1..lastId.restaurant

\* The invariant on the tables.
TablesInv == TypeInv /\ ReferentialIntegrity /\ \A p \in Requests : KnownOK(p)

\* Who inserted and deleted a row: nobody inserts a seeded row, one request at most
\* inserts any other, and a row that is gone has one request that deleted it.
LedgerOK(seeded, inserted, deleted, exists) ==
    /\ inserted = {} \/ (~seeded /\ \E p \in Requests : inserted = {p})
    /\ exists => seeded \/ inserted # {}
    /\ IF ~exists /\ (seeded \/ inserted # {})
       THEN \E p \in Requests : deleted = {p}
       ELSE deleted = {}

RestaurantsMade(id) == Inserted("createRestaurant", SaysIds("created", {id}))
CommentsMade(id) == Inserted("createComment", SaysIds("created", {id}))

RestaurantLedger ==
    \A id \in Nat \ {0} :
        /\ LedgerOK(id \in DOMAIN SeededRestaurants, RestaurantsMade(id),
                    Deleted("deleteRestaurant", id), RestaurantExists(id))
        /\ id \in DOMAIN SeededRestaurants \/ RestaurantsMade(id) # {}
               <=> id \in 1..lastId.restaurant

CommentLedger ==
    \A id \in Nat \ {0} :
        /\ LedgerOK(id \in DOMAIN SeededComments, CommentsMade(id),
                    Deleted("deleteComment", id), CommentExists(id))
        /\ id \in DOMAIN SeededComments \/ CommentsMade(id) # {} => id \in 1..lastId.comment

FavouriteLedger ==
    \A row \in Favourite :
        LET made == FavouriteAnswers("createFavourite", "created", row)
            gone == FavouriteAnswers("deleteFavourite", "deleted", row)
        IN  /\ IsFiniteSet(made) /\ IsFiniteSet(gone)
            /\ Count(row \in SeededFavourites) + Cardinality(made) - Cardinality(gone)
                   = Count(row \in favourites)

Ledgers == RestaurantLedger /\ CommentLedger /\ FavouriteLedger

\* The invariant on who changed the tables.
LedgerInv == TablesInv /\ ErrorsMeanGone /\ Ledgers

\* What a view answers if nothing that it has read changes any more.
AnswerOfView(p) ==
    Shows([id \in DOMAIN counted[p] |-> ShownOf(req[p], id, counted[p][id])])

\* The truth that an answer will rest on is on record as soon as the handler has
\* read what it rests on.
TruthOK(p) ==
    /\ pc[p] \notin {"idle", "done"} /\ req[p].op = "updateComment" => req[p].change # <<>>
    /\ answer[p].status \notin {"pending", "error"} /\ ~torn[p] => answer[p] \in truths[p]
    /\ pc[p] = "write" /\ req[p].op = "listComments" /\ ~RestaurantExists(req[p].id) =>
           SaysIds("listed", {}) \in truths[p]
    /\ pc[p] = "rows" /\ req[p].op = "listFavourites" /\ ~torn[p] =>
           wanted[p] = FavouritesOf(req[p].userId)
    /\ pc[p] = "ratings" /\ ~torn[p] => AnswerOfView(p) \in truths[p]

TruthInv == TablesInv /\ \A p \in Requests : TruthOK(p)

\* A number of a restaurant is on record for a view that shows restaurants.
OnRecord(p, id, n, x) ==
    \E a \in truths[p] : a.status = "shown" /\ id \in DOMAIN a.shown /\ a.shown[id][n] = x

\* The numbers of a view are on record one by one, also when it was torn: the count
\* as soon as it is read, and a sum of no stars from when it can be read.
NumbersOK(p) ==
    req[p].op # "listFavourites" =>
        /\ pc[p] = "ratings" =>
               \A id \in DOMAIN counted[p] :
                   /\ req[p].op = "viewRestaurant" => id = req[p].id
                   /\ OnRecord(p, id, "count", counted[p][id].count)
                   /\ counted[p][id].count = 0 \/ ~RestaurantExists(id) =>
                          OnRecord(p, id, "total", 0)
        /\ answer[p].status = "shown" =>
               \A id \in DOMAIN answer[p].shown, n \in {"count", "total"} :
                   OnRecord(p, id, n, answer[p].shown[id][n])

NumbersInv == TablesInv /\ \A p \in Requests : NumbersOK(p)

-------------------------------------------------------------------------------
(* Requests and answers.                                                   *)

\* The fields of a request, by its operation.
LEMMA RequestShape ==
    ASSUME NEW q \in Asked
    PROVE  /\ q.userId \in Users /\ q.id \in Nat \ {0} /\ q # NoRequest
           /\ q.op = "createRestaurant" => q.change.name \in Names
           /\ q.op = "updateRestaurant" => q.change \in RestaurantChange
           /\ q.op = "createComment" => q.change.rating \in Ratings /\ q.change.body \in Bodies
           /\ q.op = "updateComment" => q.change \in CommentChange
<1>1. q \in Request /\ q # NoRequest
  BY AskedAssumption
<1>2. CASE q \in RestaurantRequest
  <2>1. q.op = "createRestaurant" => q.change \in RestaurantChange /\ DOMAIN q.change = {"name"}
    BY <1>2, AskedAssumption DEF RestaurantRequest
  <2>2. ASSUME NEW c \in RestaurantChange, DOMAIN c = {"name"} PROVE c.name \in Names
    BY <2>2 DEF RestaurantChange
  <2> QED BY <1>1, <1>2, <2>1, <2>2 DEF RestaurantRequest
<1>3. CASE q \in CommentRequest
  <2>1. q.op = "createComment" => q.change \in CommentChange /\ DOMAIN q.change = {"rating", "body"}
    BY <1>3, AskedAssumption DEF CommentRequest
  <2>2. ASSUME NEW c \in CommentChange, DOMAIN c = {"rating", "body"}
        PROVE  c.rating \in Ratings /\ c.body \in Bodies
    BY <2>2 DEF CommentChange
  <2> QED BY <1>1, <1>3, <2>1, <2>2 DEF CommentRequest
<1>4. CASE q \in FavouriteRequest
  BY <1>1, <1>4 DEF FavouriteRequest
<1> QED BY <1>1, <1>2, <1>3, <1>4 DEF Request

\* Which of the three definitions says what a request's true answer is.
LEMMA TrueAnswerIs ==
    ASSUME NEW q \in Asked
    PROVE  /\ q.op \in {"createRestaurant", "updateRestaurant", "deleteRestaurant",
                        "viewRestaurant", "listRestaurants"} =>
                  TrueAnswer(q) = AnswerForRestaurant(q)
           /\ q.op \in {"listComments", "createComment", "updateComment", "deleteComment"} =>
                  TrueAnswer(q) = AnswerForComment(q)
           /\ q.op \in {"createFavourite", "deleteFavourite", "listFavourites"} =>
                  TrueAnswer(q) = AnswerForFavourite(q)
           /\ q.op \in {"createRestaurant", "updateRestaurant", "deleteRestaurant",
                        "viewRestaurant", "listRestaurants", "listComments", "createComment",
                        "updateComment", "deleteComment", "createFavourite",
                        "deleteFavourite", "listFavourites"}
<1>1. q \in Request
  BY AskedAssumption
<1>2. q \in RestaurantRequest => q.op \in {"createRestaurant", "updateRestaurant",
                                           "deleteRestaurant", "viewRestaurant", "listRestaurants"}
  BY DEF RestaurantRequest
<1>3. q \in CommentRequest => q.op \in {"listComments", "createComment", "updateComment",
                                        "deleteComment"}
  BY DEF CommentRequest
<1>4. q \in FavouriteRequest => q.op \in {"createFavourite", "deleteFavourite", "listFavourites"}
  BY DEF FavouriteRequest
<1> QED BY <1>1, <1>2, <1>3, <1>4 DEF Request, TrueAnswer

\* What the constructors of answers make.
LEMMA AnswerTypes ==
    /\ \A s \in Statuses : IsAnswer(Says(s)) /\ Says(s).status = s
    /\ \A s \in Statuses, ids \in SUBSET (Nat \ {0}) :
           IsAnswer(SaysIds(s, ids)) /\ SaysIds(s, ids).status = s
    /\ \A r : DOMAIN r \subseteq Nat \ {0} /\ r \in [DOMAIN r -> Shown] =>
                  IsAnswer(Shows(r)) /\ Shows(r).status = "shown"
BY DEF IsAnswer, Says, SaysIds, Shows

-------------------------------------------------------------------------------
(* Types.                                                                  *)

\* A PATCH keeps the type of a row, and the columns it does not give.
LEMMA MergeRestaurant ==
    ASSUME NEW row \in Restaurant, NEW change \in RestaurantChange
    PROVE  Merge(row, change) \in Restaurant /\ Merge(row, change).ownerId = row.ownerId
BY DEF Merge, Restaurant, RestaurantChange

\* A patch leaves the columns alone that it does not name.
LEMMA MergeComment ==
    ASSUME NEW row \in Comment, NEW change \in CommentChange
    PROVE  /\ Merge(row, change) \in Comment
           /\ Merge(row, change).userId = row.userId
           /\ Merge(row, change).restaurantId = row.restaurantId
           /\ \A f \in {"rating", "body"} :
                  Merge(row, change)[f] # row[f] =>
                      f \in DOMAIN change /\ Merge(row, change)[f] = change[f]
BY DEF Merge, Comment, CommentChange

\* A restaurant has finitely many comments.
LEMMA FiniteComments ==
    ASSUME TablesOK, NEW id
    PROVE  IsFiniteSet(CommentsOf(id))
<1>1. 1 \in Int /\ lastId.comment \in Int /\ CommentsOf(id) \subseteq 1..lastId.comment
  BY DEF TablesOK, CommentsOf
<1>2. IsFiniteSet(1..lastId.comment)
  BY <1>1, FS_Interval
<1> QED BY <1>1, <1>2, FS_Subset

\* Their number, and the number of their stars, are numbers.
LEMMA CountTypes ==
    ASSUME TablesOK, NEW id
    PROVE  CountOf(id) \in Nat /\ TotalOf(id) \in Nat
<1> DEFINE n == [c \in CommentsOf(id) |-> comments[c].rating]
<1>1. IsFiniteSet(CommentsOf(id))
  BY FiniteComments
<1>2. n \in [CommentsOf(id) -> Nat]
  <2>1. \A c \in CommentsOf(id) : comments[c] \in Comment
    BY DEF TablesOK, CommentsOf
  <2> QED BY <2>1, RatingsAssumption DEF Comment
<1>3. Total(n) = TotalOf(id)
  BY DEF Total, SeatsOf, TotalOf
<1> QED BY <1>1, <1>2, <1>3, TotalType, FS_CardinalityType DEF CountOf

\* The ids of rows are numbers from 1 on.
LEMMA IdTypes ==
    ASSUME TablesOK
    PROVE  /\ DOMAIN restaurants \subseteq Nat \ {0}
           /\ \A id : CommentsOf(id) \subseteq Nat \ {0}
           /\ \A u : FavouritesOf(u) \subseteq Nat \ {0}
           /\ lastId.restaurant \in Nat /\ lastId.comment \in Nat
           /\ \A id \in DOMAIN restaurants : RowOf(id) \in [ownerId : Users, count : Nat]
<1>1. lastId.restaurant \in Nat /\ lastId.comment \in Nat
  BY DEF TablesOK
<1>2. \A id : CommentsOf(id) \subseteq DOMAIN comments
  BY DEF CommentsOf
<1>3. \A u : FavouritesOf(u) \subseteq Nat \ {0}
  BY DEF FavouritesOf, TablesOK, Favourite
<1>4. ASSUME NEW id \in DOMAIN restaurants PROVE RowOf(id) \in [ownerId : Users, count : Nat]
  <2>1. restaurants[id] \in Restaurant
    BY DEF TablesOK
  <2> QED BY <2>1, CountTypes DEF RowOf, Restaurant
<1> QED BY <1>1, <1>2, <1>3, <1>4 DEF TablesOK

\* A view shows what is of type Shown.
LEMMA ShowsTypes ==
    ASSUME TablesOK, NEW q, NEW r, DOMAIN r \subseteq Nat \ {0},
           \A id \in DOMAIN r : r[id].count \in Nat
    PROVE  LET a == Shows([id \in DOMAIN r |-> ShownOf(q, id, r[id])]) IN
           IsAnswer(a) /\ a.status = "shown"
<1> DEFINE s == [id \in DOMAIN r |-> ShownOf(q, id, r[id])]
<1>1. ASSUME NEW id \in DOMAIN r PROVE ShownOf(q, id, r[id]) \in Shown
  <2>1. TotalOf(id) \in Nat
    BY CountTypes
  <2> QED BY <2>1 DEF ShownOf, Shown
<1>2. s \in [DOMAIN s -> Shown] /\ DOMAIN s \subseteq Nat \ {0}
  BY <1>1
<1> HIDE DEF s
<1>3. IsAnswer(Shows(s)) /\ Shows(s).status = "shown"
  BY <1>2, AnswerTypes
<1> QED BY <1>3 DEF s

\* A true answer is an answer, and no failure.
LEMMA TrueAnswerType ==
    ASSUME TablesOK, NEW q \in Asked
    PROVE  IsAnswer(TrueAnswer(q)) /\ TrueAnswer(q).status \notin {"pending", "error"}
<1> DEFINE Said(a) == IsAnswer(a) /\ a.status \notin {"pending", "error"}
<1>1. ASSUME NEW s \in Statuses \ {"pending", "error"} PROVE Said(Says(s))
  BY AnswerTypes
<1>2. ASSUME NEW s \in Statuses \ {"pending", "error"}, NEW ids \in SUBSET (Nat \ {0})
      PROVE  Said(SaysIds(s, ids))
  BY AnswerTypes
<1>3. ASSUME NEW ids \in SUBSET (Nat \ {0})
      PROVE  Said(Shows([id \in ids |-> ShownOf(q, id, RowOf(id))]))
  <2> DEFINE r == [id \in ids |-> RowOf(id)]
  <2>1. DOMAIN r = ids /\ ids \subseteq Nat \ {0}
    OBVIOUS
  <2>2. \A id \in DOMAIN r : r[id].count \in Nat
    BY CountTypes DEF RowOf
  <2>3. [id \in DOMAIN r |-> ShownOf(q, id, r[id])] = [id \in ids |-> ShownOf(q, id, RowOf(id))]
    OBVIOUS
  <2> HIDE DEF r
  <2>4. Said(Shows([id \in DOMAIN r |-> ShownOf(q, id, r[id])]))
    BY <2>1, <2>2, ShowsTypes
  <2> QED BY <2>3, <2>4
<1>4. q.id \in Nat \ {0}
  BY RequestShape
<1> HIDE DEF Said
<1>5. \A n \in Nat : {n + 1} \in SUBSET (Nat \ {0})
  OBVIOUS
<1>6. CASE q.op \in {"createRestaurant", "updateRestaurant", "deleteRestaurant",
                     "viewRestaurant", "listRestaurants"}
  <2>1. Said(AnswerForRestaurant(q))
    BY <1>1, <1>2, <1>3, <1>4, <1>5, IdTypes DEF AnswerForRestaurant, Statuses
  <2> QED BY <1>6, <2>1, TrueAnswerIs DEF Said
<1>7. CASE q.op \in {"listComments", "createComment", "updateComment", "deleteComment"}
  <2>1. Said(AnswerForComment(q))
    BY <1>1, <1>2, <1>5, <1>7, IdTypes DEF AnswerForComment, Statuses
  <2> QED BY <1>7, <2>1, TrueAnswerIs DEF Said
<1>8. CASE q.op \in {"createFavourite", "deleteFavourite", "listFavourites"}
  <2>1. Said(AnswerForFavourite(q))
    BY <1>1, <1>3, <1>8, IdTypes DEF AnswerForFavourite, Statuses
  <2> QED BY <1>8, <2>1, TrueAnswerIs DEF Said
<1> QED BY <1>6, <1>7, <1>8, TrueAnswerIs

-------------------------------------------------------------------------------
(* The steps of a handler.                                                 *)

\* A step of one handler, with what it may do to its own place and answer.
Moves(p, places) ==
    /\ req' = req
    /\ pc[p] \notin {"idle", "done"}
    /\ \/ \E l \in places : Goto(p, l)
       \/ \E a : IsAnswer(a) /\ a.status # "pending" /\ Answer(p, a)

\* The statements that write.
Writes(p) ==
    \/ CreateRestaurant(p) \/ UpdateRestaurant(p) \/ DeleteRestaurant(p)
    \/ CreateComment(p) \/ CreateCommentOrphan(p) \/ UpdateComment(p) \/ DeleteComment(p)
    \/ CreateFavourite(p) \/ DeleteFavourite(p)

\* The others, but those of a view.
Looks(p) ==
    \/ RestaurantMissing(p) \/ RestaurantForeign(p)
    \/ UpdateRestaurantProceeds(p) \/ UpdateRestaurantGone(p)
    \/ DeleteRestaurantProceeds(p) \/ HasRelations(p)
    \/ DeleteRestaurantReferenced(p) \/ DeleteRestaurantGone(p)
    \/ CommentsRestaurantMissing(p) \/ CommentsRestaurantFound(p) \/ ListComments(p)
    \/ CommentMissing(p) \/ CommentForeign(p) \/ CommentProceeds(p) \/ CommentGone(p)
    \/ FavouriteRestaurantMissing(p) \/ FavouriteRestaurantFound(p)
    \/ CreateFavouriteAgain(p) \/ CreateFavouriteOrphan(p) \/ DeleteFavouriteMissing(p)

\* The kinds of steps there are.
LEMMA StepKinds ==
    ASSUME Next
    PROVE  \/ \E p \in Requests : Submit(p) /\ UNCHANGED <<tables, reading>>
           \/ \E p \in Requests : HandleView(p) /\ UNCHANGED tables
           \/ \E p \in Requests : Looks(p) /\ UNCHANGED <<tables, reading>>
           \/ \E p \in Requests : Writes(p) /\ UNCHANGED reading
           \/ \E id \in DOMAIN restaurants : Reserve(id) /\ UNCHANGED reading
<1>1. ASSUME NEW p \in Requests, HandleRestaurant(p) \/ HandleComment(p) \/ HandleFavourite(p)
      PROVE  (Looks(p) /\ UNCHANGED tables) \/ Writes(p)
  <2>1. CASE HandleRestaurant(p)
    BY <2>1 DEF HandleRestaurant, Looks, Writes, Look, RestaurantMissing, RestaurantForeign,
                UpdateRestaurantProceeds, UpdateRestaurantGone, DeleteRestaurantProceeds,
                HasRelations, DeleteRestaurantReferenced, DeleteRestaurantGone
  <2>2. CASE HandleComment(p)
    BY <2>2 DEF HandleComment, Looks, Writes, Look, CommentsRestaurantMissing,
                CommentsRestaurantFound, ListComments, CommentMissing, CommentForeign,
                CommentProceeds, CommentGone
  <2>3. CASE HandleFavourite(p)
    BY <2>3 DEF HandleFavourite, Looks, Writes, Look, FavouriteRestaurantMissing,
                FavouriteRestaurantFound, CreateFavouriteAgain, CreateFavouriteOrphan,
                DeleteFavouriteMissing
  <2> QED BY <1>1, <2>1, <2>2, <2>3
<1>2. ASSUME NEW p \in Requests, HandleView(p) PROVE UNCHANGED tables
  BY <1>2 DEF HandleView, ReadFavourites, ReadRestaurantGone, ReadRestaurants, ReadRatings, Look
<1>3. ASSUME NEW p \in Requests, Submit(p) PROVE UNCHANGED tables
  BY <1>3 DEF Submit
<1>4. ASSUME NEW p \in Requests, Handle(p)
      PROVE  \/ HandleView(p)
             \/ /\ HandleRestaurant(p) \/ HandleComment(p) \/ HandleFavourite(p)
                /\ UNCHANGED reading
  BY <1>4 DEF Handle
<1>5. \/ \E p \in Requests : (Submit(p) /\ UNCHANGED reading) \/ Handle(p)
      \/ \E id \in DOMAIN restaurants : Reserve(id) /\ UNCHANGED reading
  BY Zenon DEF Next
<1> QED BY <1>1, <1>2, <1>3, <1>4, <1>5

\* A handler that looks goes on or answers.
LEMMA LooksMove ==
    ASSUME TablesOK, NEW p \in Requests, Looks(p)
    PROVE  Moves(p, {"relations", "write"})
<1> USE AnswerTypes DEF Moves, Statuses, Look, At
<1>0. \A id : CommentsOf(id) \in SUBSET (Nat \ {0})
  BY IdTypes
<1>1. CASE \/ RestaurantMissing(p) \/ RestaurantForeign(p)
           \/ UpdateRestaurantProceeds(p) \/ UpdateRestaurantGone(p)
           \/ DeleteRestaurantProceeds(p) \/ DeleteRestaurantReferenced(p)
           \/ DeleteRestaurantGone(p)
  <2>1. req' = req
    BY <1>1 DEF RestaurantMissing, RestaurantForeign, UpdateRestaurantProceeds,
                UpdateRestaurantGone, DeleteRestaurantProceeds, DeleteRestaurantReferenced,
                DeleteRestaurantGone, Answer, Goto
  <2> QED BY <1>1, <2>1 DEF RestaurantMissing, RestaurantForeign, UpdateRestaurantProceeds,
                UpdateRestaurantGone, DeleteRestaurantProceeds, DeleteRestaurantReferenced,
                DeleteRestaurantGone
<1>2. CASE HasRelations(p)
  <2>1. req' = req
    BY <1>2 DEF HasRelations, Answer, Goto
  <2> QED BY <1>2, <2>1 DEF HasRelations
<1>3. CASE \/ CommentsRestaurantMissing(p) \/ CommentsRestaurantFound(p)
           \/ CommentMissing(p) \/ CommentForeign(p) \/ CommentProceeds(p) \/ CommentGone(p)
  <2>1. req' = req
    BY <1>3 DEF CommentsRestaurantMissing, CommentsRestaurantFound, CommentMissing,
                CommentForeign, CommentProceeds, CommentGone, Answer, Goto
  <2> QED BY <1>3, <2>1 DEF CommentsRestaurantMissing, CommentsRestaurantFound, CommentMissing,
                CommentForeign, CommentProceeds, CommentGone
<1>4. CASE ListComments(p)
  <2>1. req' = req
    BY <1>4 DEF ListComments, Answer
  <2> QED BY <1>0, <1>4, <2>1 DEF ListComments
<1>5. CASE \/ FavouriteRestaurantMissing(p) \/ FavouriteRestaurantFound(p)
           \/ CreateFavouriteAgain(p) \/ CreateFavouriteOrphan(p) \/ DeleteFavouriteMissing(p)
  <2>1. req' = req
    BY <1>5 DEF FavouriteRestaurantMissing, FavouriteRestaurantFound, CreateFavouriteAgain,
                CreateFavouriteOrphan, DeleteFavouriteMissing, Answer, Goto
  <2> QED BY <1>5, <2>1 DEF FavouriteRestaurantMissing, FavouriteRestaurantFound,
                CreateFavouriteAgain, CreateFavouriteOrphan, DeleteFavouriteMissing
<1> QED BY <1>1, <1>2, <1>3, <1>4, <1>5 DEF Looks

\* One that writes answers.
LEMMA WritesMove ==
    ASSUME TablesOK, NEW p \in Requests, Writes(p)
    PROVE  Moves(p, {}) /\ pc[p] = "write"
<1>0. {lastId.restaurant + 1} \in SUBSET (Nat \ {0}) /\ {lastId.comment + 1} \in SUBSET (Nat \ {0})
  BY IdTypes
<1>1. pc[p] = "write" /\ \E a : IsAnswer(a) /\ a.status # "pending" /\ Answer(p, a)
  BY <1>0, AnswerTypes
     DEF Writes, CreateRestaurant, UpdateRestaurant, DeleteRestaurant, CreateComment,
         CreateCommentOrphan, UpdateComment, DeleteComment, CreateFavourite, DeleteFavourite,
         At, Statuses
<1> QED BY <1>1 DEF Moves, Answer

\* A handler that moves keeps what it knows, and the others keep theirs.
LEMMA MovesTypes ==
    ASSUME TypeInv, NEW p \in Requests,
           Moves(p, {"relations", "write"}) \/ Moves(p, {}), UNCHANGED reading
    PROVE  FunctionsOK' /\ \A k \in Requests : HandlerOK(k)'
<1>1. PICK l, a : /\ req' = req /\ pc[p] \notin {"idle", "done"}
                  /\ \/ l \in {"relations", "write"} /\ Goto(p, l)
                     \/ IsAnswer(a) /\ a.status # "pending" /\ Answer(p, a)
  BY DEF Moves
<1>2. HandlerOK(p) /\ FunctionsOK
  BY DEF TypeInv
<1>3. \/ /\ l \in {"relations", "write"} /\ pc' = [pc EXCEPT ![p] = l] /\ answer' = answer
      \/ /\ IsAnswer(a) /\ a.status # "pending"
         /\ pc' = [pc EXCEPT ![p] = "done"] /\ answer' = [answer EXCEPT ![p] = a]
  BY <1>1 DEF Goto, Answer
<1>4. FunctionsOK'
  BY <1>1, <1>2, <1>3 DEF FunctionsOK, reading
<1>5. \/ pc'[p] \in {"relations", "write"} /\ answer'[p] = answer[p]
      \/ pc'[p] = "done" /\ answer'[p].status # "pending" /\ IsAnswer(answer'[p])
  BY <1>2, <1>3 DEF FunctionsOK
<1>6. \A k \in Requests : k # p => pc'[k] = pc[k] /\ answer'[k] = answer[k]
  BY <1>2, <1>3 DEF FunctionsOK
<1>7. HandlerOK(p)'
  <2>1. IsAnswer(answer[p]) /\ IsAnswer(answer'[p])
    BY <1>2, <1>5 DEF HandlerOK
  <2>2. IsAnswer(answer[p])'
    BY <2>1 DEF IsAnswer
  <2> QED BY <1>1, <1>2, <1>5, <2>2 DEF HandlerOK, reading
<1>8. ASSUME NEW k \in Requests, k # p PROVE HandlerOK(k)'
  <2>1. HandlerOK(k)
    BY DEF TypeInv
  <2>2. IsAnswer(answer[k])'
    BY <1>6, <1>8, <2>1 DEF HandlerOK, IsAnswer
  <2> QED BY <1>1, <1>6, <1>8, <2>1, <2>2 DEF HandlerOK, reading
<1> QED BY <1>4, <1>7, <1>8

\* A request that arrives.
LEMMA SubmitTypes ==
    ASSUME TypeInv, NEW p \in Requests, Submit(p), UNCHANGED reading
    PROVE  FunctionsOK' /\ \A k \in Requests : HandlerOK(k)'

<1> DEFINE place(q) == CASE q.op \in {"createRestaurant", "deleteFavourite"} -> "write"
                         [] q.op \in {"viewRestaurant", "listRestaurants"} -> "rows"
                         [] OTHER -> "check"
<1>1. PICK q \in Asked :
          /\ pc[p] = "idle" /\ req' = [req EXCEPT ![p] = q]
          /\ IF q.op = "updateComment" /\ q.change = <<>>
             THEN /\ answer' = [answer EXCEPT ![p] = Says("emptyUpdate")]
                  /\ pc' = [pc EXCEPT ![p] = "done"]
             ELSE pc' = [pc EXCEPT ![p] = place(q)] /\ answer' = answer
  BY Zenon DEF Submit
<1>2. place(q) \in {"write", "check", "rows"} /\ (place(q) = "rows" => q.op \in ViewOps)
  BY DEF ViewOps
<1> HIDE DEF place
<1>3. \/ /\ answer' = [answer EXCEPT ![p] = Says("emptyUpdate")]
         /\ pc' = [pc EXCEPT ![p] = "done"]
      \/ pc' = [pc EXCEPT ![p] = place(q)] /\ answer' = answer
  BY <1>1
<1>4. FunctionsOK' /\ HandlerOK(p) /\ FunctionsOK
  BY <1>1, <1>3 DEF TypeInv, FunctionsOK, reading
<1>5. \/ pc'[p] = "done" /\ answer'[p] = Says("emptyUpdate")
      \/ pc'[p] = place(q) /\ answer'[p] = answer[p]
  BY <1>3, <1>4 DEF FunctionsOK
<1>6. req'[p] = q
  BY <1>1, <1>4 DEF FunctionsOK
<1>7. HandlerOK(p)'
  <2>1. IsAnswer(answer'[p]) /\ (pc'[p] = "done" <=> answer'[p].status # "pending")
    BY <1>1, <1>2, <1>4, <1>5, AnswerTypes DEF HandlerOK, Statuses
  <2>2. IsAnswer(answer[p])'
    BY <2>1 DEF IsAnswer
  <2> QED BY <1>2, <1>4, <1>5, <1>6, <2>1, <2>2 DEF HandlerOK, reading
<1>8. ASSUME NEW k \in Requests, k # p PROVE HandlerOK(k)'
  <2>1. HandlerOK(k) /\ pc'[k] = pc[k] /\ answer'[k] = answer[k] /\ req'[k] = req[k]
    BY <1>1, <1>3, <1>4, <1>8 DEF TypeInv, FunctionsOK
  <2>2. IsAnswer(answer[k])'
    BY <2>1 DEF HandlerOK, IsAnswer
  <2> QED BY <2>1, <2>2 DEF HandlerOK, reading
<1> QED BY <1>4, <1>7, <1>8

\* The steps of a view.
LEMMA ViewTypes ==
    ASSUME TypeInv, NEW p \in Requests, HandleView(p)
    PROVE  FunctionsOK' /\ \A k \in Requests : HandlerOK(k)'
<1>1. TablesOK /\ HandlerOK(p) /\ FunctionsOK
  BY DEF TypeInv
<1>2. CASE ReadRestaurantGone(p) \/ ReadRatings(p)
  <2>1. CASE ReadRestaurantGone(p)
    <3>1. pc[p] = "rows" /\ UNCHANGED reading /\ req' = req
          /\ \E s \in {"noRestaurant", "error"} : Answer(p, Says(s))
      BY <2>1 DEF ReadRestaurantGone, Answer
    <3>2. Moves(p, {})
      BY <3>1, AnswerTypes DEF Moves, Statuses
    <3> QED BY <3>1, <3>2, MovesTypes
  <2>2. CASE ReadRatings(p)
    <3>1. /\ pc[p] = "ratings" /\ UNCHANGED reading /\ req' = req
          /\ Answer(p, AnswerOfView(p))
      BY <2>2 DEF ReadRatings, Answer, AnswerOfView
    <3>2. IsAnswer(AnswerOfView(p)) /\ AnswerOfView(p).status = "shown"
      BY <1>1, ShowsTypes DEF HandlerOK, AnswerOfView
    <3>3. Moves(p, {})
      BY <3>1, <3>2 DEF Moves
    <3> QED BY <3>1, <3>3, MovesTypes
  <2> QED BY <1>2, <2>1, <2>2
<1>3. CASE ReadFavourites(p) \/ ReadRestaurants(p)
  <2>1. req' = req /\ answer' = answer /\ pc[p] \in {"check", "rows"} /\ req[p].op \in ViewOps
    BY <1>1, <1>3 DEF ReadFavourites, ReadRestaurants, Goto, Look, At, HandlerOK, ViewOps
  <2>2. \/ /\ pc' = [pc EXCEPT ![p] = "rows"]
           /\ wanted' = [wanted EXCEPT ![p] = FavouritesOf(req[p].userId)]
           /\ counted' = counted
        \/ /\ pc' = [pc EXCEPT ![p] = "ratings"]
           /\ counted' = [counted EXCEPT ![p] = [id \in Wanted(p) |-> RowOf(id)]]
           /\ wanted' = wanted /\ Wanted(p) \subseteq DOMAIN restaurants
    BY <1>3 DEF ReadFavourites, ReadRestaurants, Goto
  <2>3. FunctionsOK'
    BY <1>1, <2>1, <2>2 DEF FunctionsOK
  <2>4. ASSUME NEW k \in Requests, k # p PROVE HandlerOK(k)'
    <3>1. /\ HandlerOK(k) /\ pc'[k] = pc[k] /\ answer'[k] = answer[k] /\ req'[k] = req[k]
          /\ wanted'[k] = wanted[k] /\ counted'[k] = counted[k]
      BY <1>1, <2>1, <2>2, <2>4 DEF TypeInv, FunctionsOK
    <3>2. IsAnswer(answer[k])'
      BY <3>1 DEF HandlerOK, IsAnswer
    <3> QED BY <3>1, <3>2 DEF HandlerOK
  <2>5. \/ pc'[p] = "rows" /\ wanted'[p] = FavouritesOf(req[p].userId) /\ counted'[p] = counted[p]
        \/ /\ pc'[p] = "ratings" /\ wanted'[p] = wanted[p]
           /\ counted'[p] = [id \in Wanted(p) |-> RowOf(id)]
           /\ Wanted(p) \subseteq DOMAIN restaurants
    BY <1>1, <2>2 DEF FunctionsOK
  <2>6. /\ wanted'[p] \subseteq Nat \ {0}
        /\ DOMAIN counted'[p] \subseteq Nat \ {0}
        /\ counted'[p] \in [DOMAIN counted'[p] -> [ownerId : Users, count : Nat]]
    BY <1>1, <2>5, IdTypes DEF HandlerOK
  <2>7. IsAnswer(answer[p])'
    BY <1>1, <2>1 DEF HandlerOK, IsAnswer
  <2>8. pc'[p] \in {"rows", "ratings"}
    BY <2>5
  <2>9. HandlerOK(p)'
    BY <1>1, <2>1, <2>6, <2>7, <2>8 DEF HandlerOK
  <2> QED BY <2>3, <2>4, <2>9
<1> QED BY <1>2, <1>3 DEF HandleView

\* The statements that write keep the types of the tables.
LEMMA WritesTypes ==
    ASSUME TypeInv, NEW p \in Requests, Writes(p)
    PROVE  TablesOK'
<1>0. TablesOK /\ HandlerOK(p) /\ lastId.restaurant \in Nat /\ lastId.comment \in Nat
  BY IdTypes DEF TypeInv
<1>1. req[p] \in Asked
  BY <1>0, WritesMove DEF HandlerOK
<1>2. CASE CreateRestaurant(p)
  <2>1. req[p].change.name \in Names /\ req[p].userId \in Users
    BY <1>1, <1>2, RequestShape DEF CreateRestaurant, At
  <2> DEFINE row == [ownerId |-> req[p].userId, name |-> req[p].change.name]
             new == lastId.restaurant + 1
  <2>2. /\ restaurants' = [i \in DOMAIN restaurants \cup {new} |->
                              IF i = new THEN row ELSE restaurants[i]]
        /\ lastId' = [lastId EXCEPT !.restaurant = new]
        /\ UNCHANGED <<comments, favourites, reserved>>
    BY <1>2 DEF CreateRestaurant
  <2>3. row \in Restaurant
    BY <2>1 DEF Restaurant
  <2>4. /\ lastId'.restaurant = new /\ lastId'.comment = lastId.comment
        /\ lastId' \in [restaurant : Nat, comment : Nat]
    BY <1>0, <2>2 DEF TablesOK
  <2>5. new \in Nat /\ \A i \in 1..lastId.restaurant : i \in 1..new
    BY <1>0
  <2>6. new \in 1..new
    BY <1>0
  <2> HIDE DEF row, new
  <2>7. DOMAIN restaurants' \subseteq 1..new /\ restaurants' \in [DOMAIN restaurants' -> Restaurant]
    BY <1>0, <2>2, <2>3, <2>5, <2>6 DEF TablesOK
  <2> QED BY <1>0, <2>2, <2>4, <2>5, <2>7 DEF TablesOK
<1>3. CASE UpdateRestaurant(p)
  <2>1. req[p].change \in RestaurantChange
    BY <1>1, <1>3, RequestShape DEF UpdateRestaurant, At
  <2>2. restaurants[req[p].id] \in Restaurant
    BY <1>0, <1>3 DEF UpdateRestaurant, RestaurantExists, TablesOK
  <2>3. Merge(restaurants[req[p].id], req[p].change) \in Restaurant
    BY <2>1, <2>2, MergeRestaurant
  <2> QED BY <1>0, <1>3, <2>3 DEF UpdateRestaurant, TablesOK
<1>4. CASE DeleteRestaurant(p)
  BY <1>0, <1>4 DEF DeleteRestaurant, Without, TablesOK
<1>5. CASE CreateComment(p)
  <2>1. /\ req[p].change.rating \in Ratings /\ req[p].change.body \in Bodies
        /\ req[p].userId \in Users /\ req[p].id \in Nat \ {0}
    BY <1>1, <1>5, RequestShape DEF CreateComment, At
  <2> DEFINE row == [userId |-> req[p].userId, restaurantId |-> req[p].id,
                     rating |-> req[p].change.rating, body |-> req[p].change.body]
             new == lastId.comment + 1
  <2>2. /\ comments' = [i \in DOMAIN comments \cup {new} |->
                           IF i = new THEN row ELSE comments[i]]
        /\ lastId' = [lastId EXCEPT !.comment = new]
        /\ UNCHANGED <<restaurants, favourites, reserved>>
    BY <1>5 DEF CreateComment
  <2>3. row \in Comment
    BY <2>1 DEF Comment
  <2>4. /\ lastId'.comment = new /\ lastId'.restaurant = lastId.restaurant
        /\ lastId' \in [restaurant : Nat, comment : Nat]
    BY <1>0, <2>2 DEF TablesOK
  <2>5. new \in Nat /\ \A i \in 1..lastId.comment : i \in 1..new
    BY <1>0
  <2>6. new \in 1..new
    BY <1>0
  <2> HIDE DEF row, new
  <2>7. DOMAIN comments' \subseteq 1..new /\ comments' \in [DOMAIN comments' -> Comment]
    BY <1>0, <2>2, <2>3, <2>5, <2>6 DEF TablesOK
  <2> QED BY <1>0, <2>2, <2>4, <2>5, <2>7 DEF TablesOK
<1>6. CASE CreateCommentOrphan(p)
  <2>1. /\ lastId'.comment = lastId.comment + 1 /\ lastId'.restaurant = lastId.restaurant
        /\ lastId' \in [restaurant : Nat, comment : Nat]
        /\ UNCHANGED <<restaurants, comments, favourites, reserved>>
    BY <1>0, <1>6 DEF CreateCommentOrphan, TablesOK
  <2>2. \A i \in 1..lastId.comment : i \in 1..(lastId.comment + 1)
    BY <1>0
  <2> QED BY <1>0, <2>1, <2>2 DEF TablesOK
<1>7. CASE UpdateComment(p)
  <2>1. req[p].change \in CommentChange
    BY <1>1, <1>7, RequestShape DEF UpdateComment, At
  <2>2. comments[req[p].id] \in Comment
    BY <1>0, <1>7 DEF UpdateComment, CommentExists, TablesOK
  <2>3. Merge(comments[req[p].id], req[p].change) \in Comment
    BY <2>1, <2>2, MergeComment
  <2> QED BY <1>0, <1>7, <2>3 DEF UpdateComment, TablesOK
<1>8. CASE DeleteComment(p)
  BY <1>0, <1>8 DEF DeleteComment, Without, TablesOK
<1>9. CASE CreateFavourite(p) \/ DeleteFavourite(p)
  <2>1. FavouriteOf(p) \in Favourite
    BY <1>1, RequestShape DEF FavouriteOf, Favourite
  <2> QED BY <1>0, <1>9, <2>1 DEF CreateFavourite, DeleteFavourite, TablesOK
<1> QED BY <1>2, <1>3, <1>4, <1>5, <1>6, <1>7, <1>8, <1>9 DEF Writes

\* What is on record as true is an answer.
LEMMA HistoryTypes ==
    ASSUME TypeInv, RecordTruths, RecordTears, \A p \in Requests : HandlerOK(p)'
    PROVE  HistoryOK'
<1>1. ASSUME NEW p \in Requests, NEW a \in truths'[p] PROVE IsAnswer(a)
  <2>1. CASE a \in truths[p]
    BY <2>1 DEF TypeInv, HistoryOK
  <2>2. CASE a \notin truths[p]
    <3>1. req'[p] \in Asked /\ a = TrueAnswer(req'[p])
      BY <1>1, <2>2 DEF RecordTruths, HandlerOK
    <3> QED BY <3>1, TrueAnswerType DEF TypeInv
  <2> QED BY <2>1, <2>2
<1>2. ASSUME NEW p \in Requests, NEW a \in truths'[p] PROVE IsAnswer(a)'
  BY <1>1, <1>2 DEF IsAnswer
<1>3. \A p \in Requests : torn'[p] \in BOOLEAN
  BY DEF RecordTears, TypeInv, HistoryOK
<1> QED BY <1>2, <1>3 DEF HistoryOK, RecordTruths, RecordTears

\* The types hold before the first request.
LEMMA InitTypes == Init => TypeInv
<1> SUFFICES ASSUME Init PROVE TypeInv
  OBVIOUS
<1>1. TablesOK
  <2>1. Cardinality(DOMAIN SeededRestaurants) \in Nat /\ Cardinality(DOMAIN SeededComments) \in Nat
    BY SeededAssumption, FS_CardinalityType
  <2>2. lastId \in [restaurant : Nat, comment : Nat]
    BY <2>1 DEF Init
  <2>3. /\ DOMAIN restaurants = 1..lastId.restaurant /\ restaurants \in [DOMAIN restaurants -> Restaurant]
        /\ DOMAIN comments = 1..lastId.comment /\ comments \in [DOMAIN comments -> Comment]
    BY SeededAssumption DEF Init
  <2> QED BY <2>2, <2>3, SeededAssumption DEF Init, TablesOK
<1>2. FunctionsOK /\ HistoryOK
  BY DEF Init, FunctionsOK, HistoryOK
<1>3. ASSUME NEW p \in Requests PROVE HandlerOK(p)
  <2>1. IsAnswer(answer[p]) /\ answer[p].status = "pending"
    BY AnswerTypes DEF Init, Statuses
  <2> QED BY <2>1 DEF Init, HandlerOK
<1> QED BY <1>1, <1>2, <1>3 DEF TypeInv

\* A reservation (of the other handlers) blocks a restaurant and changes no type.
LEMMA ReserveTypes ==
    ASSUME TypeInv, NEW id \in DOMAIN restaurants, Reserve(id), UNCHANGED reading
    PROVE  TablesOK' /\ FunctionsOK' /\ \A k \in Requests : HandlerOK(k)'
<1>1. /\ reserved' = reserved \cup {id}
      /\ UNCHANGED <<restaurants, comments, favourites, lastId, req, pc, answer, wanted, counted>>
  BY DEF Reserve, reading
<1>2. TablesOK'
  BY <1>1 DEF TypeInv, TablesOK
<1>3. FunctionsOK'
  BY <1>1 DEF TypeInv, FunctionsOK
<1>4. ASSUME NEW k \in Requests PROVE HandlerOK(k)'
  BY <1>1 DEF TypeInv, HandlerOK, IsAnswer
<1> QED BY <1>2, <1>3, <1>4

\* Every step keeps the types.
LEMMA NextTypes == TypeInv /\ [Next]_vars => TypeInv'
<1> SUFFICES ASSUME TypeInv, [Next]_vars PROVE TypeInv'
  OBVIOUS
<1>1. CASE Next
  <2>1. TablesOK' /\ FunctionsOK' /\ \A k \in Requests : HandlerOK(k)'
    <3>1. UNCHANGED tables => TablesOK'
      BY DEF tables, TypeInv, TablesOK
    <3>2. CASE \E p \in Requests : Submit(p) /\ UNCHANGED <<tables, reading>>
      BY <3>1, <3>2, SubmitTypes
    <3>3. CASE \E p \in Requests : HandleView(p) /\ UNCHANGED tables
      BY <3>1, <3>3, ViewTypes
    <3>4. CASE \E p \in Requests : Looks(p) /\ UNCHANGED <<tables, reading>>
      BY <3>1, <3>4, LooksMove, MovesTypes DEF TypeInv
    <3>5. CASE \E p \in Requests : Writes(p) /\ UNCHANGED reading
      BY <3>5, WritesMove, WritesTypes, MovesTypes DEF TypeInv
    <3>6. CASE \E id \in DOMAIN restaurants : Reserve(id) /\ UNCHANGED reading
      BY <3>6, ReserveTypes
    <3> QED BY <1>1, <3>2, <3>3, <3>4, <3>5, <3>6, StepKinds
  <2>2. RecordTruths /\ RecordTears
    BY <1>1 DEF Next
  <2>3. HistoryOK'
    BY <2>1, <2>2, HistoryTypes
  <2> QED BY <2>1, <2>3 DEF TypeInv
<1>2. CASE UNCHANGED vars
  <2>1. UNCHANGED <<restaurants, comments, favourites, reserved, lastId, req, pc, wanted,
                    counted, answer, truths, torn>>
    BY <1>2 DEF vars, tables, reading
  <2>2. TablesOK' /\ FunctionsOK' /\ HistoryOK'
    BY <2>1 DEF TypeInv, TablesOK, FunctionsOK, HistoryOK, IsAnswer
  <2>3. ASSUME NEW k \in Requests PROVE HandlerOK(k)'
    BY <2>1 DEF TypeInv, HandlerOK, IsAnswer
  <2> QED BY <2>2, <2>3 DEF TypeInv
<1> QED BY <1>1, <1>2

\* The inductive invariant is at least the type invariant that TLC checks.
LEMMA TypeInvTypes == TypeInv => TypeOK
<1> SUFFICES ASSUME TypeInv PROVE TypeOK
  OBVIOUS
<1>1. req \in [Requests -> Request \cup {NoRequest}]
  <2>1. \A p \in Requests : req[p] \in Request \cup {NoRequest}
    BY AskedAssumption DEF TypeInv, HandlerOK
  <2> QED BY <2>1 DEF TypeInv, FunctionsOK
<1>2. pc \in [Requests -> {"idle", "check", "relations", "write", "rows", "ratings", "done"}]
  <2>1. \A p \in Requests : pc[p] \in {"idle", "check", "relations", "write", "rows", "ratings",
                                       "done"}
    BY DEF TypeInv, HandlerOK
  <2> QED BY <2>1 DEF TypeInv, FunctionsOK
<1>3. wanted \in [Requests -> SUBSET (Nat \ {0})]
  <2>1. \A p \in Requests : wanted[p] \in SUBSET (Nat \ {0})
    BY DEF TypeInv, HandlerOK
  <2> QED BY <2>1 DEF TypeInv, FunctionsOK
<1>4. \A p \in Requests : \A a \in {answer[p]} \cup truths[p] : IsAnswer(a)
  BY DEF TypeInv, HandlerOK, HistoryOK
<1>5. \A p \in Requests : counted[p] \in [DOMAIN counted[p] -> [ownerId : Users, count : Nat]]
  BY DEF TypeInv, HandlerOK
<1> QED BY <1>1, <1>2, <1>3, <1>4, <1>5 DEF TypeInv, TablesOK, HistoryOK, TypeOK

\* The rows and the handlers keep their types, in every execution, whatever the
\* requests: no statement of a handler leaves a row without its columns.
THEOREM TypeCorrect == Spec => []TypeOK
<1>1. Spec => []TypeInv
  BY InitTypes, NextTypes, PTL DEF Spec
<1> QED BY <1>1, TypeInvTypes, PTL

-------------------------------------------------------------------------------
(* The tables.                                                             *)

\* No id is given twice, and nobody takes over a restaurant or a comment.
IdsKept ==
    /\ lastId.restaurant <= lastId'.restaurant /\ lastId.comment <= lastId'.comment
    /\ \A id \in 1..lastId.restaurant : id \in DOMAIN restaurants' =>
           id \in DOMAIN restaurants /\ restaurants'[id].ownerId = restaurants[id].ownerId
    /\ \A id \in 1..lastId.comment : id \in DOMAIN comments' =>
           id \in DOMAIN comments /\ comments'[id].userId = comments[id].userId
               /\ comments'[id].restaurantId = comments[id].restaurantId

\* A step that leaves restaurants, comments and their sequences alone moves no id.
LEMMA QuietKeeps == ASSUME TablesOK, UNCHANGED <<restaurants, comments, lastId>> PROVE IdsKept
BY IdTypes DEF IdsKept

\* No write of a handler reuses an id: a row stays under its id or goes for good.
LEMMA WritesKeep ==
    ASSUME TypeInv, NEW p \in Requests, Writes(p)
    PROVE  IdsKept
<1>0. TablesOK /\ HandlerOK(p) /\ lastId.restaurant \in Nat /\ lastId.comment \in Nat
  BY IdTypes DEF TypeInv
<1>1. req[p] \in Asked
  BY <1>0, WritesMove DEF HandlerOK
<1>2. CASE CreateRestaurant(p)
  <2>1. /\ lastId'.restaurant = lastId.restaurant + 1 /\ comments' = comments
        /\ lastId'.comment = lastId.comment
        /\ \A i \in 1..lastId.restaurant : i # lastId.restaurant + 1
    BY <1>0, <1>2 DEF CreateRestaurant, TablesOK
  <2>2. \A i \in DOMAIN restaurants' : i # lastId.restaurant + 1 =>
            i \in DOMAIN restaurants /\ restaurants'[i] = restaurants[i]
    BY <1>2 DEF CreateRestaurant
  <2> QED BY <1>0, <2>1, <2>2 DEF IdsKept
<1>3. CASE UpdateRestaurant(p)
  <2>1. req[p].change \in RestaurantChange /\ restaurants[req[p].id] \in Restaurant
    BY <1>0, <1>1, <1>3, RequestShape DEF UpdateRestaurant, At, RestaurantExists, TablesOK
  <2>2. Merge(restaurants[req[p].id], req[p].change).ownerId = restaurants[req[p].id].ownerId
    BY <2>1, MergeRestaurant
  <2> QED BY <1>0, <1>3, <2>2 DEF UpdateRestaurant, TablesOK, IdsKept
<1>4. CASE DeleteRestaurant(p)
  BY <1>0, <1>4 DEF DeleteRestaurant, Without, IdsKept
<1>5. CASE CreateComment(p)
  <2>1. /\ lastId'.comment = lastId.comment + 1 /\ restaurants' = restaurants
        /\ lastId'.restaurant = lastId.restaurant
        /\ \A i \in 1..lastId.comment : i # lastId.comment + 1
    BY <1>0, <1>5 DEF CreateComment, TablesOK
  <2>2. \A i \in DOMAIN comments' : i # lastId.comment + 1 =>
            i \in DOMAIN comments /\ comments'[i] = comments[i]
    BY <1>5 DEF CreateComment
  <2> QED BY <1>0, <2>1, <2>2 DEF IdsKept
<1>6. CASE CreateCommentOrphan(p)
  <2>1. /\ lastId'.comment = lastId.comment + 1 /\ lastId'.restaurant = lastId.restaurant
        /\ UNCHANGED <<restaurants, comments>>
    BY <1>0, <1>6 DEF CreateCommentOrphan, TablesOK
  <2> QED BY <1>0, <2>1 DEF IdsKept
<1>7. CASE UpdateComment(p)
  <2>1. req[p].change \in CommentChange /\ comments[req[p].id] \in Comment
    BY <1>0, <1>1, <1>7, RequestShape DEF UpdateComment, At, CommentExists, TablesOK
  <2>2. /\ Merge(comments[req[p].id], req[p].change).userId = comments[req[p].id].userId
        /\ Merge(comments[req[p].id], req[p].change).restaurantId
               = comments[req[p].id].restaurantId
    BY <2>1, MergeComment
  <2> QED BY <1>0, <1>7, <2>2 DEF UpdateComment, TablesOK, IdsKept
<1>8. CASE DeleteComment(p)
  BY <1>0, <1>8 DEF DeleteComment, Without, IdsKept
<1>9. CASE CreateFavourite(p) \/ DeleteFavourite(p)
  BY <1>0, <1>9, QuietKeeps DEF CreateFavourite, DeleteFavourite
<1> QED BY <1>2, <1>3, <1>4, <1>5, <1>6, <1>7, <1>8, <1>9 DEF Writes

\* The foreign keys, at each write.
LEMMA WritesRefer ==
    ASSUME TypeInv, ReferentialIntegrity, NEW p \in Requests, Writes(p)
    PROVE  ReferentialIntegrity'
<1>0. TablesOK /\ HandlerOK(p) /\ lastId.restaurant \in Nat /\ lastId.comment \in Nat
  BY IdTypes DEF TypeInv
<1>1. req[p] \in Asked
  BY <1>0, WritesMove DEF HandlerOK
<1> USE DEF ReferentialIntegrity, RestaurantExists
<1>2. CASE CreateRestaurant(p)
  BY <1>2 DEF CreateRestaurant
<1>3. CASE UpdateRestaurant(p)
  BY <1>3 DEF UpdateRestaurant
<1>4. CASE DeleteRestaurant(p)
  BY <1>4 DEF DeleteRestaurant, Without, Referenced, CommentsOf, Favourited
<1>5. CASE CreateComment(p)
  <2>1. ASSUME NEW c \in DOMAIN comments'
        PROVE  comments'[c].restaurantId \in DOMAIN restaurants
    BY <1>5 DEF CreateComment
  <2> QED BY <1>5, <2>1 DEF CreateComment
<1>6. CASE CreateCommentOrphan(p)
  BY <1>6 DEF CreateCommentOrphan
<1>7. CASE UpdateComment(p)
  <2>1. req[p].change \in CommentChange /\ comments[req[p].id] \in Comment
    BY <1>0, <1>1, <1>7, RequestShape DEF UpdateComment, At, CommentExists, TablesOK
  <2>2. Merge(comments[req[p].id], req[p].change).restaurantId = comments[req[p].id].restaurantId
    BY <2>1, MergeComment
  <2> QED BY <1>7, <2>2 DEF UpdateComment, CommentExists
<1>8. CASE DeleteComment(p)
  BY <1>8 DEF DeleteComment, Without
<1>9. CASE CreateFavourite(p) \/ DeleteFavourite(p)
  BY <1>9 DEF CreateFavourite, DeleteFavourite, FavouriteOf
<1> QED BY <1>2, <1>3, <1>4, <1>5, <1>6, <1>7, <1>8, <1>9 DEF Writes

\* What a handler knows stays true while it waits, and after the steps of others.
LEMMA KnownStays ==
    ASSUME TypeInv, TablesOK', IdsKept, NEW k \in Requests, KnownOK(k),
           req'[k] = req[k], wanted'[k] = wanted[k],
           \/ pc'[k] = pc[k] \/ pc'[k] \notin {"relations", "write"}
           \/ pc[k] = "relations" /\ req[k].op \in OwnerOps
    PROVE  KnownOK(k)'
<1>1. /\ lastId.restaurant \in Nat /\ lastId.comment \in Nat
      /\ lastId'.restaurant \in Nat /\ lastId'.comment \in Nat
  BY IdTypes DEF TypeInv, TablesOK
<1>2. /\ \A id \in 1..lastId.restaurant : id \in 1..lastId'.restaurant
      /\ \A id \in 1..lastId.comment : id \in 1..lastId'.comment
  BY <1>1 DEF IdsKept
<1>3. CASE pc'[k] \in {"relations", "write"} /\ req[k].op \in OwnerOps
  <2>1. pc[k] \in {"relations", "write"} /\ req[k].op \notin AuthorOps
    BY <1>3 DEF OwnerOps, AuthorOps
  <2> QED BY <1>2, <1>3, <2>1 DEF KnownOK, IdsKept, RestaurantExists, OwnsRestaurant
<1>4. CASE pc'[k] = "write" /\ req[k].op \in AuthorOps
  <2>1. pc[k] = "write" /\ req[k].op \notin OwnerOps
    BY <1>4 DEF OwnerOps, AuthorOps
  <2> QED BY <1>2, <1>4, <2>1 DEF KnownOK, IdsKept, CommentExists, Authored
<1> QED BY <1>2, <1>3, <1>4 DEF KnownOK

\* A check or a look at relations establishes what its handler then relies on.
LEMMA LooksKnow ==
    ASSUME TypeInv, NEW p \in Requests, KnownOK(p), Looks(p), UNCHANGED <<tables, reading>>
    PROVE  KnownOK(p)'
<1>0. /\ TablesOK /\ HandlerOK(p) /\ FunctionsOK /\ req' = req /\ wanted' = wanted
      /\ UNCHANGED <<restaurants, comments, lastId>> /\ TablesOK'
  BY LooksMove DEF TypeInv, Moves, tables, reading, TablesOK
<1>1. IdsKept
  BY <1>0, QuietKeeps
<1>2. CASE UpdateRestaurantProceeds(p) \/ DeleteRestaurantProceeds(p)
  <2>1. /\ RestaurantExists(req[p].id) /\ OwnsRestaurant(p) /\ req[p].op \notin AuthorOps
        /\ req[p].id \in 1..lastId.restaurant
    BY <1>0, <1>2 DEF UpdateRestaurantProceeds, DeleteRestaurantProceeds, Look, At, AuthorOps,
                      RestaurantExists, TablesOK
  <2> QED BY <1>0, <2>1 DEF KnownOK, RestaurantExists, OwnsRestaurant
<1>3. CASE HasRelations(p)
  <2>1. pc[p] = "relations" /\ req[p].op \in OwnerOps
    BY <1>3 DEF HasRelations, Look, At, OwnerOps
  <2> QED BY <1>0, <1>1, <2>1, KnownStays
<1>4. CASE CommentProceeds(p)
  <2>1. /\ CommentExists(req[p].id) /\ Authored(p) /\ req[p].op \notin OwnerOps
        /\ req[p].id \in 1..lastId.comment
    BY <1>0, <1>4 DEF CommentProceeds, Look, At, OwnerOps, CommentExists, TablesOK
  <2> QED BY <1>0, <2>1 DEF KnownOK, CommentExists, Authored
<1>5. CASE CommentsRestaurantFound(p) \/ FavouriteRestaurantFound(p)
  <2>1. req[p].op \notin OwnerOps \cup AuthorOps
    BY <1>5 DEF CommentsRestaurantFound, FavouriteRestaurantFound, Look, At, OwnerOps, AuthorOps
  <2> QED BY <1>0, <2>1 DEF KnownOK
<1>6. CASE \E a : Answer(p, a)
  <2>1. pc'[p] = "done"
    BY <1>0, <1>6 DEF Answer, FunctionsOK
  <2> QED BY <1>0, <1>1, <2>1, KnownStays
<1>7. \/ UpdateRestaurantProceeds(p) \/ DeleteRestaurantProceeds(p) \/ HasRelations(p)
      \/ CommentProceeds(p) \/ CommentsRestaurantFound(p) \/ FavouriteRestaurantFound(p)
      \/ \E a : Answer(p, a)
  BY DEF Looks, RestaurantMissing, RestaurantForeign, UpdateRestaurantGone,
         DeleteRestaurantReferenced, DeleteRestaurantGone, CommentsRestaurantMissing,
         ListComments, CommentMissing, CommentForeign, CommentGone, FavouriteRestaurantMissing,
         CreateFavouriteAgain, CreateFavouriteOrphan, DeleteFavouriteMissing
<1> QED BY <1>2, <1>3, <1>4, <1>5, <1>6, <1>7

\* So does each statement of a read.
LEMMA ViewKnows ==
    ASSUME TypeInv, ReferentialIntegrity, NEW p \in Requests, KnownOK(p), HandleView(p),
           UNCHANGED tables
    PROVE  KnownOK(p)'
<1>0. TablesOK /\ FunctionsOK /\ UNCHANGED <<restaurants, comments, lastId>> /\ TablesOK'
  BY DEF TypeInv, tables, TablesOK
<1>1. pc'[p] \notin {"relations", "write"} /\ req' = req
  BY <1>0 DEF HandleView, ReadFavourites, ReadRestaurantGone, ReadRestaurants, ReadRatings,
              Answer, Goto, FunctionsOK
<1>2. wanted'[p] = wanted[p] \/ wanted'[p] = FavouritesOf(req[p].userId)
  BY <1>0 DEF HandleView, ReadFavourites, ReadRestaurantGone, ReadRestaurants, ReadRatings,
              reading, FunctionsOK
<1>3. FavouritesOf(req[p].userId) \subseteq 1..lastId.restaurant
  BY <1>0 DEF FavouritesOf, ReferentialIntegrity, RestaurantExists, TablesOK
<1> QED BY <1>0, <1>1, <1>2, <1>3 DEF KnownOK

\* The steps of p leave what the other handlers keep.
LEMMA OthersKept ==
    ASSUME TypeInv, NEW p \in Requests, NEW k \in Requests, k # p,
           \/ Submit(p) /\ UNCHANGED reading
           \/ HandleView(p)
           \/ (Looks(p) \/ Writes(p)) /\ UNCHANGED reading
    PROVE  /\ req'[k] = req[k] /\ pc'[k] = pc[k] /\ answer'[k] = answer[k]
           /\ wanted'[k] = wanted[k] /\ counted'[k] = counted[k]
<1>0. TablesOK /\ FunctionsOK
  BY DEF TypeInv
<1>1. CASE Submit(p) /\ UNCHANGED reading
  <2>1. /\ \E q : req' = [req EXCEPT ![p] = q]
        /\ \/ pc' = [pc EXCEPT ![p] = "done"]
              /\ answer' = [answer EXCEPT ![p] = Says("emptyUpdate")]
           \/ (\E l : pc' = [pc EXCEPT ![p] = l]) /\ answer' = answer
    BY <1>1, Zenon DEF Submit
  <2> QED BY <1>0, <1>1, <2>1 DEF FunctionsOK, reading
<1>2. CASE HandleView(p)
  BY <1>0, <1>2 DEF HandleView, ReadFavourites, ReadRestaurantGone, ReadRestaurants, ReadRatings,
                    Answer, Goto, reading, FunctionsOK
<1>3. CASE (Looks(p) \/ Writes(p)) /\ UNCHANGED reading
  <2>1. Moves(p, {"relations", "write"}) \/ Moves(p, {})
    BY <1>0, <1>3, LooksMove, WritesMove
  <2> QED BY <1>0, <1>3, <2>1 DEF Moves, Goto, Answer, reading, FunctionsOK
<1> QED BY <1>1, <1>2, <1>3

\* A request that arrives relies on nothing yet.
LEMMA SubmitKnows ==
    ASSUME TypeInv, NEW p \in Requests, KnownOK(p), Submit(p), UNCHANGED <<tables, reading>>
    PROVE  KnownOK(p)'
<1> DEFINE place(q) == CASE q.op \in {"createRestaurant", "deleteFavourite"} -> "write"
                         [] q.op \in {"viewRestaurant", "listRestaurants"} -> "rows"
                         [] OTHER -> "check"
<1>1. PICK q \in Asked :
          /\ req' = [req EXCEPT ![p] = q]
          /\ pc' = [pc EXCEPT ![p] = "done"] \/ pc' = [pc EXCEPT ![p] = place(q)]
  BY Zenon DEF Submit
<1>2. /\ place(q) # "relations"
      /\ place(q) = "write" => q.op \notin OwnerOps \cup AuthorOps
  BY DEF OwnerOps, AuthorOps
<1> HIDE DEF place
<1>3. req'[p] = q /\ (pc'[p] = "done" \/ pc'[p] = place(q))
  BY <1>1 DEF TypeInv, FunctionsOK
<1>4. wanted'[p] = wanted[p] /\ lastId' = lastId
  BY DEF tables, reading
<1> QED BY <1>2, <1>3, <1>4 DEF KnownOK

\* The tables of a start refer to rows that are there.
LEMMA InitTables == Init => TablesInv
<1> SUFFICES ASSUME Init PROVE TablesInv
  OBVIOUS
<1>1. ReferentialIntegrity
  BY SeededAssumption DEF Init, ReferentialIntegrity, RestaurantExists
<1>2. \A p \in Requests : KnownOK(p)
  BY DEF Init, KnownOK
<1> QED BY <1>1, <1>2, InitTypes DEF TablesInv

\* Every step keeps the references, and what each handler has learnt.
LEMMA NextTables == TablesInv /\ [Next]_vars => TablesInv'
<1> SUFFICES ASSUME TablesInv, [Next]_vars PROVE TablesInv'
  OBVIOUS
<1>1. TypeInv /\ TypeInv' /\ TablesOK' /\ ReferentialIntegrity
  BY NextTypes DEF TablesInv, TypeInv
<1>2. \A k \in Requests : KnownOK(k)
  BY DEF TablesInv
<1>3. UNCHANGED tables => ReferentialIntegrity' /\ IdsKept
  BY <1>1, QuietKeeps DEF tables, ReferentialIntegrity, RestaurantExists, TypeInv
<1>4. CASE \E p \in Requests : Submit(p) /\ UNCHANGED <<tables, reading>>
  <2>1. PICK p \in Requests : Submit(p) /\ UNCHANGED <<tables, reading>>
    BY <1>4
  <2>2. KnownOK(p)'
    BY <1>1, <1>2, <2>1, SubmitKnows
  <2>3. \A k \in Requests \ {p} : KnownOK(k)'
    BY <1>1, <1>2, <1>3, <2>1, OthersKept, KnownStays
  <2> QED BY <1>1, <1>3, <2>1, <2>2, <2>3 DEF TablesInv
<1>5. CASE \E p \in Requests : HandleView(p) /\ UNCHANGED tables
  <2>1. PICK p \in Requests : HandleView(p) /\ UNCHANGED tables
    BY <1>5
  <2>2. KnownOK(p)'
    BY <1>1, <1>2, <2>1, ViewKnows
  <2>3. \A k \in Requests \ {p} : KnownOK(k)'
    BY <1>1, <1>2, <1>3, <2>1, OthersKept, KnownStays
  <2> QED BY <1>1, <1>3, <2>1, <2>2, <2>3 DEF TablesInv
<1>6. CASE \E p \in Requests : Looks(p) /\ UNCHANGED <<tables, reading>>
  <2>1. PICK p \in Requests : Looks(p) /\ UNCHANGED <<tables, reading>>
    BY <1>6
  <2>2. KnownOK(p)'
    BY <1>1, <1>2, <2>1, LooksKnow
  <2>3. \A k \in Requests \ {p} : KnownOK(k)'
    BY <1>1, <1>2, <1>3, <2>1, OthersKept, KnownStays
  <2> QED BY <1>1, <1>3, <2>1, <2>2, <2>3 DEF TablesInv
<1>7. CASE \E p \in Requests : Writes(p) /\ UNCHANGED reading
  <2>1. PICK p \in Requests : Writes(p) /\ UNCHANGED reading
    BY <1>7
  <2>2. IdsKept /\ ReferentialIntegrity'
    BY <1>1, <2>1, WritesKeep, WritesRefer
  <2>3. req' = req /\ pc'[p] = "done" /\ wanted' = wanted
    BY <1>1, <2>1, WritesMove DEF TypeInv, FunctionsOK, Moves, Answer, reading
  <2>4. KnownOK(p)'
    BY <1>1, <1>2, <2>2, <2>3, KnownStays
  <2>5. \A k \in Requests \ {p} : KnownOK(k)'
    BY <1>1, <1>2, <2>1, <2>2, OthersKept, KnownStays
  <2> QED BY <1>1, <2>2, <2>4, <2>5 DEF TablesInv
<1>8. CASE \E id \in DOMAIN restaurants : Reserve(id) /\ UNCHANGED reading
  <2>1. /\ \E id \in DOMAIN restaurants : reserved' = reserved \cup {id}
        /\ UNCHANGED <<restaurants, comments, favourites, lastId, req, pc, wanted>>
    BY <1>8 DEF Reserve, reading
  <2>2. ReferentialIntegrity'
    BY <1>1, <2>1 DEF ReferentialIntegrity, RestaurantExists
  <2>3. \A k \in Requests : KnownOK(k)'
    BY <1>1, <1>2, <2>1, QuietKeeps, KnownStays DEF TypeInv
  <2> QED BY <1>1, <2>2, <2>3 DEF TablesInv
<1>9. CASE UNCHANGED vars
  <2>1. UNCHANGED tables /\ UNCHANGED <<req, pc, wanted>>
    BY <1>9 DEF vars, reading
  <2>2. \A k \in Requests : KnownOK(k)'
    BY <1>1, <1>2, <1>3, <2>1, KnownStays
  <2> QED BY <1>1, <1>3, <2>1, <2>2 DEF TablesInv
<1> QED BY <1>4, <1>5, <1>6, <1>7, <1>8, <1>9, StepKinds

\* Comments, favourites and reservations always refer to a restaurant that exists,
\* although the handlers check it in an earlier statement than they insert, and
\* DELETE looks for relations before it deletes.
THEOREM ReferencesHold == Spec => []ReferentialIntegrity
<1>1. Spec => []TablesInv
  BY InitTables, NextTables, PTL DEF Spec
<1>2. TablesInv => ReferentialIntegrity
  BY DEF TablesInv
<1> QED BY <1>1, <1>2, PTL

-------------------------------------------------------------------------------
(* What a step may never do.                                               *)

\* Only the writes change rows.
LEMMA OnlyWritesChange ==
    ASSUME [Next]_vars, <<restaurants', comments'>> # <<restaurants, comments>>
    PROVE  \E p \in Requests : Writes(p)
BY StepKinds DEF vars, tables, Reserve

\* The rows that a write changes or removes are the owner's, or the author's.
LEMMA WritesOfOwners ==
    ASSUME TablesInv, NEW p \in Requests, Writes(p)
    PROVE  /\ \A id \in DOMAIN restaurants :
                  (id \notin DOMAIN restaurants' \/ restaurants'[id] # restaurants[id])
                      => WriteBy(restaurants[id].ownerId, id, OwnerOps)
           /\ \A id \in DOMAIN comments :
                  (id \notin DOMAIN comments' \/ comments'[id] # comments[id])
                      => WriteBy(comments[id].userId, id, AuthorOps)
<1>0. /\ TypeInv /\ TablesOK /\ KnownOK(p) /\ pc[p] = "write" /\ pc'[p] = "done"
      /\ lastId.restaurant \in Nat /\ lastId.comment \in Nat
  BY WritesMove, IdTypes DEF TablesInv, TypeInv, FunctionsOK, Moves, Answer
<1>1. CASE CreateRestaurant(p)
  <2>1. lastId.restaurant + 1 \notin DOMAIN restaurants /\ comments' = comments
    BY <1>0, <1>1 DEF CreateRestaurant, TablesOK
  <2> QED BY <1>1, <2>1 DEF CreateRestaurant
<1>2. CASE UpdateRestaurant(p) \/ DeleteRestaurant(p)
  <2>1. req[p].op \in OwnerOps /\ OwnsRestaurant(p) /\ comments' = comments
    BY <1>0, <1>2 DEF UpdateRestaurant, DeleteRestaurant, At, KnownOK, OwnerOps
  <2>2. \A id \in DOMAIN restaurants : id # req[p].id =>
            id \in DOMAIN restaurants' /\ restaurants'[id] = restaurants[id]
    BY <1>2 DEF UpdateRestaurant, DeleteRestaurant, Without
  <2> QED BY <1>0, <2>1, <2>2 DEF WriteBy, OwnsRestaurant
<1>3. CASE CreateComment(p)
  <2>1. lastId.comment + 1 \notin DOMAIN comments /\ restaurants' = restaurants
    BY <1>0, <1>3 DEF CreateComment, TablesOK
  <2> QED BY <1>3, <2>1 DEF CreateComment
<1>4. CASE UpdateComment(p) \/ DeleteComment(p)
  <2>1. req[p].op \in AuthorOps /\ Authored(p) /\ restaurants' = restaurants
    BY <1>0, <1>4 DEF UpdateComment, DeleteComment, At, KnownOK, AuthorOps
  <2>2. \A id \in DOMAIN comments : id # req[p].id =>
            id \in DOMAIN comments' /\ comments'[id] = comments[id]
    BY <1>4 DEF UpdateComment, DeleteComment, Without
  <2> QED BY <1>0, <2>1, <2>2 DEF WriteBy, Authored
<1>5. CASE CreateCommentOrphan(p) \/ CreateFavourite(p) \/ DeleteFavourite(p)
  BY <1>5 DEF CreateCommentOrphan, CreateFavourite, DeleteFavourite
<1> QED BY <1>1, <1>2, <1>3, <1>4, <1>5 DEF Writes

\* A write changes the columns of a comment that a PATCH gives, and to what it gives.
LEMMA WritesMerge ==
    ASSUME TypeInv, NEW p \in Requests, Writes(p),
           NEW id \in DOMAIN comments, id \in DOMAIN comments',
           NEW f \in {"rating", "body"}, comments'[id][f] # comments[id][f]
    PROVE  /\ pc[p] = "write" /\ pc'[p] = "done"
           /\ req[p].op = "updateComment" /\ req[p].id = id
           /\ f \in DOMAIN req[p].change
           /\ comments'[id][f] = req[p].change[f]
<1>0. /\ TablesOK /\ HandlerOK(p) /\ pc[p] = "write" /\ pc'[p] = "done"
      /\ lastId.comment \in Nat /\ req[p] \in Asked
  BY WritesMove, IdTypes DEF TypeInv, FunctionsOK, HandlerOK, Moves, Answer
<1>1. CASE CreateComment(p)
  <2>1. id # lastId.comment + 1
    BY <1>0 DEF TablesOK
  <2> QED BY <1>1, <2>1 DEF CreateComment
<1>2. CASE UpdateComment(p)
  <2>1. req[p].op = "updateComment" /\ req[p].id \in DOMAIN comments
        /\ comments' = [comments EXCEPT ![req[p].id] = Merge(@, req[p].change)]
    BY <1>2 DEF UpdateComment, At, CommentExists
  <2>2. req[p].id = id /\ comments'[id] = Merge(comments[id], req[p].change)
    BY <2>1
  <2>3. req[p].change \in CommentChange /\ comments[id] \in Comment
    BY <1>0, <2>1, <2>2, RequestShape DEF TablesOK
  <2> QED BY <1>0, <2>1, <2>2, <2>3, MergeComment
<1>3. CASE DeleteComment(p)
  BY <1>3 DEF DeleteComment, Without
<1>4. CASE \/ CreateRestaurant(p) \/ UpdateRestaurant(p) \/ DeleteRestaurant(p)
           \/ CreateCommentOrphan(p) \/ CreateFavourite(p) \/ DeleteFavourite(p)
  BY <1>4 DEF CreateRestaurant, UpdateRestaurant, DeleteRestaurant, CreateCommentOrphan,
              CreateFavourite, DeleteFavourite
<1> QED BY <1>1, <1>2, <1>3, <1>4 DEF Writes

\* A restaurant and a comment are changed and deleted only by requests of the user
\* who owns them in that step, although the handlers check it a statement or two
\* before: the checked owner stays the owner for as long as the row lives.
THEOREM OwnersChange == Spec => OnlyOwnersChange
<1>1. Spec => []TablesInv
  BY InitTables, NextTables, PTL DEF Spec
<1>2. ASSUME TablesInv, [Next]_vars
      PROVE  [/\ \A id \in DOMAIN restaurants :
                     (id \notin DOMAIN restaurants' \/ restaurants'[id] # restaurants[id])
                         => WriteBy(restaurants[id].ownerId, id,
                                    {"updateRestaurant", "deleteRestaurant"})
              /\ \A id \in DOMAIN comments :
                     (id \notin DOMAIN comments' \/ comments'[id] # comments[id])
                         => WriteBy(comments[id].userId, id,
                                    {"updateComment", "deleteComment"})]_vars
  BY <1>2, OnlyWritesChange, WritesOfOwners DEF OwnerOps, AuthorOps
<1> QED BY <1>1, <1>2, PTL DEF Spec, OnlyOwnersChange

\* Two PATCHes of one comment lose nothing of each other: a field changes only in
\* the write of a PATCH that gives it, and to what it gives.
THEOREM NoLostPatch == Spec => PatchesMerge
<1>1. Spec => []TypeInv
  BY InitTypes, NextTypes, PTL DEF Spec
<1>2. ASSUME TypeInv, [Next]_vars
      PROVE  [\A id \in DOMAIN comments \cap DOMAIN comments', f \in {"rating", "body"} :
                 comments'[id][f] # comments[id][f] =>
                     \E p \in Requests :
                         /\ pc[p] = "write" /\ pc'[p] = "done"
                         /\ req[p].op = "updateComment" /\ req[p].id = id
                         /\ f \in DOMAIN req[p].change
                         /\ comments'[id][f] = req[p].change[f]]_vars
  BY <1>2, OnlyWritesChange, WritesMerge
<1> QED BY <1>1, <1>2, PTL DEF Spec, PatchesMerge

-------------------------------------------------------------------------------
(* The ledger.                                                             *)

\* The sets of requests that were told of an insertion or a deletion grow by the
\* request that is answered, if it is told so.
Grows(p) ==
    /\ \A op, a : a.status # "pending" =>
           /\ p \notin Inserted(op, a)
           /\ Inserted(op, a)' = IF req'[p].op = op /\ answer'[p] = a
                                 THEN Inserted(op, a) \cup {p} ELSE Inserted(op, a)
    /\ \A op, id :
           /\ p \notin Deleted(op, id)
           /\ Deleted(op, id)' = IF req'[p].op = op /\ req'[p].id = id
                                        /\ answer'[p].status = "deleted"
                                 THEN Deleted(op, id) \cup {p} ELSE Deleted(op, id)
    /\ \A op, s, row : s # "pending" =>
           /\ p \notin FavouriteAnswers(op, s, row)
           /\ FavouriteAnswers(op, s, row)' =
                  IF req'[p].op = op /\ FavouriteOf(p)' = row /\ answer'[p].status = s
                  THEN FavouriteAnswers(op, s, row) \cup {p} ELSE FavouriteAnswers(op, s, row)

\* A step that answers one pending request takes back no other answer.
LEMMA SetsGrow ==
    ASSUME NEW p \in Requests, answer[p].status = "pending", req'[p] # NoRequest,
           \A k \in Requests : k # p => req'[k] = req[k] /\ answer'[k] = answer[k]
    PROVE  Grows(p)
<1>1. ASSUME NEW op, NEW a, a.status # "pending"
      PROVE  /\ p \notin Inserted(op, a)
             /\ Inserted(op, a)' = IF req'[p].op = op /\ answer'[p] = a
                                   THEN Inserted(op, a) \cup {p} ELSE Inserted(op, a)
  BY <1>1 DEF Inserted
<1>2. ASSUME NEW op, NEW id
      PROVE  /\ p \notin Deleted(op, id)
             /\ Deleted(op, id)' = IF req'[p].op = op /\ req'[p].id = id
                                          /\ answer'[p].status = "deleted"
                                   THEN Deleted(op, id) \cup {p} ELSE Deleted(op, id)
  BY DEF Deleted
<1>3. ASSUME NEW op, NEW s, s # "pending", NEW row
      PROVE  /\ p \notin FavouriteAnswers(op, s, row)
             /\ FavouriteAnswers(op, s, row)' =
                    IF req'[p].op = op /\ FavouriteOf(p)' = row /\ answer'[p].status = s
                    THEN FavouriteAnswers(op, s, row) \cup {p} ELSE FavouriteAnswers(op, s, row)
  BY <1>3 DEF FavouriteAnswers, FavouriteOf
<1> QED BY <1>1, <1>2, <1>3 DEF Grows

\* What a step that writes nothing may answer.
LEMMA QuietAnswers ==
    ASSUME TypeInv, NEW p \in Requests,
           \/ Submit(p)
           \/ HandleView(p)
           \/ Looks(p) /\ UNCHANGED reading
    PROVE  /\ answer[p].status = "pending" /\ req'[p] # NoRequest
           /\ answer'[p].status \notin {"created", "deleted"}
           /\ answer'[p].status = "error" => req'[p] = req[p] /\ wanted'[p] = wanted[p]
           /\ answer'[p].status = "error" =>
                  \/ /\ pc[p] = "write" /\ req[p].op \in OwnerOps
                     /\ ~RestaurantExists(req[p].id)
                  \/ \E id \in wanted[p] : ~RestaurantExists(id)
<1>0. TablesOK /\ HandlerOK(p) /\ FunctionsOK /\ "pending" \notin {"created", "deleted", "error"}
  BY DEF TypeInv
<1>1. CASE Submit(p)
  <2>1. PICK q \in Asked : /\ pc[p] = "idle" /\ req' = [req EXCEPT ![p] = q]
                           /\ answer' = [answer EXCEPT ![p] = Says("emptyUpdate")]
                              \/ answer' = answer
    BY <1>1, Zenon DEF Submit
  <2>2. answer'[p] = Says("emptyUpdate") \/ answer'[p] = answer[p]
    BY <1>0, <2>1 DEF FunctionsOK
  <2> QED BY <1>0, <2>1, <2>2, RequestShape DEF HandlerOK, Says, FunctionsOK
<1>2. CASE HandleView(p)
  <2>1. /\ pc[p] \notin {"idle", "done"} /\ req' = req
        /\ \/ answer' = answer
           \/ ReadRatings(p) /\ answer' = [answer EXCEPT ![p] = AnswerOfView(p)]
           \/ /\ ReadRestaurantGone(p)
              /\ answer' = [answer EXCEPT ![p] =
                                Says(IF req[p].op = "viewRestaurant" THEN "noRestaurant"
                                                                     ELSE "error")]
    BY <1>2 DEF HandleView, ReadFavourites, ReadRestaurantGone, ReadRestaurants, ReadRatings,
                Look, At, Goto, Answer, AnswerOfView
  <2>2. answer[p].status = "pending" /\ req'[p] # NoRequest
    BY <1>0, <2>1, RequestShape DEF HandlerOK
  <2>3. CASE answer' = answer
    BY <1>0, <2>2, <2>3
  <2>4. CASE ReadRatings(p) /\ answer' = [answer EXCEPT ![p] = AnswerOfView(p)]
    <3>1. answer'[p].status = "shown"
      BY <1>0, <2>4 DEF FunctionsOK, AnswerOfView, Shows
    <3> QED BY <2>2, <3>1
  <2>5. CASE ReadRestaurantGone(p) /\
             answer' = [answer EXCEPT ![p] =
                            Says(IF req[p].op = "viewRestaurant" THEN "noRestaurant" ELSE "error")]
    <3>1. answer'[p] = Says(IF req[p].op = "viewRestaurant" THEN "noRestaurant" ELSE "error")
      BY <1>0, <2>5 DEF FunctionsOK
    <3>2. /\ pc[p] = "rows" /\ ~(Wanted(p) \subseteq DOMAIN restaurants) /\ req[p].op \in ViewOps
          /\ req'[p] = req[p] /\ wanted'[p] = wanted[p]
      BY <1>0, <2>1, <2>5 DEF ReadRestaurantGone, HandlerOK, reading
    <3>3. CASE req[p].op = "viewRestaurant"
      BY <2>2, <3>1, <3>3 DEF Says
    <3>4. CASE req[p].op # "viewRestaurant"
      <4>1. Wanted(p) = wanted[p]
        BY <3>2, <3>4 DEF Wanted, ViewOps
      <4> QED BY <2>2, <3>1, <3>2, <3>4, <4>1 DEF Says, RestaurantExists
    <3> QED BY <3>3, <3>4
  <2> QED BY <2>1, <2>3, <2>4, <2>5
<1>3. CASE Looks(p) /\ UNCHANGED reading
  <2>1. answer[p].status = "pending" /\ req'[p] # NoRequest /\ req' = req /\ wanted' = wanted
    BY <1>0, <1>3, LooksMove, RequestShape DEF Moves, HandlerOK, reading
  <2>2. CASE UpdateRestaurantGone(p) \/ DeleteRestaurantGone(p)
    <3>1. /\ pc[p] = "write" /\ req[p].op \in OwnerOps /\ ~RestaurantExists(req[p].id)
          /\ answer'[p] = Says("error")
      BY <1>0, <2>2 DEF UpdateRestaurantGone, DeleteRestaurantGone, Look, At, OwnerOps, Answer,
                        FunctionsOK
    <3> QED BY <2>1, <3>1 DEF Says
  <2>3. CASE \/ answer' = answer
             \/ \E s \in {"noRestaurant", "forbidden", "hasRelations", "noComment", "duplicate",
                          "noFavourite"} : Answer(p, Says(s))
             \/ \E ids : Answer(p, SaysIds("listed", ids))
    <3>1. \/ answer'[p] = answer[p]
          \/ \E s \in {"noRestaurant", "forbidden", "hasRelations", "noComment", "duplicate",
                       "noFavourite"} : answer'[p] = Says(s)
          \/ \E ids : answer'[p] = SaysIds("listed", ids)
      BY <1>0, <2>3 DEF Answer, FunctionsOK
    <3>2. \A s, ids : Says(s).status = s /\ SaysIds("listed", ids).status = "listed"
      BY DEF Says, SaysIds
    <3>3. answer'[p].status \notin {"created", "deleted", "error"}
      BY <2>1, <3>1, <3>2
    <3> QED BY <2>1, <3>3
  <2> QED BY <1>3, <2>2, <2>3
          DEF Looks, RestaurantMissing, RestaurantForeign, UpdateRestaurantProceeds,
              DeleteRestaurantProceeds, HasRelations, DeleteRestaurantReferenced,
              CommentsRestaurantMissing, CommentsRestaurantFound, ListComments, CommentMissing,
              CommentForeign, CommentProceeds, CommentGone, FavouriteRestaurantMissing,
              FavouriteRestaurantFound, CreateFavouriteAgain, CreateFavouriteOrphan,
              DeleteFavouriteMissing, Goto
<1> QED BY <1>1, <1>2, <1>3

\* The restaurants' ledger depends on nothing but its rows and the answers about them.
LEMMA RestaurantLedgerKept ==
    ASSUME RestaurantLedger, lastId'.restaurant = lastId.restaurant,
           DOMAIN restaurants' = DOMAIN restaurants,
           \A id : RestaurantsMade(id)' = RestaurantsMade(id),
           \A id : Deleted("deleteRestaurant", id)' = Deleted("deleteRestaurant", id)
    PROVE  RestaurantLedger'
BY DEF RestaurantLedger, LedgerOK, RestaurantExists

\* The same for the comments'; an id that is drawn and not used does no harm.
LEMMA CommentLedgerKept ==
    ASSUME CommentLedger, TablesOK, TablesOK', lastId.comment <= lastId'.comment,
           DOMAIN comments' = DOMAIN comments,
           \A id : CommentsMade(id)' = CommentsMade(id),
           \A id : Deleted("deleteComment", id)' = Deleted("deleteComment", id)
    PROVE  CommentLedger'
<1>1. lastId.comment \in Nat /\ lastId'.comment \in Nat
  BY DEF TablesOK
<1>2. \A id \in 1..lastId.comment : id \in 1..lastId'.comment
  BY <1>1
<1> QED BY <1>2 DEF CommentLedger, LedgerOK, CommentExists

\* The same for the favourites'.
LEMMA FavouriteLedgerKept ==
    ASSUME FavouriteLedger, favourites' = favourites,
           \A row : FavouriteAnswers("createFavourite", "created", row)' =
                    FavouriteAnswers("createFavourite", "created", row),
           \A row : FavouriteAnswers("deleteFavourite", "deleted", row)' =
                    FavouriteAnswers("deleteFavourite", "deleted", row)
    PROVE  FavouriteLedger'
BY DEF FavouriteLedger

\* No answer, or one that tells of no insertion and no deletion.
LEMMA QuietLedger ==
    ASSUME Ledgers, TablesOK, TablesOK', NEW p \in Requests, Grows(p),
           answer'[p].status \notin {"created", "deleted"},
           lastId'.restaurant = lastId.restaurant, lastId.comment <= lastId'.comment,
           DOMAIN restaurants' = DOMAIN restaurants, DOMAIN comments' = DOMAIN comments,
           favourites' = favourites
    PROVE  Ledgers'
<1>1. \A id : SaysIds("created", {id}).status = "created"
  BY DEF SaysIds
<1>2. \A op, id : Inserted(op, SaysIds("created", {id}))' = Inserted(op, SaysIds("created", {id}))
  BY <1>1 DEF Grows
<1>3. \A op, id : Deleted(op, id)' = Deleted(op, id)
  BY DEF Grows
<1>4. \A op, row : \A s \in {"created", "deleted"} :
          FavouriteAnswers(op, s, row)' = FavouriteAnswers(op, s, row)
  BY DEF Grows
<1>5. /\ \A id : RestaurantsMade(id)' = RestaurantsMade(id)
      /\ \A id : CommentsMade(id)' = CommentsMade(id)
  BY <1>2 DEF RestaurantsMade, CommentsMade
<1> QED BY <1>3, <1>4, <1>5, RestaurantLedgerKept, CommentLedgerKept, FavouriteLedgerKept DEF Ledgers

\* The statements that insert and delete balance their ledger.
LEMMA WritesLedger ==
    ASSUME TypeInv, Ledgers, NEW p \in Requests, Writes(p), UNCHANGED reading
    PROVE  Ledgers'
<1>0. /\ TablesOK /\ TablesOK' /\ FunctionsOK /\ IdsKept /\ req' = req /\ answer[p].status = "pending"
      /\ lastId.restaurant \in Nat /\ lastId.comment \in Nat /\ req[p] \in Asked
      /\ req[p] # NoRequest
  BY WritesMove, WritesTypes, WritesKeep, IdTypes, RequestShape DEF TypeInv, HandlerOK, Moves
<1>1. Grows(p)
  <2>1. \A k \in Requests : k # p => req'[k] = req[k] /\ answer'[k] = answer[k]
    BY OthersKept
  <2> QED BY <1>0, <2>1, SetsGrow
<1>2. \A id : /\ SaysIds("created", {id}).status = "created"
              /\ \A j : SaysIds("created", {id}) = SaysIds("created", {j}) => id = j
  BY DEF SaysIds
<1>3. \A s : Says(s).status = s
  BY DEF Says
<1>4. \A id : /\ RestaurantsMade(id)' =
                     IF req[p].op = "createRestaurant" /\ answer'[p] = SaysIds("created", {id})
                     THEN RestaurantsMade(id) \cup {p} ELSE RestaurantsMade(id)
              /\ CommentsMade(id)' =
                     IF req[p].op = "createComment" /\ answer'[p] = SaysIds("created", {id})
                     THEN CommentsMade(id) \cup {p} ELSE CommentsMade(id)
  BY <1>0, <1>1, <1>2 DEF Grows, RestaurantsMade, CommentsMade
<1>5. \A op, id : /\ p \notin Deleted(op, id)
                  /\ Deleted(op, id)' = IF req[p].op = op /\ req[p].id = id
                                               /\ answer'[p].status = "deleted"
                                        THEN Deleted(op, id) \cup {p} ELSE Deleted(op, id)
  BY <1>0, <1>1 DEF Grows
<1>6. /\ \A row : p \notin FavouriteAnswers("createFavourite", "created", row)
      /\ \A row : p \notin FavouriteAnswers("deleteFavourite", "deleted", row)
      /\ \A row : FavouriteAnswers("createFavourite", "created", row)' =
             IF req[p].op = "createFavourite" /\ FavouriteOf(p) = row
                /\ answer'[p].status = "created"
             THEN FavouriteAnswers("createFavourite", "created", row) \cup {p}
             ELSE FavouriteAnswers("createFavourite", "created", row)
      /\ \A row : FavouriteAnswers("deleteFavourite", "deleted", row)' =
             IF req[p].op = "deleteFavourite" /\ FavouriteOf(p) = row
                /\ answer'[p].status = "deleted"
             THEN FavouriteAnswers("deleteFavourite", "deleted", row) \cup {p}
             ELSE FavouriteAnswers("deleteFavourite", "deleted", row)
  <2>1. FavouriteOf(p)' = FavouriteOf(p)
    BY <1>0 DEF FavouriteOf
  <2> QED BY <1>0, <1>1, <2>1 DEF Grows
<1>7. CASE \/ UpdateRestaurant(p) \/ CreateCommentOrphan(p) \/ UpdateComment(p)
  <2>1. \E s \in {"updated", "noRestaurant"} : answer'[p] = Says(s)
    BY <1>0, <1>7 DEF UpdateRestaurant, CreateCommentOrphan, UpdateComment, Answer, FunctionsOK
  <2>2. answer'[p].status \notin {"created", "deleted"}
    BY <1>3, <2>1
  <2>3. /\ DOMAIN restaurants' = DOMAIN restaurants /\ DOMAIN comments' = DOMAIN comments
        /\ favourites' = favourites
    BY <1>7 DEF UpdateRestaurant, CreateCommentOrphan, UpdateComment
  <2>4. lastId'.restaurant = lastId.restaurant
    BY <1>0, <1>7 DEF UpdateRestaurant, CreateCommentOrphan, UpdateComment, TablesOK
  <2> QED BY <1>0, <1>1, <2>2, <2>3, <2>4, QuietLedger DEF IdsKept
<1>8. CASE CreateRestaurant(p)
  <2> DEFINE new == lastId.restaurant + 1
  <2>1. /\ DOMAIN restaurants' = DOMAIN restaurants \cup {new}
        /\ answer'[p] = SaysIds("created", {new}) /\ req[p].op = "createRestaurant"
        /\ UNCHANGED <<comments, favourites>>
        /\ lastId'.restaurant = new /\ lastId'.comment = lastId.comment
    BY <1>0, <1>8 DEF CreateRestaurant, At, Answer, FunctionsOK, TablesOK
  <2>2. /\ new \notin 1..lastId.restaurant
        /\ \A id \in Nat \ {0} : id \in 1..new <=> id = new \/ id \in 1..lastId.restaurant
    BY <1>0
  <2> HIDE DEF new
  <2>3. CommentLedger' /\ FavouriteLedger'
    BY <1>0, <1>2, <1>4, <1>5, <1>6, <2>1, CommentLedgerKept, FavouriteLedgerKept DEF Ledgers, IdsKept
  <2>4. \A id : RestaurantsMade(id)' = IF id = new THEN RestaurantsMade(id) \cup {p}
                                                   ELSE RestaurantsMade(id)
    BY <1>2, <1>4, <2>1
  <2>5. \A id : Deleted("deleteRestaurant", id)' = Deleted("deleteRestaurant", id)
    BY <1>5, <2>1
  <2>6. ASSUME NEW id \in Nat \ {0}
        PROVE  /\ LedgerOK(id \in DOMAIN SeededRestaurants, RestaurantsMade(id)',
                           Deleted("deleteRestaurant", id)', RestaurantExists(id)')
               /\ id \in DOMAIN SeededRestaurants \/ RestaurantsMade(id)' # {}
                      <=> id \in 1..lastId'.restaurant
    <3>1. /\ LedgerOK(id \in DOMAIN SeededRestaurants, RestaurantsMade(id),
                      Deleted("deleteRestaurant", id), RestaurantExists(id))
          /\ id \in DOMAIN SeededRestaurants \/ RestaurantsMade(id) # {}
                 <=> id \in 1..lastId.restaurant
      BY DEF Ledgers, RestaurantLedger
    <3>2. CASE id = new
      <4>1. /\ id \notin DOMAIN SeededRestaurants /\ RestaurantsMade(id) = {}
            /\ Deleted("deleteRestaurant", id) = {}
        BY <2>2, <3>1, <3>2 DEF LedgerOK
      <4>2. RestaurantsMade(id)' = {p} /\ Deleted("deleteRestaurant", id)' = {}
            /\ RestaurantExists(id)'
        BY <2>1, <2>4, <2>5, <3>2, <4>1 DEF RestaurantExists
      <4> QED BY <2>1, <2>2, <3>2, <4>1, <4>2 DEF LedgerOK
    <3>3. CASE id # new
      <4>1. /\ RestaurantsMade(id)' = RestaurantsMade(id)
            /\ Deleted("deleteRestaurant", id)' = Deleted("deleteRestaurant", id)
            /\ RestaurantExists(id)' <=> RestaurantExists(id)
        BY <2>1, <2>4, <2>5, <3>3 DEF RestaurantExists
      <4> QED BY <2>1, <2>2, <3>1, <3>3, <4>1 DEF LedgerOK
    <3> QED BY <3>2, <3>3
  <2>7. RestaurantLedger'
    BY <2>6 DEF RestaurantLedger, LedgerOK
  <2> QED BY <2>3, <2>7 DEF Ledgers
<1>9. CASE DeleteRestaurant(p)
  <2> DEFINE gone == req[p].id
  <2>1. /\ DOMAIN restaurants' = DOMAIN restaurants \ {gone} /\ gone \in DOMAIN restaurants
        /\ answer'[p] = Says("deleted") /\ req[p].op = "deleteRestaurant"
        /\ UNCHANGED <<comments, favourites, lastId>>
    BY <1>0, <1>9 DEF DeleteRestaurant, At, Answer, FunctionsOK, Without, RestaurantExists
  <2>2. answer'[p].status = "deleted"
    BY <1>3, <2>1
  <2> HIDE DEF gone
  <2>3. CommentLedger' /\ FavouriteLedger'
    BY <1>0, <1>4, <1>5, <1>6, <2>1, CommentLedgerKept, FavouriteLedgerKept DEF Ledgers, IdsKept
  <2>4. \A id : RestaurantsMade(id)' = RestaurantsMade(id)
    BY <1>4, <2>1
  <2>5. \A id : Deleted("deleteRestaurant", id)' =
                    IF id = gone THEN Deleted("deleteRestaurant", id) \cup {p}
                                 ELSE Deleted("deleteRestaurant", id)
    BY <1>5, <2>1, <2>2 DEF gone
  <2>6. ASSUME NEW id \in Nat \ {0}
        PROVE  LedgerOK(id \in DOMAIN SeededRestaurants, RestaurantsMade(id),
                        Deleted("deleteRestaurant", id)', RestaurantExists(id)')
    <3>1. LedgerOK(id \in DOMAIN SeededRestaurants, RestaurantsMade(id),
                   Deleted("deleteRestaurant", id), RestaurantExists(id))
      BY DEF Ledgers, RestaurantLedger
    <3>2. CASE id = gone
      BY <2>1, <2>5, <3>1, <3>2 DEF LedgerOK, RestaurantExists
    <3>3. CASE id # gone
      <4>1. RestaurantExists(id)' <=> RestaurantExists(id)
        BY <2>1, <3>3 DEF RestaurantExists
      <4> QED BY <2>5, <3>1, <3>3, <4>1 DEF LedgerOK
    <3> QED BY <3>2, <3>3
  <2>7. RestaurantLedger'
    BY <2>1, <2>4, <2>6 DEF Ledgers, RestaurantLedger, LedgerOK
  <2> QED BY <2>3, <2>7 DEF Ledgers
<1>10. CASE CreateComment(p)
  <2> DEFINE new == lastId.comment + 1
  <2>1. /\ DOMAIN comments' = DOMAIN comments \cup {new}
        /\ answer'[p] = SaysIds("created", {new}) /\ req[p].op = "createComment"
        /\ UNCHANGED <<restaurants, favourites>>
        /\ lastId'.comment = new /\ lastId'.restaurant = lastId.restaurant
    BY <1>0, <1>10 DEF CreateComment, At, Answer, FunctionsOK, TablesOK
  <2>2. /\ new \notin 1..lastId.comment
        /\ \A id \in Nat \ {0} : id = new \/ id \in 1..lastId.comment => id \in 1..new
    BY <1>0
  <2> HIDE DEF new
  <2>3. RestaurantLedger' /\ FavouriteLedger'
    BY <1>0, <1>2, <1>4, <1>5, <1>6, <2>1, RestaurantLedgerKept, FavouriteLedgerKept DEF Ledgers
  <2>4. \A id : CommentsMade(id)' = IF id = new THEN CommentsMade(id) \cup {p} ELSE CommentsMade(id)
    BY <1>2, <1>4, <2>1
  <2>5. \A id : Deleted("deleteComment", id)' = Deleted("deleteComment", id)
    BY <1>5, <2>1
  <2>6. ASSUME NEW id \in Nat \ {0}
        PROVE  /\ LedgerOK(id \in DOMAIN SeededComments, CommentsMade(id)',
                           Deleted("deleteComment", id)', CommentExists(id)')
               /\ id \in DOMAIN SeededComments \/ CommentsMade(id)' # {}
                      => id \in 1..lastId'.comment
    <3>1. /\ LedgerOK(id \in DOMAIN SeededComments, CommentsMade(id),
                      Deleted("deleteComment", id), CommentExists(id))
          /\ id \in DOMAIN SeededComments \/ CommentsMade(id) # {} => id \in 1..lastId.comment
      BY DEF Ledgers, CommentLedger
    <3>2. CASE id = new
      <4>1. /\ id \notin DOMAIN SeededComments /\ CommentsMade(id) = {}
            /\ Deleted("deleteComment", id) = {}
        BY <2>2, <3>1, <3>2 DEF LedgerOK
      <4>2. CommentsMade(id)' = {p} /\ Deleted("deleteComment", id)' = {} /\ CommentExists(id)'
        BY <2>1, <2>4, <2>5, <3>2, <4>1 DEF CommentExists
      <4> QED BY <2>1, <2>2, <3>2, <4>1, <4>2 DEF LedgerOK
    <3>3. CASE id # new
      <4>1. /\ CommentsMade(id)' = CommentsMade(id)
            /\ Deleted("deleteComment", id)' = Deleted("deleteComment", id)
            /\ CommentExists(id)' <=> CommentExists(id)
        BY <2>1, <2>4, <2>5, <3>3 DEF CommentExists
      <4> QED BY <2>1, <2>2, <3>1, <3>3, <4>1 DEF LedgerOK
    <3> QED BY <3>2, <3>3
  <2>7. CommentLedger'
    BY <2>6 DEF CommentLedger, LedgerOK
  <2> QED BY <2>3, <2>7 DEF Ledgers
<1>11. CASE DeleteComment(p)
  <2> DEFINE gone == req[p].id
  <2>1. /\ DOMAIN comments' = DOMAIN comments \ {gone} /\ gone \in DOMAIN comments
        /\ answer'[p] = Says("deleted") /\ req[p].op = "deleteComment"
        /\ UNCHANGED <<restaurants, favourites, lastId>>
    BY <1>0, <1>11 DEF DeleteComment, At, Answer, FunctionsOK, Without, CommentExists
  <2>2. answer'[p].status = "deleted"
    BY <1>3, <2>1
  <2> HIDE DEF gone
  <2>3. RestaurantLedger' /\ FavouriteLedger'
    BY <1>0, <1>4, <1>5, <1>6, <2>1, RestaurantLedgerKept, FavouriteLedgerKept DEF Ledgers
  <2>4. \A id : CommentsMade(id)' = CommentsMade(id)
    BY <1>4, <2>1
  <2>5. \A id : Deleted("deleteComment", id)' =
                    IF id = gone THEN Deleted("deleteComment", id) \cup {p}
                                 ELSE Deleted("deleteComment", id)
    BY <1>5, <2>1, <2>2 DEF gone
  <2>6. ASSUME NEW id \in Nat \ {0}
        PROVE  LedgerOK(id \in DOMAIN SeededComments, CommentsMade(id),
                        Deleted("deleteComment", id)', CommentExists(id)')
    <3>1. LedgerOK(id \in DOMAIN SeededComments, CommentsMade(id),
                   Deleted("deleteComment", id), CommentExists(id))
      BY DEF Ledgers, CommentLedger
    <3>2. CASE id = gone
      BY <2>1, <2>5, <3>1, <3>2 DEF LedgerOK, CommentExists
    <3>3. CASE id # gone
      <4>1. CommentExists(id)' <=> CommentExists(id)
        BY <2>1, <3>3 DEF CommentExists
      <4> QED BY <2>5, <3>1, <3>3, <4>1 DEF LedgerOK
    <3> QED BY <3>2, <3>3
  <2>7. CommentLedger'
    BY <2>1, <2>4, <2>6 DEF Ledgers, CommentLedger, LedgerOK
  <2> QED BY <2>3, <2>7 DEF Ledgers
<1>12. CASE CreateFavourite(p)
  <2> DEFINE new == FavouriteOf(p)
  <2>1. /\ new \notin favourites /\ favourites' = favourites \cup {new}
        /\ answer'[p] = Says("created") /\ req[p].op = "createFavourite"
        /\ UNCHANGED <<restaurants, comments, lastId>>
    BY <1>0, <1>12 DEF CreateFavourite, At, Answer, FunctionsOK
  <2>2. answer'[p].status = "created"
    BY <1>3, <2>1
  <2>3. RestaurantLedger' /\ CommentLedger'
    BY <1>0, <1>4, <1>5, <2>1, RestaurantLedgerKept, CommentLedgerKept DEF Ledgers, IdsKept
  <2>4. \A row : /\ FavouriteAnswers("createFavourite", "created", row)' =
                        IF row = new THEN FavouriteAnswers("createFavourite", "created", row) \cup {p}
                                     ELSE FavouriteAnswers("createFavourite", "created", row)
                 /\ FavouriteAnswers("deleteFavourite", "deleted", row)' =
                        FavouriteAnswers("deleteFavourite", "deleted", row)
    BY <1>6, <2>1, <2>2
  <2> HIDE DEF new
  <2>5. ASSUME NEW row \in Favourite
        PROVE  LET made == FavouriteAnswers("createFavourite", "created", row)
                   gone == FavouriteAnswers("deleteFavourite", "deleted", row)
               IN  /\ IsFiniteSet(made') /\ IsFiniteSet(gone')
                   /\ Count(row \in SeededFavourites) + Cardinality(made') - Cardinality(gone')
                          = Count(row \in favourites')
    <3> DEFINE made == FavouriteAnswers("createFavourite", "created", row)
               gone == FavouriteAnswers("deleteFavourite", "deleted", row)
    <3>1. /\ IsFiniteSet(made) /\ IsFiniteSet(gone)
          /\ Count(row \in SeededFavourites) + Cardinality(made) - Cardinality(gone)
                 = Count(row \in favourites)
      BY DEF Ledgers, FavouriteLedger
    <3>2. /\ made' = IF row = new THEN made \cup {p} ELSE made
          /\ gone' = gone /\ p \notin made
      BY <1>6, <2>4
    <3> HIDE DEF made, gone
    <3>3. /\ Cardinality(made) \in Nat /\ Cardinality(gone) \in Nat
          /\ Count(row \in SeededFavourites) \in Nat
      BY <3>1, FS_CardinalityType DEF Count
    <3>4. CASE row = new
      <4>1. IsFiniteSet(made') /\ Cardinality(made') = Cardinality(made) + 1
        BY <3>1, <3>2, <3>4, FS_AddElement
      <4>2. Count(row \in favourites') = 1 /\ Count(row \in favourites) = 0
        BY <2>1, <3>4 DEF Count
      <4> QED BY <3>1, <3>2, <3>3, <4>1, <4>2 DEF made, gone
    <3>5. CASE row # new
      <4>1. Count(row \in favourites') = Count(row \in favourites)
        BY <2>1, <3>5 DEF Count
      <4> QED BY <3>1, <3>2, <3>5, <4>1 DEF made, gone
    <3> QED BY <3>4, <3>5
  <2>6. FavouriteLedger'
    BY <2>5 DEF FavouriteLedger, Count
  <2> QED BY <2>3, <2>6 DEF Ledgers
<1>13. CASE DeleteFavourite(p)
  <2> DEFINE old == FavouriteOf(p)
  <2>1. /\ old \in favourites /\ favourites' = favourites \ {old}
        /\ answer'[p] = Says("deleted") /\ req[p].op = "deleteFavourite"
        /\ UNCHANGED <<restaurants, comments, lastId>>
    BY <1>0, <1>13 DEF DeleteFavourite, At, Answer, FunctionsOK
  <2>2. answer'[p].status = "deleted"
    BY <1>3, <2>1
  <2>3. RestaurantLedger' /\ CommentLedger'
    BY <1>0, <1>4, <1>5, <2>1, RestaurantLedgerKept, CommentLedgerKept DEF Ledgers, IdsKept
  <2>4. \A row : /\ FavouriteAnswers("deleteFavourite", "deleted", row)' =
                        IF row = old THEN FavouriteAnswers("deleteFavourite", "deleted", row) \cup {p}
                                     ELSE FavouriteAnswers("deleteFavourite", "deleted", row)
                 /\ FavouriteAnswers("createFavourite", "created", row)' =
                        FavouriteAnswers("createFavourite", "created", row)
    BY <1>6, <2>1, <2>2
  <2> HIDE DEF old
  <2>5. ASSUME NEW row \in Favourite
        PROVE  LET made == FavouriteAnswers("createFavourite", "created", row)
                   gone == FavouriteAnswers("deleteFavourite", "deleted", row)
               IN  /\ IsFiniteSet(made') /\ IsFiniteSet(gone')
                   /\ Count(row \in SeededFavourites) + Cardinality(made') - Cardinality(gone')
                          = Count(row \in favourites')
    <3> DEFINE made == FavouriteAnswers("createFavourite", "created", row)
               gone == FavouriteAnswers("deleteFavourite", "deleted", row)
    <3>1. /\ IsFiniteSet(made) /\ IsFiniteSet(gone)
          /\ Count(row \in SeededFavourites) + Cardinality(made) - Cardinality(gone)
                 = Count(row \in favourites)
      BY DEF Ledgers, FavouriteLedger
    <3>2. /\ gone' = IF row = old THEN gone \cup {p} ELSE gone
          /\ made' = made /\ p \notin gone
      BY <1>6, <2>4
    <3> HIDE DEF made, gone
    <3>3. /\ Cardinality(made) \in Nat /\ Cardinality(gone) \in Nat
          /\ Count(row \in SeededFavourites) \in Nat
      BY <3>1, FS_CardinalityType DEF Count
    <3>4. CASE row = old
      <4>1. IsFiniteSet(gone') /\ Cardinality(gone') = Cardinality(gone) + 1
        BY <3>1, <3>2, <3>4, FS_AddElement
      <4>2. Count(row \in favourites') = 0 /\ Count(row \in favourites) = 1
        BY <2>1, <3>4 DEF Count
      <4> QED BY <3>1, <3>2, <3>3, <4>1, <4>2 DEF made, gone
    <3>5. CASE row # old
      <4>1. Count(row \in favourites') = Count(row \in favourites)
        BY <2>1, <3>5 DEF Count
      <4> QED BY <3>1, <3>2, <3>5, <4>1 DEF made, gone
    <3> QED BY <3>4, <3>5
  <2>6. FavouriteLedger'
    BY <2>5 DEF FavouriteLedger, Count
  <2> QED BY <2>3, <2>6 DEF Ledgers
<1> QED BY <1>7, <1>8, <1>9, <1>10, <1>11, <1>12, <1>13 DEF Writes

\* A step of p in which it answers no 500, or one for a restaurant that is gone.
LEMMA ErrorsKept ==
    ASSUME TypeInv, ErrorsMeanGone, NEW p \in Requests, answer[p].status = "pending",
           \A k \in Requests : k # p =>
               req'[k] = req[k] /\ answer'[k] = answer[k] /\ wanted'[k] = wanted[k],
           answer'[p].status = "error" =>
               \E q \in Requests, id \in wanted'[p] \cup {req'[p].id} :
                   q # p /\ q \in Deleted("deleteRestaurant", id)
    PROVE  ErrorsMeanGone'
<1> SUFFICES ASSUME NEW k \in Requests, answer'[k].status = "error"
             PROVE  \E q \in Requests \ {k} :
                        /\ answer'[q].status = "deleted" /\ req'[q].op = "deleteRestaurant"
                        /\ req'[q].id \in wanted'[k] \cup {req'[k].id}
  BY DEF ErrorsMeanGone
<1>1. CASE k = p
  BY <1>1 DEF Deleted
<1>2. CASE k # p
  <2>1. PICK q \in Requests \ {k} :
            /\ answer[q].status = "deleted" /\ req[q].op = "deleteRestaurant"
            /\ req[q].id \in wanted[k] \cup {req[k].id}
    BY <1>2 DEF ErrorsMeanGone
  <2>2. q # p
    BY <2>1
  <2> QED BY <1>2, <2>1, <2>2
<1> QED BY <1>1, <1>2

\* A restaurant that a handler knew and that is gone was deleted by another request.
LEMMA GoneWasDeleted ==
    ASSUME TablesInv, Ledgers, NEW p \in Requests, answer[p].status = "pending",
           NEW id \in 1..lastId.restaurant, ~RestaurantExists(id)
    PROVE  \E q \in Requests : q # p /\ q \in Deleted("deleteRestaurant", id)
<1>1. id \in Nat \ {0}
  BY IdTypes DEF TablesInv, TypeInv
<1>2. \E q \in Requests : Deleted("deleteRestaurant", id) = {q}
  BY <1>1 DEF Ledgers, RestaurantLedger, LedgerOK
<1>3. p \notin Deleted("deleteRestaurant", id)
  BY DEF Deleted
<1> QED BY <1>2, <1>3

\* At a start nothing has been acknowledged, and the ledgers balance.
LEMMA InitLedger == Init => LedgerInv
<1> SUFFICES ASSUME Init PROVE LedgerInv
  OBVIOUS
<1>1. /\ \A op, id : Inserted(op, SaysIds("created", {id})) = {}
      /\ \A op, id : Deleted(op, id) = {}
      /\ \A op, row : \A s \in {"created", "deleted"} : FavouriteAnswers(op, s, row) = {}
  BY DEF Init, Inserted, Deleted, FavouriteAnswers
<1>2. ErrorsMeanGone
  BY DEF Init, ErrorsMeanGone, Says
<1>3. RestaurantLedger
  BY <1>1, SeededAssumption DEF Init, RestaurantLedger, LedgerOK, RestaurantsMade, RestaurantExists
<1>4. CommentLedger
  BY <1>1, SeededAssumption DEF Init, CommentLedger, LedgerOK, CommentsMade, CommentExists
<1>5. FavouriteLedger
  <2>1. ASSUME NEW row \in Favourite
        PROVE  /\ FavouriteAnswers("createFavourite", "created", row) = {}
               /\ FavouriteAnswers("deleteFavourite", "deleted", row) = {}
    BY <1>1
  <2>2. IsFiniteSet({}) /\ Cardinality({}) = 0
    BY FS_EmptySet
  <2>3. \A row : Count(row \in SeededFavourites) + 0 - 0 = Count(row \in favourites)
    BY DEF Init, Count
  <2> QED BY <2>1, <2>2, <2>3 DEF FavouriteLedger
<1> QED BY <1>2, <1>3, <1>4, <1>5, InitTables DEF LedgerInv, Ledgers

\* Every step keeps the three ledgers.
LEMMA NextLedger == LedgerInv /\ [Next]_vars => LedgerInv'
<1> SUFFICES ASSUME LedgerInv, [Next]_vars PROVE LedgerInv'
  OBVIOUS
<1>1. /\ TablesInv /\ TablesInv' /\ TypeInv /\ TablesOK /\ TablesOK' /\ ErrorsMeanGone /\ Ledgers
      /\ lastId.comment \in Nat
  BY NextTables, IdTypes DEF LedgerInv, TablesInv, TypeInv
<1>2. ASSUME NEW p \in Requests, UNCHANGED tables,
             \/ Submit(p) /\ UNCHANGED reading
             \/ HandleView(p)
             \/ Looks(p) /\ UNCHANGED reading
      PROVE  ErrorsMeanGone' /\ Ledgers'
  <2>1. /\ \A k \in Requests : k # p =>
               req'[k] = req[k] /\ answer'[k] = answer[k] /\ wanted'[k] = wanted[k]
        /\ answer[p].status = "pending" /\ req'[p] # NoRequest
        /\ answer'[p].status \notin {"created", "deleted"}
    BY <1>1, <1>2, OthersKept, QuietAnswers
  <2>2. Grows(p)
    BY <2>1, SetsGrow
  <2>3. Ledgers'
    BY <1>1, <1>2, <2>1, <2>2, QuietLedger DEF tables
  <2>4. ASSUME answer'[p].status = "error"
        PROVE  \E q \in Requests, id \in wanted'[p] \cup {req'[p].id} :
                   q # p /\ q \in Deleted("deleteRestaurant", id)
    <3>1. /\ req'[p] = req[p] /\ wanted'[p] = wanted[p]
          /\ \/ /\ pc[p] = "write" /\ req[p].op \in OwnerOps
                /\ ~RestaurantExists(req[p].id)
             \/ \E id \in wanted[p] : ~RestaurantExists(id)
      BY <1>1, <1>2, <2>4, QuietAnswers
    <3>2. KnownOK(p)
      BY <1>1 DEF TablesInv
    <3>3. PICK id \in wanted[p] \cup {req[p].id} :
              ~RestaurantExists(id) /\ id \in 1..lastId.restaurant
      BY <3>1, <3>2 DEF KnownOK
    <3> QED BY <1>1, <2>1, <3>1, <3>3, GoneWasDeleted
  <2>5. ErrorsMeanGone'
    BY <1>1, <2>1, <2>4, ErrorsKept
  <2> QED BY <2>3, <2>5
<1>3. ASSUME NEW p \in Requests, Writes(p), UNCHANGED reading
      PROVE  ErrorsMeanGone' /\ Ledgers'
  <2>1. Ledgers'
    BY <1>1, <1>3, WritesLedger
  <2>2. /\ \A k \in Requests : k # p =>
               req'[k] = req[k] /\ answer'[k] = answer[k] /\ wanted'[k] = wanted[k]
        /\ answer[p].status = "pending"
    BY <1>1, <1>3, OthersKept, WritesMove DEF TypeInv, HandlerOK, Moves
  <2>3. \/ \E s \in {"updated", "deleted", "created", "noRestaurant"} : answer'[p] = Says(s)
        \/ \E ids : answer'[p] = SaysIds("created", ids)
    BY <1>1, <1>3 DEF Writes, CreateRestaurant, UpdateRestaurant, DeleteRestaurant, CreateComment,
                      CreateCommentOrphan, UpdateComment, DeleteComment, CreateFavourite,
                      DeleteFavourite, Answer, TypeInv, FunctionsOK
  <2>4. answer'[p].status # "error"
    <3>1. /\ \A t : Says(t).status = t
          /\ \A ids : SaysIds("created", ids).status = "created"
      BY DEF Says, SaysIds
    <3> QED BY <2>3, <3>1
  <2>5. ErrorsMeanGone'
    BY <1>1, <2>2, <2>4, ErrorsKept
  <2> QED BY <2>1, <2>5
<1>4. ASSUME UNCHANGED <<restaurants, comments, favourites, lastId, req, answer, wanted>>
      PROVE  ErrorsMeanGone' /\ Ledgers'
  <2>1. ErrorsMeanGone'
    BY <1>1, <1>4 DEF ErrorsMeanGone
  <2>2. /\ \A op, a : Inserted(op, a)' = Inserted(op, a)
        /\ \A op, id : Deleted(op, id)' = Deleted(op, id)
        /\ \A op, s, row : FavouriteAnswers(op, s, row)' = FavouriteAnswers(op, s, row)
    BY <1>4 DEF Inserted, Deleted, FavouriteAnswers, FavouriteOf
  <2>3. /\ \A id : RestaurantsMade(id)' = RestaurantsMade(id)
        /\ \A id : CommentsMade(id)' = CommentsMade(id)
    BY <2>2 DEF RestaurantsMade, CommentsMade
  <2>4. Ledgers'
    BY <1>1, <1>4, <2>2, <2>3, RestaurantLedgerKept, CommentLedgerKept, FavouriteLedgerKept
       DEF Ledgers
  <2> QED BY <2>1, <2>4
<1>5. CASE \E id \in DOMAIN restaurants : Reserve(id) /\ UNCHANGED reading
  BY <1>1, <1>4, <1>5 DEF Reserve, reading, LedgerInv
<1>6. CASE UNCHANGED vars
  BY <1>1, <1>4, <1>6 DEF vars, tables, reading, LedgerInv
<1>7. UNCHANGED <<tables, reading>> => UNCHANGED tables /\ UNCHANGED reading
  OBVIOUS
<1> QED BY <1>1, <1>2, <1>3, <1>5, <1>6, <1>7, StepKinds DEF LedgerInv

\* The sets of the ledger, counted.
LEMMA LedgerCounts ==
    ASSUME NEW x, NEW S, NEW T, NEW ins, NEW del, LedgerOK(x \in S, ins, del, x \in T)
    PROVE  Count(x \in S) + Cardinality(ins) - Cardinality(del) = Count(x \in T)
<1>1. Cardinality({}) = 0 /\ \A y : Cardinality({y}) = 1 /\ {y} # {}
  BY FS_EmptySet, FS_Singleton
<1>2. /\ Count(x \in S) = IF x \in S THEN 1 ELSE 0
      /\ Count(x \in T) = IF x \in T THEN 1 ELSE 0
  BY DEF Count
<1>3. CASE x \in S
  <2>1. /\ ins = {}
        /\ x \in T => del = {}
        /\ x \notin T => \E p \in Requests : del = {p}
    BY <1>3 DEF LedgerOK
  <2> QED BY <1>1, <1>2, <1>3, <2>1
<1>4. CASE x \notin S /\ ins = {}
  <2>1. x \notin T /\ del = {}
    BY <1>4 DEF LedgerOK
  <2> QED BY <1>1, <1>2, <1>4, <2>1
<1>5. CASE x \notin S /\ ins # {}
  <2>1. /\ \E p \in Requests : ins = {p}
        /\ x \in T => del = {}
        /\ x \notin T => \E p \in Requests : del = {p}
    BY <1>5 DEF LedgerOK
  <2>2. Cardinality(ins) = 1 /\ Cardinality(del) = IF x \in T THEN 0 ELSE 1
    BY <1>1, <2>1
  <2> QED BY <1>2, <1>5, <2>2
<1> QED BY <1>3, <1>4, <1>5

\* The three ledgers are what LedgerBalances says of restaurants, comments and favourites.
LEMMA LedgersBalance == TablesInv /\ Ledgers => LedgerBalances
<1> SUFFICES ASSUME TablesInv, Ledgers PROVE LedgerBalances
  OBVIOUS
<1>0. lastId.restaurant \in Nat /\ lastId.comment \in Nat
  BY IdTypes DEF TablesInv, TypeInv
<1>1. ASSUME NEW id \in 1..lastId.restaurant
      PROVE  Count(id \in DOMAIN SeededRestaurants)
                 + Cardinality(Inserted("createRestaurant", SaysIds("created", {id})))
                 - Cardinality(Deleted("deleteRestaurant", id)) = Count(RestaurantExists(id))
  <2>1. LedgerOK(id \in DOMAIN SeededRestaurants, RestaurantsMade(id),
                 Deleted("deleteRestaurant", id), RestaurantExists(id))
    BY <1>0 DEF Ledgers, RestaurantLedger
  <2> QED BY <2>1, LedgerCounts DEF RestaurantsMade, RestaurantExists
<1>2. ASSUME NEW id \in 1..lastId.comment
      PROVE  Count(id \in DOMAIN SeededComments)
                 + Cardinality(Inserted("createComment", SaysIds("created", {id})))
                 - Cardinality(Deleted("deleteComment", id)) = Count(CommentExists(id))
  <2>1. LedgerOK(id \in DOMAIN SeededComments, CommentsMade(id),
                 Deleted("deleteComment", id), CommentExists(id))
    BY <1>0 DEF Ledgers, CommentLedger
  <2> QED BY <2>1, LedgerCounts DEF CommentsMade, CommentExists
<1>3. ASSUME NEW u \in Users, NEW id \in 1..lastId.restaurant
      PROVE  LET row == [userId |-> u, restaurantId |-> id] IN
             Count(row \in SeededFavourites)
                 + Cardinality(FavouriteAnswers("createFavourite", "created", row))
                 - Cardinality(FavouriteAnswers("deleteFavourite", "deleted", row))
                 = Count(row \in favourites)
  <2>1. [userId |-> u, restaurantId |-> id] \in Favourite
    BY <1>0 DEF Favourite
  <2> QED BY <2>1 DEF Ledgers, FavouriteLedger
<1> QED BY <1>1, <1>2, <1>3 DEF LedgerBalances

\* A 500 of these endpoints needs a restaurant that another request deleted while
\* the handler held it, or a favourite of it, from an earlier statement.
THEOREM ErrorsNeedADeletion == Spec => []ErrorsMeanGone
<1>1. Spec => []LedgerInv
  BY InitLedger, NextLedger, PTL DEF Spec
<1>2. LedgerInv => ErrorsMeanGone
  BY DEF LedgerInv
<1> QED BY <1>1, <1>2, PTL

\* What the clients were told adds up to what is in the tables: of concurrent
\* deletions of a row one is acknowledged, of concurrent favourites of one restaurant
\* by one user one is, and no refusal left anything behind.
THEOREM LedgerAlwaysBalances == Spec => []LedgerBalances
<1>1. Spec => []LedgerInv
  BY InitLedger, NextLedger, PTL DEF Spec
<1>2. LedgerInv => LedgerBalances
  BY LedgersBalance DEF LedgerInv
<1> QED BY <1>1, <1>2, PTL

-------------------------------------------------------------------------------
(* The answers were true.                                                  *)

\* What is on record stays on record, and so does what a request has torn; what is
\* true when a step of a pending request is taken is put on record.
LEMMA RecordKeeps ==
    ASSUME RecordTruths, RecordTears, HistoryOK, NEW k \in Requests
    PROVE  /\ truths[k] \subseteq truths'[k]
           /\ req'[k] # NoRequest /\ answer[k].status = "pending" =>
                  TrueAnswer(req'[k]) \in truths'[k]
           /\ torn[k] => torn'[k]
           /\ pc[k] = "rows" /\ req[k].op = "listFavourites" /\ ~torn'[k] =>
                  favourites' = favourites
           /\ pc[k] = "ratings" /\ ~torn'[k] =>
                  \A id \in DOMAIN counted[k] : RatingsOf(id)' = RatingsOf(id)
BY DEF RecordTruths, RecordTears, HistoryOK

\* A view that would answer from the same ratings answers the same.
LEMMA SameRatings ==
    ASSUME NEW id, RatingsOf(id)' = RatingsOf(id)
    PROVE  \A q, row : ShownOf(q, id, row)' = ShownOf(q, id, row)
<1>1. CommentsOf(id) = DOMAIN RatingsOf(id) /\ CommentsOf(id)' = DOMAIN RatingsOf(id)'
  BY DEF RatingsOf
<1>2. CommentsOf(id)' = CommentsOf(id)
  BY <1>1
<1>3. ASSUME NEW c \in CommentsOf(id) PROVE comments'[c].rating = comments[c].rating
  <2>1. RatingsOf(id)[c] = comments[c].rating /\ RatingsOf(id)'[c] = comments'[c].rating
    BY <1>2 DEF RatingsOf
  <2> QED BY <2>1
<1>4. UNION {{c} \X (1..comments'[c].rating) : c \in CommentsOf(id)'}
          = UNION {{c} \X (1..comments[c].rating) : c \in CommentsOf(id)}
  BY <1>2, <1>3
<1>5. TotalOf(id)' = TotalOf(id)
  BY <1>4 DEF TotalOf
<1> QED BY <1>5 DEF ShownOf

\* The steps of the others leave what a handler will answer on record, or tear it.
LEMMA TruthStays ==
    ASSUME TablesInv, [Next]_vars, RecordTruths, RecordTears, NEW k \in Requests, TruthOK(k),
           req'[k] = req[k], pc'[k] = pc[k], answer'[k] = answer[k],
           wanted'[k] = wanted[k], counted'[k] = counted[k]
    PROVE  TruthOK(k)'
<1>0. /\ TypeInv /\ HistoryOK /\ HandlerOK(k) /\ ReferentialIntegrity
  BY DEF TablesInv, TypeInv
<1>1. truths[k] \subseteq truths'[k] /\ (torn[k] => torn'[k])
  BY <1>0, RecordKeeps
<1>2. ASSUME pc[k] = "write", req[k].op = "listComments", ~RestaurantExists(req[k].id)'
      PROVE  SaysIds("listed", {}) \in truths'[k]
  <2>1. CASE ~RestaurantExists(req[k].id)
    BY <1>1, <1>2, <2>1 DEF TruthOK
  <2>2. CASE RestaurantExists(req[k].id)
    <3>1. restaurants' # restaurants
      BY <1>2, <2>2 DEF RestaurantExists
    <3>2. PICK p \in Requests : Writes(p)
      BY <3>1, OnlyWritesChange
    <3>3. DeleteRestaurant(p) /\ req[p].id = req[k].id
      BY <1>2, <2>2, <3>2
         DEF Writes, CreateRestaurant, UpdateRestaurant, DeleteRestaurant, CreateComment,
             CreateCommentOrphan, UpdateComment, DeleteComment, CreateFavourite,
             DeleteFavourite, RestaurantExists, Without
    <3>4. CommentsOf(req[k].id) = {}
      BY <3>3 DEF DeleteRestaurant, Referenced
    <3>5. req[k] \in Asked /\ answer[k].status = "pending"
      BY <1>0, <1>2 DEF HandlerOK
    <3>6. TrueAnswer(req[k]) = SaysIds("listed", {})
      BY <1>2, <2>2, <3>4, <3>5, TrueAnswerIs DEF AnswerForComment
    <3> QED BY <1>0, <3>5, <3>6, RecordKeeps, RequestShape
  <2> QED BY <2>1, <2>2
<1>3. ASSUME pc[k] = "rows", req[k].op = "listFavourites", ~torn'[k]
      PROVE  wanted[k] = FavouritesOf(req[k].userId)'
  <2>1. favourites' = favourites /\ ~torn[k]
    BY <1>0, <1>1, <1>3, RecordKeeps
  <2> QED BY <1>3, <2>1 DEF TruthOK, FavouritesOf
<1>4. ASSUME pc[k] = "ratings", ~torn'[k]
      PROVE  AnswerOfView(k)' \in truths'[k]
  <2>1. \A id \in DOMAIN counted[k] : RatingsOf(id)' = RatingsOf(id)
    BY <1>0, <1>4, RecordKeeps
  <2>2. \A id \in DOMAIN counted[k] :
            ShownOf(req[k], id, counted[k][id])' = ShownOf(req[k], id, counted[k][id])
    <3>1. \A id \in DOMAIN counted[k] : \A q, row : ShownOf(q, id, row)' = ShownOf(q, id, row)
      BY <2>1, SameRatings
    <3> QED BY <3>1 DEF ShownOf
  <2>3. AnswerOfView(k)' = AnswerOfView(k)
    BY <2>2 DEF AnswerOfView
  <2> QED BY <1>1, <1>4, <2>3 DEF TruthOK
<1> QED BY <1>1, <1>2, <1>3, <1>4 DEF TruthOK

\* An answer that a look leads to was true then, or is on record, or is a 500.
LEMMA LooksTruth ==
    ASSUME TablesInv, NEW p \in Requests, TruthOK(p), Looks(p)
    PROVE  \/ answer' = answer
           \/ answer'[p].status = "error"
           \/ answer'[p] \in truths[p] \cup {TrueAnswer(req[p])}
<1>0. /\ TypeInv /\ TablesOK /\ HandlerOK(p) /\ ReferentialIntegrity /\ FunctionsOK /\ KnownOK(p)
      /\ pc[p] \notin {"idle", "done"}
  BY LooksMove DEF TablesInv, TypeInv, Moves
<1>1. req[p] \in Asked
  BY <1>0 DEF HandlerOK
<1>2. \A a : Answer(p, a) => answer'[p] = a
  BY <1>0 DEF Answer, FunctionsOK
<1>3. CASE RestaurantMissing(p) \/ RestaurantForeign(p)
  <2>1. \/ ~RestaurantExists(req[p].id) /\ answer'[p] = Says("noRestaurant")
        \/ /\ RestaurantExists(req[p].id) /\ ~OwnsRestaurant(p)
           /\ answer'[p] = Says("forbidden")
    BY <1>2, <1>3 DEF RestaurantMissing, RestaurantForeign
  <2>2. req[p].op \in {"updateRestaurant", "deleteRestaurant"}
    BY <1>3 DEF RestaurantMissing, RestaurantForeign, Look, At
  <2>3. answer'[p] = AnswerForRestaurant(req[p])
    BY <2>1, <2>2 DEF AnswerForRestaurant, OwnsRestaurant
  <2> QED BY <1>1, <2>2, <2>3, TrueAnswerIs
<1>4. CASE UpdateRestaurantGone(p) \/ DeleteRestaurantGone(p)
  <2>1. answer'[p] = Says("error")
    BY <1>2, <1>4 DEF UpdateRestaurantGone, DeleteRestaurantGone
  <2> QED BY <2>1 DEF Says
<1>5. CASE \/ HasRelations(p) /\ RestaurantExists(req[p].id) /\ Referenced(req[p].id)
           \/ DeleteRestaurantReferenced(p)
  <2>1. /\ RestaurantExists(req[p].id) /\ Referenced(req[p].id)
        /\ answer'[p] = Says("hasRelations")
        /\ req[p].op = "deleteRestaurant" /\ pc[p] \in {"relations", "write"}
    BY <1>2, <1>5 DEF HasRelations, DeleteRestaurantReferenced, Look, At
  <2>2. OwnsRestaurant(p)
    BY <1>0, <2>1 DEF KnownOK, OwnerOps
  <2>3. answer'[p] = AnswerForRestaurant(req[p])
    BY <2>1, <2>2 DEF AnswerForRestaurant, OwnsRestaurant
  <2> QED BY <1>1, <2>1, <2>3, TrueAnswerIs
<1>6. CASE CommentsRestaurantMissing(p)
  <2>1. /\ ~RestaurantExists(req[p].id) /\ answer'[p] = Says("noRestaurant")
        /\ req[p].op \in {"listComments", "createComment"}
    BY <1>2, <1>6 DEF CommentsRestaurantMissing, Look, At
  <2>2. answer'[p] = AnswerForComment(req[p])
    BY <2>1 DEF AnswerForComment
  <2> QED BY <1>1, <2>1, <2>2, TrueAnswerIs
<1>7. CASE ListComments(p)
  <2>1. /\ pc[p] = "write" /\ req[p].op = "listComments"
        /\ answer'[p] = SaysIds("listed", CommentsOf(req[p].id))
    BY <1>2, <1>7 DEF ListComments, Look, At
  <2>2. CASE RestaurantExists(req[p].id)
    <3>1. answer'[p] = AnswerForComment(req[p])
      BY <2>1, <2>2 DEF AnswerForComment
    <3> QED BY <1>1, <2>1, <3>1, TrueAnswerIs
  <2>3. CASE ~RestaurantExists(req[p].id)
    <3>1. CommentsOf(req[p].id) = {}
      BY <1>0, <2>3 DEF ReferentialIntegrity, CommentsOf
    <3> QED BY <2>1, <2>3, <3>1 DEF TruthOK
  <2> QED BY <2>2, <2>3
<1>8. CASE CommentMissing(p) \/ CommentForeign(p) \/ CommentGone(p)
  <2>1. /\ req[p].op \in {"updateComment", "deleteComment"}
        /\ \/ ~CommentExists(req[p].id) /\ answer'[p] = Says("noComment")
           \/ CommentExists(req[p].id) /\ ~Authored(p) /\ answer'[p] = Says("forbidden")
    BY <1>2, <1>8 DEF CommentMissing, CommentForeign, CommentGone, Look, At
  <2>2. req[p].op = "updateComment" => req[p].change # <<>>
    BY <1>0 DEF TruthOK
  <2>3. answer'[p] = AnswerForComment(req[p])
    BY <2>1, <2>2 DEF AnswerForComment, Authored
  <2> QED BY <1>1, <2>1, <2>3, TrueAnswerIs
<1>9. CASE FavouriteRestaurantMissing(p) \/ CreateFavouriteAgain(p) \/ CreateFavouriteOrphan(p)
  <2>1. /\ req[p].op = "createFavourite"
        /\ \/ ~RestaurantExists(req[p].id) /\ answer'[p] = Says("noRestaurant")
           \/ FavouriteOf(p) \in favourites /\ answer'[p] = Says("duplicate")
    BY <1>2, <1>9 DEF FavouriteRestaurantMissing, CreateFavouriteAgain, CreateFavouriteOrphan,
                      Look, At
  <2>2. FavouriteOf(p) \in favourites => RestaurantExists(req[p].id)
    BY <1>0 DEF ReferentialIntegrity, FavouriteOf
  <2>3. answer'[p] = AnswerForFavourite(req[p])
    BY <2>1, <2>2 DEF AnswerForFavourite, FavouriteOf
  <2> QED BY <1>1, <2>1, <2>3, TrueAnswerIs
<1>10. CASE DeleteFavouriteMissing(p)
  <2>1. /\ req[p].op = "deleteFavourite"
        /\ FavouriteOf(p) \notin favourites /\ answer'[p] = Says("noFavourite")
    BY <1>2, <1>10 DEF DeleteFavouriteMissing, Look, At
  <2>2. answer'[p] = AnswerForFavourite(req[p])
    BY <2>1 DEF AnswerForFavourite, FavouriteOf
  <2> QED BY <1>1, <2>1, <2>2, TrueAnswerIs
<1>11. CASE \/ UpdateRestaurantProceeds(p) \/ DeleteRestaurantProceeds(p)
            \/ HasRelations(p) /\ ~(RestaurantExists(req[p].id) /\ Referenced(req[p].id))
            \/ CommentsRestaurantFound(p) \/ CommentProceeds(p) \/ FavouriteRestaurantFound(p)
  BY <1>11 DEF UpdateRestaurantProceeds, DeleteRestaurantProceeds, HasRelations,
               CommentsRestaurantFound, CommentProceeds, FavouriteRestaurantFound, Goto
<1> QED BY <1>3, <1>4, <1>5, <1>6, <1>7, <1>8, <1>9, <1>10, <1>11 DEF Looks

\* What a write answers is true when it is made.
LEMMA WritesTruth ==
    ASSUME TablesInv, NEW p \in Requests, TruthOK(p), Writes(p)
    PROVE  answer'[p] = TrueAnswer(req[p])
<1>0. /\ TypeInv /\ TablesOK /\ HandlerOK(p) /\ ReferentialIntegrity /\ FunctionsOK /\ KnownOK(p)
      /\ pc[p] = "write"
  BY WritesMove DEF TablesInv, TypeInv
<1>1. req[p] \in Asked
  BY <1>0 DEF HandlerOK
<1>2. \A a : Answer(p, a) => answer'[p] = a
  BY <1>0 DEF Answer, FunctionsOK
<1>3. CASE CreateRestaurant(p)
  <2>1. req[p].op = "createRestaurant" /\ answer'[p] = SaysIds("created", {lastId.restaurant + 1})
    BY <1>2, <1>3 DEF CreateRestaurant, At
  <2> QED BY <1>1, <2>1, TrueAnswerIs DEF AnswerForRestaurant
<1>4. CASE UpdateRestaurant(p) \/ DeleteRestaurant(p)
  <2>1. /\ RestaurantExists(req[p].id)
        /\ \/ req[p].op = "updateRestaurant" /\ answer'[p] = Says("updated")
           \/ /\ req[p].op = "deleteRestaurant" /\ answer'[p] = Says("deleted")
              /\ ~Referenced(req[p].id)
    BY <1>2, <1>4 DEF UpdateRestaurant, DeleteRestaurant, At
  <2>2. OwnsRestaurant(p)
    BY <1>0, <2>1 DEF KnownOK, OwnerOps
  <2>3. answer'[p] = AnswerForRestaurant(req[p])
    BY <2>1, <2>2 DEF AnswerForRestaurant, OwnsRestaurant
  <2> QED BY <1>1, <2>1, <2>3, TrueAnswerIs
<1>5. CASE CreateComment(p) \/ CreateCommentOrphan(p)
  <2>1. /\ req[p].op = "createComment"
        /\ \/ /\ RestaurantExists(req[p].id)
              /\ answer'[p] = SaysIds("created", {lastId.comment + 1})
           \/ ~RestaurantExists(req[p].id) /\ answer'[p] = Says("noRestaurant")
    BY <1>2, <1>5 DEF CreateComment, CreateCommentOrphan, At
  <2>2. answer'[p] = AnswerForComment(req[p])
    BY <2>1 DEF AnswerForComment
  <2> QED BY <1>1, <2>1, <2>2, TrueAnswerIs
<1>6. CASE UpdateComment(p) \/ DeleteComment(p)
  <2>1. /\ CommentExists(req[p].id)
        /\ \/ req[p].op = "updateComment" /\ answer'[p] = Says("updated")
           \/ req[p].op = "deleteComment" /\ answer'[p] = Says("deleted")
    BY <1>2, <1>6 DEF UpdateComment, DeleteComment, At
  <2>2. Authored(p) /\ (req[p].op = "updateComment" => req[p].change # <<>>)
    BY <1>0, <2>1 DEF KnownOK, AuthorOps, TruthOK
  <2>3. answer'[p] = AnswerForComment(req[p])
    BY <2>1, <2>2 DEF AnswerForComment, Authored
  <2> QED BY <1>1, <2>1, <2>3, TrueAnswerIs
<1>7. CASE CreateFavourite(p) \/ DeleteFavourite(p)
  <2>1. \/ /\ req[p].op = "createFavourite" /\ answer'[p] = Says("created")
           /\ RestaurantExists(req[p].id) /\ FavouriteOf(p) \notin favourites
        \/ /\ req[p].op = "deleteFavourite" /\ answer'[p] = Says("deleted")
           /\ FavouriteOf(p) \in favourites
    BY <1>2, <1>7 DEF CreateFavourite, DeleteFavourite, At
  <2>2. answer'[p] = AnswerForFavourite(req[p])
    BY <2>1 DEF AnswerForFavourite, FavouriteOf
  <2> QED BY <1>1, <2>1, <2>2, TrueAnswerIs
<1> QED BY <1>3, <1>4, <1>5, <1>6, <1>7 DEF Writes

\* What a view would answer from the rows it reads now is true now.
LEMMA ReadsTruth ==
    ASSUME TablesInv, NEW p \in Requests, TruthOK(p), ReadRestaurants(p), ~torn[p]
    PROVE  AnswerOfView(p)' = TrueAnswer(req[p])
<1>0. /\ TypeInv /\ HandlerOK(p) /\ FunctionsOK /\ pc[p] = "rows" /\ req' = req
      /\ UNCHANGED <<restaurants, comments>>
      /\ counted' = [counted EXCEPT ![p] = [id \in Wanted(p) |-> RowOf(id)]]
      /\ Wanted(p) \subseteq DOMAIN restaurants
  BY DEF TablesInv, TypeInv, ReadRestaurants, Goto, tables
<1>1. req[p] \in Asked /\ req[p].op \in ViewOps
  BY <1>0 DEF HandlerOK
<1>2. counted'[p] = [id \in Wanted(p) |-> RowOf(id)]
  BY <1>0 DEF FunctionsOK
<1>3. ASSUME NEW id \in Wanted(p)
      PROVE  ShownOf(req[p], id, counted[p][id])' = ShownOf(req[p], id, RowOf(id))
  <2>1. counted'[p][id] = RowOf(id)
    BY <1>2
  <2>2. TotalOf(id)' = TotalOf(id)
    BY <1>0 DEF TotalOf, CommentsOf
  <2> QED BY <1>0, <2>1, <2>2 DEF ShownOf
<1>4. AnswerOfView(p)' = Shows([id \in Wanted(p) |-> ShownOf(req[p], id, RowOf(id))])
  <2>1. DOMAIN counted'[p] = Wanted(p)
    BY <1>2
  <2>2. [id \in DOMAIN counted'[p] |-> ShownOf(req[p], id, counted[p][id])']
            = [id \in Wanted(p) |-> ShownOf(req[p], id, RowOf(id))]
    BY <1>3, <2>1
  <2> QED BY <2>2 DEF AnswerOfView
<1>5. CASE req[p].op = "viewRestaurant"
  <2>1. Wanted(p) = {req[p].id} /\ RestaurantExists(req[p].id)
    BY <1>0, <1>5 DEF Wanted, RestaurantExists
  <2>2. AnswerOfView(p)' = AnswerForRestaurant(req[p])
    BY <1>4, <1>5, <2>1 DEF AnswerForRestaurant
  <2> QED BY <1>1, <1>5, <2>2, TrueAnswerIs
<1>6. CASE req[p].op = "listRestaurants"
  <2>1. Wanted(p) = DOMAIN restaurants
    BY <1>6 DEF Wanted
  <2>2. AnswerOfView(p)' = AnswerForRestaurant(req[p])
    BY <1>4, <1>6, <2>1 DEF AnswerForRestaurant
  <2> QED BY <1>1, <1>6, <2>2, TrueAnswerIs
<1>7. CASE req[p].op = "listFavourites"
  <2>1. Wanted(p) = FavouritesOf(req[p].userId)
    BY <1>0, <1>7 DEF Wanted, TruthOK
  <2>2. AnswerOfView(p)' = AnswerForFavourite(req[p])
    BY <1>4, <1>7, <2>1 DEF AnswerForFavourite
  <2> QED BY <1>1, <1>7, <2>2, TrueAnswerIs
<1> QED BY <1>1, <1>5, <1>6, <1>7 DEF ViewOps

\* At a start no request has been answered.
LEMMA InitTruth == Init => TruthInv
BY InitTables DEF Init, TruthInv, TruthOK, Says

\* The steps of a handler put on record what it answers, or will answer.
LEMMA SubmitTruth ==
    ASSUME TablesInv, NEW p \in Requests, TruthOK(p), Submit(p), UNCHANGED <<tables, reading>>,
           RecordTruths, RecordTears
    PROVE  TruthOK(p)'
<1> DEFINE place(q) == CASE q.op \in {"createRestaurant", "deleteFavourite"} -> "write"
                         [] q.op \in {"viewRestaurant", "listRestaurants"} -> "rows"
                         [] OTHER -> "check"
<1>0. /\ TypeInv /\ HandlerOK(p) /\ FunctionsOK /\ HistoryOK
  BY DEF TablesInv, TypeInv
<1>1. PICK q \in Asked :
          /\ pc[p] = "idle" /\ req' = [req EXCEPT ![p] = q]
          /\ IF q.op = "updateComment" /\ q.change = <<>>
             THEN /\ answer' = [answer EXCEPT ![p] = Says("emptyUpdate")]
                  /\ pc' = [pc EXCEPT ![p] = "done"]
             ELSE pc' = [pc EXCEPT ![p] = place(q)] /\ answer' = answer
  BY Zenon DEF Submit
<1>2. /\ place(q) \in {"write", "check", "rows"}
      /\ place(q) = "write" => q.op # "listComments"
      /\ place(q) = "rows" => q.op # "listFavourites"
  OBVIOUS
<1> HIDE DEF place
<1>3. req'[p] = q /\ answer[p].status = "pending" /\ q # NoRequest
  BY <1>0, <1>1, RequestShape DEF FunctionsOK, HandlerOK
<1>4. CASE q.op = "updateComment" /\ q.change = <<>>
  <2>1. pc'[p] = "done" /\ answer'[p] = Says("emptyUpdate")
    BY <1>0, <1>1, <1>4 DEF FunctionsOK
  <2>2. TrueAnswer(q) = Says("emptyUpdate")
    BY <1>4, TrueAnswerIs DEF AnswerForComment
  <2>3. answer'[p] \in truths'[p]
    BY <1>0, <1>3, <2>1, <2>2, RecordKeeps
  <2> QED BY <2>1, <2>3 DEF TruthOK
<1>5. CASE ~(q.op = "updateComment" /\ q.change = <<>>)
  <2>1. pc'[p] = place(q) /\ answer'[p] = answer[p]
    BY <1>0, <1>1, <1>5 DEF FunctionsOK
  <2> QED BY <1>2, <1>3, <1>5, <2>1 DEF TruthOK
<1> QED BY <1>4, <1>5

\* What a look finds is among the truths of its request's time.
LEMMA LooksRecord ==
    ASSUME TablesInv, NEW p \in Requests, TruthOK(p), Looks(p), UNCHANGED <<tables, reading>>,
           RecordTruths, RecordTears
    PROVE  TruthOK(p)'
<1>0. /\ TypeInv /\ HandlerOK(p) /\ FunctionsOK /\ HistoryOK /\ Moves(p, {"relations", "write"})
  BY LooksMove DEF TablesInv, TypeInv
<1>1. /\ req' = req /\ answer[p].status = "pending" /\ pc[p] \notin {"idle", "done"}
      /\ req[p] # NoRequest /\ pc'[p] \in {"relations", "write", "done"}
  BY <1>0, RequestShape DEF Moves, HandlerOK, Goto, Answer, FunctionsOK
<1>2. truths[p] \subseteq truths'[p] /\ TrueAnswer(req[p]) \in truths'[p]
  BY <1>0, <1>1, RecordKeeps
<1>3. answer'[p].status \notin {"pending", "error"} => answer'[p] \in truths'[p]
  BY <1>1, <1>2, LooksTruth
<1>4. ASSUME pc'[p] = "write", req[p].op = "listComments" PROVE RestaurantExists(req[p].id)'
  <2>1. CommentsRestaurantFound(p)
    <3>1. ASSUME NEW a, Answer(p, a) PROVE FALSE
      BY <1>0, <1>4, <3>1 DEF Answer, FunctionsOK
    <3> QED BY <1>4, <3>1
          DEF Looks, RestaurantMissing, RestaurantForeign, UpdateRestaurantProceeds,
              UpdateRestaurantGone, DeleteRestaurantProceeds, HasRelations,
              DeleteRestaurantReferenced, DeleteRestaurantGone, CommentsRestaurantMissing,
              ListComments, CommentMissing, CommentForeign, CommentProceeds, CommentGone,
              FavouriteRestaurantMissing, FavouriteRestaurantFound, CreateFavouriteAgain,
              CreateFavouriteOrphan, DeleteFavouriteMissing, Look, At
  <2> QED BY <1>1, <2>1 DEF CommentsRestaurantFound, RestaurantExists, tables
<1>5. pc'[p] \notin {"idle", "done"} /\ req[p].op = "updateComment" => req[p].change # <<>>
  BY <1>1 DEF TruthOK
<1> QED BY <1>1, <1>3, <1>4, <1>5 DEF TruthOK

\* So is what a write answers.
LEMMA WritesRecord ==
    ASSUME TablesInv, NEW p \in Requests, TruthOK(p), Writes(p), RecordTruths, RecordTears
    PROVE  TruthOK(p)'
<1>0. /\ TypeInv /\ HandlerOK(p) /\ FunctionsOK /\ HistoryOK /\ Moves(p, {}) /\ pc[p] = "write"
  BY WritesMove DEF TablesInv, TypeInv
<1>1. /\ req' = req /\ answer[p].status = "pending" /\ req[p] # NoRequest /\ pc'[p] = "done"
  BY <1>0, RequestShape DEF Moves, HandlerOK, Answer, FunctionsOK
<1>2. answer'[p] \in truths'[p]
  BY <1>0, <1>1, RecordKeeps, WritesTruth
<1> QED BY <1>1, <1>2 DEF TruthOK

\* So is what a read answers, unless its rows changed between its statements.
LEMMA ViewRecord ==
    ASSUME TablesInv, NEW p \in Requests, TruthOK(p), HandleView(p), UNCHANGED tables,
           RecordTruths, RecordTears
    PROVE  TruthOK(p)'
<1>0. /\ TypeInv /\ HandlerOK(p) /\ FunctionsOK /\ HistoryOK
  BY DEF TablesInv, TypeInv
<1>1. /\ req' = req /\ pc[p] \notin {"idle", "done"}
  BY DEF HandleView, ReadFavourites, ReadRestaurantGone, ReadRestaurants, ReadRatings, Look, At,
         Goto, Answer
<1>2. /\ answer[p].status = "pending" /\ req[p] # NoRequest /\ req[p] \in Asked
      /\ pc[p] \in {"rows", "ratings"} => req[p].op \in ViewOps
  BY <1>0, <1>1, RequestShape DEF HandlerOK
<1>3. /\ truths[p] \subseteq truths'[p] /\ TrueAnswer(req[p]) \in truths'[p]
      /\ torn[p] => torn'[p]
  BY <1>0, <1>1, <1>2, RecordKeeps
<1>4. CASE ReadFavourites(p)
  <2>1. /\ pc'[p] = "rows" /\ answer'[p] = answer[p] /\ req[p].op = "listFavourites"
        /\ wanted'[p] = FavouritesOf(req[p].userId)
    BY <1>0, <1>4 DEF ReadFavourites, Look, At, Goto, FunctionsOK
  <2>2. FavouritesOf(req[p].userId)' = FavouritesOf(req[p].userId)
    BY <1>1 DEF FavouritesOf, tables
  <2> QED BY <1>1, <1>2, <2>1, <2>2 DEF TruthOK
<1>5. CASE ReadRestaurantGone(p)
  <2>1. /\ pc'[p] = "done"
        /\ answer'[p] = Says(IF req[p].op = "viewRestaurant" THEN "noRestaurant" ELSE "error")
        /\ ~(Wanted(p) \subseteq DOMAIN restaurants)
    BY <1>0, <1>5 DEF ReadRestaurantGone, Answer, FunctionsOK
  <2>2. CASE req[p].op = "viewRestaurant"
    <3>1. ~RestaurantExists(req[p].id)
      BY <2>1, <2>2 DEF Wanted, RestaurantExists
    <3>2. TrueAnswer(req[p]) = Says("noRestaurant")
      BY <1>2, <2>2, <3>1, TrueAnswerIs DEF AnswerForRestaurant
    <3> QED BY <1>3, <2>1, <2>2, <3>2 DEF TruthOK
  <2>3. CASE req[p].op # "viewRestaurant"
    <3>1. answer'[p].status = "error"
      BY <2>1, <2>3 DEF Says
    <3> QED BY <2>1, <3>1 DEF TruthOK
  <2> QED BY <2>2, <2>3
<1>6. CASE ReadRestaurants(p)
  <2>1. pc'[p] = "ratings" /\ answer'[p] = answer[p] /\ pc[p] = "rows"
    BY <1>0, <1>6 DEF ReadRestaurants, Goto, FunctionsOK
  <2>2. ~torn'[p] => AnswerOfView(p)' \in truths'[p]
    BY <1>3, <1>6, ReadsTruth
  <2>3. req[p].op # "updateComment"
    BY <1>2, <2>1 DEF ViewOps
  <2> QED BY <1>1, <1>2, <2>1, <2>2, <2>3 DEF TruthOK
<1>7. CASE ReadRatings(p)
  <2>1. pc'[p] = "done" /\ answer'[p] = AnswerOfView(p) /\ pc[p] = "ratings"
    BY <1>0, <1>7 DEF ReadRatings, Answer, AnswerOfView, FunctionsOK
  <2>2. ~torn'[p] => answer'[p] \in truths'[p]
    BY <1>3, <2>1 DEF TruthOK
  <2> QED BY <2>1, <2>2 DEF TruthOK
<1> QED BY <1>4, <1>5, <1>6, <1>7 DEF HandleView

\* Every step keeps the answers among the truths.
LEMMA NextTruth == TruthInv /\ [Next]_vars => TruthInv'
<1> SUFFICES ASSUME TruthInv, [Next]_vars PROVE TruthInv'
  OBVIOUS
<1>1. TablesInv /\ TablesInv' /\ TypeInv /\ \A k \in Requests : TruthOK(k)
  BY NextTables DEF TruthInv, TablesInv
<1>2. CASE Next
  <2>0. RecordTruths /\ RecordTears
    BY <1>2 DEF Next
  <2>1. ASSUME NEW p \in Requests,
               \/ Submit(p) /\ UNCHANGED reading
               \/ HandleView(p)
               \/ (Looks(p) \/ Writes(p)) /\ UNCHANGED reading
        PROVE  \A k \in Requests \ {p} : TruthOK(k)'
    BY <1>1, <1>2, <2>0, <2>1, OthersKept, TruthStays
  <2>2. CASE \E p \in Requests : Submit(p) /\ UNCHANGED <<tables, reading>>
    BY <1>1, <2>0, <2>1, <2>2, SubmitTruth DEF TruthInv
  <2>3. CASE \E p \in Requests : HandleView(p) /\ UNCHANGED tables
    BY <1>1, <2>0, <2>1, <2>3, ViewRecord DEF TruthInv
  <2>4. CASE \E p \in Requests : Looks(p) /\ UNCHANGED <<tables, reading>>
    BY <1>1, <2>0, <2>1, <2>4, LooksRecord DEF TruthInv
  <2>5. CASE \E p \in Requests : Writes(p) /\ UNCHANGED reading
    BY <1>1, <2>0, <2>1, <2>5, WritesRecord DEF TruthInv
  <2>6. CASE \E id \in DOMAIN restaurants : Reserve(id) /\ UNCHANGED reading
    <3>1. UNCHANGED <<req, pc, answer, wanted, counted>>
      BY <2>6 DEF Reserve, reading
    <3> QED BY <1>1, <1>2, <2>0, <3>1, TruthStays DEF TruthInv
  <2> QED BY <1>2, <2>2, <2>3, <2>4, <2>5, <2>6, StepKinds
<1>3. CASE UNCHANGED vars
  <2>1. UNCHANGED <<restaurants, comments, favourites, req, pc, answer, wanted, counted, truths,
                    torn>>
    BY <1>3 DEF vars, tables, reading
  <2>2. ASSUME NEW k \in Requests PROVE TruthOK(k)'
    <3>1. AnswerOfView(k)' = AnswerOfView(k)
      BY <2>1 DEF AnswerOfView, ShownOf, TotalOf, CommentsOf
    <3>2. FavouritesOf(req[k].userId)' = FavouritesOf(req[k].userId)
      BY <2>1 DEF FavouritesOf
    <3>3. TruthOK(k)
      BY <1>1
    <3> QED BY <2>1, <3>1, <3>2, <3>3 DEF TruthOK, RestaurantExists
  <2> QED BY <1>1, <2>2 DEF TruthInv
<1> QED BY <1>2, <1>3

\* Every answer but a 500 is one that a handler without awaits would have given at
\* some moment between the arrival of the request and the answer, unless what a view
\* had read changed before its last statement.
THEOREM AnswersAreTrueSometime == Spec => []AnswersWereTrue
<1>1. Spec => []TruthInv
  BY InitTruth, NextTruth, PTL DEF Spec
<1>2. TruthInv => AnswersWereTrue
  BY DEF TruthInv, TruthOK, AnswersWereTrue
<1> QED BY <1>1, <1>2, PTL
-------------------------------------------------------------------------------
(* The numbers that were shown were true.                                  *)

\* No comments have no stars.
LEMMA NoStars ==
    ASSUME TablesOK, NEW id
    PROVE  /\ CommentsOf(id) = {} => TotalOf(id) = 0
           /\ CountOf(id) = 0 => CommentsOf(id) = {}
<1>1. IsFiniteSet(CommentsOf(id))
  BY FiniteComments
<1>2. ASSUME CommentsOf(id) = {} PROVE TotalOf(id) = 0
  <2>1. UNION {{c} \X (1..comments[c].rating) : c \in CommentsOf(id)} = {}
    BY <1>2
  <2> QED BY <2>1, FS_EmptySet DEF TotalOf
<1>3. CountOf(id) = 0 => CommentsOf(id) = {}
  BY <1>1, FS_EmptySet DEF CountOf
<1> QED BY <1>2, <1>3

\* The numbers that a view in one piece would show of a restaurant.
LEMMA TrueNumbers ==
    ASSUME TablesOK, NEW q \in Asked, q.op \in {"viewRestaurant", "listRestaurants"},
           NEW id \in DOMAIN restaurants, q.op = "viewRestaurant" => id = q.id
    PROVE  LET a == TrueAnswer(q) IN
           /\ a.status = "shown" /\ id \in DOMAIN a.shown
           /\ a.shown[id]["count"] = CountOf(id) /\ a.shown[id]["total"] = TotalOf(id)
<1>1. PICK ids : TrueAnswer(q) = Shows([i \in ids |-> ShownOf(q, i, RowOf(i))]) /\ id \in ids
  <2>1. TrueAnswer(q) = AnswerForRestaurant(q)
    BY TrueAnswerIs
  <2> QED BY <2>1 DEF AnswerForRestaurant, RestaurantExists
<1>2. /\ TrueAnswer(q).status = "shown" /\ id \in DOMAIN TrueAnswer(q).shown
      /\ TrueAnswer(q).shown[id] = ShownOf(q, id, RowOf(id))
  BY <1>1 DEF Shows
<1>3. RowOf(id).count = CountOf(id) /\ (CountOf(id) = 0 => TotalOf(id) = 0)
  BY NoStars DEF RowOf
<1> QED BY <1>2, <1>3 DEF ShownOf

\* Only views show anything.
LEMMA OnlyViewsShow ==
    ASSUME TypeInv, NEW p \in Requests, Submit(p) \/ Looks(p) \/ Writes(p)
    PROVE  pc'[p] # "ratings" /\ answer'[p].status # "shown"
<1>0. TablesOK /\ HandlerOK(p) /\ FunctionsOK
  BY DEF TypeInv
<1>1. \A s, ids : Says(s).status = s /\ SaysIds(s, ids).status = s
  BY DEF Says, SaysIds
<1>2. CASE Submit(p)
  <2> DEFINE place(q) == CASE q.op \in {"createRestaurant", "deleteFavourite"} -> "write"
                           [] q.op \in {"viewRestaurant", "listRestaurants"} -> "rows"
                           [] OTHER -> "check"
  <2>1. PICK q \in Asked :
            /\ pc[p] = "idle"
            /\ \/ /\ answer' = [answer EXCEPT ![p] = Says("emptyUpdate")]
                  /\ pc' = [pc EXCEPT ![p] = "done"]
               \/ pc' = [pc EXCEPT ![p] = place(q)] /\ answer' = answer
    BY <1>2, Zenon DEF Submit
  <2>2. place(q) # "ratings"
    OBVIOUS
  <2> HIDE DEF place
  <2>3. answer[p].status = "pending"
    BY <1>0, <2>1 DEF HandlerOK
  <2> QED BY <1>0, <1>1, <2>1, <2>2, <2>3 DEF FunctionsOK
<1>3. CASE Looks(p) \/ Writes(p)
  <2>1. /\ answer[p].status = "pending"
        /\ pc' = [pc EXCEPT ![p] = pc'[p]] /\ pc'[p] # "ratings"
    BY <1>0, <1>3, LooksMove, WritesMove DEF Moves, Goto, Answer, HandlerOK, FunctionsOK
  <2>2. \/ answer' = answer
        \/ \E s \in Statuses \ {"shown"} : \E ids :
               Answer(p, Says(s)) \/ Answer(p, SaysIds(s, ids))
    <3>1. CASE Looks(p)
      BY <3>1
         DEF Looks, RestaurantMissing, RestaurantForeign, UpdateRestaurantProceeds,
             UpdateRestaurantGone, DeleteRestaurantProceeds, HasRelations,
             DeleteRestaurantReferenced, DeleteRestaurantGone, CommentsRestaurantMissing,
             CommentsRestaurantFound, ListComments, CommentMissing, CommentForeign,
             CommentProceeds, CommentGone, FavouriteRestaurantMissing, FavouriteRestaurantFound,
             CreateFavouriteAgain, CreateFavouriteOrphan, DeleteFavouriteMissing, Goto, Statuses
    <3>2. CASE Writes(p)
      BY <3>2 DEF Writes, CreateRestaurant, UpdateRestaurant, DeleteRestaurant, CreateComment,
                  CreateCommentOrphan, UpdateComment, DeleteComment, CreateFavourite,
                  DeleteFavourite, Statuses
    <3> QED BY <1>3, <3>1, <3>2
  <2>3. \/ answer'[p] = answer[p]
        \/ \E s \in Statuses \ {"shown"} : \E ids :
               answer'[p] = Says(s) \/ answer'[p] = SaysIds(s, ids)
    BY <1>0, <2>2 DEF Answer, FunctionsOK
  <2> QED BY <1>1, <2>1, <2>3
<1> QED BY <1>2, <1>3

\* The steps of the others leave the numbers on record; when a restaurant is deleted
\* under a view, it has no comments left, and that goes on record.
LEMMA NumbersStay ==
    ASSUME TablesInv, [Next]_vars, NEW k \in Requests, NumbersOK(k),
           truths[k] \subseteq truths'[k], Next => RecordTruths /\ RecordTears,
           req'[k] = req[k], pc'[k] = pc[k], answer'[k] = answer[k], counted'[k] = counted[k]
    PROVE  NumbersOK(k)'
<1>0. TypeInv /\ TablesOK /\ HistoryOK /\ HandlerOK(k)
  BY DEF TablesInv, TypeInv
<1>1. \A id, n, x : OnRecord(k, id, n, x) => OnRecord(k, id, n, x)'
  BY DEF OnRecord
<1>2. ASSUME req[k].op # "listFavourites", pc[k] = "ratings", NEW id \in DOMAIN counted[k],
             counted[k][id].count = 0 \/ ~RestaurantExists(id)'
      PROVE  OnRecord(k, id, "total", 0)'
  <2>1. CASE counted[k][id].count = 0 \/ ~RestaurantExists(id)
    BY <1>1, <1>2, <2>1 DEF NumbersOK
  <2>2. CASE RestaurantExists(id) /\ ~RestaurantExists(id)'
    <3>1. restaurants' # restaurants /\ Next
      BY <2>2 DEF RestaurantExists, vars, tables
    <3>2. PICK p \in Requests : Writes(p)
      BY <3>1, OnlyWritesChange
    <3>3. DeleteRestaurant(p) /\ req[p].id = id
      BY <2>2, <3>2
         DEF Writes, CreateRestaurant, UpdateRestaurant, DeleteRestaurant, CreateComment,
             CreateCommentOrphan, UpdateComment, DeleteComment, CreateFavourite,
             DeleteFavourite, RestaurantExists, Without
    <3>4. TotalOf(id) = 0
      BY <1>0, <3>3, NoStars DEF DeleteRestaurant, Referenced
    <3>5. /\ req[k] \in Asked /\ answer[k].status = "pending"
          /\ req[k].op \in {"viewRestaurant", "listRestaurants"}
          /\ req[k].op = "viewRestaurant" => id = req[k].id
      BY <1>0, <1>2 DEF HandlerOK, NumbersOK, ViewOps
    <3>6. TrueAnswer(req[k]) \in truths'[k]
      BY <1>0, <3>1, <3>5, RecordKeeps, RequestShape
    <3>7. /\ TrueAnswer(req[k]).status = "shown" /\ id \in DOMAIN TrueAnswer(req[k]).shown
          /\ TrueAnswer(req[k]).shown[id]["total"] = 0
      BY <1>0, <2>2, <3>4, <3>5, TrueNumbers DEF RestaurantExists
    <3> QED BY <3>6, <3>7 DEF OnRecord
  <2> QED BY <1>2, <2>1, <2>2
<1> QED BY <1>1, <1>2 DEF NumbersOK

\* A view puts the count on record when it reads it, and the sum likewise.
LEMMA ViewNumbers ==
    ASSUME TablesInv, NEW p \in Requests, NumbersOK(p), HandleView(p), UNCHANGED tables,
           RecordTruths, RecordTears
    PROVE  NumbersOK(p)'
<1> DEFINE Recorded(id, n, x) ==
               \E a \in truths'[p] : a.status = "shown" /\ id \in DOMAIN a.shown
                                     /\ a.shown[id][n] = x
<1>0. /\ TypeInv /\ TablesOK /\ HandlerOK(p) /\ FunctionsOK /\ HistoryOK /\ ReferentialIntegrity
  BY DEF TablesInv, TypeInv
<1>1. req' = req /\ pc[p] \notin {"idle", "done"} /\ UNCHANGED restaurants
  BY DEF HandleView, ReadFavourites, ReadRestaurantGone, ReadRestaurants, ReadRatings, Look, At,
         Goto, Answer, tables
<1>2. req[p] \in Asked /\ req[p] # NoRequest /\ answer[p].status = "pending"
  BY <1>0, <1>1, RequestShape DEF HandlerOK
<1>3. truths[p] \subseteq truths'[p] /\ TrueAnswer(req[p]) \in truths'[p]
  BY <1>0, <1>1, <1>2, RecordKeeps
<1>4. \A id, n, x : OnRecord(p, id, n, x) => Recorded(id, n, x)
  BY <1>3 DEF OnRecord
<1>5. ASSUME NEW id \in DOMAIN restaurants, req[p].op \in {"viewRestaurant", "listRestaurants"},
             req[p].op = "viewRestaurant" => id = req[p].id
      PROVE  Recorded(id, "count", CountOf(id)) /\ Recorded(id, "total", TotalOf(id))
  BY <1>0, <1>2, <1>3, <1>5, TrueNumbers
<1> HIDE DEF Recorded
<1>6. ASSUME req[p].op # "listFavourites" =>
                 /\ pc'[p] = "ratings" =>
                        \A id \in DOMAIN counted'[p] :
                            /\ req[p].op = "viewRestaurant" => id = req[p].id
                            /\ Recorded(id, "count", counted'[p][id].count)
                            /\ counted'[p][id].count = 0 \/ ~RestaurantExists(id) =>
                                   Recorded(id, "total", 0)
                 /\ answer'[p].status = "shown" =>
                        \A id \in DOMAIN answer'[p].shown, n \in {"count", "total"} :
                            Recorded(id, n, answer'[p].shown[id][n])
      PROVE  NumbersOK(p)'
  BY <1>1, <1>6 DEF NumbersOK, OnRecord, RestaurantExists, Recorded
<1>7. CASE ReadFavourites(p)
  BY <1>6, <1>7 DEF ReadFavourites, Look, At
<1>8. CASE ReadRestaurantGone(p)
  <2>1. pc'[p] = "done" /\ \E s \in {"noRestaurant", "error"} : answer'[p] = Says(s)
    BY <1>0, <1>8 DEF ReadRestaurantGone, Answer, FunctionsOK
  <2>2. pc'[p] # "ratings" /\ answer'[p].status # "shown"
    BY <2>1 DEF Says
  <2> QED BY <1>6, <2>2
<1>9. CASE ReadRestaurants(p)
  <2>1. /\ pc[p] = "rows" /\ answer'[p] = answer[p] /\ Wanted(p) \subseteq DOMAIN restaurants
        /\ counted'[p] = [id \in Wanted(p) |-> RowOf(id)]
    BY <1>0, <1>9 DEF ReadRestaurants, Goto, FunctionsOK
  <2>2. ASSUME req[p].op # "listFavourites", NEW id \in DOMAIN counted'[p]
        PROVE  /\ req[p].op = "viewRestaurant" => id = req[p].id
               /\ RestaurantExists(id)
               /\ Recorded(id, "count", counted'[p][id].count)
               /\ counted'[p][id].count = 0 => Recorded(id, "total", 0)
    <3>1. req[p].op \in {"viewRestaurant", "listRestaurants"}
      BY <1>0, <2>1, <2>2 DEF HandlerOK, ViewOps
    <3>2. /\ id \in DOMAIN restaurants
          /\ req[p].op = "viewRestaurant" => id = req[p].id
          /\ counted'[p][id].count = CountOf(id)
      BY <2>1, <2>2, <3>1 DEF Wanted, RowOf
    <3>3. Recorded(id, "count", CountOf(id)) /\ Recorded(id, "total", TotalOf(id))
      BY <1>5, <3>1, <3>2
    <3> QED BY <1>0, <3>2, <3>3, NoStars DEF RestaurantExists
  <2> QED BY <1>2, <1>6, <2>1, <2>2
<1>10. CASE ReadRatings(p)
  <2>1. /\ pc[p] = "ratings" /\ pc'[p] = "done"
        /\ answer'[p] = Shows([id \in DOMAIN counted[p] |-> ShownOf(req[p], id, counted[p][id])])
    BY <1>0, <1>10 DEF ReadRatings, Answer, FunctionsOK
  <2>2. ASSUME req[p].op # "listFavourites", NEW id \in DOMAIN counted[p]
        PROVE  LET shown == ShownOf(req[p], id, counted[p][id]) IN
               /\ Recorded(id, "count", shown["count"])
               /\ Recorded(id, "total", shown["total"])
    <3>1. /\ req[p].op \in {"viewRestaurant", "listRestaurants"}
          /\ req[p].op = "viewRestaurant" => id = req[p].id
          /\ Recorded(id, "count", counted[p][id].count)
          /\ counted[p][id].count = 0 \/ ~RestaurantExists(id) => Recorded(id, "total", 0)
      BY <1>0, <1>4, <2>1, <2>2 DEF HandlerOK, ViewOps, NumbersOK
    <3>2. ~RestaurantExists(id) => TotalOf(id) = 0
      <4>1. ~RestaurantExists(id) => CommentsOf(id) = {}
        BY <1>0 DEF ReferentialIntegrity, CommentsOf
      <4> QED BY <1>0, <4>1, NoStars
    <3>3. Recorded(id, "total", IF counted[p][id].count = 0 THEN 0 ELSE TotalOf(id))
      BY <1>5, <3>1, <3>2 DEF RestaurantExists
    <3> QED BY <3>1, <3>3 DEF ShownOf
  <2>3. /\ DOMAIN answer'[p].shown = DOMAIN counted[p]
        /\ \A id \in DOMAIN counted[p] :
               answer'[p].shown[id] = ShownOf(req[p], id, counted[p][id])
    BY <2>1 DEF Shows
  <2> QED BY <1>6, <2>1, <2>2, <2>3
<1> QED BY <1>7, <1>8, <1>9, <1>10 DEF HandleView

\* Every step keeps the numbers on record.
LEMMA NextNumbers == NumbersInv /\ [Next]_vars => NumbersInv'
<1> SUFFICES ASSUME NumbersInv, [Next]_vars PROVE NumbersInv'
  OBVIOUS
<1>1. TablesInv /\ TablesInv' /\ TypeInv /\ HistoryOK /\ \A k \in Requests : NumbersOK(k)
  BY NextTables DEF NumbersInv, TablesInv, TypeInv
<1>2. CASE Next
  <2>0. RecordTruths /\ RecordTears
    BY <1>2 DEF Next
  <2>1. \A k \in Requests : truths[k] \subseteq truths'[k]
    BY <1>1, <2>0, RecordKeeps
  <2>2. ASSUME NEW p \in Requests,
               \/ Submit(p) /\ UNCHANGED reading
               \/ HandleView(p)
               \/ (Looks(p) \/ Writes(p)) /\ UNCHANGED reading
        PROVE  \A k \in Requests \ {p} : NumbersOK(k)'
    BY <1>1, <1>2, <2>0, <2>1, <2>2, OthersKept, NumbersStay
  <2>3. ASSUME NEW p \in Requests, Submit(p) \/ Looks(p) \/ Writes(p)
        PROVE  NumbersOK(p)'
    <3>1. pc'[p] # "ratings" /\ answer'[p].status # "shown"
      BY <1>1, <2>3, OnlyViewsShow
    <3> QED BY <3>1 DEF NumbersOK
  <2>4. CASE \E p \in Requests : Submit(p) /\ UNCHANGED <<tables, reading>>
    BY <1>1, <2>2, <2>3, <2>4 DEF NumbersInv
  <2>5. CASE \E p \in Requests : HandleView(p) /\ UNCHANGED tables
    BY <1>1, <2>0, <2>2, <2>5, ViewNumbers DEF NumbersInv
  <2>6. CASE \E p \in Requests : Looks(p) /\ UNCHANGED <<tables, reading>>
    BY <1>1, <2>2, <2>3, <2>6 DEF NumbersInv
  <2>7. CASE \E p \in Requests : Writes(p) /\ UNCHANGED reading
    BY <1>1, <2>2, <2>3, <2>7 DEF NumbersInv
  <2>8. CASE \E id \in DOMAIN restaurants : Reserve(id) /\ UNCHANGED reading
    <3>1. UNCHANGED <<req, pc, answer, counted>>
      BY <2>8 DEF Reserve, reading
    <3> QED BY <1>1, <1>2, <2>0, <2>1, <3>1, NumbersStay DEF NumbersInv
  <2> QED BY <1>2, <2>4, <2>5, <2>6, <2>7, <2>8, StepKinds
<1>3. CASE UNCHANGED vars
  <2>1. UNCHANGED <<restaurants, req, pc, answer, counted, truths>>
    BY <1>3 DEF vars, tables, reading
  <2>2. ASSUME NEW k \in Requests PROVE NumbersOK(k)'
    <3>1. NumbersOK(k)
      BY <1>1
    <3> QED BY <2>1, <3>1 DEF NumbersOK, OnRecord, RestaurantExists
  <2> QED BY <1>1, <2>2 DEF NumbersInv
<1> QED BY <1>2, <1>3

\* The count and the sum behind every average that a view shows were each true at some
\* moment between the arrival of the request and its answer, torn or not.
THEOREM NumbersAreTrueSometime == Spec => []ShownNumbersWereTrue
<1>1. Init => NumbersInv
  BY InitTables DEF Init, NumbersInv, NumbersOK, Says
<1>2. Spec => []NumbersInv
  BY <1>1, NextNumbers, PTL DEF Spec
<1>3. NumbersInv => ShownNumbersWereTrue
  BY DEF NumbersInv, NumbersOK, OnRecord, ShownNumbersWereTrue
<1> QED BY <1>2, <1>3, PTL
===============================================================================
