---------------------------- MODULE MCCatalogue ----------------------------
(* A small instance of Catalogue: three restaurants of one owner, one with *)
(* a comment by another user, one without anything and one that is their   *)
(* favourite, and a few requests of each kind about them, so that any      *)
(* three of them meet.                                                     *)
EXTENDS Catalogue, TLC

CONSTANTS u1, u2, n1, n2, b1, b2

MCRatings == {1, 5}

MCRestaurants == [id \in 1..3 |-> [ownerId |-> u1, name |-> n1]]
MCComments == <<[userId |-> u2, restaurantId |-> 1, rating |-> 5, body |-> b1]>>
MCFavourites == {[userId |-> u2, restaurantId |-> 3]}

Ask(op, u, id, change) == [op |-> op, userId |-> u, id |-> id, change |-> change]
Nothing == <<>>
NewName == [name |-> n2]
NewComment == [rating |-> 1, body |-> b2]
NewRating == [rating |-> 1]
NewBody == [body |-> b2]

\* Id 4 is a restaurant that a request may create.
MCAsked ==
    {Ask("createRestaurant", u1, 4, NewName), Ask("updateRestaurant", u1, 2, NewName),
     Ask("updateRestaurant", u2, 1, NewName), Ask("deleteRestaurant", u1, 1, Nothing),
     Ask("deleteRestaurant", u1, 2, Nothing), Ask("deleteRestaurant", u1, 3, Nothing),
     Ask("deleteRestaurant", u1, 4, Nothing), Ask("listComments", u1, 1, Nothing),
     Ask("createComment", u1, 2, NewComment), Ask("updateComment", u2, 1, NewRating),
     Ask("updateComment", u2, 1, NewBody), Ask("updateComment", u2, 1, Nothing),
     Ask("updateComment", u1, 1, NewBody), Ask("deleteComment", u2, 1, Nothing),
     Ask("createFavourite", u1, 2, Nothing), Ask("deleteFavourite", u1, 2, Nothing),
     Ask("deleteFavourite", u2, 3, Nothing), Ask("listFavourites", u2, 3, Nothing),
     Ask("viewRestaurant", u1, 1, Nothing), Ask("viewRestaurant", u1, 2, Nothing),
     Ask("listRestaurants", u2, 1, Nothing)}

Symmetry == Permutations(Requests)
============================================================================
