------------------------------ MODULE ReseedProofs ------------------------------
(***************************************************************************)
(* Theorems about the seed beside running requests, for any number of      *)
(* requests and clients, any dataset, and any rows there were before.      *)
(***************************************************************************)
EXTENDS Reseed, FiniteSetTheorems, TLAPS

\* When the seed comes to a table, among the deletions and among the restarts.
Turn == [favourite |-> 1, comment |-> 2, reservation |-> 3, restaurant |-> 4, user |-> 5]

\* How much of the dataset is written after so many statements.
UserCount ==
    IF step <= Users THEN 0
    ELSE IF step <= Restaurants THEN step - Users ELSE Cardinality(SeedUsers)
RestaurantCount == IF step <= Restaurants THEN 0 ELSE (step - Restaurants + 1) \div 2
CommentedCount == IF step <= Restaurants THEN 0 ELSE (step - Restaurants) \div 2

FreshUsers == {fresh.user[i] : i \in DOMAIN fresh.user}
FreshCommentsOf(r) == {c \in DOMAIN fresh.comment : fresh.comment[c].restaurantId = r}

UsersWritten ==
    /\ FreshUsers \subseteq SeedUsers
    /\ \A i, j \in DOMAIN fresh.user : fresh.user[i] = fresh.user[j] => i = j
    /\ Cardinality(FreshUsers) = UserCount
    /\ "user" \in DOMAIN restarted => restarted.user = UserCount

RestaurantsWritten ==
    /\ \A r \in DOMAIN fresh.restaurant : fresh.restaurant[r] = [ownerId |-> OwnerId]
    /\ "restaurant" \in DOMAIN restarted => restarted.restaurant = RestaurantCount

CommentsWritten ==
    /\ \A c \in DOMAIN fresh.comment :
           \E r \in 1..CommentedCount :
               fresh.comment[c] = [userId |-> OwnerId, restaurantId |-> r]
    /\ \A r \in 1..CommentedCount : Cardinality(FreshCommentsOf(r)) = SeedComments[r]

\* What the open transaction has done, as far as it depends on nobody else.
SeedInv ==
    /\ seed \in {"idle", "running"} \cup Ends
    /\ step \in 0..End
    /\ seed # "running" => step = 0 /\ fresh = NoneFresh /\ restarted = NoRows
    /\ fresh = [t \in Tables |-> fresh[t]]
    /\ restarted \in [DOMAIN restarted -> Nat] /\ DOMAIN restarted \subseteq Tables
    /\ \A t \in Tables : t \in DOMAIN restarted <=> step >= Restarts + Turn[t]
    /\ \A t \in Tables :
           DOMAIN fresh[t] = IF t \in DOMAIN restarted THEN 1..restarted[t] ELSE {}
    /\ \A t \in Tables :
           step <= Users \/ t \in {"favourite", "reservation"} => DOMAIN fresh[t] = {}
    /\ UsersWritten /\ RestaurantsWritten /\ CommentsWritten

-------------------------------------------------------------------------------
(* The statements of the seed.                                             *)

\* The two orders are one, and every table has its turn in it.
LEMMA Orders ==
    /\ Restarts = 5 /\ Users = 10
    /\ \A t \in Tables : Turn[t] \in 1..5
    /\ \A t, u \in Tables : Turn[t] = Turn[u] => t = u
    /\ \A k \in 0..4 :
           /\ DeleteOrder[k + 1] \in Tables /\ Turn[DeleteOrder[k + 1]] = k + 1
           /\ RestartOrder[k + 1] = DeleteOrder[k + 1]
<1>1. Restarts = 5 /\ Users = 10
  BY DEF Restarts, Users, DeleteOrder, RestartOrder
<1>2. \A t \in Tables : Turn[t] \in 1..5
  BY DEF Tables, Turn
<1>3. \A t, u \in Tables : Turn[t] = Turn[u] => t = u
  BY DEF Tables, Turn
<1>4. ASSUME NEW k \in 0..4
      PROVE  /\ DeleteOrder[k + 1] \in Tables /\ Turn[DeleteOrder[k + 1]] = k + 1
             /\ RestartOrder[k + 1] = DeleteOrder[k + 1]
  <2>1. k = 0 \/ k = 1 \/ k = 2 \/ k = 3 \/ k = 4
    OBVIOUS
  <2> QED BY <2>1 DEF DeleteOrder, RestartOrder, Tables, Turn
<1> QED BY <1>1, <1>2, <1>3, <1>4

\* How many statements there are.
LEMMA Counts ==
    /\ Cardinality(SeedUsers) \in Nat /\ Len(SeedComments) \in Nat
    /\ Restaurants = 10 + Cardinality(SeedUsers)
    /\ End = Restaurants + 2 * Len(SeedComments)
    /\ \A r \in 1..Len(SeedComments) : SeedComments[r] \in Nat
<1>1. Cardinality(SeedUsers) \in Nat
  BY SeedAssumption, FS_CardinalityType DEF SeedAssumption
<1>2. Len(SeedComments) \in Nat /\ \A r \in 1..Len(SeedComments) : SeedComments[r] \in Nat
  BY SeedAssumption DEF SeedAssumption
<1> QED BY <1>1, <1>2, Orders DEF Restaurants, End

\* Between transactions there is nothing of the dataset.
NoneOpen ==
    /\ seed \in {"idle"} \cup Ends /\ step = 0
    /\ fresh = NoneFresh /\ restarted = NoRows

\* Without an open transaction there is nothing to keep.
LEMMA NoneOpenIsFine == NoneOpen => SeedInv
<1> SUFFICES ASSUME NoneOpen PROVE SeedInv
  OBVIOUS
<1>1. /\ seed \in {"idle"} \cup Ends /\ step = 0 /\ DOMAIN restarted = {}
      /\ fresh = [t \in Tables |-> NoRows] /\ \A t \in Tables : fresh[t] = NoRows
      /\ restarted = NoRows
  BY DEF NoneOpen, NoneFresh, NoRows
<1>2. DOMAIN NoRows = {} /\ NoRows \in [{} -> Nat]
  BY DEF NoRows
<1>3. 0 \in 0..End /\ step <= Users /\ step <= Restaurants
  BY <1>1, Counts, Orders
<1>4. \A t \in Tables : ~(step >= Restarts + Turn[t])
  BY <1>1, Orders
<1>5. /\ FreshUsers = {} /\ UserCount = 0
      /\ DOMAIN fresh.user = {} /\ DOMAIN fresh.restaurant = {} /\ DOMAIN fresh.comment = {}
  BY <1>1, <1>2, <1>3 DEF FreshUsers, UserCount, Tables
<1>6. UsersWritten
  BY <1>1, <1>5, FS_EmptySet DEF UsersWritten
<1>7. RestaurantsWritten
  BY <1>1, <1>5 DEF RestaurantsWritten
<1>8. CommentedCount = 0
  BY <1>3 DEF CommentedCount
<1>9. CommentsWritten
  BY <1>5, <1>8 DEF CommentsWritten
<1>10. \A t \in Tables : DOMAIN fresh[t] = {}
  BY <1>1, <1>2
<1>11. \A t \in Tables :
           DOMAIN fresh[t] = IF t \in DOMAIN restarted THEN 1..restarted[t] ELSE {}
  BY <1>1, <1>2
<1>12. \A t \in Tables : t \in DOMAIN restarted <=> step >= Restarts + Turn[t]
  BY <1>1, <1>2, <1>4
<1> QED
  BY <1>1, <1>2, <1>3, <1>6, <1>7, <1>9, <1>10, <1>11, <1>12 DEF SeedInv, NoneFresh

\* The requests leave all of it alone.
LEMMA SeedInvKept == SeedInv /\ UNCHANGED <<seed, step, fresh, restarted>> => SeedInv'
<1> SUFFICES ASSUME SeedInv, UNCHANGED <<seed, step, fresh, restarted>> PROVE SeedInv'
  OBVIOUS
<1>1. OwnerId' = OwnerId
  BY DEF OwnerId
<1>2. /\ UserCount' = UserCount /\ FreshUsers' = FreshUsers
      /\ RestaurantCount' = RestaurantCount /\ CommentedCount' = CommentedCount
      /\ \A r : FreshCommentsOf(r)' = FreshCommentsOf(r)
  BY DEF UserCount, FreshUsers, RestaurantCount, CommentedCount, FreshCommentsOf
<1>3. UsersWritten'
  BY <1>2 DEF SeedInv, UsersWritten
<1>4. RestaurantsWritten'
  BY <1>1, <1>2 DEF SeedInv, RestaurantsWritten
<1>5. CommentsWritten'
  BY <1>1, <1>2 DEF SeedInv, CommentsWritten
<1> QED BY <1>3, <1>4, <1>5 DEF SeedInv

\* A statement that writes nothing of the dataset: there is nothing of it yet.
LEMMA SeedClears ==
    ASSUME SeedInv, UNCHANGED <<seed, fresh>>, seed = "running", step < Users, step' = step + 1,
           \/ step < Restarts /\ restarted' = restarted
           \/ /\ step >= Restarts
              /\ restarted' = Put(restarted, RestartOrder[step - Restarts + 1], 0)
    PROVE  SeedInv'
<1>1. /\ step \in 0..End /\ step' \in 0..End /\ step < 10 /\ step <= Users /\ step' <= Users
      /\ step <= Restaurants /\ step' <= Restaurants /\ Restarts = 5 /\ step' = step + 1
  BY Counts, Orders DEF SeedInv
<1>2. \A t \in Tables : DOMAIN fresh[t] = {} /\ DOMAIN fresh'[t] = {}
  BY <1>1 DEF SeedInv
<1>3. /\ UserCount' = 0 /\ RestaurantCount' = 0 /\ CommentedCount' = 0
      /\ FreshUsers' = {}
  BY <1>1, <1>2 DEF UserCount, RestaurantCount, CommentedCount, FreshUsers, Tables
<1>4. \A t \in DOMAIN restarted : restarted[t] = 0
  <2> SUFFICES ASSUME NEW t \in DOMAIN restarted PROVE restarted[t] = 0
    OBVIOUS
  <2>1. DOMAIN fresh[t] = 1..restarted[t] /\ restarted[t] \in Nat /\ t \in Tables
    BY DEF SeedInv
  <2> QED BY <1>2, <2>1
<1>5. /\ restarted' \in [DOMAIN restarted' -> Nat] /\ DOMAIN restarted' \subseteq Tables
      /\ \A t \in DOMAIN restarted' : restarted'[t] = 0
      /\ \A t \in Tables : t \in DOMAIN restarted' <=> step' >= Restarts + Turn[t]
  <2>1. /\ restarted \in [DOMAIN restarted -> Nat] /\ DOMAIN restarted \subseteq Tables
        /\ \A t \in Tables : t \in DOMAIN restarted <=> step >= Restarts + Turn[t]
    BY DEF SeedInv
  <2>2. CASE step < Restarts /\ restarted' = restarted
    BY <1>1, <1>4, <2>1, <2>2, Orders
  <2>3. CASE /\ step >= Restarts
             /\ restarted' = Put(restarted, RestartOrder[step - Restarts + 1], 0)
    <3>1. PICK u \in Tables : Turn[u] = step - Restarts + 1 /\ restarted' = Put(restarted, u, 0)
      BY <1>1, <2>3, Orders
    <3>2. /\ DOMAIN restarted' = DOMAIN restarted \cup {u}
          /\ \A t \in DOMAIN restarted' : restarted'[t] = 0
          /\ restarted' \in [DOMAIN restarted' -> Nat]
      BY <1>4, <2>1, <3>1 DEF Put
    <3> QED BY <1>1, <2>1, <3>1, <3>2, Orders
  <2> QED BY <2>2, <2>3
<1>6. UsersWritten'
  BY <1>2, <1>3, <1>5, FS_EmptySet DEF UsersWritten, Tables
<1>7. RestaurantsWritten'
  BY <1>2, <1>3, <1>5 DEF RestaurantsWritten, Tables
<1>8. CommentsWritten'
  BY <1>2, <1>3 DEF CommentsWritten, Tables
<1>9. \A t \in Tables :
          DOMAIN fresh'[t] = IF t \in DOMAIN restarted' THEN 1..restarted'[t] ELSE {}
  <2>1. 1..0 = {}
    OBVIOUS
  <2> QED BY <1>2, <1>5, <2>1
<1> QED BY <1>1, <1>2, <1>5, <1>6, <1>7, <1>8, <1>9 DEF SeedInv

\* What an insertion of the transaction does to the tables that it has restarted.
LEMMA FreshInserted ==
    ASSUME SeedInv, step >= Users, NEW t \in Tables, NEW n \in Nat, NEW row,
           InsertFresh(t, n, row)
    PROVE  /\ DOMAIN restarted = Tables /\ restarted \in [Tables -> Nat]
           /\ restarted' = [restarted EXCEPT ![t] = @ + n] /\ restarted' \in [Tables -> Nat]
           /\ fresh' = [u \in Tables |-> fresh'[u]]
           /\ \A u \in Tables : DOMAIN fresh'[u] = 1..restarted'[u]
           /\ \A u \in Tables \ {t} : fresh'[u] = fresh[u]
           /\ NextIds(t, n) = (restarted[t] + 1)..(restarted[t] + n)
           /\ DOMAIN fresh[t] = 1..restarted[t]
           /\ DOMAIN fresh'[t] = DOMAIN fresh[t] \cup NextIds(t, n)
           /\ \A i \in DOMAIN fresh[t] : fresh'[t][i] = fresh[t][i]
           /\ \A i \in NextIds(t, n) : fresh'[t][i] = row /\ i \notin DOMAIN fresh[t]
<1>1. \A u \in Tables : u \in DOMAIN restarted
  BY Orders DEF SeedInv
<1>2. /\ DOMAIN restarted = Tables /\ restarted \in [Tables -> Nat]
      /\ \A u \in Tables : DOMAIN fresh[u] = 1..restarted[u]
  BY <1>1 DEF SeedInv
<1>3. /\ restarted' = [restarted EXCEPT ![t] = @ + n]
      /\ fresh' = [fresh EXCEPT ![t] =
                     [i \in DOMAIN @ \cup NextIds(t, n) |-> IF i \in DOMAIN @ THEN @[i] ELSE row]]
  BY DEF InsertFresh
<1>4. fresh = [u \in Tables |-> fresh[u]]
  BY DEF SeedInv
<1>5. /\ fresh' = [u \in Tables |-> fresh'[u]]
      /\ \A u \in Tables \ {t} : fresh'[u] = fresh[u]
      /\ fresh'[t] = [i \in DOMAIN fresh[t] \cup NextIds(t, n) |->
                         IF i \in DOMAIN fresh[t] THEN fresh[t][i] ELSE row]
  BY <1>3, <1>4
<1>6. /\ NextIds(t, n) = (restarted[t] + 1)..(restarted[t] + n)
      /\ DOMAIN fresh[t] = 1..restarted[t] /\ restarted[t] \in Nat
      /\ \A i \in NextIds(t, n) : i \notin DOMAIN fresh[t]
  BY <1>2 DEF NextIds
<1>7. /\ DOMAIN fresh'[t] = DOMAIN fresh[t] \cup NextIds(t, n)
      /\ \A i \in DOMAIN fresh[t] : fresh'[t][i] = fresh[t][i]
      /\ \A i \in NextIds(t, n) : fresh'[t][i] = row
  BY <1>5, <1>6
<1>8. /\ restarted' \in [Tables -> Nat] /\ restarted'[t] = restarted[t] + n
      /\ \A u \in Tables \ {t} : restarted'[u] = restarted[u]
  BY <1>2, <1>3
<1>9. DOMAIN fresh'[t] = 1..restarted'[t]
  BY <1>6, <1>7, <1>8
<1> QED BY <1>2, <1>3, <1>5, <1>6, <1>7, <1>8, <1>9

\* The rest of the dataset is as it was.
LEMMA OthersWritten ==
    ASSUME SeedInv, seed = "running", seed' = seed, step' = step + 1,
           step >= Users, step < End, NEW t \in {"user", "restaurant", "comment"}, NEW n \in Nat, NEW row,
           InsertFresh(t, n, row), UsersWritten', RestaurantsWritten', CommentsWritten'
    PROVE  SeedInv'
<1>1. step \in 0..End /\ step' \in 0..End /\ Users = 10 /\ Restarts = 5
  BY Counts, Orders DEF SeedInv
<1>2. t \in Tables /\ \A u \in Tables : Turn[u] \in 1..5
  BY Orders DEF Tables
<1>3. /\ DOMAIN restarted' = Tables /\ restarted' \in [Tables -> Nat]
      /\ fresh' = [u \in Tables |-> fresh'[u]]
      /\ \A u \in Tables : DOMAIN fresh'[u] = 1..restarted'[u]
      /\ \A u \in Tables \ {t} : fresh'[u] = fresh[u]
  BY <1>2, FreshInserted
<1>4. \A u \in Tables : u \in DOMAIN restarted' <=> step' >= Restarts + Turn[u]
  BY <1>1, <1>2, <1>3
<1>5. \A u \in {"favourite", "reservation"} : DOMAIN fresh'[u] = {}
  BY <1>3 DEF SeedInv, Tables
<1>6. ~(step' <= Users)
  BY <1>1
<1> QED BY <1>1, <1>3, <1>4, <1>5, <1>6 DEF SeedInv

\* A user.create of the seed writes the next user of the dataset.
LEMMA SeedUserWritten ==
    ASSUME SeedInv, Running(Users, Restaurants), UNCHANGED seed, step' = step + 1,
           NEW a \in SeedUsers, \A i \in DOMAIN fresh.user : fresh.user[i] # a,
           InsertFresh("user", 1, a)
    PROVE  SeedInv'
<1>1. /\ seed = "running" /\ step \in 10..(Restaurants - 1) /\ Users = 10 /\ step < End
      /\ Restaurants = 10 + Cardinality(SeedUsers) /\ Cardinality(SeedUsers) \in Nat
  BY Counts, Orders DEF Running
<1>2. "user" \in Tables /\ step >= Users /\ 1 \in Nat
  BY <1>1 DEF Tables
<1>3. /\ UserCount = step - 10 /\ UserCount' = step + 1 - 10
      /\ RestaurantCount = 0 /\ RestaurantCount' = 0 /\ CommentedCount = 0 /\ CommentedCount' = 0
  BY <1>1 DEF UserCount, RestaurantCount, CommentedCount
<1>4. /\ DOMAIN restarted = Tables /\ restarted \in [Tables -> Nat]
      /\ restarted' = [restarted EXCEPT !["user"] = @ + 1]
      /\ \A u \in Tables : DOMAIN fresh'[u] = 1..restarted'[u]
      /\ \A u \in Tables \ {"user"} : fresh'[u] = fresh[u]
      /\ DOMAIN fresh["user"] = 1..restarted["user"]
      /\ NextIds("user", 1) = (restarted["user"] + 1)..(restarted["user"] + 1)
      /\ DOMAIN fresh'["user"] = DOMAIN fresh["user"] \cup NextIds("user", 1)
      /\ \A i \in DOMAIN fresh["user"] : fresh'["user"][i] = fresh["user"][i]
      /\ \A i \in NextIds("user", 1) : fresh'["user"][i] = a /\ i \notin DOMAIN fresh["user"]
  BY <1>2, FreshInserted
<1>5. NextIds("user", 1) = {restarted.user + 1} /\ restarted'["user"] = restarted.user + 1
  BY <1>2, <1>4
<1>6. FreshUsers' = FreshUsers \cup {a} /\ a \notin FreshUsers
  <2> DEFINE k == restarted.user + 1
  <2>1. /\ DOMAIN fresh'["user"] = DOMAIN fresh["user"] \cup {k}
        /\ \A i \in DOMAIN fresh["user"] : fresh'["user"][i] = fresh["user"][i]
        /\ fresh'["user"][k] = a /\ k \notin DOMAIN fresh["user"]
    BY <1>4, <1>5
  <2> HIDE DEF k
  <2>2. \A x \in FreshUsers' : x \in FreshUsers \cup {a}
    BY <2>1 DEF FreshUsers
  <2>3. \A x \in FreshUsers \cup {a} : x \in FreshUsers'
    BY <2>1 DEF FreshUsers
  <2>4. a \notin FreshUsers
    BY DEF FreshUsers
  <2> QED BY <2>2, <2>3, <2>4
<1>7. FreshUsers \subseteq SeedUsers /\ IsFiniteSet(FreshUsers)
      /\ Cardinality(FreshUsers) = step - 10 /\ restarted.user = step - 10
  BY <1>2, <1>3, <1>4, SeedAssumption, FS_Subset DEF SeedInv, UsersWritten, SeedAssumption
<1>8. Cardinality(FreshUsers') = step + 1 - 10
  <2>1. Cardinality(FreshUsers \cup {a}) = Cardinality(FreshUsers) + 1
    BY <1>6, <1>7, FS_AddElement
  <2> QED BY <1>1, <1>6, <1>7, <2>1
<1>9. \A i, j \in DOMAIN fresh'["user"] : fresh'["user"][i] = fresh'["user"][j] => i = j
  <2> DEFINE k == restarted.user + 1
  <2>1. /\ DOMAIN fresh'["user"] = DOMAIN fresh["user"] \cup {k}
        /\ \A i \in DOMAIN fresh["user"] : fresh'["user"][i] = fresh["user"][i]
        /\ fresh'["user"][k] = a
        /\ \A i \in DOMAIN fresh["user"] : fresh["user"][i] # a
    BY <1>4, <1>5
  <2>2. \A i, j \in DOMAIN fresh["user"] : fresh["user"][i] = fresh["user"][j] => i = j
    BY DEF SeedInv, UsersWritten
  <2> HIDE DEF k
  <2> QED BY <2>1, <2>2
<1>10. UsersWritten'
  BY <1>1, <1>3, <1>5, <1>6, <1>7, <1>8, <1>9 DEF UsersWritten
<1>11. DOMAIN fresh'.restaurant = {} /\ DOMAIN fresh'.comment = {} /\ restarted'["restaurant"] = 0
  <2>1. /\ fresh'["restaurant"] = fresh["restaurant"] /\ fresh'["comment"] = fresh["comment"]
        /\ restarted'["restaurant"] = restarted["restaurant"] /\ restarted["restaurant"] = 0
        /\ DOMAIN fresh'["restaurant"] = 1..0
    BY <1>3, <1>4 DEF SeedInv, RestaurantsWritten, Tables
  <2>2. DOMAIN fresh["comment"] = {}
    <3>1. 1..CommentedCount = {}
      BY <1>3
    <3> QED BY <3>1 DEF SeedInv, CommentsWritten
  <2> QED BY <2>1, <2>2
<1>12. RestaurantsWritten' /\ CommentsWritten'
  BY <1>3, <1>11 DEF RestaurantsWritten, CommentsWritten
<1> QED BY <1>1, <1>2, <1>10, <1>12, OthersWritten

\* When the users are written, the owner is one of them.
LEMMA OwnerIsThere ==
    ASSUME SeedInv, step >= Restaurants
    PROVE  /\ FreshUsers = SeedUsers /\ restarted.user = Cardinality(SeedUsers)
           /\ DOMAIN fresh.user = 1..Cardinality(SeedUsers)
           /\ OwnerId \in DOMAIN fresh.user /\ OwnerId \in Ids
           /\ fresh.user[OwnerId].username = OwnerName
<1>1. /\ step \in Nat /\ Restaurants = 10 + Cardinality(SeedUsers) /\ Cardinality(SeedUsers) \in Nat
      /\ Users = 10 /\ Restarts = 5 /\ Turn["user"] \in 1..5 /\ "user" \in Tables
  BY Counts, Orders DEF SeedInv, Tables
<1>2. UserCount = Cardinality(SeedUsers)
  BY <1>1 DEF UserCount
<1>3. FreshUsers = SeedUsers
  BY <1>2, SeedAssumption, FS_Subset DEF SeedInv, UsersWritten, SeedAssumption
<1>4. "user" \in DOMAIN restarted
  BY <1>1 DEF SeedInv
<1>5. restarted.user = Cardinality(SeedUsers) /\ DOMAIN fresh.user = 1..Cardinality(SeedUsers)
  BY <1>1, <1>2, <1>4 DEF SeedInv, UsersWritten
<1>6. \E i \in DOMAIN fresh.user : fresh.user[i].username = OwnerName
  BY <1>3, SeedAssumption DEF SeedAssumption, FreshUsers
<1>7. OwnerId \in DOMAIN fresh.user /\ fresh.user[OwnerId].username = OwnerName
  BY <1>6, Zenon DEF OwnerId
<1> QED BY <1>3, <1>5, <1>7 DEF Ids

\* The arithmetic of two statements for each restaurant.
LEMMA Halves ==
    ASSUME NEW k \in Nat
    PROVE  /\ (k + 1) - 1 = k /\ k \div 2 \in Nat /\ 1 \div 2 = 0 /\ 0 \div 2 = 0
           /\ (k + 2) \div 2 = k \div 2 + 1
           /\ k % 2 = 0 => (k + 1) \div 2 = k \div 2
           /\ k % 2 = 1 => (k + 1) \div 2 = k \div 2 + 1 /\ k # 0
           /\ \A l \in Nat : k < 2 * l => k \div 2 + 1 \in 1..l
OBVIOUS

\* The distance of a statement from the first one of its phase.
LEMMA Offsets ==
    ASSUME NEW r \in Nat, NEW s \in Nat, s >= r
    PROVE  \E k \in Nat :
               /\ s - r = k /\ s - r + 1 = k + 1 /\ (s + 1) - r = k + 1
               /\ (s + 1) - r + 1 = k + 2 /\ (s <= r <=> k = 0) /\ ~(s + 1 <= r)
<1>1. s - r \in Nat
  OBVIOUS
<1> WITNESS s - r \in Nat
<1> QED OBVIOUS

\* How the counts move while the restaurants and their comments are written.
LEMMA CountsMove ==
    ASSUME SeedInv, Running(Restaurants, End), step' = step + 1
    PROVE  /\ step \in Nat /\ step >= Users /\ step >= Restaurants /\ step < End
           /\ seed = "running"
           /\ UserCount' = UserCount /\ CommentedCount \in Nat
           /\ (step - Restaurants) % 2 = 0 =>
                  /\ RestaurantCount' = RestaurantCount + 1
                  /\ CommentedCount' = CommentedCount
           /\ (step - Restaurants) % 2 = 1 =>
                  /\ RestaurantCount = CommentedCount + 1 /\ RestaurantCount' = RestaurantCount
                  /\ (step - Restaurants + 1) \div 2 = CommentedCount + 1
                  /\ CommentedCount' = CommentedCount + 1
                  /\ CommentedCount + 1 \in 1..Len(SeedComments)
<1>1. Restaurants \in Nat /\ Restaurants >= Users /\ Users \in Nat
  BY Counts, Orders
<1>2. End = Restaurants + 2 * Len(SeedComments) /\ Len(SeedComments) \in Nat
  BY Counts
<1>3. step \in Nat /\ seed = "running" /\ step >= Restaurants /\ step < End
  BY <1>1, <1>2 DEF Running, SeedInv
<1>4. PICK k \in Nat :
          /\ step - Restaurants = k /\ step - Restaurants + 1 = k + 1
          /\ step' - Restaurants = k + 1 /\ step' - Restaurants + 1 = k + 2
          /\ step <= Restaurants <=> k = 0
          /\ ~(step' <= Restaurants)
  <2>1. Restaurants \in Nat /\ step \in Nat /\ step >= Restaurants
    BY <1>1, <1>3
  <2> QED BY <2>1, Offsets
<1>5. k < 2 * Len(SeedComments)
  BY <1>1, <1>2, <1>3, <1>4
<1>6. RestaurantCount = IF k = 0 THEN 0 ELSE (k + 1) \div 2
  BY <1>4 DEF RestaurantCount
<1>7. CommentedCount = IF k = 0 THEN 0 ELSE k \div 2
  BY <1>4 DEF CommentedCount
<1>8. RestaurantCount' = (k + 2) \div 2
  BY <1>4 DEF RestaurantCount
<1>9. CommentedCount' = (k + 1) \div 2
  BY <1>4 DEF CommentedCount
<1>10. UserCount' = UserCount
  <2>1. ~(step <= Users) \/ step = Users
    BY <1>1, <1>3
  <2>2. ~(step' <= Users) /\ step \in Nat /\ step' = step + 1
    BY <1>1, <1>3
  <2>3. step <= Restaurants => step = Restaurants
    BY <1>1, <1>3
  <2>4. Restaurants = Users + Cardinality(SeedUsers) /\ Cardinality(SeedUsers) \in Nat
    BY Counts, Orders
  <2>5. step <= Restaurants => UserCount = Cardinality(SeedUsers)
    BY <1>1, <2>1, <2>3, <2>4 DEF UserCount
  <2>6. UserCount = Cardinality(SeedUsers)
    BY <1>1, <1>3, <2>5 DEF UserCount
  <2>7. UserCount' = Cardinality(SeedUsers)
    BY <1>4, <2>2 DEF UserCount
  <2> QED BY <2>6, <2>7
<1>11. CommentedCount = k \div 2
  BY <1>7, Halves
<1>12. k % 2 = 0 => RestaurantCount = k \div 2
  BY <1>6, Halves
<1>13. k % 2 = 1 => RestaurantCount = k \div 2 + 1
  BY <1>6, Halves
<1>14. k \div 2 \in Nat /\ k \div 2 + 1 \in 1..Len(SeedComments)
  BY <1>2, <1>5, Halves
<1>15. k % 2 = 0 => /\ RestaurantCount' = RestaurantCount + 1
                    /\ CommentedCount' = CommentedCount
  BY <1>8, <1>9, <1>11, <1>12, Halves
<1>16. k % 2 = 1 => /\ RestaurantCount = CommentedCount + 1 /\ RestaurantCount' = RestaurantCount
                    /\ (k + 1) \div 2 = CommentedCount + 1
                    /\ CommentedCount' = CommentedCount + 1
  BY <1>8, <1>9, <1>11, <1>13, Halves
<1>17. step >= Users
  BY <1>1, <1>3
<1>18. CommentedCount \in Nat /\ CommentedCount + 1 \in 1..Len(SeedComments)
  BY <1>11, <1>14
<1> HIDE DEF RestaurantCount, CommentedCount, UserCount
<1>19. (step - Restaurants) % 2 = k % 2 /\ (step - Restaurants + 1) \div 2 = (k + 1) \div 2
  BY <1>4
<1> QED BY <1>3, <1>10, <1>15, <1>16, <1>17, <1>18, <1>19

\* What the seed writes of a restaurant, and of its comments.
LEMMA SeedRestaurantOf ==
    ASSUME SeedInv, seed = "running", UNCHANGED seed, step' = step + 1,
           step >= Users, step < End,
           UserCount' = UserCount, RestaurantCount' = RestaurantCount + 1,
           CommentedCount' = CommentedCount,
           InsertFresh("restaurant", 1, [ownerId |-> OwnerId])
    PROVE  SeedInv'
<1> DEFINE row == [ownerId |-> OwnerId]
<1>1. /\ UserCount' = UserCount
      /\ RestaurantCount' = RestaurantCount + 1 /\ CommentedCount' = CommentedCount
  OBVIOUS
<1>2. "restaurant" \in Tables /\ "user" \in Tables /\ "comment" \in Tables /\ 1 \in Nat
  BY DEF Tables
<1>4. InsertFresh("restaurant", 1, row)
  OBVIOUS
<1> HIDE DEF row
<1>5. /\ DOMAIN restarted = Tables /\ restarted \in [Tables -> Nat]
      /\ restarted' = [restarted EXCEPT !["restaurant"] = @ + 1]
      /\ \A u \in Tables \ {"restaurant"} : fresh'[u] = fresh[u]
      /\ NextIds("restaurant", 1) = (restarted["restaurant"] + 1)..(restarted["restaurant"] + 1)
      /\ DOMAIN fresh'["restaurant"] = DOMAIN fresh["restaurant"] \cup NextIds("restaurant", 1)
      /\ \A i \in DOMAIN fresh["restaurant"] : fresh'["restaurant"][i] = fresh["restaurant"][i]
      /\ \A i \in NextIds("restaurant", 1) : fresh'["restaurant"][i] = row
  BY <1>2, <1>4, FreshInserted
<1>6. fresh'["user"] = fresh["user"] /\ fresh'["comment"] = fresh["comment"]
      /\ restarted'["user"] = restarted["user"]
      /\ restarted'["restaurant"] = restarted["restaurant"] + 1
      /\ DOMAIN restarted' = Tables
  BY <1>2, <1>5
<1>7. OwnerId' = OwnerId /\ FreshUsers' = FreshUsers
      /\ \A r : FreshCommentsOf(r)' = FreshCommentsOf(r)
  BY <1>6 DEF OwnerId, FreshUsers, FreshCommentsOf
<1>8. UsersWritten'
  BY <1>1, <1>2, <1>5, <1>6, <1>7 DEF SeedInv, UsersWritten
<1>9. CommentsWritten'
  <2>1. CommentsWritten
    BY DEF SeedInv
  <2> QED BY <1>1, <1>6, <1>7, <2>1 DEF CommentsWritten
<1>10. \A r \in DOMAIN fresh'["restaurant"] : fresh'["restaurant"][r] = [ownerId |-> OwnerId]
  BY <1>5 DEF SeedInv, RestaurantsWritten, row
<1>11. restarted["restaurant"] = RestaurantCount
  BY <1>2, <1>5 DEF SeedInv, RestaurantsWritten
<1>12. RestaurantsWritten'
  BY <1>1, <1>6, <1>7, <1>10, <1>11 DEF RestaurantsWritten
<1> QED BY <1>1, <1>2, <1>4, <1>8, <1>9, <1>12, OthersWritten

\* A restaurant.create of the seed.
LEMMA SeedRestaurantWritten ==
    ASSUME SeedInv, Running(Restaurants, End), UNCHANGED seed, step' = step + 1,
           (step - Restaurants) % 2 = 0, InsertFresh("restaurant", 1, [ownerId |-> OwnerId])
    PROVE  SeedInv'
BY CountsMove, SeedRestaurantOf

\* The comments of one restaurant, in terms of the counts.
LEMMA SeedCommentsOf ==
    ASSUME SeedInv, seed = "running", UNCHANGED seed, step' = step + 1,
           step >= Users, step < End,
           UserCount' = UserCount, RestaurantCount' = RestaurantCount,
           NEW k \in Nat, k = CommentedCount, CommentedCount' = k + 1, k + 1 = RestaurantCount,
           NEW n \in Nat, n = SeedComments[k + 1],
           InsertFresh("comment", n, [userId |-> OwnerId, restaurantId |-> k + 1])
    PROVE  SeedInv'
<1> DEFINE row == [userId |-> OwnerId, restaurantId |-> k + 1]
<1>1. "restaurant" \in Tables /\ "user" \in Tables /\ "comment" \in Tables
  BY DEF Tables
<1>2. InsertFresh("comment", n, row)
  OBVIOUS
<1>3. row.restaurantId = k + 1
  OBVIOUS
<1> HIDE DEF row
<1>4. /\ DOMAIN restarted = Tables /\ restarted \in [Tables -> Nat]
      /\ restarted' = [restarted EXCEPT !["comment"] = @ + n]
      /\ \A u \in Tables \ {"comment"} : fresh'[u] = fresh[u]
      /\ NextIds("comment", n) = (restarted["comment"] + 1)..(restarted["comment"] + n)
      /\ DOMAIN fresh'["comment"] = DOMAIN fresh["comment"] \cup NextIds("comment", n)
      /\ \A i \in DOMAIN fresh["comment"] : fresh'["comment"][i] = fresh["comment"][i]
      /\ \A i \in NextIds("comment", n) :
             fresh'["comment"][i] = row /\ i \notin DOMAIN fresh["comment"]
  BY <1>1, <1>2, FreshInserted
<1>5. fresh'["user"] = fresh["user"] /\ fresh'["restaurant"] = fresh["restaurant"]
      /\ restarted'["user"] = restarted["user"]
      /\ restarted'["restaurant"] = restarted["restaurant"]
      /\ DOMAIN restarted' = DOMAIN restarted
  BY <1>1, <1>4
<1>6. OwnerId' = OwnerId /\ FreshUsers' = FreshUsers
  BY <1>5 DEF OwnerId, FreshUsers
<1>7. UsersWritten'
  BY <1>5, <1>6 DEF SeedInv, UsersWritten
<1>8. RestaurantsWritten'
  BY <1>5, <1>6 DEF SeedInv, RestaurantsWritten
<1>9. \A c \in DOMAIN fresh["comment"] :
           \E s \in 1..k : fresh["comment"][c] = [userId |-> OwnerId, restaurantId |-> s]
  BY DEF SeedInv, CommentsWritten
<1>10. \A c \in DOMAIN fresh["comment"] : fresh["comment"][c].restaurantId \in 1..k
  <2> SUFFICES ASSUME NEW c \in DOMAIN fresh["comment"]
               PROVE  fresh["comment"][c].restaurantId \in 1..k
    OBVIOUS
  <2>1. PICK s \in 1..k : fresh["comment"][c] = [userId |-> OwnerId, restaurantId |-> s]
    BY <1>9
  <2> QED BY <2>1
<1>11. k + 1 \notin 1..k /\ 1..k \subseteq 1..(k + 1) /\ k + 1 \in 1..(k + 1)
       /\ \A s \in 1..(k + 1) : s = k + 1 \/ s \in 1..k
  OBVIOUS
<1>12. \A c \in DOMAIN fresh'["comment"] :
           \E s \in 1..(k + 1) :
               fresh'["comment"][c] = [userId |-> OwnerId', restaurantId |-> s]
  <2> SUFFICES ASSUME NEW c \in DOMAIN fresh'["comment"]
               PROVE  \E s \in 1..(k + 1) :
                          fresh'["comment"][c] = [userId |-> OwnerId', restaurantId |-> s]
    OBVIOUS
  <2>1. CASE c \in DOMAIN fresh["comment"]
    BY <1>4, <1>6, <1>9, <1>11, <2>1
  <2>2. CASE c \in NextIds("comment", n)
    BY <1>4, <1>6, <1>11, <2>2 DEF row
  <2> QED BY <1>4, <2>1, <2>2
<1>13. FreshCommentsOf(k + 1)' = NextIds("comment", n)
  <2>1. \A c \in DOMAIN fresh["comment"] : fresh'["comment"][c].restaurantId # k + 1
    BY <1>4, <1>10, <1>11
  <2>2. \A c \in NextIds("comment", n) : fresh'["comment"][c].restaurantId = k + 1
    BY <1>3, <1>4
  <2> QED BY <1>4, <2>1, <2>2 DEF FreshCommentsOf
<1>14. \A s \in 1..k : FreshCommentsOf(s)' = FreshCommentsOf(s)
  <2> SUFFICES ASSUME NEW s \in 1..k PROVE FreshCommentsOf(s)' = FreshCommentsOf(s)
    OBVIOUS
  <2>1. \A c \in NextIds("comment", n) : fresh'["comment"][c].restaurantId # s
    BY <1>3, <1>4, <1>11
  <2> QED BY <1>4, <2>1 DEF FreshCommentsOf
<1>15. Cardinality(NextIds("comment", n)) = n
  <2>1. restarted["comment"] \in Nat
    BY <1>1, <1>4
  <2> DEFINE a == restarted["comment"] + 1
             b == restarted["comment"] + n
  <2>2. a \in Int /\ b \in Int /\ b - a + 1 = n /\ (a > b => n = 0)
    BY <2>1
  <2>3. NextIds("comment", n) = a..b
    BY <1>4
  <2> HIDE DEF a, b
  <2> QED BY <2>2, <2>3, FS_Interval
<1>16. \A s \in 1..(k + 1) : Cardinality(FreshCommentsOf(s)') = SeedComments[s]
  <2> SUFFICES ASSUME NEW s \in 1..(k + 1) PROVE Cardinality(FreshCommentsOf(s)') = SeedComments[s]
    OBVIOUS
  <2>1. CASE s = k + 1
    BY <1>13, <1>15, <2>1
  <2>2. CASE s \in 1..k
    BY <1>14, <2>2 DEF SeedInv, CommentsWritten
  <2> QED BY <1>11, <2>1, <2>2
<1>17. CommentsWritten'
  BY <1>12, <1>16 DEF CommentsWritten
<1> QED BY <1>2, <1>7, <1>8, <1>17, OthersWritten

\* A comment.createMany of the seed: the statement after its restaurant's.
LEMMA SeedCommentsWritten ==
    ASSUME SeedInv, Running(Restaurants, End), UNCHANGED seed, step' = step + 1,
           (step - Restaurants) % 2 = 1,
           InsertFresh("comment", SeedComments[(step - Restaurants + 1) \div 2],
                       [userId |-> OwnerId, restaurantId |-> restarted.restaurant])
    PROVE  SeedInv'
<1> DEFINE k == CommentedCount
           n == SeedComments[k + 1]
<1>1. /\ step \in Nat /\ step >= Users /\ step >= Restaurants /\ step < End /\ seed = "running"
      /\ UserCount' = UserCount /\ k \in Nat
      /\ RestaurantCount = k + 1 /\ RestaurantCount' = RestaurantCount
      /\ (step - Restaurants + 1) \div 2 = k + 1 /\ CommentedCount' = k + 1
      /\ k + 1 \in 1..Len(SeedComments)
  BY CountsMove
<1>2. n \in Nat
  BY <1>1, Counts
<1>3. restarted.restaurant = k + 1
  <2>1. "restaurant" \in Tables /\ step >= Restarts + Turn["restaurant"]
    BY <1>1, Orders DEF Tables
  <2> QED BY <1>1, <2>1 DEF SeedInv, RestaurantsWritten
<1>4. InsertFresh("comment", n, [userId |-> OwnerId, restaurantId |-> k + 1])
  BY <1>1, <1>3
<1>5. k = CommentedCount /\ n = SeedComments[k + 1]
  OBVIOUS
<1> HIDE DEF k, n
<1> QED BY <1>1, <1>2, <1>4, <1>5, SeedCommentsOf

-------------------------------------------------------------------------------
(* The handlers: what a request is and holds where it waits.               *)

Places == {"idle", "hash", "lookUp", "compare", "guard", "handler", "draw", "insert",
           "delete", "blocked", "done"}
Creates == {"createRestaurant", "createComment", "createFavourite"}
Known == [id : Ids]
Candidate == [id : Ids, passwordHash : Passwords]

Fits(p) ==
    /\ pc[p] # "idle" => req[p] \in Request
    /\ pc[p] = "hash" => req[p].op = "register"
    /\ pc[p] \in {"lookUp", "compare"} => req[p].op = "login"
    /\ pc[p] = "compare" => user[p] \in Candidate
    /\ pc[p] = "guard" => req[p].op \in Guarded \cup {"view"} /\ claim[p] \in Token
    /\ pc[p] = "handler" => \/ req[p].op = "view"
                            \/ req[p].op \in Guarded /\ user[p] \in Known
    /\ pc[p] \in {"draw", "insert"} => \/ req[p].op = "register"
                                       \/ req[p].op \in Creates /\ user[p] \in Known
    /\ pc[p] = "insert" => drawn[p] \in Ids
    /\ pc[p] \in {"delete", "blocked"} => req[p].op = "deleteComment" /\ user[p] \in Known

HandlersInv == HandlersTypeOK /\ \A p \in Requests : Fits(p)

\* The step of a request leaves what the others hold.
Alone(p) ==
    \A q \in Requests \ {p} :
        /\ pc'[q] = pc[q] /\ req'[q] = req[q] /\ claim'[q] = claim[q]
        /\ user'[q] = user[q] /\ drawn'[q] = drawn[q] /\ answer'[q] = answer[q]

\* The fields that a request has by its operation.
LEMMA RequestFields ==
    ASSUME NEW r \in Request
    PROVE  /\ r.op \in {"register", "login", "view"} \cup Guarded /\ r.client \in Clients
           /\ r.op = "register" => r.account \in Accounts
           /\ r.op = "login" => r.username \in Usernames /\ r.password \in Passwords
           /\ r.op \notin {"register", "login"} => r.id \in Ids
BY DEF Request, Guarded

\* The answers that handlers give are answers.
LEMMA SaysAnswers ==
    /\ \A s \in {"pending", "created", "ok", "deleted", "unauthorized", "forbidden",
                 "notFound", "conflict", "error"} : Says(s) \in Answers
    /\ \A name \in Usernames : [status |-> "ok", username |-> name] \in Answers
    /\ \A b \in BOOLEAN : [status |-> "ok", canEdit |-> b] \in Answers
BY DEF Says, Answers

\* A handler that goes to its next await.
LEMMA GotoTypes ==
    ASSUME HandlersTypeOK, NEW p \in Requests, NEW l \in Places, Goto(p, l)
    PROVE  /\ pc' \in [Requests -> Places] /\ pc'[p] = l
           /\ \A q \in Requests \ {p} : pc'[q] = pc[q]
           /\ req' = req /\ claim' = claim /\ answer' = answer
BY DEF HandlersTypeOK, Goto, Places

\* A handler that answers.
LEMMA AnswerTypes ==
    ASSUME HandlersTypeOK, NEW p \in Requests, NEW a \in Answers, Answer(p, a)
    PROVE  /\ pc' \in [Requests -> Places] /\ pc'[p] = "done"
           /\ \A q \in Requests \ {p} : pc'[q] = pc[q] /\ answer'[q] = answer[q]
           /\ answer' \in [Requests -> Answers] /\ answer'[p] = a
           /\ req' = req /\ claim' = claim
BY DEF HandlersTypeOK, Answer, Places

\* A step of one handler leaves the others what they are.
LEMMA OthersFit ==
    ASSUME HandlersInv, NEW p \in Requests, Alone(p), HandlersTypeOK', Fits(p)'
    PROVE  HandlersInv'
<1> SUFFICES ASSUME NEW q \in Requests \ {p} PROVE Fits(q)'
  BY DEF HandlersInv
<1>1. Fits(q)
  BY DEF HandlersInv
<1>2. /\ pc'[q] = pc[q] /\ req'[q] = req[q] /\ claim'[q] = claim[q]
      /\ user'[q] = user[q] /\ drawn'[q] = drawn[q]
  BY DEF Alone
<1> QED BY <1>1, <1>2 DEF Fits

\* A handler answers, and is done with all it held.
LEMMA Answering ==
    ASSUME HandlersInv, NEW p \in Requests, pc[p] # "idle", NEW a \in Answers, Answer(p, a), Keep
    PROVE  HandlersInv' /\ Alone(p) /\ pc'[p] = "done" /\ answer'[p] = a /\ req' = req
<1>1. HandlersTypeOK /\ Fits(p)
  BY DEF HandlersInv
<1>2. /\ pc' \in [Requests -> Places] /\ pc'[p] = "done"
      /\ \A q \in Requests \ {p} : pc'[q] = pc[q] /\ answer'[q] = answer[q]
      /\ answer' \in [Requests -> Answers] /\ answer'[p] = a
      /\ req' = req /\ claim' = claim
  BY <1>1, AnswerTypes
<1>3. UNCHANGED <<jar, user, drawn>>
  BY DEF Keep
<1>4. HandlersTypeOK' /\ Alone(p)
  BY <1>1, <1>2, <1>3 DEF HandlersTypeOK, Alone, Places
<1>5. Fits(p)'
  BY <1>1, <1>2 DEF Fits
<1> QED BY <1>2, <1>4, <1>5, OthersFit

\* A handler goes on with what it holds.
LEMMA Going ==
    ASSUME HandlersInv, NEW p \in Requests, pc[p] # "idle", NEW l \in Places, Goto(p, l), Keep,
           l = "draw" => \/ req[p].op = "register"
                         \/ req[p].op \in Creates /\ user[p] \in Known,
           l = "handler" => req[p].op = "view",
           l \in {"delete", "blocked"} => req[p].op = "deleteComment" /\ user[p] \in Known,
           l \in {"draw", "handler", "delete", "blocked"}
    PROVE  HandlersInv' /\ Alone(p) /\ pc'[p] = l /\ UNCHANGED <<req, claim, answer>>
<1>1. HandlersTypeOK /\ Fits(p)
  BY DEF HandlersInv
<1>2. /\ pc' \in [Requests -> Places] /\ pc'[p] = l
      /\ \A q \in Requests \ {p} : pc'[q] = pc[q]
      /\ req' = req /\ claim' = claim /\ answer' = answer
  BY <1>1, GotoTypes
<1>3. UNCHANGED <<jar, user, drawn>>
  BY DEF Keep
<1>4. HandlersTypeOK' /\ Alone(p)
  BY <1>1, <1>2, <1>3 DEF HandlersTypeOK, Alone, Places
<1>5. Fits(p)'
  BY <1>1, <1>2, <1>3 DEF Fits
<1> QED BY <1>2, <1>4, <1>5, OthersFit

-------------------------------------------------------------------------------
(* The types.                                                              *)

DbOK ==
    /\ rows = [t \in Tables |-> rows[t]]
    /\ \A t \in Tables : \A i \in DOMAIN rows[t] : i \in Ids /\ rows[t][i] \in RowType(t)
    /\ lastId \in [Tables -> Nat]
    /\ dead = [t \in Tables |-> dead[t]]
    /\ \A t \in Tables : dead[t] \subseteq DOMAIN rows[t]

HistoryOK == disturbed \in BOOLEAN /\ newcomers \subseteq Ids /\ overtaken \subseteq Requests

\* The inductive invariant that has the types.
TypeInv == SeedInv /\ HandlersInv /\ DbOK /\ HistoryOK

\* What a handler does beside answering and drawing an id.
Goes(p) ==
    \E l \in {"draw", "handler", "delete", "blocked"} :
        /\ Goto(p, l) /\ Keep /\ pc[p] # "idle"
        /\ l = "draw" => \/ req[p].op = "register"
                         \/ req[p].op \in Creates /\ user[p] \in Known
        /\ l = "handler" => req[p].op = "view"
        /\ l \in {"delete", "blocked"} => req[p].op = "deleteComment" /\ user[p] \in Known

Answered(p) == pc[p] # "idle" /\ Keep /\ \E a \in Answers : Answer(p, a)

\* The row that an INSERT writes.
LEMMA NewRowTypes ==
    ASSUME HandlersInv, NEW p \in Requests, pc[p] \in {"draw", "insert"}
    PROVE  /\ TableOf(req[p].op) \in Tables /\ NewRow(p) \in RowType(TableOf(req[p].op))
           /\ req[p].op \in {"register"} \cup Creates
<1>1. Fits(p) /\ req[p] \in Request
  BY DEF HandlersInv, Fits
<1>2. CASE req[p].op = "register"
  BY <1>1, <1>2, RequestFields DEF TableOf, NewRow, RowType, Tables
<1>3. CASE req[p].op \in Creates /\ user[p] \in Known
  <2>1. user[p].id \in Ids /\ req[p].id \in Ids
    BY <1>1, <1>3, RequestFields DEF Known, Creates
  <2> QED BY <1>3, <2>1 DEF TableOf, NewRow, RowType, Tables, Creates
<1> QED BY <1>1, <1>2, <1>3 DEF Fits

\* The name and the password of an account in the table.
LEMMA UserRows ==
    ASSUME DbOK, NEW i \in DOMAIN rows.user
    PROVE  /\ i \in Ids /\ rows.user[i] \in Accounts
           /\ rows.user[i].username \in Usernames /\ rows.user[i].passwordHash \in Passwords
<1>1. "user" \in Tables /\ RowType("user") = Accounts
  BY DEF Tables, RowType
<1>2. i \in Ids /\ rows["user"][i] \in Accounts
  BY <1>1 DEF DbOK
<1> QED BY <1>2 DEF Usernames, Passwords

\* What a step of a handler can be, as far as the database is concerned.
LEMMA HandleKinds ==
    ASSUME HandlersInv, DbOK, NEW p \in Requests,
           \/ HandleAccount(p)
           \/ LookForRestaurant(p) \/ CreateRestaurant(p) \/ View(p)
           \/ LookAtComment(p) \/ DeleteComment(p) \/ DeleteFindsNone(p)
           \/ DeleteBlocks(p) \/ DeleteUnblocks(p)
    PROVE  \/ (Goes(p) \/ Answered(p)) /\ UNCHANGED db
           \/ Answered(p) /\ (Insert(p) \/ DeleteComment(p))
           \/ Draw(p) \/ LookUpFound(p) \/ CompareSucceeds(p) \/ GuardAdmits(p) \/ Logout(p)
<1>1. Fits(p) /\ HandlersTypeOK
  BY DEF HandlersInv
<1>2. CASE Hash(p)
  <2>1. Goto(p, "draw") /\ Keep /\ pc[p] # "idle" /\ req[p].op = "register" /\ UNCHANGED db
    BY <1>2 DEF Hash, At
  <2> QED BY <2>1, Zenon DEF Goes
<1>3. CASE CreateRestaurant(p)
  <2>1. /\ Goto(p, "draw") /\ Keep /\ pc[p] = "handler" /\ req[p].op = "createRestaurant"
        /\ UNCHANGED db
    BY <1>3 DEF CreateRestaurant, At
  <2>2. req[p].op \in Creates /\ user[p] \in Known /\ pc[p] # "idle"
    BY <1>1, <2>1 DEF Fits, Creates
  <2> QED BY <2>1, <2>2, Zenon DEF Goes
<1>4. CASE LookForRestaurant(p)
  <2>1. /\ pc[p] = "handler" /\ req[p].op \in {"createComment", "createFavourite"}
        /\ Keep /\ UNCHANGED db
        /\ Goto(p, "draw") \/ Answer(p, Says("notFound"))
    BY <1>4 DEF LookForRestaurant, At
  <2>2. req[p].op \in Creates /\ user[p] \in Known /\ pc[p] # "idle"
    BY <1>1, <2>1 DEF Fits, Creates
  <2> QED BY <2>1, <2>2, SaysAnswers, Zenon DEF Goes, Answered
<1>5. CASE LookAtComment(p)
  <2>1. /\ pc[p] = "handler" /\ req[p].op = "deleteComment" /\ Keep /\ UNCHANGED db
        /\ \/ Goto(p, "delete") \/ Answer(p, Says("notFound")) \/ Answer(p, Says("forbidden"))
    BY <1>5 DEF LookAtComment, At
  <2>2. user[p] \in Known /\ pc[p] # "idle"
    BY <1>1, <2>1 DEF Fits
  <2> QED BY <2>1, <2>2, SaysAnswers, Zenon DEF Goes, Answered
<1>6. CASE DeleteBlocks(p) \/ DeleteUnblocks(p)
  <2>1. /\ pc[p] \in {"delete", "blocked"} /\ Keep /\ UNCHANGED db
        /\ Goto(p, "blocked") \/ Goto(p, "delete")
    BY <1>6 DEF DeleteBlocks, DeleteUnblocks
  <2>2. user[p] \in Known /\ pc[p] # "idle" /\ req[p].op = "deleteComment"
    BY <1>1, <2>1 DEF Fits
  <2> QED BY <2>1, <2>2, Zenon DEF Goes
<1>7. CASE GuardRefuses(p)
  <2>1. /\ pc[p] # "idle" /\ Keep /\ UNCHANGED db
        /\ \/ req[p].op = "view" /\ Goto(p, "handler")
           \/ Answer(p, Says("unauthorized"))
    BY <1>7 DEF GuardRefuses
  <2> QED BY <2>1, SaysAnswers, Zenon DEF Goes, Answered
<1>8. CASE View(p)
  <2> DEFINE can == /\ user[p] # NoUser
                    /\ user[p].id = rows.restaurant[req[p].id].ownerId
             shown == [status |-> "ok", canEdit |-> can]
  <2>1. /\ pc[p] # "idle" /\ Keep /\ UNCHANGED db
        /\ Answer(p, shown) \/ Answer(p, Says("notFound"))
    BY <1>8, Zenon DEF View, At
  <2>2. can \in BOOLEAN
    BY Zenon
  <2> HIDE DEF can
  <2>3. shown \in Answers
    BY <2>2, SaysAnswers
  <2> QED BY <2>1, <2>3, SaysAnswers, Zenon DEF Answered
<1>9. CASE Me(p)
  <2>1. /\ pc[p] # "idle" /\ Keep /\ UNCHANGED db /\ user[p].id \in DOMAIN rows.user
        /\ Answer(p, [status |-> "ok", username |-> rows.user[user[p].id].username])
    BY <1>9 DEF Me, At
  <2>2. [status |-> "ok", username |-> rows.user[user[p].id].username] \in Answers
    BY <2>1, UserRows, SaysAnswers
  <2> QED BY <2>1, <2>2, Zenon DEF Answered
<1>10. CASE LookUpUnknown(p) \/ CompareFails(p) \/ MeGone(p)
  <2>1. pc[p] # "idle" /\ Keep /\ UNCHANGED db /\ Answer(p, Says("unauthorized"))
    BY <1>10 DEF LookUpUnknown, CompareFails, MeGone, At
  <2> QED BY <2>1, SaysAnswers, Zenon DEF Answered
<1>11. CASE DeleteFindsNone(p)
  <2>1. pc[p] # "idle" /\ Keep /\ UNCHANGED db /\ Answer(p, Says("notFound"))
    BY <1>11 DEF DeleteFindsNone
  <2> QED BY <2>1, SaysAnswers, Zenon DEF Answered
<1>12. CASE InsertCollides(p) \/ InsertDangles(p)
  <2>1. /\ pc[p] # "idle" /\ Keep /\ UNCHANGED db
        /\ \E s \in {"conflict", "error", "notFound"} : Answer(p, Says(s))
    BY <1>12 DEF InsertCollides, InsertDangles, KeysPass
  <2> QED BY <2>1, SaysAnswers, Zenon DEF Answered
<1>13. CASE Insert(p) \/ DeleteComment(p)
  <2>1. /\ pc[p] # "idle" /\ Keep
        /\ \E s \in {"created", "deleted"} : Answer(p, Says(s))
    BY <1>13 DEF Insert, DeleteComment, KeysPass
  <2> QED BY <1>13, <2>1, SaysAnswers, Zenon DEF Answered
<1> QED
  BY <1>2, <1>3, <1>4, <1>5, <1>6, <1>7, <1>8, <1>9, <1>10, <1>11, <1>12, <1>13, Zenon
     DEF HandleAccount

\* nextval: the handler holds a new number of a sequence that is not locked.
LEMMA DrawTypes ==
    ASSUME HandlersInv, DbOK, NEW p \in Requests, Draw(p)
    PROVE  /\ HandlersInv' /\ Alone(p) /\ pc[p] = "draw" /\ pc'[p] = "insert"
           /\ req' = req /\ user' = user /\ answer' = answer /\ claim' = claim
           /\ TableOf(req[p].op) \in Tables
           /\ drawn'[p] = lastId[TableOf(req[p].op)] + 1
           /\ lastId' = [lastId EXCEPT ![TableOf(req[p].op)] = @ + 1]
           /\ TableOf(req[p].op) \notin DOMAIN restarted
           /\ UNCHANGED <<rows, dead, fresh, restarted>>
<1> DEFINE t == TableOf(req[p].op)
<1>1. HandlersTypeOK /\ Fits(p) /\ pc[p] = "draw"
  BY DEF HandlersInv, Draw
<1>2. t \in Tables
  BY <1>1, NewRowTypes
<1>3. /\ t \notin DOMAIN restarted /\ lastId' = [lastId EXCEPT ![t] = @ + 1]
      /\ UNCHANGED <<rows, dead, fresh, restarted>>
      /\ drawn' = [drawn EXCEPT ![p] = lastId[t] + 1] /\ UNCHANGED <<jar, user>>
      /\ Goto(p, "insert")
  BY DEF Draw, DrawId, transaction
<1> HIDE DEF t
<1>4. lastId[t] + 1 \in Ids
  BY <1>2 DEF DbOK, Ids
<1>5. /\ pc' \in [Requests -> Places] /\ pc'[p] = "insert"
      /\ \A q \in Requests \ {p} : pc'[q] = pc[q]
      /\ req' = req /\ claim' = claim /\ answer' = answer
  BY <1>1, <1>3, GotoTypes DEF Places
<1>6. drawn' \in [Requests -> Nat] /\ drawn'[p] = lastId[t] + 1
      /\ \A q \in Requests \ {p} : drawn'[q] = drawn[q]
  BY <1>1, <1>3, <1>4 DEF HandlersTypeOK, Ids
<1>7. HandlersTypeOK' /\ Alone(p)
  BY <1>1, <1>3, <1>5, <1>6 DEF HandlersTypeOK, Alone, Places
<1>8. Fits(p)'
  BY <1>1, <1>3, <1>4, <1>5, <1>6 DEF Fits
<1> QED BY <1>1, <1>2, <1>3, <1>5, <1>6, <1>7, <1>8, OthersFit DEF t

\* The user that a handler holds from here on.
LEMMA HoldTypes ==
    ASSUME HandlersInv, NEW p \in Requests, NEW l \in {"compare", "handler"}, Goto(p, l),
           NEW u \in Candidate \cup Known, Hold(p, u), pc[p] # "idle",
           l = "compare" => req[p].op = "login" /\ u \in Candidate,
           l = "handler" => req[p].op \in Guarded \cup {"view"} /\ u \in Known
    PROVE  /\ HandlersInv' /\ Alone(p) /\ pc'[p] = l /\ user'[p] = u
           /\ UNCHANGED <<req, claim, answer, drawn, jar>>
<1>1. HandlersTypeOK /\ Fits(p)
  BY DEF HandlersInv
<1>2. /\ pc' \in [Requests -> Places] /\ pc'[p] = l
      /\ \A q \in Requests \ {p} : pc'[q] = pc[q]
      /\ req' = req /\ claim' = claim /\ answer' = answer
  BY <1>1, GotoTypes DEF Places
<1>3. user' = [user EXCEPT ![p] = u] /\ UNCHANGED <<jar, drawn>>
  BY DEF Hold
<1>4. /\ user' \in [Requests -> Candidate \cup Known \cup {NoUser}] /\ user'[p] = u
      /\ \A q \in Requests \ {p} : user'[q] = user[q]
  BY <1>1, <1>3 DEF HandlersTypeOK, Candidate, Known
<1>5. HandlersTypeOK' /\ Alone(p)
  BY <1>1, <1>2, <1>3, <1>4 DEF HandlersTypeOK, Alone, Places, Candidate, Known
<1>6. Fits(p)'
  BY <1>1, <1>2, <1>4 DEF Fits
<1> QED BY <1>2, <1>3, <1>4, <1>5, <1>6, OthersFit

\* An answer with Set-Cookie.
LEMMA CookieTypes ==
    ASSUME HandlersInv, NEW p \in Requests, pc[p] # "idle",
           NEW token \in Token \cup {NoToken}, SetCookie(p, token),
           NEW a \in Answers, Answer(p, a)
    PROVE  /\ HandlersInv' /\ Alone(p) /\ pc'[p] = "done" /\ answer'[p] = a
           /\ UNCHANGED <<req, claim, user, drawn>> /\ jar'[req[p].client] = token
<1>1. HandlersTypeOK /\ Fits(p) /\ req[p].client \in Clients
  BY RequestFields DEF HandlersInv, Fits
<1>2. /\ pc' \in [Requests -> Places] /\ pc'[p] = "done"
      /\ \A q \in Requests \ {p} : pc'[q] = pc[q] /\ answer'[q] = answer[q]
      /\ answer' \in [Requests -> Answers] /\ answer'[p] = a
      /\ req' = req /\ claim' = claim
  BY <1>1, AnswerTypes
<1>3. jar' = [jar EXCEPT ![req[p].client] = token] /\ UNCHANGED <<user, drawn>>
  BY DEF SetCookie
<1>4. jar' \in [Clients -> Token \cup {NoToken}] /\ jar'[req[p].client] = token
  BY <1>1, <1>3 DEF HandlersTypeOK
<1>5. HandlersTypeOK' /\ Alone(p)
  BY <1>1, <1>2, <1>3, <1>4 DEF HandlersTypeOK, Alone, Places
<1>6. Fits(p)'
  BY <1>1, <1>2 DEF Fits
<1> QED BY <1>2, <1>3, <1>4, <1>5, <1>6, OthersFit

\* The steps that find out who is there, or that change the cookie.
LEMMA SessionTypes ==
    ASSUME HandlersInv, DbOK, NEW p \in Requests,
           LookUpFound(p) \/ CompareSucceeds(p) \/ GuardAdmits(p) \/ Logout(p)
    PROVE  /\ HandlersInv' /\ Alone(p) /\ pc'[p] \in {"compare", "handler", "done"}
           /\ req' = req /\ UNCHANGED db
<1>1. Fits(p) /\ HandlersTypeOK
  BY DEF HandlersInv
<1>2. CASE LookUpFound(p)
  <2>1. /\ pc[p] = "lookUp" /\ req[p].op = "login" /\ Goto(p, "compare") /\ UNCHANGED db
        /\ \E i \in DOMAIN rows.user :
               Hold(p, [id |-> i, passwordHash |-> rows.user[i].passwordHash])
    BY <1>2 DEF LookUpFound, At, Named
  <2>2. PICK u \in Candidate : Hold(p, u)
    <3>1. PICK i \in DOMAIN rows.user :
              Hold(p, [id |-> i, passwordHash |-> rows.user[i].passwordHash])
      BY <2>1
    <3>2. [id |-> i, passwordHash |-> rows.user[i].passwordHash] \in Candidate
      BY UserRows DEF Candidate
    <3> QED BY <3>1, <3>2
  <2> QED BY <2>1, <2>2, HoldTypes
<1>3. CASE GuardAdmits(p)
  <2>1. /\ pc[p] = "guard" /\ Goto(p, "handler") /\ UNCHANGED db
        /\ Hold(p, [id |-> claim[p].sub])
    BY <1>3 DEF GuardAdmits
  <2>2. [id |-> claim[p].sub] \in Known /\ req[p].op \in Guarded \cup {"view"}
    BY <1>1, <2>1 DEF Fits, Token, Known
  <2> QED BY <2>1, <2>2, HoldTypes
<1>4. CASE CompareSucceeds(p)
  <2>1. /\ pc[p] = "compare" /\ req[p].op = "login" /\ UNCHANGED db
        /\ SetCookie(p, [sub |-> user[p].id, username |-> req[p].username])
        /\ Answer(p, Says("ok"))
    BY <1>4 DEF CompareSucceeds, At
  <2>2. user[p].id \in Ids /\ req[p].username \in Usernames
    BY <1>1, <2>1, RequestFields DEF Fits, Candidate
  <2>3. [sub |-> user[p].id, username |-> req[p].username] \in Token \cup {NoToken}
    BY <2>2 DEF Token
  <2>4. pc[p] # "idle" /\ Says("ok") \in Answers
    BY <2>1, SaysAnswers
  <2> QED BY <2>1, <2>3, <2>4, CookieTypes
<1>5. CASE Logout(p)
  <2>1. /\ pc[p] = "handler" /\ UNCHANGED db
        /\ SetCookie(p, NoToken) /\ Answer(p, Says("deleted"))
    BY <1>5 DEF Logout, At
  <2>2. pc[p] # "idle" /\ Says("deleted") \in Answers
    BY <2>1, SaysAnswers
  <2> QED BY <2>1, <2>2, CookieTypes
<1> QED BY <1>2, <1>3, <1>4, <1>5

\* A request arrives with its client's cookie.
LEMMA SubmitTypes ==
    ASSUME HandlersInv, NEW p \in Requests, Submit(p)
    PROVE  /\ HandlersInv' /\ Alone(p) /\ pc[p] = "idle" /\ UNCHANGED db
           /\ pc'[p] \in {"hash", "lookUp", "guard", "handler", "done"}
           /\ pc'[p] = "handler" => req'[p].op = "view" /\ user'[p] = user[p]
           /\ answer'[p] = answer[p] \/ answer'[p] = Says("unauthorized")
           /\ UNCHANGED <<user, drawn, jar>>
<1> DEFINE place(q) ==
        CASE q.op = "register" -> "hash"
          [] q.op = "login" -> "lookUp"
          [] q.op \in Guarded \cup {"view"} /\ jar[q.client] # NoToken -> "guard"
          [] q.op = "view" /\ jar[q.client] = NoToken -> "handler"
          [] OTHER -> "done"
           told(q) == IF q.op \in Guarded /\ jar[q.client] = NoToken
                      THEN Says("unauthorized") ELSE answer[p]
<1>1. PICK q \in Asked :
          /\ pc[p] = "idle"
          /\ req' = [req EXCEPT ![p] = q]
          /\ claim' = [claim EXCEPT ![p] = jar[q.client]]
          /\ pc' = [pc EXCEPT ![p] = place(q)]
          /\ answer' = [answer EXCEPT ![p] = told(q)]
          /\ Keep /\ UNCHANGED db
  BY Zenon DEF Submit
<1>2. /\ HandlersTypeOK /\ q \in Request /\ q.client \in Clients
      /\ q.op \in {"register", "login", "view"} \cup Guarded
  BY AccountsAssumption, RequestFields DEF HandlersInv, AccountsAssumption
<1>3. jar[q.client] \in Token \cup {NoToken}
  BY <1>2 DEF HandlersTypeOK
<1>4. /\ place(q) \in {"hash", "lookUp", "guard", "handler", "done"}
      /\ place(q) = "hash" => q.op = "register"
      /\ place(q) = "lookUp" => q.op = "login"
      /\ place(q) = "guard" => q.op \in Guarded \cup {"view"} /\ jar[q.client] \in Token
      /\ place(q) = "handler" => q.op = "view"
  <2>1. "register" \notin Guarded /\ "login" \notin Guarded /\ "view" \notin Guarded
    BY DEF Guarded
  <2>2. CASE q.op = "register"
    BY <2>1, <2>2
  <2>3. CASE q.op = "login"
    BY <2>1, <2>3
  <2>4. CASE q.op \in Guarded \cup {"view"} /\ jar[q.client] # NoToken
    <3>1. place(q) = "guard"
      BY <2>1, <2>4
    <3> QED BY <1>3, <2>4, <3>1
  <2>5. CASE q.op = "view" /\ jar[q.client] = NoToken
    BY <2>5
  <2>6. CASE q.op \in Guarded /\ jar[q.client] = NoToken
    BY <2>1, <2>6
  <2> QED BY <1>2, <2>2, <2>3, <2>4, <2>5, <2>6
<1>5. told(q) \in Answers /\ told(q) \in {answer[p], Says("unauthorized")}
  BY <1>2, SaysAnswers DEF HandlersTypeOK
<1> HIDE DEF place, told
<1>6. UNCHANGED <<jar, user, drawn>>
  BY <1>1 DEF Keep
<1>7. /\ req'[p] = q /\ claim'[p] = jar[q.client] /\ pc'[p] = place(q) /\ answer'[p] = told(q)
      /\ Alone(p)
  BY <1>1, <1>2, <1>6 DEF HandlersTypeOK, Alone
<1>8. HandlersTypeOK'
  <2>1. req' \in [Requests -> Request \cup {NoRequest}]
    BY <1>1, <1>2 DEF HandlersTypeOK
  <2>2. claim' \in [Requests -> Token \cup {NoToken}]
    BY <1>1, <1>2, <1>3 DEF HandlersTypeOK
  <2>3. pc' \in [Requests -> Places]
    BY <1>1, <1>2, <1>4 DEF HandlersTypeOK, Places
  <2>4. answer' \in [Requests -> Answers]
    BY <1>1, <1>2, <1>5 DEF HandlersTypeOK
  <2> QED BY <1>2, <1>6, <2>1, <2>2, <2>3, <2>4 DEF HandlersTypeOK, Places
<1>9. Fits(p)'
  BY <1>2, <1>4, <1>7 DEF Fits
<1> QED BY <1>1, <1>4, <1>5, <1>6, <1>7, <1>8, <1>9, OthersFit

\* A cookie expires in its jar, and nothing else happens.
LEMMA ExpireTypes ==
    ASSUME HandlersInv, NEW c \in Clients, Expire(c)
    PROVE  HandlersInv' /\ UNCHANGED <<db, req, pc, claim, user, drawn, answer>>
<1>1. /\ jar' = [jar EXCEPT ![c] = NoToken]
      /\ UNCHANGED <<db, req, pc, claim, user, drawn, answer>>
  BY DEF Expire
<1>2. HandlersTypeOK'
  BY <1>1 DEF HandlersInv, HandlersTypeOK
<1>3. \A p \in Requests : Fits(p)'
  BY <1>1 DEF HandlersInv, Fits
<1> QED BY <1>1, <1>2, <1>3 DEF HandlersInv

-------------------------------------------------------------------------------
(* The steps, by what they change.                                         *)

\* A request goes on, and the tables, the seed and the history are as they were;
\* nobody comes to an INSERT who was not there.
Quiet ==
    /\ UNCHANGED <<db, seeding, history>>
    /\ \A q \in Requests :
           pc'[q] = "insert" =>
               /\ pc[q] = "insert" /\ req'[q] = req[q]
               /\ user'[q] = user[q] /\ drawn'[q] = drawn[q]

Draws(p) == Draw(p) /\ UNCHANGED <<seeding, history>>

Inserts(p) ==
    /\ Insert(p)
    /\ disturbed' = (disturbed \/ (seed = "running" /\ rows' # rows))
    /\ newcomers' = IF Running(Restarts, End + 1) /\ req[p].op = "register" /\ rows' # rows
                    THEN newcomers \cup {drawn[p]} ELSE newcomers
    /\ UNCHANGED <<seeding, overtaken>>

Deletes(p) == DeleteComment(p) /\ UNCHANGED <<seeding, history>>

\* The statements of the seed that pass.
Clears ==
    LET t == DeleteOrder[step + 1] IN
    /\ Running(0, Restarts)
    /\ \A i \in Live(t) : ~Held(t, i)
    /\ DeleteMany(t) /\ Done

Writes(t, n, row) == ~FreshCollides(t, n, row) /\ InsertFresh(t, n, row) /\ Done

WritesUser ==
    /\ Running(Users, Restaurants)
    /\ \E a \in SeedUsers :
           (\A i \in DOMAIN fresh.user : fresh.user[i] # a) /\ Writes("user", 1, a)

WritesRestaurant ==
    /\ Running(Restaurants, End) /\ (step - Restaurants) % 2 = 0
    /\ Writes("restaurant", 1, [ownerId |-> OwnerId])

WritesComments ==
    /\ Running(Restaurants, End) /\ (step - Restaurants) % 2 = 1
    /\ Writes("comment", SeedComments[(step - Restaurants + 1) \div 2],
              [userId |-> OwnerId, restaurantId |-> restarted.restaurant])

\* What is in the way of the seed's next statement.
Obstacle ==
    \/ /\ Running(0, Restarts)
       /\ \E i \in Live(DeleteOrder[step + 1]) : Held(DeleteOrder[step + 1], i)
    \/ /\ step >= Users
       /\ \E t \in Tables : Live(t) # {}

GivesUp ==
    /\ seed = "running"
    /\ \/ Obstacle /\ Fails("refused")
       \/ Fails("timedOut")
       \/ Fails("killed")

\* The statements that a constraint may refuse.
LEMMA WritesOrGivesUp ==
    ASSUME seed = "running", step >= Users, NEW t \in Tables, NEW n, NEW row,
           SeedInserts(t, n, row)
    PROVE  Writes(t, n, row) \/ GivesUp
<1>1. CASE FreshCollides(t, n, row)
  <2>1. Fails("refused") /\ Live(t) # {}
    BY <1>1 DEF SeedInserts, FreshCollides, Collides
  <2> QED BY <2>1 DEF GivesUp, Obstacle
<1> QED BY <1>1 DEF SeedInserts, Writes

\* The statements of the seed, and its ends.
LEMMA SeedKinds ==
    ASSUME SeedProceeds \/ SeedTimesOut
    PROVE  \/ Clears \/ SeedRestarts \/ WritesUser \/ WritesRestaurant \/ WritesComments
           \/ SeedCommits \/ GivesUp
<1>1. CASE SeedDeletes
  BY <1>1 DEF SeedDeletes, Clears, GivesUp, Obstacle, Running
<1>2. CASE SeedTimesOut
  BY <1>2 DEF SeedTimesOut, GivesUp
<1>3. Restaurants >= Users /\ Restaurants \in Nat /\ Users \in Nat /\ End \in Nat
      /\ Restaurants \in Int
  BY Counts, Orders
<1>4. CASE SeedCreatesUser
  <2>1. seed = "running" /\ step >= Users /\ "user" \in Tables
    BY <1>3, <1>4 DEF SeedCreatesUser, Running, Tables
  <2>2. PICK a \in SeedUsers :
            (\A i \in DOMAIN fresh.user : fresh.user[i] # a) /\ SeedInserts("user", 1, a)
    BY <1>4 DEF SeedCreatesUser
  <2>3. Writes("user", 1, a) \/ GivesUp
    BY <2>1, <2>2, WritesOrGivesUp
  <2> QED BY <1>4, <2>2, <2>3, Zenon DEF SeedCreatesUser, WritesUser
<1>5. ASSUME NEW t \in Tables, NEW n, NEW row, SeedInserts(t, n, row), Running(Restaurants, End)
      PROVE  Writes(t, n, row) \/ GivesUp
  <2>1. seed = "running" /\ step >= Users
    BY <1>3, <1>5 DEF Running
  <2> QED BY <1>5, <2>1, WritesOrGivesUp
<1>6. CASE SeedCreatesRestaurant
  <2>1. "restaurant" \in Tables
    BY DEF Tables
  <2> QED BY <1>5, <1>6, <2>1, Zenon DEF SeedCreatesRestaurant, WritesRestaurant
<1>7. CASE SeedCreatesComments
  <2>1. "comment" \in Tables
    BY DEF Tables
  <2> QED BY <1>5, <1>7, <2>1, Zenon DEF SeedCreatesComments, WritesComments
<1> QED BY <1>1, <1>2, <1>4, <1>6, <1>7 DEF SeedProceeds

\* What a request that answers or goes on leaves alone.
LEMMA OneMoves ==
    ASSUME HandlersInv, NEW p \in Requests, Alone(p), pc'[p] # "insert",
           UNCHANGED <<db, seeding, history>>
    PROVE  Quiet
BY DEF Quiet, Alone

\* A step of a handler is quiet for the tables, or draws, inserts or deletes.
LEMMA HandleSteps ==
    ASSUME TypeInv, NEW p \in Requests, Handle(p)
    PROVE  HandlersInv' /\ Alone(p) /\ (Quiet \/ Draws(p) \/ Inserts(p) \/ Deletes(p))
<1>1. HandlersInv /\ DbOK /\ disturbed \in BOOLEAN
  BY DEF TypeInv, HistoryOK
<1>2. UNCHANGED <<seeding, overtaken>>
  BY DEF Handle
<1>3. ASSUME rows' = rows \/ pc[p] # "insert" PROVE UNCHANGED history
  <2>1. disturbed' = disturbed
    BY <1>1, <1>3 DEF Handle
  <2>2. newcomers' = newcomers
    BY <1>3 DEF Handle, At
  <2> QED BY <1>2, <2>1, <2>2 DEF history
<1>4. \/ (Goes(p) \/ Answered(p)) /\ UNCHANGED db
      \/ Answered(p) /\ (Insert(p) \/ DeleteComment(p))
      \/ Draw(p) \/ LookUpFound(p) \/ CompareSucceeds(p) \/ GuardAdmits(p) \/ Logout(p)
  <2>1. \/ HandleAccount(p)
        \/ LookForRestaurant(p) \/ CreateRestaurant(p) \/ View(p)
        \/ LookAtComment(p) \/ DeleteComment(p) \/ DeleteFindsNone(p)
        \/ DeleteBlocks(p) \/ DeleteUnblocks(p)
    BY DEF Handle
  <2> QED BY <1>1, <2>1, HandleKinds
<1>5. Goes(p) => HandlersInv' /\ Alone(p) /\ pc'[p] # "insert"
  <2> SUFFICES ASSUME Goes(p) PROVE HandlersInv' /\ Alone(p) /\ pc'[p] # "insert"
    OBVIOUS
  <2>1. PICK l \in {"draw", "handler", "delete", "blocked"} :
            /\ Goto(p, l) /\ Keep /\ pc[p] # "idle"
            /\ l = "draw" => \/ req[p].op = "register"
                             \/ req[p].op \in Creates /\ user[p] \in Known
            /\ l = "handler" => req[p].op = "view"
            /\ l \in {"delete", "blocked"} => req[p].op = "deleteComment" /\ user[p] \in Known
    BY DEF Goes
  <2>2. l \in Places
    BY DEF Places
  <2>3. HandlersInv' /\ Alone(p) /\ pc'[p] = l
    BY <1>1, <2>1, <2>2, Going
  <2> QED BY <2>3
<1>6. Answered(p) => HandlersInv' /\ Alone(p) /\ pc'[p] # "insert"
  <2> SUFFICES ASSUME Answered(p) PROVE HandlersInv' /\ Alone(p) /\ pc'[p] # "insert"
    OBVIOUS
  <2>1. PICK a \in Answers : Answer(p, a) /\ Keep /\ pc[p] # "idle"
    BY DEF Answered
  <2>2. HandlersInv' /\ Alone(p) /\ pc'[p] = "done"
    BY <1>1, <2>1, Answering
  <2> QED BY <2>2
<1>7. CASE (Goes(p) \/ Answered(p)) /\ UNCHANGED db
  <2>1. UNCHANGED <<db, seeding, history>>
    BY <1>2, <1>3, <1>7 DEF db
  <2> QED BY <1>1, <1>5, <1>6, <1>7, <2>1, OneMoves
<1>8. CASE Answered(p) /\ Insert(p)
  <2>1. pc[p] = "insert"
    BY <1>8 DEF Insert, KeysPass
  <2>2. /\ disturbed' = (disturbed \/ (seed = "running" /\ rows' # rows))
        /\ newcomers' = IF Running(Restarts, End + 1) /\ req[p].op = "register" /\ rows' # rows
                        THEN newcomers \cup {drawn[p]} ELSE newcomers
    BY <2>1 DEF Handle, At
  <2> QED BY <1>2, <1>6, <1>8, <2>2 DEF Inserts
<1>9. CASE Answered(p) /\ DeleteComment(p)
  <2>1. UNCHANGED history
    BY <1>3, <1>9 DEF DeleteComment
  <2> QED BY <1>2, <1>6, <1>9, <2>1 DEF Deletes
<1>10. CASE Draw(p)
  <2>1. HandlersInv' /\ Alone(p) /\ rows' = rows
    BY <1>1, <1>10, DrawTypes
  <2> QED BY <1>2, <1>3, <1>10, <2>1 DEF Draws
<1>11. CASE LookUpFound(p) \/ CompareSucceeds(p) \/ GuardAdmits(p) \/ Logout(p)
  <2>1. HandlersInv' /\ Alone(p) /\ pc'[p] # "insert" /\ UNCHANGED db
    BY <1>1, <1>11, SessionTypes
  <2>2. UNCHANGED <<db, seeding, history>>
    BY <1>2, <1>3, <2>1 DEF db
  <2> QED BY <1>1, <2>1, <2>2, OneMoves
<1> QED BY <1>4, <1>7, <1>8, <1>9, <1>10, <1>11

\* The kinds of step of the whole system: every proof below is over these.
LEMMA StepKinds ==
    ASSUME TypeInv, [Next]_vars
    PROVE  /\ HandlersInv'
           /\ \/ Quiet
              \/ \E p \in Requests : Draws(p) \/ Inserts(p) \/ Deletes(p)
              \/ /\ UNCHANGED handlers
                 /\ \/ StartSeed
                    \/ Clears \/ SeedRestarts
                    \/ WritesUser \/ WritesRestaurant \/ WritesComments
                    \/ SeedCommits \/ GivesUp
<1>0. HandlersInv
  BY DEF TypeInv
<1>1. UNCHANGED handlers => HandlersInv'
  <2> SUFFICES ASSUME UNCHANGED handlers PROVE HandlersInv'
    OBVIOUS
  <2>1. HandlersTypeOK'
    BY <1>0 DEF HandlersInv, HandlersTypeOK, handlers
  <2>2. \A p \in Requests : Fits(p)'
    BY <1>0 DEF HandlersInv, Fits, handlers
  <2> QED BY <2>1, <2>2 DEF HandlersInv
<1>2. CASE \E p \in Requests : Submit(p) /\ UNCHANGED <<seeding, history>>
  <2>1. PICK p \in Requests : Submit(p) /\ UNCHANGED <<seeding, history>>
    BY <1>2
  <2>2. HandlersInv' /\ Alone(p) /\ UNCHANGED db /\ pc'[p] # "insert"
    BY <1>0, <2>1, SubmitTypes
  <2> QED BY <1>0, <2>1, <2>2, OneMoves
<1>3. CASE \E p \in Requests : Handle(p)
  BY <1>3, HandleSteps
<1>4. CASE \E c \in Clients : Expire(c) /\ UNCHANGED <<seeding, history>>
  <2>1. PICK c \in Clients : Expire(c) /\ UNCHANGED <<seeding, history>>
    BY <1>4
  <2>2. HandlersInv' /\ UNCHANGED <<db, req, pc, claim, user, drawn, answer>>
    BY <1>0, <2>1, ExpireTypes
  <2> QED BY <2>1, <2>2 DEF Quiet
<1>5. CASE StartSeed
  BY <1>1, <1>5 DEF StartSeed
<1>6. CASE SeedProceeds \/ SeedTimesOut
  <2>1. UNCHANGED handlers
    BY <1>6 DEF SeedProceeds, SeedTimesOut, SeedDeletes, SeedRestarts, SeedCreatesUser,
       SeedCreatesRestaurant, SeedCreatesComments, SeedCommits, SeedInserts, Done, Fails
  <2> QED BY <1>1, <1>6, <2>1, SeedKinds
<1>7. CASE BreakDeadlock
  <2>1. PICK p \in Requests :
            /\ Deadlocked(p)
            /\ \/ Fails("killed")
               \/ /\ Answer(p, Says("error"))
                  /\ Keep
                  /\ UNCHANGED <<db, seeding, history>>
    BY <1>7 DEF BreakDeadlock
  <2>2. seed = "running" /\ pc[p] = "insert"
    BY <2>1 DEF Deadlocked, SeedWaitsFor, Running
  <2>3. CASE Fails("killed")
    BY <1>1, <2>2, <2>3 DEF GivesUp, Fails
  <2>4. CASE /\ Answer(p, Says("error"))
             /\ Keep
             /\ UNCHANGED <<db, seeding, history>>
    <3>1. pc[p] # "idle" /\ Says("error") \in Answers
      BY <2>2, SaysAnswers
    <3>2. HandlersInv' /\ Alone(p) /\ pc'[p] = "done"
      BY <1>0, <2>4, <3>1, Answering
    <3> QED BY <1>0, <2>4, <3>2, OneMoves
  <2> QED BY <2>1, <2>3, <2>4
<1>8. CASE UNCHANGED vars
  BY <1>1, <1>8 DEF vars, Quiet, handlers
<1> QED BY <1>2, <1>3, <1>4, <1>5, <1>6, <1>7, <1>8 DEF Next

\* What an INSERT that passes has found, and what it changes.
InsertDoes(p, t, id, row) ==
    /\ pc[p] = "insert" /\ pc'[p] = "done" /\ req' = req /\ user' = user
    /\ \A q \in Requests \ {p} : pc'[q] = pc[q]
    /\ drawn' = drawn /\ answer' = [answer EXCEPT ![p] = Says("created")]
    /\ t \in Tables /\ row \in RowType(t) /\ id \in Ids
    /\ req[p].op \in {"register"} \cup Creates
    /\ id \notin DOMAIN rows[t] /\ id \notin DOMAIN fresh[t]
    /\ \A i \in DOMAIN rows[t] : ~SameKey(t, rows[t][i], row)
    /\ \A i \in DOMAIN fresh[t] : ~SameKey(t, fresh[t][i], row)
    /\ \A ref \in References(t, row) : ref[2] \in Live(ref[1])
    /\ rows' = [u \in Tables |-> rows'[u]]
    /\ \A u \in Tables \ {t} : rows'[u] = rows[u]
    /\ DOMAIN rows'[t] = DOMAIN rows[t] \cup {id} /\ rows'[t][id] = row
    /\ \A i \in DOMAIN rows[t] : rows'[t][i] = rows[t][i]
    /\ rows' # rows
    /\ UNCHANGED <<lastId, dead, fresh, restarted, seed, step, jar, claim, overtaken>>

\* What the INSERT of a request does.
LEMMA InsertEffects ==
    ASSUME HandlersInv, DbOK, NEW p \in Requests, Inserts(p)
    PROVE  InsertDoes(p, TableOf(req[p].op), drawn[p], NewRow(p))
<1> DEFINE t == TableOf(req[p].op)
           id == drawn[p]
           row == NewRow(p)
<1>1. Fits(p) /\ HandlersTypeOK
  BY DEF HandlersInv
<1>2. /\ pc[p] = "insert" /\ ~KeyWaits(t, id, row) /\ ~Collides(t, id, row)
      /\ ~ReferenceWaits(t, row) /\ ~Dangles(t, row)
      /\ Inserted(t, id, row) /\ Answer(p, Says("created")) /\ Keep
  BY DEF Inserts, Insert, KeysPass
<1>3. t \in Tables /\ row \in RowType(t) /\ req[p].op \in {"register"} \cup Creates
  BY <1>2, NewRowTypes
<1>4. id \in Ids
  BY <1>1, <1>2 DEF Fits
<1>5. \A i \in DOMAIN rows[t] : i # id /\ ~SameKey(t, rows[t][i], row)
  BY <1>2 DEF KeyWaits, Collides, Live
<1>6. \A i \in DOMAIN fresh[t] : i # id /\ ~SameKey(t, fresh[t][i], row)
  BY <1>2 DEF KeyWaits
<1>7. \A ref \in References(t, row) : ref[2] \in Live(ref[1])
  BY <1>2 DEF ReferenceWaits, Dangles, Live
<1>8. rows' = [rows EXCEPT ![t] = Put(rows[t], id, row)]
      /\ UNCHANGED <<lastId, dead, fresh, restarted>>
  BY <1>2 DEF Inserted, transaction
<1>9. rows = [u \in Tables |-> rows[u]]
  BY DEF DbOK
<1>10. /\ rows' = [u \in Tables |-> rows'[u]]
       /\ \A u \in Tables \ {t} : rows'[u] = rows[u]
       /\ rows'[t] = Put(rows[t], id, row)
  BY <1>3, <1>8, <1>9
<1>11. /\ DOMAIN rows'[t] = DOMAIN rows[t] \cup {id} /\ rows'[t][id] = row
       /\ \A i \in DOMAIN rows[t] : rows'[t][i] = rows[t][i]
  BY <1>5, <1>10 DEF Put
<1>12. rows' # rows
  BY <1>5, <1>11
<1>13. /\ pc'[p] = "done" /\ \A q \in Requests \ {p} : pc'[q] = pc[q]
       /\ req' = req /\ claim' = claim /\ answer' = [answer EXCEPT ![p] = Says("created")]
  BY <1>1, <1>2 DEF Answer, HandlersTypeOK
<1>14. user' = user /\ drawn' = drawn /\ jar' = jar
  BY <1>2 DEF Keep
<1>15. UNCHANGED <<seed, step, overtaken>>
  BY DEF Inserts, seeding
<1> HIDE DEF t, id, row
<1>16. InsertDoes(p, t, id, row)
  BY <1>2, <1>3, <1>4, <1>5, <1>6, <1>7, <1>8, <1>10, <1>11, <1>12, <1>13, <1>14, <1>15
     DEF InsertDoes
<1> QED BY <1>16 DEF t, id, row

\* What a DELETE changes.
LEMMA DeleteEffects ==
    ASSUME HandlersInv, DbOK, NEW p \in Requests, Deletes(p), NEW id, id = req[p].id
    PROVE  /\ pc[p] = "delete" /\ pc'[p] = "done" /\ req' = req /\ user' = user /\ drawn' = drawn
           /\ \A q \in Requests \ {p} : pc'[q] = pc[q]
           /\ answer' = [answer EXCEPT ![p] = Says("deleted")]
           /\ id \in Live("comment")
           /\ rows' = [u \in Tables |-> rows'[u]]
           /\ \A u \in Tables \ {"comment"} : rows'[u] = rows[u]
           /\ DOMAIN rows'["comment"] = DOMAIN rows["comment"] \ {id}
           /\ \A i \in DOMAIN rows'["comment"] : rows'["comment"][i] = rows["comment"][i]
           /\ UNCHANGED <<lastId, dead, fresh, restarted, seeding, history, jar, claim>>
<1>1. HandlersTypeOK /\ "comment" \in Tables /\ rows = [u \in Tables |-> rows[u]]
  BY DEF HandlersInv, DbOK, Tables
<1>2. /\ pc[p] = "delete" /\ id \in Live("comment") /\ Removed("comment", id)
      /\ Answer(p, Says("deleted")) /\ Keep
      /\ UNCHANGED <<seeding, history>>
  BY DEF Deletes, DeleteComment
<1>3. /\ rows' = [rows EXCEPT !["comment"] =
                     [i \in DOMAIN rows["comment"] \ {id} |-> rows["comment"][i]]]
      /\ UNCHANGED <<lastId, dead, fresh, restarted>>
  BY <1>2 DEF Removed, transaction
<1>4. /\ rows' = [u \in Tables |-> rows'[u]]
      /\ \A u \in Tables \ {"comment"} : rows'[u] = rows[u]
      /\ rows'["comment"] = [i \in DOMAIN rows["comment"] \ {id} |-> rows["comment"][i]]
  BY <1>1, <1>3
<1>5. /\ DOMAIN rows'["comment"] = DOMAIN rows["comment"] \ {id}
      /\ \A i \in DOMAIN rows'["comment"] : rows'["comment"][i] = rows["comment"][i]
  BY <1>4
<1>6. /\ pc'[p] = "done" /\ \A q \in Requests \ {p} : pc'[q] = pc[q]
      /\ req' = req /\ claim' = claim /\ answer' = [answer EXCEPT ![p] = Says("deleted")]
      /\ user' = user /\ drawn' = drawn /\ jar' = jar
  BY <1>1, <1>2 DEF Answer, HandlersTypeOK, Keep
<1> QED BY <1>2, <1>3, <1>4, <1>5, <1>6

\* A statement of the seed that deletes.
LEMMA ClearEffects ==
    ASSUME SeedInv, DbOK, Clears, NEW t, t = DeleteOrder[step + 1]
    PROVE  /\ seed = "running" /\ step \in 0..4 /\ t \in Tables /\ Turn[t] = step + 1
           /\ step' = step + 1
           /\ \A i \in Live(t) : ~Held(t, i)
           /\ dead' = [u \in Tables |-> dead'[u]] /\ dead'[t] = DOMAIN rows[t]
           /\ \A u \in Tables \ {t} : dead'[u] = dead[u]
           /\ UNCHANGED <<rows, lastId, fresh, restarted, seed, history, handlers>>
<1>1. seed = "running" /\ step \in 0..4 /\ t \in Tables /\ Turn[t] = step + 1
  BY Orders DEF Clears, Running
<1>2. /\ \A i \in Live(t) : ~Held(t, i)
      /\ dead' = [dead EXCEPT ![t] = DOMAIN rows[t]]
      /\ UNCHANGED <<rows, lastId, fresh, restarted>>
      /\ step' = step + 1 /\ UNCHANGED <<seed, handlers, history>>
  BY DEF Clears, DeleteMany, Done
<1>3. dead = [u \in Tables |-> dead[u]]
  BY DEF DbOK
<1>4. /\ dead' = [u \in Tables |-> dead'[u]] /\ dead'[t] = DOMAIN rows[t]
      /\ \A u \in Tables \ {t} : dead'[u] = dead[u]
  BY <1>1, <1>2, <1>3
<1> QED BY <1>1, <1>2, <1>4

\* The other statements before the commit leave the committed rows alone, and those
\* it has deleted.
LEMMA WriteEffects ==
    ASSUME SeedInv, WritesUser \/ WritesRestaurant \/ WritesComments
    PROVE  /\ seed = "running" /\ step >= Users /\ step < End
           /\ UNCHANGED <<rows, lastId, dead, seed, history, handlers>> /\ step' = step + 1
           /\ \E row : \E t \in Tables, n \in Nat :
                  ~FreshCollides(t, n, row) /\ InsertFresh(t, n, row)
<1>1. /\ seed = "running" /\ step >= Users /\ step < End
  BY Counts, Orders DEF WritesUser, WritesRestaurant, WritesComments, Running
<1>2. \E row : \E t \in Tables, n \in Nat : Writes(t, n, row)
  <2>1. CASE WritesUser \/ WritesRestaurant
    BY <2>1 DEF WritesUser, WritesRestaurant, Tables
  <2>2. CASE WritesComments
    <3> DEFINE r == (step - Restaurants + 1) \div 2
    <3>1. /\ Running(Restaurants, End) /\ (step - Restaurants) % 2 = 1
          /\ Writes("comment", SeedComments[r],
                    [userId |-> OwnerId, restaurantId |-> restarted.restaurant])
          /\ step' = step + 1
      BY <2>2 DEF WritesComments, Writes, Done
    <3>2. r \in 1..Len(SeedComments)
      BY <3>1, CountsMove
    <3> HIDE DEF r
    <3>3. SeedComments[r] \in Nat /\ "comment" \in Tables
      BY <3>2, Counts DEF Tables
    <3> QED BY <3>1, <3>3
  <2> QED BY <2>1, <2>2
<1>3. /\ \E row : \E t \in Tables, n \in Nat :
             ~FreshCollides(t, n, row) /\ InsertFresh(t, n, row)
      /\ UNCHANGED <<rows, lastId, dead, seed, history, handlers>> /\ step' = step + 1
  BY <1>2 DEF Writes, InsertFresh, Done
<1> QED BY <1>1, <1>3

\* What an ALTER SEQUENCE of the seed does.
LEMMA RestartEffects ==
    ASSUME SeedInv, SeedRestarts, NEW t, t = RestartOrder[step - Restarts + 1]
    PROVE  /\ seed = "running" /\ step \in 5..9 /\ t \in Tables /\ Turn[t] = step - Restarts + 1
           /\ step' = step + 1 /\ restarted' = Put(restarted, t, 0)
           /\ \A p \in Requests : pc[p] = "insert" => TableOf(req[p].op) # t
           /\ UNCHANGED <<rows, lastId, dead, fresh, seed, history, handlers>>
<1>1. seed = "running" /\ step \in 5..9 /\ Restarts = 5 /\ step - Restarts \in 0..4
  BY Orders DEF SeedRestarts, Running
<1>2. t \in Tables /\ Turn[t] = step - Restarts + 1
  BY <1>1, Orders
<1>3. /\ step' = step + 1 /\ restarted' = Put(restarted, t, 0)
      /\ UNCHANGED <<rows, lastId, dead, fresh, seed, history, handlers>>
  BY DEF SeedRestarts, RestartSequence, Done
<1>4. \A p \in Requests : pc[p] = "insert" => TableOf(req[p].op) # t
  BY DEF SeedRestarts, SeedWaitsFor
<1> QED BY <1>1, <1>2, <1>3, <1>4

\* What the COMMIT of the seed does.
LEMMA CommitEffects ==
    ASSUME SeedCommits
    PROVE  /\ seed = "running" /\ step = End /\ seed' = "committed" /\ step' = 0
           /\ rows' = [t \in Tables |-> Committed(t)]
           /\ \A t \in Tables : /\ DOMAIN rows'[t] = Live(t) \cup DOMAIN fresh[t]
                                /\ \A i \in DOMAIN fresh[t] : rows'[t][i] = fresh[t][i]
                                /\ \A i \in Live(t) \ DOMAIN fresh[t] : rows'[t][i] = rows[t][i]
           /\ lastId' = [t \in Tables |->
                            IF t \in DOMAIN restarted THEN restarted[t] ELSE lastId[t]]
           /\ dead' = NoneDead /\ fresh' = NoneFresh /\ restarted' = NoRows
           /\ overtaken' = {p \in Requests : pc[p] \notin {"idle", "done"}}
           /\ UNCHANGED <<handlers, disturbed, newcomers>>
<1>1. /\ seed = "running" /\ step = End /\ seed' = "committed" /\ step' = 0
      /\ Commit /\ UNCHANGED <<handlers, disturbed, newcomers>>
      /\ overtaken' = {p \in Requests : pc[p] \notin {"idle", "done"}}
  BY DEF SeedCommits
<1>2. /\ rows' = [t \in Tables |-> Committed(t)]
      /\ lastId' = [t \in Tables |->
                        IF t \in DOMAIN restarted THEN restarted[t] ELSE lastId[t]]
      /\ dead' = NoneDead /\ fresh' = NoneFresh /\ restarted' = NoRows
  BY <1>1 DEF Commit, Close
<1>3. \A t \in Tables : rows'[t] = Committed(t)
  BY <1>2
<1>4. \A t \in Tables : /\ DOMAIN rows'[t] = Live(t) \cup DOMAIN fresh[t]
                        /\ \A i \in DOMAIN fresh[t] : rows'[t][i] = fresh[t][i]
                        /\ \A i \in Live(t) \ DOMAIN fresh[t] : rows'[t][i] = rows[t][i]
  BY <1>3 DEF Committed
<1> QED BY <1>1, <1>2, <1>4

\* What a rollback does: the tables stay as the requests left them.
LEMMA GiveUpEffects ==
    ASSUME GivesUp
    PROVE  /\ seed = "running" /\ seed' \in Ends \ {"committed"} /\ step' = 0
           /\ dead' = NoneDead /\ fresh' = NoneFresh /\ restarted' = NoRows
           /\ UNCHANGED <<rows, lastId, handlers, history>>
BY DEF GivesUp, Fails, Rollback, Close, Ends

-------------------------------------------------------------------------------
(* Every step keeps the types.                                             *)

\* A transaction opens with nothing done.
LEMMA SeedStarts == SeedInv /\ StartSeed => SeedInv'
<1> SUFFICES ASSUME SeedInv, StartSeed PROVE SeedInv'
  OBVIOUS
<1>1. /\ seed' = "running" /\ UNCHANGED <<step, fresh, restarted>>
  BY DEF StartSeed, db
<1>2. OwnerId' = OwnerId
  BY <1>1 DEF OwnerId
<1>3. /\ UserCount' = UserCount /\ FreshUsers' = FreshUsers
      /\ RestaurantCount' = RestaurantCount /\ CommentedCount' = CommentedCount
      /\ \A r : FreshCommentsOf(r)' = FreshCommentsOf(r)
  BY <1>1 DEF UserCount, FreshUsers, RestaurantCount, CommentedCount, FreshCommentsOf
<1>4. UsersWritten'
  BY <1>1, <1>3 DEF SeedInv, UsersWritten
<1>5. RestaurantsWritten'
  BY <1>1, <1>2, <1>3 DEF SeedInv, RestaurantsWritten
<1>6. CommentsWritten'
  BY <1>1, <1>2, <1>3 DEF SeedInv, CommentsWritten
<1> QED BY <1>1, <1>4, <1>5, <1>6 DEF SeedInv

\* Every step keeps what the open transaction has written.
LEMMA NextSeedInv ==
    ASSUME TypeInv, [Next]_vars
    PROVE  SeedInv'
<1>0. SeedInv /\ HandlersInv /\ DbOK
  BY DEF TypeInv
<1>1. CASE UNCHANGED <<seed, step, fresh, restarted>>
  BY <1>0, <1>1, SeedInvKept
<1>2. CASE Quiet
  BY <1>1, <1>2 DEF Quiet, db, seeding
<1>3. CASE \E p \in Requests : Draws(p) \/ Inserts(p) \/ Deletes(p)
  <2>1. PICK p \in Requests : Draws(p) \/ Inserts(p) \/ Deletes(p)
    BY <1>3
  <2>2. CASE Draws(p)
    BY <1>1, <2>2 DEF Draws, Draw, DrawId, transaction, seeding
  <2>3. CASE Inserts(p)
    BY <1>1, <2>3 DEF Inserts, Insert, Inserted, transaction, seeding
  <2>4. CASE Deletes(p)
    BY <1>1, <2>4 DEF Deletes, DeleteComment, Removed, transaction, seeding
  <2> QED BY <2>1, <2>2, <2>3, <2>4
<1>4. CASE StartSeed
  BY <1>0, <1>4, SeedStarts
<1>5. CASE Clears
  <2>1. /\ seed = "running" /\ step \in 0..4 /\ step' = step + 1
        /\ UNCHANGED <<fresh, restarted, seed>>
    BY <1>0, <1>5, ClearEffects
  <2>2. step < Restarts /\ step < Users
    BY <2>1, Orders
  <2> QED BY <1>0, <2>1, <2>2, SeedClears
<1>6. CASE SeedRestarts
  <2>1. /\ seed = "running" /\ step \in 5..9 /\ step' = step + 1
        /\ restarted' = Put(restarted, RestartOrder[step - Restarts + 1], 0)
        /\ UNCHANGED <<fresh, seed>>
    BY <1>0, <1>6, RestartEffects
  <2>2. step >= Restarts /\ step < Users
    BY <2>1, Orders
  <2> QED BY <1>0, <2>1, <2>2, SeedClears
<1>7. CASE WritesUser
  <2>1. PICK a \in SeedUsers :
            (\A i \in DOMAIN fresh.user : fresh.user[i] # a) /\ Writes("user", 1, a)
    BY <1>7 DEF WritesUser
  <2>2. Running(Users, Restaurants) /\ InsertFresh("user", 1, a) /\ seed' = seed /\ step' = step + 1
    BY <1>7, <2>1 DEF WritesUser, Writes, Done
  <2> QED BY <1>0, <2>1, <2>2, SeedUserWritten
<1>8. CASE WritesRestaurant
  <2>1. /\ Running(Restaurants, End) /\ (step - Restaurants) % 2 = 0
        /\ InsertFresh("restaurant", 1, [ownerId |-> OwnerId])
        /\ seed' = seed /\ step' = step + 1
    BY <1>8, Zenon DEF WritesRestaurant, Writes, Done
  <2> QED BY <1>0, <2>1, SeedRestaurantWritten
<1>9. CASE WritesComments
  <2>1. /\ Running(Restaurants, End) /\ (step - Restaurants) % 2 = 1
        /\ InsertFresh("comment", SeedComments[(step - Restaurants + 1) \div 2],
                       [userId |-> OwnerId, restaurantId |-> restarted.restaurant])
        /\ seed' = seed /\ step' = step + 1
    BY <1>9, Zenon DEF WritesComments, Writes, Done
  <2> QED BY <1>0, <2>1, SeedCommentsWritten
<1>10. NoneOpen' => SeedInv'
  BY NoneOpenIsFine, PTL
<1>11. CASE SeedCommits
  BY <1>10, <1>11, CommitEffects DEF NoneOpen, Ends
<1>12. CASE GivesUp
  BY <1>10, <1>12, GiveUpEffects DEF NoneOpen
<1> QED
  BY <1>2, <1>3, <1>4, <1>5, <1>6, <1>7, <1>8, <1>9, <1>11, <1>12, StepKinds

\* The rows that the seed has written.
LEMMA FreshRows ==
    ASSUME SeedInv, NEW t \in Tables, NEW i \in DOMAIN fresh[t]
    PROVE  i \in Ids /\ fresh[t][i] \in RowType(t)
<1>1. DOMAIN fresh[t] = 1..restarted[t] /\ restarted[t] \in Nat /\ i \in Ids
  BY DEF SeedInv, Ids
<1>2. t \notin {"favourite", "reservation"} /\ step > Users /\ step \in Nat
  <2>1. ~(step <= Users \/ t \in {"favourite", "reservation"})
    BY DEF SeedInv
  <2>2. step \in Nat /\ Users = 10
    BY Counts, Orders DEF SeedInv
  <2> QED BY <2>1, <2>2
<1>3. CASE t = "user"
  <2>1. fresh.user[i] \in SeedUsers
    BY <1>3 DEF SeedInv, UsersWritten, FreshUsers
  <2> QED BY <1>1, <1>3, <2>1, SeedAssumption DEF RowType, SeedAssumption
<1>4. CASE t = "restaurant"
  <2>1. fresh.restaurant[i] = [ownerId |-> OwnerId]
    BY <1>4 DEF SeedInv, RestaurantsWritten
  <2>2. restarted.restaurant = RestaurantCount /\ restarted.restaurant > 0
    BY <1>1, <1>4 DEF SeedInv, RestaurantsWritten
  <2>3. step >= Restaurants
    BY <1>2, <2>2, Counts DEF RestaurantCount
  <2>4. OwnerId \in Ids
    BY <2>3, OwnerIsThere
  <2> QED BY <1>1, <1>4, <2>1, <2>4 DEF RowType
<1>5. CASE t = "comment"
  <2>1. PICK r \in 1..CommentedCount :
            fresh.comment[i] = [userId |-> OwnerId, restaurantId |-> r]
    BY <1>5 DEF SeedInv, CommentsWritten
  <2>2. step >= Restaurants
    <3>1. CASE step <= Restaurants
      BY <2>1, <3>1 DEF CommentedCount
    <3> QED BY <1>2, <3>1, Counts
  <2>3. OwnerId \in Ids
    BY <2>2, OwnerIsThere
  <2>4. CommentedCount \in Int
    BY <1>2, Counts DEF CommentedCount
  <2>5. r \in Ids
    BY <2>1, <2>4 DEF Ids
  <2> QED BY <1>1, <1>5, <2>1, <2>3, <2>5 DEF RowType
<1> QED BY <1>2, <1>3, <1>4, <1>5 DEF Tables

\* Every step keeps the types of the tables and of the history.
LEMMA NextDbOK ==
    ASSUME TypeInv, [Next]_vars
    PROVE  DbOK' /\ HistoryOK'
<1>0. SeedInv /\ HandlersInv /\ DbOK /\ HistoryOK
  BY DEF TypeInv
<1>1. CASE UNCHANGED <<rows, lastId, dead, history>>
  BY <1>0, <1>1 DEF DbOK, HistoryOK, history
<1>2. CASE Quiet
  BY <1>1, <1>2 DEF Quiet, db
<1>3. CASE \E p \in Requests : Draws(p) \/ Inserts(p) \/ Deletes(p)
  <2>1. PICK p \in Requests : Draws(p) \/ Inserts(p) \/ Deletes(p)
    BY <1>3
  <2>2. CASE Draws(p)
    <3> DEFINE t == TableOf(req[p].op)
    <3>1. /\ t \in Tables /\ lastId' = [lastId EXCEPT ![t] = @ + 1]
          /\ UNCHANGED <<rows, dead, history>>
      BY <1>0, <2>2, DrawTypes DEF Draws
    <3> HIDE DEF t
    <3>2. lastId' \in [Tables -> Nat]
      BY <1>0, <3>1 DEF DbOK
    <3> QED BY <1>0, <3>1, <3>2 DEF DbOK, HistoryOK, history
  <2>3. CASE Inserts(p)
    <3> DEFINE t == TableOf(req[p].op)
               row == NewRow(p)
               id == drawn[p]
    <3>0. id = drawn[p] /\ InsertDoes(p, t, id, row)
      BY <1>0, <2>3, InsertEffects
    <3> HIDE DEF t, row, id
    <3>1. /\ t \in Tables /\ row \in RowType(t) /\ id \in Ids
          /\ rows' = [u \in Tables |-> rows'[u]]
          /\ \A u \in Tables \ {t} : rows'[u] = rows[u]
          /\ DOMAIN rows'[t] = DOMAIN rows[t] \cup {id} /\ rows'[t][id] = row
          /\ \A i \in DOMAIN rows[t] : rows'[t][i] = rows[t][i]
          /\ UNCHANGED <<lastId, dead, overtaken>>
      BY <3>0 DEF InsertDoes
    <3>2. disturbed' \in BOOLEAN
      BY <2>3, Zenon DEF Inserts
    <3>3. newcomers' \subseteq newcomers \cup {id}
      BY <2>3, <3>0 DEF Inserts
    <3>4. DbOK'
      <4>1. \A u \in Tables : \A i \in DOMAIN rows'[u] : i \in Ids /\ rows'[u][i] \in RowType(u)
        BY <1>0, <3>1 DEF DbOK
      <4>2. \A u \in Tables : dead[u] \subseteq DOMAIN rows'[u]
        BY <1>0, <3>1 DEF DbOK
      <4> QED BY <1>0, <3>1, <4>1, <4>2 DEF DbOK
    <3> QED BY <1>0, <3>1, <3>2, <3>3, <3>4 DEF HistoryOK
  <2>4. CASE Deletes(p)
    <3> DEFINE id == req[p].id
    <3>1. /\ id \in Live("comment")
          /\ rows' = [u \in Tables |-> rows'[u]]
          /\ \A u \in Tables \ {"comment"} : rows'[u] = rows[u]
          /\ DOMAIN rows'["comment"] = DOMAIN rows["comment"] \ {id}
          /\ \A i \in DOMAIN rows'["comment"] : rows'["comment"][i] = rows["comment"][i]
          /\ UNCHANGED <<lastId, dead, history>>
      BY <1>0, <2>4, DeleteEffects
    <3> HIDE DEF id
    <3>2. \A u \in Tables : \A i \in DOMAIN rows'[u] : i \in Ids /\ rows'[u][i] \in RowType(u)
      BY <1>0, <3>1 DEF DbOK
    <3>3. \A u \in Tables : dead[u] \subseteq DOMAIN rows'[u]
      BY <1>0, <3>1 DEF DbOK, Live
    <3> QED BY <1>0, <3>1, <3>2, <3>3 DEF DbOK, HistoryOK, history
  <2> QED BY <2>1, <2>2, <2>3, <2>4
<1>4. CASE StartSeed
  BY <1>1, <1>4 DEF StartSeed, db
<1>5. CASE Clears
  <2> DEFINE t == DeleteOrder[step + 1]
  <2>1. /\ t \in Tables /\ dead' = [u \in Tables |-> dead'[u]] /\ dead'[t] = DOMAIN rows[t]
        /\ \A u \in Tables \ {t} : dead'[u] = dead[u]
        /\ UNCHANGED <<rows, lastId, history>>
    BY <1>0, <1>5, ClearEffects
  <2> HIDE DEF t
  <2>2. \A u \in Tables : dead'[u] \subseteq DOMAIN rows[u]
    BY <1>0, <2>1 DEF DbOK
  <2> QED BY <1>0, <2>1, <2>2 DEF DbOK, HistoryOK, history
<1>6. CASE SeedRestarts
  BY <1>0, <1>1, <1>6, RestartEffects
<1>7. CASE WritesUser \/ WritesRestaurant \/ WritesComments
  BY <1>0, <1>1, <1>7, WriteEffects
<1>8. DOMAIN dead' = Tables /\ dead' = NoneDead =>
          dead' = [u \in Tables |-> dead'[u]] /\ \A u \in Tables : dead'[u] = {}
  BY DEF NoneDead
<1>9. CASE SeedCommits
  <2>1. /\ rows' = [t \in Tables |-> Committed(t)]
        /\ \A t \in Tables : /\ DOMAIN rows'[t] = Live(t) \cup DOMAIN fresh[t]
                             /\ \A i \in DOMAIN fresh[t] : rows'[t][i] = fresh[t][i]
                             /\ \A i \in Live(t) \ DOMAIN fresh[t] : rows'[t][i] = rows[t][i]
        /\ lastId' = [t \in Tables |->
                         IF t \in DOMAIN restarted THEN restarted[t] ELSE lastId[t]]
        /\ dead' = NoneDead /\ UNCHANGED <<disturbed, newcomers>>
        /\ overtaken' = {p \in Requests : pc[p] \notin {"idle", "done"}}
    BY <1>9, CommitEffects
  <2>2. \A u \in Tables : \A i \in DOMAIN rows'[u] : i \in Ids /\ rows'[u][i] \in RowType(u)
    BY <1>0, <2>1, FreshRows DEF DbOK, Live
  <2>3. lastId' \in [Tables -> Nat]
    BY <1>0, <2>1 DEF DbOK, SeedInv
  <2>4. rows' = [u \in Tables |-> rows'[u]]
    BY <2>1
  <2>5. dead' = [u \in Tables |-> dead'[u]] /\ \A u \in Tables : dead'[u] = {}
    BY <2>1 DEF NoneDead
  <2>6. DbOK'
    BY <2>2, <2>3, <2>4, <2>5 DEF DbOK
  <2> QED BY <1>0, <2>1, <2>6 DEF HistoryOK
<1>10. CASE GivesUp
  <2>1. dead' = NoneDead /\ UNCHANGED <<rows, lastId, history>>
    BY <1>10, GiveUpEffects
  <2>2. dead' = [u \in Tables |-> dead'[u]] /\ \A u \in Tables : dead'[u] = {}
    BY <2>1 DEF NoneDead
  <2> QED BY <1>0, <2>1, <2>2 DEF DbOK, HistoryOK, history
<1> QED
  BY <1>2, <1>3, <1>4, <1>5, <1>6, <1>7, <1>9, <1>10, StepKinds

\* The types hold at the start.
LEMMA InitTypes == Init => TypeInv
<1> SUFFICES ASSUME Init PROVE TypeInv
  OBVIOUS
<1>1. SeedInv
  BY NoneOpenIsFine DEF Init, NoneOpen, NoTransaction
<1>2. /\ rows = InitialRows /\ InitialRows = [t \in Tables |-> InitialRows[t]]
      /\ lastId = InitialIds
      /\ \A t \in Tables :
             /\ DOMAIN InitialRows[t] \subseteq 1..InitialIds[t]
             /\ \A i \in DOMAIN InitialRows[t] : InitialRows[t][i] \in RowType(t)
  BY InitialAssumption DEF Init, InitialAssumption
<1>3. InitialIds \in [Tables -> Nat] /\ \A t \in Tables : IsFiniteSet(DOMAIN InitialRows[t])
  <2>1. InitialIds \in [Tables -> Nat]
    BY InitialAssumption DEF InitialAssumption
  <2>2. \A t \in Tables : IsFiniteSet(1..InitialIds[t])
    BY <2>1, FS_Interval
  <2> QED BY <1>2, <2>1, <2>2, FS_Subset
<1>4. dead = [t \in Tables |-> dead[t]] /\ \A t \in Tables : dead[t] = {}
  BY DEF Init, NoTransaction, NoneDead
<1>5. \A t \in Tables : \A i \in DOMAIN rows[t] : i \in Ids /\ rows[t][i] \in RowType(t)
  BY <1>2, <1>3 DEF Ids
<1>6. DbOK
  BY <1>2, <1>3, <1>4, <1>5 DEF DbOK
<1>7. HistoryOK
  BY DEF Init, HistoryOK
<1>8. HandlersTypeOK
  <2>1. jar \in [Clients -> Token \cup {NoToken}]
    <3>1. \A id \in DOMAIN rows.user : TokenOf(id) \in Token
      BY <1>6, UserRows DEF TokenOf, Token
    <3> QED BY <3>1, AccountsAssumption DEF Init, HandlersInit, AccountsAssumption
  <2>2. Says("pending") \in Answers
    BY SaysAnswers
  <2> QED BY <2>1, <2>2 DEF Init, HandlersInit, HandlersTypeOK
<1>9. \A p \in Requests : Fits(p)
  BY DEF Init, HandlersInit, Fits
<1> QED BY <1>1, <1>6, <1>7, <1>8, <1>9 DEF TypeInv, HandlersInv

\* Every step keeps the types.
LEMMA NextTypes == TypeInv /\ [Next]_vars => TypeInv'
BY NextSeedInv, NextDbOK, StepKinds DEF TypeInv

\* The rows, the open transaction and the handlers keep their types, whoever comes
\* and goes; in particular the transaction never takes a row that is not there, and
\* a handler that inserts has a user to do it for.
THEOREM TypeCorrect == Spec => []TypeOK
<1>1. Spec => []TypeInv
  BY InitTypes, NextTypes, PTL DEF Spec
<1>2. TypeInv => TypeOK
  <2> SUFFICES ASSUME TypeInv PROVE TypeOK
    OBVIOUS
  <2>1. SeedInv /\ HandlersInv /\ DbOK /\ HistoryOK /\ step \in Nat
    BY Counts DEF TypeInv, SeedInv
  <2>2. \A t \in Tables : \A i \in DOMAIN fresh[t] : i \in Ids /\ fresh[t][i] \in RowType(t)
    BY <2>1, FreshRows
  <2> QED BY <2>1, <2>2 DEF TypeOK, HandlersInv, DbOK, SeedInv, HistoryOK
<1> QED BY <1>1, <1>2, PTL

-------------------------------------------------------------------------------
(* Unique indexes and foreign keys.                                        *)

\* Keys are unique among the committed rows, and among those a commit would leave.
KeysInv ==
    /\ \A t \in Tables : \A i, j \in DOMAIN rows[t] :
           i # j => ~SameKey(t, rows[t][i], rows[t][j])
    /\ \A t \in Tables : \A i \in Live(t), j \in DOMAIN fresh[t] :
           i # j /\ ~SameKey(t, rows[t][i], fresh[t][j])

\* Not only the rows refer to rows: those the open transaction leaves refer to rows
\* that it leaves.
RefsInv ==
    /\ \A t \in Tables : \A i \in DOMAIN rows[t] : \A ref \in References(t, rows[t][i]) :
           ref[2] \in DOMAIN rows[ref[1]]
    /\ \A t \in Tables : \A i \in Live(t) : \A ref \in References(t, rows[t][i]) :
           ref[2] \in Live(ref[1])

\* The invariant on the tables.
DbInv == TypeInv /\ KeysInv /\ RefsInv

\* Only users and favourites have unique columns; sameness is symmetric.
LEMMA SameKeyFacts ==
    /\ \A t, a, b : SameKey(t, a, b) => SameKey(t, b, a) /\ t \in {"user", "favourite"}
    /\ \A a, b : SameKey("user", a, b) <=> a.email = b.email \/ a.username = b.username
BY DEF SameKey

\* A row refers to tables that the seed deletes later than its own.
LEMMA RefersUp ==
    ASSUME NEW t \in Tables, NEW row, NEW ref \in References(t, row)
    PROVE  /\ ref[1] \in {"user", "restaurant"} /\ ref[1] \in Tables
           /\ Turn[ref[1]] > Turn[t] /\ ref = <<ref[1], ref[2]>>
           /\ t # "user"
<1>1. t # "user"
  BY DEF References
<1>2. CASE t = "restaurant"
  BY <1>2 DEF References, Turn, Tables
<1>3. CASE t \in {"favourite", "comment", "reservation"}
  BY <1>3 DEF References, Turn, Tables
<1> QED BY <1>1, <1>2, <1>3 DEF Tables

\* What the seed writes has keys of its own, and refers to what the seed has written.
LEMMA FreshKeys ==
    ASSUME SeedInv, NEW t \in Tables, NEW i \in DOMAIN fresh[t], NEW j \in DOMAIN fresh[t], i # j
    PROVE  ~SameKey(t, fresh[t][i], fresh[t][j])
<1>1. DOMAIN fresh["favourite"] = {}
  BY DEF SeedInv, Tables
<1>2. CASE t = "user"
  <2>1. fresh.user[i] \in SeedUsers /\ fresh.user[j] \in SeedUsers /\ fresh.user[i] # fresh.user[j]
    BY <1>2 DEF SeedInv, UsersWritten, FreshUsers
  <2> QED BY <1>2, <2>1, SeedAssumption DEF SeedAssumption
<1> QED BY <1>1, <1>2, SameKeyFacts

\* The seed's rows refer to the seed's rows.
LEMMA FreshRefs ==
    ASSUME SeedInv, NEW t \in Tables, NEW i \in DOMAIN fresh[t],
           NEW ref \in References(t, fresh[t][i])
    PROVE  ref[2] \in DOMAIN fresh[ref[1]]
<1>1. t \notin {"favourite", "reservation"}
  BY DEF SeedInv
<1>2. /\ DOMAIN fresh[t] = IF t \in DOMAIN restarted THEN 1..restarted[t] ELSE {}
      /\ step \in Nat /\ Restaurants \in Nat
  BY Counts, Orders DEF SeedInv
<1>3. CASE t = "restaurant"
  <2>1. fresh.restaurant[i] = [ownerId |-> OwnerId] /\ ref = <<"user", OwnerId>>
    BY <1>3 DEF SeedInv, RestaurantsWritten, References
  <2>2. restarted.restaurant = RestaurantCount /\ RestaurantCount > 0
    BY <1>2, <1>3 DEF SeedInv, RestaurantsWritten
  <2>3. step >= Restaurants
    BY <1>2, <2>2 DEF RestaurantCount
  <2> QED BY <2>1, <2>3, OwnerIsThere
<1>4. CASE t = "comment"
  <2>1. PICK r \in 1..CommentedCount :
            fresh.comment[i] = [userId |-> OwnerId, restaurantId |-> r]
    BY <1>4 DEF SeedInv, CommentsWritten
  <2>2. ref = <<"user", OwnerId>> \/ ref = <<"restaurant", r>>
    BY <1>4, <2>1 DEF References
  <2>3. step > Restaurants
    <3>1. CASE step <= Restaurants
      BY <2>1, <3>1 DEF CommentedCount
    <3> QED BY <1>2, <3>1
  <2>4. OwnerId \in DOMAIN fresh.user
    BY <1>2, <2>3, OwnerIsThere
  <2>5. "restaurant" \in Tables /\ "restaurant" \in DOMAIN restarted
    <3>1. Restaurants >= Restarts + Turn["restaurant"]
      BY Counts, Orders DEF Tables
    <3>2. step >= Restarts + Turn["restaurant"] /\ "restaurant" \in Tables
      BY <1>2, <2>3, <3>1, Orders DEF Tables
    <3> QED BY <3>2 DEF SeedInv
  <2>6. DOMAIN fresh["restaurant"] = 1..RestaurantCount
    BY <2>5 DEF SeedInv, RestaurantsWritten
  <2>7. CommentedCount <= RestaurantCount /\ CommentedCount \in Int /\ RestaurantCount \in Int
    <3>1. PICK k \in Nat : step - Restaurants = k
      <4>1. step - Restaurants \in Nat
        BY <1>2, <2>3
      <4> QED BY <4>1
    <3>2. CommentedCount = k \div 2 /\ RestaurantCount = (k + 1) \div 2
      BY <1>2, <2>3, <3>1 DEF CommentedCount, RestaurantCount
    <3> QED BY <3>2
  <2>8. r \in 1..RestaurantCount
    BY <2>1, <2>7
  <2>9. CASE ref = <<"user", OwnerId>>
    <3>1. ref[1] = "user" /\ ref[2] = OwnerId
      BY <2>9
    <3> QED BY <2>4, <3>1
  <2>10. CASE ref = <<"restaurant", r>>
    <3>1. ref[1] = "restaurant" /\ ref[2] = r
      BY <2>10
    <3> QED BY <2>6, <2>8, <3>1
  <2> QED BY <2>2, <2>9, <2>10
<1>5. CASE t = "user"
  BY <1>5, RefersUp
<1> QED BY <1>1, <1>3, <1>4, <1>5 DEF Tables

\* The rows, those deleted and those written stay, or fewer of them do.
Shrinks ==
    \A t \in Tables :
        /\ DOMAIN rows'[t] \subseteq DOMAIN rows[t]
        /\ \A i \in DOMAIN rows'[t] : rows'[t][i] = rows[t][i]
        /\ Live(t)' \subseteq Live(t)
        /\ fresh'[t] = fresh[t]

\* Where rows only go, keys stay distinct.
LEMMA ShrinkingKeys == ASSUME KeysInv, Shrinks PROVE KeysInv'
<1>1. \A t \in Tables : \A i, j \in DOMAIN rows'[t] :
           i # j => ~SameKey(t, rows'[t][i], rows'[t][j])
  BY DEF KeysInv, Shrinks
<1>2. \A t \in Tables : \A i \in Live(t)' : i \in Live(t) /\ rows'[t][i] = rows[t][i]
  BY DEF Shrinks, Live
<1>3. \A t \in Tables : \A i \in Live(t)', j \in DOMAIN fresh'[t] :
           i # j /\ ~SameKey(t, rows'[t][i], fresh'[t][j])
  BY <1>2 DEF KeysInv, Shrinks
<1> QED BY <1>1, <1>3 DEF KeysInv

\* The steps that change neither the committed rows nor the open transaction's.
LEMMA StillShrinks ==
    ASSUME UNCHANGED <<rows, dead, fresh>>
    PROVE  Shrinks /\ \A t : Live(t)' = Live(t)
BY DEF Shrinks, Live

\* Every step keeps the unique columns distinct, committed or not.
LEMMA NextKeys ==
    ASSUME TypeInv, KeysInv, [Next]_vars
    PROVE  KeysInv'
<1>0. SeedInv /\ HandlersInv /\ DbOK
  BY DEF TypeInv
<1>1. CASE UNCHANGED <<rows, dead, fresh>>
  BY <1>1, StillShrinks, ShrinkingKeys
<1>2. CASE Quiet
  BY <1>1, <1>2 DEF Quiet, db
<1>3. ASSUME NEW p \in Requests, Draws(p) PROVE KeysInv'
  BY <1>1, <1>3 DEF Draws, Draw, DrawId, transaction
<1>4. ASSUME NEW p \in Requests, Inserts(p) PROVE KeysInv'
  <2> DEFINE t == TableOf(req[p].op)
             id == drawn[p]
             row == NewRow(p)
  <2>1. InsertDoes(p, t, id, row)
    BY <1>0, <1>4, InsertEffects
  <2> HIDE DEF t, id, row
  <2>2. /\ id \notin DOMAIN rows[t] /\ id \notin DOMAIN fresh[t] /\ t \in Tables
        /\ \A i \in DOMAIN rows[t] : ~SameKey(t, rows[t][i], row)
        /\ \A i \in DOMAIN fresh[t] : ~SameKey(t, fresh[t][i], row)
        /\ \A u \in Tables \ {t} : rows'[u] = rows[u]
        /\ DOMAIN rows'[t] = DOMAIN rows[t] \cup {id} /\ rows'[t][id] = row
        /\ \A i \in DOMAIN rows[t] : rows'[t][i] = rows[t][i]
        /\ UNCHANGED <<dead, fresh>>
    BY <2>1 DEF InsertDoes
  <2>3. /\ \A i \in DOMAIN rows[t] : ~SameKey(t, row, rows[t][i])
        /\ \A i \in DOMAIN fresh[t] : ~SameKey(t, row, fresh[t][i])
    BY <2>2, SameKeyFacts
  <2>4. \A u \in Tables : \A i, j \in DOMAIN rows'[u] :
            i # j => ~SameKey(u, rows'[u][i], rows'[u][j])
    BY <2>2, <2>3 DEF KeysInv
  <2>5. \A u \in Tables : \A i \in Live(u)' : i \in Live(u) \/ (u = t /\ i = id)
    BY <2>2 DEF Live
  <2>6. \A u \in Tables : \A i \in Live(u) : rows'[u][i] = rows[u][i]
    BY <2>2 DEF Live
  <2>7. \A u \in Tables : \A i \in Live(u)', j \in DOMAIN fresh'[u] :
            i # j /\ ~SameKey(u, rows'[u][i], fresh'[u][j])
    BY <2>2, <2>3, <2>5, <2>6 DEF KeysInv
  <2> QED BY <2>4, <2>7 DEF KeysInv
<1>5. ASSUME NEW p \in Requests, Deletes(p) PROVE KeysInv'
  <2> DEFINE id == req[p].id
  <2>1. /\ \A u \in Tables \ {"comment"} : rows'[u] = rows[u]
        /\ DOMAIN rows'["comment"] = DOMAIN rows["comment"] \ {id}
        /\ \A i \in DOMAIN rows'["comment"] : rows'["comment"][i] = rows["comment"][i]
        /\ UNCHANGED <<dead, fresh>>
    BY <1>0, <1>5, DeleteEffects
  <2> HIDE DEF id
  <2>2. Shrinks
    BY <2>1 DEF Shrinks, Live
  <2> QED BY <2>2, ShrinkingKeys
<1>6. CASE StartSeed
  BY <1>1, <1>6 DEF StartSeed, db
<1>7. CASE Clears
  <2> DEFINE t == DeleteOrder[step + 1]
  <2>1. /\ dead'[t] = DOMAIN rows[t]
        /\ \A u \in Tables \ {t} : dead'[u] = dead[u]
        /\ UNCHANGED <<rows, fresh>>
    BY <1>0, <1>7, ClearEffects
  <2> HIDE DEF t
  <2>2. Shrinks
    BY <2>1 DEF Shrinks, Live
  <2> QED BY <2>2, ShrinkingKeys
<1>8. CASE SeedRestarts
  BY <1>0, <1>1, <1>8, RestartEffects
<1>9. CASE WritesUser \/ WritesRestaurant \/ WritesComments
  <2>1. step >= Users /\ UNCHANGED <<rows, dead>>
    BY <1>0, <1>9, WriteEffects
  <2> PICK row : \E t \in Tables, n \in Nat :
          ~FreshCollides(t, n, row) /\ InsertFresh(t, n, row)
    BY <1>0, <1>9, WriteEffects
  <2>2. PICK t \in Tables, n \in Nat : ~FreshCollides(t, n, row) /\ InsertFresh(t, n, row)
    OBVIOUS
  <2>3. /\ \A u \in Tables \ {t} : fresh'[u] = fresh[u]
        /\ DOMAIN fresh'[t] = DOMAIN fresh[t] \cup NextIds(t, n)
        /\ \A i \in DOMAIN fresh[t] : fresh'[t][i] = fresh[t][i]
        /\ \A i \in NextIds(t, n) : fresh'[t][i] = row
        /\ NextIds(t, n) = (restarted[t] + 1)..(restarted[t] + n) /\ restarted[t] \in Nat
    BY <1>0, <2>1, <2>2, FreshInserted
  <2>4. NextIds(t, n) # {} => n > 0
    BY <2>3
  <2>5. \A j \in NextIds(t, n) : \A i \in Live(t) : i # j /\ ~SameKey(t, rows[t][i], row)
    BY <2>2, <2>4 DEF FreshCollides, Collides
  <2>6. \A u \in Tables : \A i \in Live(u)', j \in DOMAIN fresh'[u] :
            i # j /\ ~SameKey(u, rows'[u][i], fresh'[u][j])
    <3> SUFFICES ASSUME NEW u \in Tables, NEW i \in Live(u)', NEW j \in DOMAIN fresh'[u]
                 PROVE  i # j /\ ~SameKey(u, rows'[u][i], fresh'[u][j])
      OBVIOUS
    <3>1. i \in Live(u) /\ rows' = rows
      BY <2>1 DEF Live
    <3>2. CASE j \in DOMAIN fresh[u] /\ fresh'[u][j] = fresh[u][j]
      BY <3>1, <3>2 DEF KeysInv
    <3>3. CASE u = t /\ j \in NextIds(t, n)
      BY <2>3, <2>5, <3>1, <3>3
    <3> QED BY <2>3, <3>2, <3>3
  <2> QED BY <2>1, <2>6 DEF KeysInv
<1>10. CASE SeedCommits
  <2>1. /\ \A t \in Tables : /\ DOMAIN rows'[t] = Live(t) \cup DOMAIN fresh[t]
                             /\ \A i \in DOMAIN fresh[t] : rows'[t][i] = fresh[t][i]
                             /\ \A i \in Live(t) \ DOMAIN fresh[t] : rows'[t][i] = rows[t][i]
        /\ fresh' = NoneFresh
    BY <1>10, CommitEffects
  <2>2. \A t \in Tables : DOMAIN fresh'[t] = {}
    BY <2>1 DEF NoneFresh, NoRows
  <2>3. ASSUME NEW t \in Tables, NEW i \in DOMAIN rows'[t], NEW j \in DOMAIN rows'[t], i # j
        PROVE  ~SameKey(t, rows'[t][i], rows'[t][j])
    <3>1. CASE i \in DOMAIN fresh[t] /\ j \in DOMAIN fresh[t]
      BY <1>0, <2>1, <2>3, <3>1, FreshKeys
    <3>2. CASE i \in Live(t) \ DOMAIN fresh[t] /\ j \in DOMAIN fresh[t]
      BY <2>1, <3>2 DEF KeysInv
    <3>3. CASE i \in DOMAIN fresh[t] /\ j \in Live(t) \ DOMAIN fresh[t]
      <4>1. ~SameKey(t, rows'[t][j], rows'[t][i])
        BY <2>1, <3>3 DEF KeysInv
      <4> QED BY <4>1, SameKeyFacts
    <3>4. CASE i \in Live(t) \ DOMAIN fresh[t] /\ j \in Live(t) \ DOMAIN fresh[t]
      BY <2>1, <2>3, <3>4 DEF KeysInv, Live
    <3> QED BY <2>1, <3>1, <3>2, <3>3, <3>4
  <2> QED BY <2>2, <2>3 DEF KeysInv
<1>11. CASE GivesUp
  <2>1. fresh' = NoneFresh /\ rows' = rows
    BY <1>11, GiveUpEffects
  <2>2. \A t \in Tables : DOMAIN fresh'[t] = {}
    BY <2>1 DEF NoneFresh, NoRows
  <2> QED BY <2>1, <2>2 DEF KeysInv
<1> QED
  BY <1>2, <1>3, <1>4, <1>5, <1>6, <1>7, <1>8, <1>9, <1>10, <1>11, StepKinds

\* Every step keeps the references, and those that a commit would leave.
LEMMA NextRefs ==
    ASSUME TypeInv, RefsInv, [Next]_vars
    PROVE  RefsInv'
<1>0. SeedInv /\ HandlersInv /\ DbOK
  BY DEF TypeInv
<1>1. CASE UNCHANGED <<rows, dead>>
  BY <1>1 DEF RefsInv, Live
<1>2. CASE Quiet
  BY <1>1, <1>2 DEF Quiet, db
<1>3. ASSUME NEW p \in Requests, Draws(p) PROVE RefsInv'
  BY <1>1, <1>3 DEF Draws, Draw, DrawId, transaction
<1>4. ASSUME NEW p \in Requests, Inserts(p) PROVE RefsInv'
  <2> DEFINE t == TableOf(req[p].op)
             id == drawn[p]
             row == NewRow(p)
  <2>1. InsertDoes(p, t, id, row)
    BY <1>0, <1>4, InsertEffects
  <2> HIDE DEF t, id, row
  <2>2. /\ id \notin DOMAIN rows[t] /\ t \in Tables
        /\ \A ref \in References(t, row) : ref[2] \in Live(ref[1])
        /\ \A u \in Tables \ {t} : rows'[u] = rows[u]
        /\ DOMAIN rows'[t] = DOMAIN rows[t] \cup {id} /\ rows'[t][id] = row
        /\ \A i \in DOMAIN rows[t] : rows'[t][i] = rows[t][i]
        /\ dead' = dead
    BY <2>1 DEF InsertDoes
  <2>3. /\ \A u \in Tables : DOMAIN rows[u] \subseteq DOMAIN rows'[u]
        /\ \A u \in Tables : Live(u) \subseteq Live(u)' /\ Live(u) \subseteq DOMAIN rows'[u]
        /\ \A u \in Tables : \A i \in DOMAIN rows'[u] :
               \/ i \in DOMAIN rows[u] /\ rows'[u][i] = rows[u][i]
               \/ u = t /\ i = id
    BY <2>2 DEF Live
  <2>4. ASSUME NEW u \in Tables, NEW i \in DOMAIN rows'[u], NEW ref \in References(u, rows'[u][i])
        PROVE  /\ ref[2] \in DOMAIN rows'[ref[1]]
               /\ i \in Live(u)' => ref[2] \in Live(ref[1])'
    <3>1. ref[1] \in Tables
      BY RefersUp
    <3>2. CASE i \in DOMAIN rows[u] /\ rows'[u][i] = rows[u][i]
      <4>1. ref[2] \in DOMAIN rows[ref[1]]
        BY <3>2 DEF RefsInv
      <4>2. i \in Live(u)' => i \in Live(u)
        BY <2>2, <3>2 DEF Live
      <4>3. i \in Live(u) => ref[2] \in Live(ref[1])
        BY <3>2 DEF RefsInv
      <4> QED BY <2>3, <3>1, <4>1, <4>2, <4>3
    <3>3. CASE u = t /\ i = id
      <4>1. ref[2] \in Live(ref[1])
        BY <2>2, <3>3
      <4> QED BY <2>3, <3>1, <4>1
    <3> QED BY <2>3, <3>2, <3>3
  <2>5. \A u \in Tables : Live(u)' \subseteq DOMAIN rows'[u]
    BY DEF Live
  <2> QED BY <2>4, <2>5 DEF RefsInv
<1>5. ASSUME NEW p \in Requests, Deletes(p) PROVE RefsInv'
  <2> DEFINE id == req[p].id
  <2>1. /\ \A u \in Tables \ {"comment"} : rows'[u] = rows[u]
        /\ DOMAIN rows'["comment"] = DOMAIN rows["comment"] \ {id}
        /\ \A i \in DOMAIN rows'["comment"] : rows'["comment"][i] = rows["comment"][i]
        /\ UNCHANGED <<dead, fresh>>
    BY <1>0, <1>5, DeleteEffects
  <2> HIDE DEF id
  <2>2. /\ rows'["user"] = rows["user"] /\ rows'["restaurant"] = rows["restaurant"]
        /\ Live("user")' = Live("user") /\ Live("restaurant")' = Live("restaurant")
    BY <2>1 DEF Tables, Live
  <2>3. \A u \in Tables : /\ \A i \in DOMAIN rows'[u] : /\ i \in DOMAIN rows[u]
                                                        /\ rows'[u][i] = rows[u][i]
                          /\ Live(u)' \subseteq Live(u)
                          /\ Live(u)' \subseteq DOMAIN rows'[u]
    BY <2>1 DEF Live
  <2>4. ASSUME NEW u \in Tables, NEW i \in DOMAIN rows'[u], NEW ref \in References(u, rows'[u][i])
        PROVE  /\ ref[2] \in DOMAIN rows'[ref[1]]
               /\ i \in Live(u)' => ref[2] \in Live(ref[1])'
    <3>1. ref[1] \in {"user", "restaurant"}
      BY RefersUp
    <3>2. /\ ref[2] \in DOMAIN rows[ref[1]]
          /\ i \in Live(u) => ref[2] \in Live(ref[1])
      BY <2>3 DEF RefsInv
    <3> QED BY <2>2, <2>3, <3>1, <3>2
  <2> QED BY <2>3, <2>4 DEF RefsInv
<1>6. CASE StartSeed
  BY <1>1, <1>6 DEF StartSeed, db
<1>7. CASE Clears
  <2>1. PICK t \in Tables :
            /\ dead'[t] = DOMAIN rows[t]
            /\ \A u \in Tables \ {t} : dead'[u] = dead[u]
            /\ \A i \in Live(t) : ~Held(t, i)
            /\ rows' = rows
    BY <1>0, <1>7, ClearEffects
  <2>2. /\ Live(t)' = {} /\ \A u \in Tables \ {t} : Live(u)' = Live(u)
    BY <2>1 DEF Live
  <2>3. ASSUME NEW u \in Tables, NEW i \in Live(u)', NEW ref \in References(u, rows[u][i])
        PROVE  ref[2] \in Live(ref[1])'
    <3>1. i \in Live(u)
      BY <2>2
    <3>2. ref[2] \in Live(ref[1]) /\ ref[1] \in Tables /\ ref = <<ref[1], ref[2]>>
      BY <3>1, RefersUp DEF RefsInv
    <3>3. ref[1] # t
      <4> SUFFICES ASSUME ref[1] = t PROVE FALSE
        OBVIOUS
      <4>1. <<t, ref[2]>> \in References(u, rows[u][i])
        BY <3>2
      <4>2. Held(t, ref[2])
        BY <3>1, <4>1 DEF Held
      <4> QED BY <2>1, <3>2, <4>2
    <3> QED BY <2>2, <3>2, <3>3
  <2> QED BY <2>1, <2>3 DEF RefsInv
<1>8. CASE SeedRestarts
  BY <1>0, <1>1, <1>8, RestartEffects
<1>9. CASE WritesUser \/ WritesRestaurant \/ WritesComments
  BY <1>0, <1>1, <1>9, WriteEffects
<1>10. CASE SeedCommits
  <2>1. /\ \A t \in Tables : /\ DOMAIN rows'[t] = Live(t) \cup DOMAIN fresh[t]
                             /\ \A i \in DOMAIN fresh[t] : rows'[t][i] = fresh[t][i]
                             /\ \A i \in Live(t) \ DOMAIN fresh[t] : rows'[t][i] = rows[t][i]
        /\ dead' = NoneDead
    BY <1>10, CommitEffects
  <2>2. \A t \in Tables : Live(t)' = DOMAIN rows'[t]
    BY <2>1 DEF NoneDead, Live
  <2>3. ASSUME NEW u \in Tables, NEW i \in DOMAIN rows'[u], NEW ref \in References(u, rows'[u][i])
        PROVE  ref[2] \in DOMAIN rows'[ref[1]] /\ ref[1] \in Tables
    <3>1. ref[1] \in Tables
      BY RefersUp
    <3>2. CASE i \in DOMAIN fresh[u]
      <4>1. ref[2] \in DOMAIN fresh[ref[1]]
        BY <1>0, <2>1, <3>2, FreshRefs
      <4> QED BY <2>1, <3>1, <4>1
    <3>3. CASE i \in Live(u) \ DOMAIN fresh[u]
      <4>1. ref[2] \in Live(ref[1])
        BY <2>1, <3>3 DEF RefsInv
      <4> QED BY <2>1, <3>1, <4>1
    <3> QED BY <2>1, <3>2, <3>3
  <2> QED BY <2>2, <2>3 DEF RefsInv
<1>11. CASE GivesUp
  <2>1. dead' = NoneDead /\ rows' = rows
    BY <1>11, GiveUpEffects
  <2>2. \A t \in Tables : Live(t)' = DOMAIN rows[t]
    BY <2>1 DEF NoneDead, Live
  <2>3. \A u \in Tables : \A i \in DOMAIN rows[u] : \A ref \in References(u, rows[u][i]) :
            ref[1] \in Tables
    BY RefersUp
  <2> QED BY <2>1, <2>2, <2>3 DEF RefsInv
<1> QED
  BY <1>2, <1>3, <1>4, <1>5, <1>6, <1>7, <1>8, <1>9, <1>10, <1>11, StepKinds

\* Keys and references hold at the start.
LEMMA InitDb == Init => DbInv
<1> SUFFICES ASSUME Init PROVE DbInv
  OBVIOUS
<1>1. /\ rows = InitialRows /\ \A t \in Tables : dead[t] = {} /\ DOMAIN fresh[t] = {}
  BY DEF Init, NoTransaction, NoneDead, NoneFresh, NoRows
<1>2. \A t \in Tables : Live(t) = DOMAIN rows[t]
  BY <1>1 DEF Live
<1>3. KeysInv
  BY <1>1, InitialAssumption DEF KeysInv, InitialAssumption
<1>4. \A t \in Tables : \A i \in DOMAIN rows[t] : \A ref \in References(t, rows[t][i]) :
          ref[2] \in DOMAIN rows[ref[1]] /\ ref[1] \in Tables
  BY <1>1, InitialAssumption, RefersUp DEF InitialAssumption
<1>5. RefsInv
  BY <1>2, <1>4 DEF RefsInv
<1> QED BY <1>3, <1>5, InitTypes DEF DbInv

\* Every step keeps keys and references.
LEMMA NextDb == DbInv /\ [Next]_vars => DbInv'
BY NextTypes, NextKeys, NextRefs DEF DbInv

\* Keys and references hold always.
LEMMA DbInvariant == Spec => []DbInv
BY InitDb, NextDb, PTL DEF Spec

\* No two accounts share an email or a username, whatever registrations of one name
\* hash at once and whatever accounts the seed deletes and creates meanwhile.
THEOREM AccountsDiffer == Spec => []AccountsAreDistinct
<1>1. DbInv => AccountsAreDistinct
  <2> SUFFICES ASSUME DbInv, NEW i \in DOMAIN rows.user, NEW j \in DOMAIN rows.user, i # j
               PROVE  /\ rows.user[i].email # rows.user[j].email
                      /\ rows.user[i].username # rows.user[j].username
    BY DEF AccountsAreDistinct
  <2>1. ~SameKey("user", rows.user[i], rows.user[j])
    BY DEF DbInv, KeysInv, Tables
  <2> QED BY <2>1, SameKeyFacts
<1> QED BY <1>1, DbInvariant, PTL

\* Whatever a row refers to exists, though handlers insert for users and restaurants
\* that the seed deletes at the same time.
THEOREM SeedReferencesHold == Spec => []ReferencesHold
<1>1. DbInv => ReferencesHold
  <2> SUFFICES ASSUME DbInv PROVE ReferencesHold
    OBVIOUS
  <2>1. \A t \in Tables : \A i \in DOMAIN rows[t] : \A ref \in References(t, rows[t][i]) :
           ref[2] \in DOMAIN rows[ref[1]]
    BY DEF DbInv, RefsInv
  <2>2. ASSUME NEW r \in DOMAIN rows.restaurant
        PROVE  rows.restaurant[r].ownerId \in DOMAIN rows.user
    <3> DEFINE ref == <<"user", rows.restaurant[r].ownerId>>
    <3>1. ref \in References("restaurant", rows.restaurant[r]) /\ "restaurant" \in Tables
      BY DEF References, Tables
    <3>2. ref[2] \in DOMAIN rows[ref[1]]
      BY <2>1, <3>1
    <3> QED BY <3>2
  <2>3. ASSUME NEW t \in {"favourite", "comment", "reservation"}, NEW i \in DOMAIN rows[t]
        PROVE  /\ rows[t][i].userId \in DOMAIN rows.user
               /\ rows[t][i].restaurantId \in DOMAIN rows.restaurant
    <3> DEFINE user_ == <<"user", rows[t][i].userId>>
               place == <<"restaurant", rows[t][i].restaurantId>>
    <3>1. t \in Tables /\ user_ \in References(t, rows[t][i]) /\ place \in References(t, rows[t][i])
      BY DEF References, Tables
    <3>2. user_[2] \in DOMAIN rows[user_[1]] /\ place[2] \in DOMAIN rows[place[1]]
      BY <2>1, <3>1
    <3> QED BY <3>2
  <2> QED BY <2>2, <2>3 DEF ReferencesHold
<1> QED BY <1>1, DbInvariant, PTL

-------------------------------------------------------------------------------
(* What is in the way of the seed.                                         *)

\* A seed that nobody disturbs finds the tables empty that it has deleted.
UndisturbedInv ==
    /\ seed = "refused" => disturbed
    /\ seed = "running" /\ ~disturbed => \A t \in Tables : Turn[t] <= step => Live(t) = {}

\* What makes a statement of the seed fail is a row that a request wrote beside it.
LEMMA NothingInTheWay ==
    ASSUME TypeInv, UndisturbedInv, seed = "running", Obstacle
    PROVE  disturbed
<1> SUFFICES ASSUME ~disturbed PROVE FALSE
  OBVIOUS
<1>1. \A t \in Tables : Turn[t] <= step => Live(t) = {}
  BY DEF UndisturbedInv
<1>2. step \in Nat
  BY Counts DEF TypeInv, SeedInv
<1>3. CASE /\ Running(0, Restarts)
           /\ \E i \in Live(DeleteOrder[step + 1]) : Held(DeleteOrder[step + 1], i)
  <2>1. step \in 0..4
    BY <1>3, Orders DEF Running
  <2>2. PICK t \in Tables : t = DeleteOrder[step + 1] /\ Turn[t] = step + 1
    BY <2>1, Orders
  <2>3. PICK i \in Live(t), u \in Tables :
            \E j \in Live(u) : <<t, i>> \in References(u, rows[u][j])
    BY <1>3, <2>2 DEF Held
  <2>4. Turn[t] > Turn[u] /\ Turn[u] \in 1..5
    <3>1. <<t, i>>[1] = t
      OBVIOUS
    <3> QED BY <2>3, <3>1, RefersUp, Orders
  <2> QED BY <1>1, <1>2, <2>2, <2>3, <2>4
<1>4. CASE step >= Users /\ \E t \in Tables : Live(t) # {}
  <2>1. \A t \in Tables : Turn[t] <= step
    BY <1>2, <1>4, Orders
  <2> QED BY <1>1, <1>4, <2>1
<1> QED BY <1>3, <1>4 DEF Obstacle

\* Every step keeps the tables empty for an undisturbed seed.
LEMMA NextUndisturbed ==
    ASSUME TypeInv, UndisturbedInv, [Next]_vars
    PROVE  UndisturbedInv'
<1>0. SeedInv /\ HandlersInv /\ DbOK
  BY DEF TypeInv
<1>1. CASE UNCHANGED <<rows, dead, seed, step, disturbed>>
  BY <1>1 DEF UndisturbedInv, Live
<1>2. CASE Quiet
  BY <1>1, <1>2 DEF Quiet, db, seeding, history
<1>3. ASSUME NEW p \in Requests, Draws(p) PROVE UndisturbedInv'
  BY <1>1, <1>3 DEF Draws, Draw, DrawId, transaction, seeding, history
<1>4. ASSUME NEW p \in Requests, Inserts(p) PROVE UndisturbedInv'
  <2>1. rows' # rows /\ seed' = seed
    BY <1>0, <1>4, InsertEffects DEF InsertDoes
  <2>2. disturbed' = (disturbed \/ (seed = "running" /\ rows' # rows))
    BY <1>4 DEF Inserts
  <2> QED BY <2>1, <2>2 DEF UndisturbedInv
<1>5. ASSUME NEW p \in Requests, Deletes(p) PROVE UndisturbedInv'
  <2> DEFINE id == req[p].id
  <2>1. /\ \A u \in Tables \ {"comment"} : rows'[u] = rows[u]
        /\ DOMAIN rows'["comment"] = DOMAIN rows["comment"] \ {id}
        /\ UNCHANGED <<dead, seed, step, disturbed>>
    BY <1>0, <1>5, DeleteEffects DEF seeding, history
  <2> HIDE DEF id
  <2>2. \A u \in Tables : Live(u)' \subseteq Live(u)
    BY <2>1 DEF Live
  <2> QED BY <2>1, <2>2 DEF UndisturbedInv
<1>6. CASE StartSeed
  <2>1. step' = 0 /\ seed' = "running"
    BY <1>0, <1>6 DEF StartSeed, SeedInv
  <2> QED BY <2>1, Orders DEF UndisturbedInv
<1>7. CASE Clears
  <2>1. PICK t \in Tables :
            /\ Turn[t] = step + 1 /\ dead'[t] = DOMAIN rows[t]
            /\ \A u \in Tables \ {t} : dead'[u] = dead[u]
            /\ UNCHANGED <<rows, seed, disturbed>> /\ seed = "running"
            /\ step \in 0..4 /\ step' = step + 1
    BY <1>0, <1>7, ClearEffects DEF history
  <2>2. /\ Live(t)' = {} /\ \A u \in Tables \ {t} : Live(u)' = Live(u)
    BY <2>1 DEF Live
  <2>3. \A u \in Tables : Turn[u] <= step + 1 => u = t \/ Turn[u] <= step
    BY <2>1, Orders
  <2> QED BY <2>1, <2>2, <2>3 DEF UndisturbedInv
<1>8. CASE SeedRestarts \/ WritesUser \/ WritesRestaurant \/ WritesComments
  <2>1. step' = step + 1 /\ step \in Nat /\ step >= 5 /\ seed = "running"
        /\ UNCHANGED <<rows, dead, seed, disturbed>>
    <3>1. CASE SeedRestarts
      BY <1>0, <3>1, RestartEffects DEF history
    <3>2. CASE WritesUser \/ WritesRestaurant \/ WritesComments
      <4>1. step \in Nat
        BY <1>0, Counts DEF SeedInv
      <4> QED BY <1>0, <3>2, <4>1, WriteEffects, Orders DEF history
    <3> QED BY <1>8, <3>1, <3>2
  <2>2. \A t \in Tables : Turn[t] <= step
    BY <2>1, Orders
  <2>3. \A t \in Tables : Live(t)' = Live(t)
    BY <2>1 DEF Live
  <2> QED BY <2>1, <2>2, <2>3 DEF UndisturbedInv
<1>9. CASE SeedCommits
  BY <1>9, CommitEffects DEF UndisturbedInv
<1>10. CASE GivesUp
  <2>1. seed' # "running" /\ seed = "running" /\ disturbed' = disturbed
    BY <1>10, GiveUpEffects DEF history, Ends
  <2>2. seed' = "refused" => Obstacle
    BY <1>10 DEF GivesUp, Fails
  <2>3. seed' = "refused" => disturbed
    BY <2>1, <2>2, NothingInTheWay
  <2> QED BY <2>1, <2>3 DEF UndisturbedInv
<1> QED
  BY <1>2, <1>3, <1>4, <1>5, <1>6, <1>7, <1>8, <1>9, <1>10, StepKinds

\* The seed stops at a constraint only because a request wrote while it ran: left to
\* itself it deletes in an order the foreign keys allow, and none of the rows it
\* writes is in the way of another.
THEOREM RefusalsAreDisturbed == Spec => []RefusedOnlyIfDisturbed
<1>1. Init => UndisturbedInv
  BY DEF Init, UndisturbedInv
<1>2. TypeInv /\ UndisturbedInv /\ [Next]_vars => UndisturbedInv'
  BY NextUndisturbed
<1>3. UndisturbedInv => RefusedOnlyIfDisturbed
  BY DEF UndisturbedInv, RefusedOnlyIfDisturbed
<1> QED BY <1>1, <1>2, <1>3, InitTypes, NextTypes, PTL DEF Spec

-------------------------------------------------------------------------------
(* The numbers that the tables give out.                                   *)

\* A handler that inserts holds a number that its table has given, to nobody else
\* who has not used it, and that no row has but those of newcomers.
NumberOK(p) ==
    LET t == TableOf(req[p].op) IN
    pc[p] = "insert" =>
        /\ t \notin DOMAIN restarted
        /\ drawn[p] <= lastId[t]
        /\ \A q \in Requests \ {p} :
               pc[q] = "insert" /\ TableOf(req[q].op) = t => drawn[q] # drawn[p]
        /\ drawn[p] \in DOMAIN rows[t] => drawn[p] \in Theirs(t)

\* From the deletion of the users on, those the transaction leaves are the newcomers.
NewcomersOK ==
    /\ seed = "idle" => newcomers = {}
    /\ seed = "running" =>
           newcomers = IF step < Restarts THEN {} ELSE Live("user")

NumbersInv == NewcomersOK /\ FreshIdsAreFree /\ \A p \in Requests : NumberOK(p)

\* A newcomer's row stays a newcomer's row.
LEMMA TheirsStay ==
    ASSUME NEW t \in Tables, NEW i, i \in Theirs(t), i \in DOMAIN rows'[t],
           rows'[t][i] = rows[t][i], newcomers \subseteq newcomers'
    PROVE  i \in Theirs(t)'
<1>1. CASE t = "user"
  BY <1>1 DEF Theirs
<1>2. CASE t = "restaurant"
  BY <1>2 DEF Theirs
<1>3. CASE t \in {"favourite", "comment", "reservation"}
  BY <1>3 DEF Theirs
<1> QED BY <1>1, <1>2, <1>3 DEF Tables

\* Rows and newcomers as they were, numbers given as they were or higher.
LEMMA NumbersKept ==
    ASSUME NumbersInv, DbOK, newcomers \subseteq newcomers',
           \A t \in Tables : \A i \in DOMAIN rows'[t] :
               i \in DOMAIN rows[t] /\ rows'[t][i] = rows[t][i],
           lastId' = lastId
    PROVE  /\ FreshIdsAreFree'
           /\ \A t \in Tables : \A i \in DOMAIN rows'[t] : i \in Theirs(t) => i \in Theirs(t)'
<1>1. \A t \in Tables : \A i \in DOMAIN rows'[t] : i \in Theirs(t) => i \in Theirs(t)'
  BY TheirsStay
<1>2. ASSUME NEW t \in Tables, NEW i \in DOMAIN rows'[t], i \notin Theirs(t)'
      PROVE  i <= lastId[t]
  <2>1. i \in DOMAIN rows[t] /\ i \notin Theirs(t)
    BY <1>1, <1>2
  <2> QED BY <2>1 DEF NumbersInv, FreshIdsAreFree, Others
<1> QED BY <1>1, <1>2 DEF FreshIdsAreFree, Others

\* The requests that come to no INSERT they were not at.
LEMMA NumberKept ==
    ASSUME HandlersInv, NEW p \in Requests, NumberOK(p),
           \A q \in Requests :
               pc'[q] = "insert" =>
                   pc[q] = "insert" /\ req'[q] = req[q] /\ drawn'[q] = drawn[q],
           lastId' = lastId,
           pc'[p] = "insert" => TableOf(req[p].op) \notin DOMAIN restarted',
           \A t \in Tables : \A i \in DOMAIN rows'[t] : i \in DOMAIN rows[t],
           \A t \in Tables : \A i \in DOMAIN rows'[t] : i \in Theirs(t) => i \in Theirs(t)'
    PROVE  NumberOK(p)'
<1> SUFFICES ASSUME pc'[p] = "insert" PROVE NumberOK(p)'
  BY DEF NumberOK
<1>1. PICK t \in Tables : t = TableOf(req[p].op)
  BY NewRowTypes
<1>2. pc[p] = "insert" /\ req'[p] = req[p] /\ drawn'[p] = drawn[p] /\ TableOf(req'[p].op) = t
  BY <1>1
<1>3. \A q \in Requests : pc'[q] = "insert" /\ TableOf(req'[q].op) = t =>
          pc[q] = "insert" /\ TableOf(req[q].op) = t /\ drawn'[q] = drawn[q]
  OBVIOUS
<1>4. /\ drawn[p] <= lastId[t]
      /\ \A q \in Requests \ {p} :
             pc[q] = "insert" /\ TableOf(req[q].op) = t => drawn[q] # drawn[p]
      /\ drawn[p] \in DOMAIN rows[t] => drawn[p] \in Theirs(t)
  BY <1>1, <1>2 DEF NumberOK
<1>5. \A q \in Requests \ {p} :
          pc'[q] = "insert" /\ TableOf(req'[q].op) = t => drawn'[q] # drawn'[p]
  BY <1>2, <1>3, <1>4
<1>6. drawn'[p] \in DOMAIN rows'[t] => drawn'[p] \in Theirs(t)'
  BY <1>2, <1>4
<1> QED BY <1>1, <1>2, <1>4, <1>5, <1>6 DEF NumberOK

\* A step that leaves the committed rows, their numbers and the newcomers alone.
LEMMA NumbersStay ==
    ASSUME NumbersInv, DbOK, HandlersInv, NewcomersOK', UNCHANGED <<rows, lastId, newcomers>>,
           \A q \in Requests :
               pc'[q] = "insert" =>
                   /\ pc[q] = "insert" /\ req'[q] = req[q] /\ drawn'[q] = drawn[q]
                   /\ TableOf(req[q].op) \notin DOMAIN restarted'
    PROVE  NumbersInv'
<1>1. /\ FreshIdsAreFree'
      /\ \A t \in Tables : \A i \in DOMAIN rows'[t] : i \in Theirs(t) => i \in Theirs(t)'
  BY NumbersKept
<1>2. \A p \in Requests : NumberOK(p)'
  BY <1>1, NumberKept DEF NumbersInv
<1> QED BY <1>1, <1>2 DEF NumbersInv

\* What the transaction leaves once the users are deleted is the newcomers'.
LEMMA RestIsTheirs ==
    ASSUME DbOK, RefsInv, NewcomersOK, seed = "running", ~(step < Restarts),
           NEW t \in Tables, NEW i \in Live(t)
    PROVE  i \in Theirs(t)
<1>1. newcomers = Live("user") /\ i \in DOMAIN rows[t]
  BY DEF NewcomersOK, Live
<1>2. CASE t = "user"
  BY <1>1, <1>2 DEF Theirs
<1>3. CASE t = "restaurant"
  <2> DEFINE ref == <<"user", rows[t][i].ownerId>>
  <2>1. ref \in References(t, rows[t][i])
    BY <1>3 DEF References
  <2>2. ref[2] \in Live(ref[1])
    BY <2>1 DEF RefsInv
  <2>3. rows[t][i].ownerId \in newcomers
    BY <1>1, <2>2
  <2> QED BY <1>1, <1>3, <2>3 DEF Theirs
<1>4. CASE t \in {"favourite", "comment", "reservation"}
  <2> DEFINE ref == <<"user", rows[t][i].userId>>
  <2>1. ref \in References(t, rows[t][i])
    BY <1>4 DEF References
  <2>2. ref[2] \in Live(ref[1])
    BY <2>1 DEF RefsInv
  <2>3. rows[t][i].userId \in newcomers
    BY <1>1, <2>2
  <2> QED BY <1>1, <1>4, <2>3 DEF Theirs
<1> QED BY <1>2, <1>3, <1>4 DEF Tables

\* Once every sequence is restarted nobody has a number that is not used.
LEMMA NobodyInserts ==
    ASSUME TypeInv, step >= Users, NEW p \in Requests, NumberOK(p)
    PROVE  pc[p] # "insert"
<1> SUFFICES ASSUME pc[p] = "insert" PROVE FALSE
  OBVIOUS
<1>1. PICK t \in Tables : t = TableOf(req[p].op)
  BY NewRowTypes DEF TypeInv
<1>2. t \notin DOMAIN restarted
  BY <1>1 DEF NumberOK
<1>3. step \in Nat
  BY Counts DEF TypeInv, SeedInv
<1>4. step >= Restarts + Turn[t]
  BY <1>3, Orders
<1> QED BY <1>2, <1>4 DEF TypeInv, SeedInv

\* A number that is drawn is nobody's, unless it is a newcomer's.
LEMMA DrawsNumbers ==
    ASSUME TypeInv, NumbersInv, NEW p \in Requests, Draws(p), HandlersInv'
    PROVE  NumbersInv'
<1>1. PICK t \in Tables : t = TableOf(req[p].op)
  BY DrawTypes DEF TypeInv, Draws
<1>2. /\ Alone(p) /\ pc[p] = "draw" /\ pc'[p] = "insert" /\ req' = req
      /\ drawn'[p] = lastId[t] + 1 /\ lastId' = [lastId EXCEPT ![t] = @ + 1]
      /\ t \notin DOMAIN restarted
      /\ UNCHANGED <<rows, dead, fresh, restarted>>
      /\ UNCHANGED <<seed, step, disturbed, newcomers, overtaken>>
  BY <1>1, DrawTypes DEF TypeInv, Draws, seeding, history
<1>3. lastId \in [Tables -> Nat] /\ \A u \in Tables : \A i \in DOMAIN rows[u] : i \in Nat
  BY DEF TypeInv, DbOK, Ids
<1>4. /\ lastId'[t] = lastId[t] + 1 /\ lastId[t] \in Nat
      /\ \A u \in Tables : lastId[u] <= lastId'[u] /\ lastId[u] \in Nat /\ lastId'[u] \in Nat
  BY <1>2, <1>3
<1>5. \A u : Theirs(u)' = Theirs(u)
  BY <1>2 DEF Theirs
<1>6. NewcomersOK'
  BY <1>2 DEF NumbersInv, NewcomersOK, Live
<1>7. FreshIdsAreFree'
  <2> SUFFICES ASSUME NEW u \in Tables, NEW i \in Others(u)' PROVE i <= lastId'[u]
    BY DEF FreshIdsAreFree
  <2>1. i \in Others(u) /\ i \in Nat
    BY <1>2, <1>3, <1>5 DEF Others
  <2>2. i <= lastId[u]
    BY <2>1 DEF NumbersInv, FreshIdsAreFree
  <2> QED BY <1>4, <2>1, <2>2
<1>8. \A q \in Requests : drawn[q] \in Nat /\ NumberOK(q)
  BY DEF TypeInv, HandlersInv, HandlersTypeOK, NumbersInv
<1>9. \A q \in Requests \ {p} : pc[q] = "insert" /\ TableOf(req[q].op) = t => drawn[q] <= lastId[t]
  BY <1>8 DEF NumberOK
<1>10. \A q \in Requests \ {p} : pc'[q] = pc[q] /\ drawn'[q] = drawn[q]
  BY <1>2 DEF Alone
<1>11. NumberOK(p)'
  <2>1. \A q \in Requests \ {p} :
            pc'[q] = "insert" /\ TableOf(req'[q].op) = t => drawn'[q] # drawn'[p]
    BY <1>2, <1>4, <1>8, <1>9, <1>10
  <2>2. drawn'[p] \in DOMAIN rows'[t] => drawn'[p] \in Theirs(t)'
    <3>1. drawn'[p] \notin Others(t)
      BY <1>2, <1>4 DEF NumbersInv, FreshIdsAreFree
    <3> QED BY <1>2, <1>5, <3>1 DEF Others
  <2>3. drawn'[p] <= lastId'[t] /\ t = TableOf(req'[p].op)
    BY <1>1, <1>2, <1>4
  <2> QED BY <1>2, <2>1, <2>2, <2>3 DEF NumberOK
<1>12. ASSUME NEW q \in Requests \ {p} PROVE NumberOK(q)'
  <2> SUFFICES ASSUME pc[q] = "insert" PROVE NumberOK(q)'
    BY <1>10 DEF NumberOK
  <2>1. PICK u \in Tables : u = TableOf(req[q].op)
    BY NewRowTypes DEF TypeInv
  <2>2. /\ u \notin DOMAIN restarted /\ drawn[q] <= lastId[u]
        /\ \A r \in Requests \ {q} :
               pc[r] = "insert" /\ TableOf(req[r].op) = u => drawn[r] # drawn[q]
        /\ drawn[q] \in DOMAIN rows[u] => drawn[q] \in Theirs(u)
    BY <1>8, <2>1 DEF NumberOK
  <2>3. u = t => drawn'[p] # drawn[q]
    BY <1>2, <1>4, <1>8, <2>2
  <2>4. \A r \in Requests \ {q} :
            pc'[r] = "insert" /\ TableOf(req'[r].op) = u => drawn'[r] # drawn'[q]
    BY <1>1, <1>2, <1>10, <2>2, <2>3
  <2>5. drawn'[q] <= lastId'[u] /\ u = TableOf(req'[q].op)
    BY <1>2, <1>4, <1>8, <1>10, <2>1, <2>2
  <2> QED BY <1>2, <1>5, <1>10, <2>2, <2>4, <2>5 DEF NumberOK
<1> QED BY <1>6, <1>7, <1>11, <1>12 DEF NumbersInv

\* A row that is inserted has the number its handler holds.
LEMMA InsertsNumbers ==
    ASSUME TypeInv, NumbersInv, NEW p \in Requests, Inserts(p)
    PROVE  NumbersInv'
<1> DEFINE t == TableOf(req[p].op)
           id == drawn[p]
           row == NewRow(p)
<1>0. SeedInv /\ HandlersInv /\ DbOK
  BY DEF TypeInv
<1>1. InsertDoes(p, t, id, row) /\ id = drawn[p] /\ t = TableOf(req[p].op)
  BY <1>0, InsertEffects
<1>2. t = "user" <=> req[p].op = "register"
  BY <1>1 DEF InsertDoes, TableOf, Creates
<1> HIDE DEF t, id, row
<1>3. /\ pc[p] = "insert" /\ pc'[p] = "done" /\ req' = req /\ drawn' = drawn
      /\ \A q \in Requests \ {p} : pc'[q] = pc[q]
      /\ t \in Tables /\ id \notin DOMAIN rows[t]
      /\ \A u \in Tables \ {t} : rows'[u] = rows[u]
      /\ DOMAIN rows'[t] = DOMAIN rows[t] \cup {id} /\ rows'[t][id] = row
      /\ \A i \in DOMAIN rows[t] : rows'[t][i] = rows[t][i]
      /\ rows' # rows
      /\ UNCHANGED <<lastId, dead, restarted, seed, step>>
  BY <1>1 DEF InsertDoes
<1>4. newcomers' = IF Running(Restarts, End + 1) /\ t = "user" THEN newcomers \cup {id} ELSE newcomers
  BY <1>1, <1>2, <1>3 DEF Inserts
<1>5. NewcomersOK'
  <2>1. step \in 0..End /\ End \in Nat /\ Restarts = 5
    BY <1>0, Counts, Orders DEF SeedInv
  <2>2. Running(Restarts, End + 1) <=> seed = "running" /\ ~(step < Restarts)
    BY <2>1 DEF Running
  <2>3. Live("user")' = IF t = "user" THEN Live("user") \cup {id} ELSE Live("user")
    <3>1. "user" \in Tables /\ dead[t] \subseteq DOMAIN rows[t]
      BY <1>0, <1>3 DEF Tables, DbOK
    <3>2. CASE t = "user"
      BY <1>3, <3>1, <3>2 DEF Live
    <3>3. CASE t # "user"
      BY <1>3, <3>1, <3>3 DEF Live
    <3> QED BY <3>2, <3>3
  <2> QED BY <1>3, <1>4, <2>2, <2>3 DEF NumbersInv, NewcomersOK
<1>6. \A u \in Tables : \A i \in DOMAIN rows'[u] :
          \/ i \in DOMAIN rows[u] /\ rows'[u][i] = rows[u][i]
          \/ u = t /\ i = id
  BY <1>3
<1>7. \A u \in Tables : \A i \in DOMAIN rows[u] : i \in Theirs(u) => i \in Theirs(u)'
  <2>1. newcomers \subseteq newcomers'
    BY <1>4
  <2>2. \A u \in Tables : \A i \in DOMAIN rows[u] : i \in DOMAIN rows'[u] /\ rows'[u][i] = rows[u][i]
    BY <1>3
  <2> QED BY <2>1, <2>2, TheirsStay
<1>8. /\ t \notin DOMAIN restarted /\ id <= lastId[t]
      /\ \A q \in Requests \ {p} :
             pc[q] = "insert" /\ TableOf(req[q].op) = t => drawn[q] # id
  BY <1>1, <1>3 DEF NumbersInv, NumberOK
<1>9. FreshIdsAreFree'
  <2> SUFFICES ASSUME NEW u \in Tables, NEW i \in DOMAIN rows'[u], i \notin Theirs(u)'
               PROVE  i <= lastId[u]
    BY <1>3 DEF FreshIdsAreFree, Others
  <2>1. CASE i \in DOMAIN rows[u]
    BY <1>7, <2>1 DEF NumbersInv, FreshIdsAreFree, Others
  <2> QED BY <1>6, <1>8, <2>1
<1>10. ASSUME NEW q \in Requests PROVE NumberOK(q)'
  <2> SUFFICES ASSUME pc'[q] = "insert" PROVE NumberOK(q)'
    BY DEF NumberOK
  <2>1. q # p /\ pc[q] = "insert"
    BY <1>3
  <2>2. PICK u \in Tables : u = TableOf(req[q].op)
    BY <1>0, <2>1, NewRowTypes
  <2>3. /\ u \notin DOMAIN restarted /\ drawn[q] <= lastId[u]
        /\ \A r \in Requests \ {q} :
               pc[r] = "insert" /\ TableOf(req[r].op) = u => drawn[r] # drawn[q]
        /\ drawn[q] \in DOMAIN rows[u] => drawn[q] \in Theirs(u)
    BY <2>1, <2>2 DEF NumbersInv, NumberOK
  <2>4. drawn[q] \in DOMAIN rows'[u] => drawn[q] \in Theirs(u)'
    BY <1>6, <1>7, <1>8, <2>1, <2>2, <2>3
  <2>5. \A r \in Requests \ {q} :
            pc'[r] = "insert" /\ TableOf(req'[r].op) = u => drawn'[r] # drawn'[q]
    BY <1>3, <2>3
  <2>6. u = TableOf(req'[q].op) /\ drawn'[q] = drawn[q]
    BY <1>3, <2>2
  <2> QED BY <1>3, <2>2, <2>3, <2>4, <2>5, <2>6 DEF NumberOK
<1> QED BY <1>5, <1>9, <1>10 DEF NumbersInv

\* Every step keeps the numbers of rows, sequences and handlers apart.
LEMMA NextNumbers ==
    ASSUME TypeInv, RefsInv, NumbersInv, [Next]_vars
    PROVE  NumbersInv'
<1>0. SeedInv /\ HandlersInv /\ DbOK /\ HandlersInv'
  BY StepKinds DEF TypeInv
<1>1. \A q \in Requests : pc[q] = "insert" => TableOf(req[q].op) \notin DOMAIN restarted
  BY DEF NumbersInv, NumberOK
<1>2. CASE Quiet
  <2>1. UNCHANGED <<rows, lastId, dead, restarted, newcomers, seed, step>>
    BY <1>2 DEF Quiet, db, seeding, history
  <2>2. NewcomersOK'
    BY <2>1 DEF NumbersInv, NewcomersOK, Live
  <2>3. \A q \in Requests :
            pc'[q] = "insert" => pc[q] = "insert" /\ req'[q] = req[q] /\ drawn'[q] = drawn[q]
    BY <1>2 DEF Quiet
  <2> QED BY <1>0, <1>1, <2>1, <2>2, <2>3, NumbersStay
<1>3. ASSUME NEW p \in Requests, Draws(p) PROVE NumbersInv'
  BY <1>0, <1>3, DrawsNumbers
<1>4. ASSUME NEW p \in Requests, Inserts(p) PROVE NumbersInv'
  BY <1>4, InsertsNumbers
<1>5. ASSUME NEW p \in Requests, Deletes(p) PROVE NumbersInv'
  <2>1. /\ pc'[p] = "done" /\ req' = req /\ drawn' = drawn
        /\ \A q \in Requests \ {p} : pc'[q] = pc[q]
        /\ \A u \in Tables \ {"comment"} : rows'[u] = rows[u]
        /\ \A i \in DOMAIN rows'["comment"] :
               i \in DOMAIN rows["comment"] /\ rows'["comment"][i] = rows["comment"][i]
        /\ UNCHANGED <<lastId, dead, restarted, seed, step, newcomers>>
    BY <1>0, <1>5, DeleteEffects DEF seeding, history
  <2>2. NewcomersOK'
    BY <2>1 DEF NumbersInv, NewcomersOK, Live, Tables
  <2>3. \A u \in Tables : \A i \in DOMAIN rows'[u] : i \in DOMAIN rows[u] /\ rows'[u][i] = rows[u][i]
    BY <2>1
  <2>4. /\ FreshIdsAreFree'
        /\ \A u \in Tables : \A i \in DOMAIN rows'[u] : i \in Theirs(u) => i \in Theirs(u)'
    BY <1>0, <2>1, <2>3, NumbersKept
  <2>5. \A q \in Requests :
            pc'[q] = "insert" => pc[q] = "insert" /\ req'[q] = req[q] /\ drawn'[q] = drawn[q]
    BY <2>1
  <2>6. \A q \in Requests : pc'[q] = "insert" => TableOf(req[q].op) \notin DOMAIN restarted'
    BY <1>1, <2>1, <2>5
  <2>7. ASSUME NEW q \in Requests PROVE NumberOK(q)'
    <3>1. NumberOK(q)
      BY DEF NumbersInv
    <3> QED BY <1>0, <2>1, <2>3, <2>4, <2>5, <2>6, <3>1, NumberKept
  <2> QED BY <2>2, <2>4, <2>7 DEF NumbersInv
<1>6. ASSUME UNCHANGED <<rows, lastId, newcomers, handlers>>, NewcomersOK',
             \A q \in Requests : pc[q] = "insert" => TableOf(req[q].op) \notin DOMAIN restarted'
      PROVE  NumbersInv'
  <2>1. pc' = pc /\ req' = req /\ drawn' = drawn
    BY <1>6 DEF handlers
  <2> QED BY <1>0, <1>6, <2>1, NumbersStay
<1>7. CASE StartSeed /\ UNCHANGED handlers
  <2>1. step' = 0 /\ seed = "idle" /\ seed' = "running"
        /\ UNCHANGED <<rows, lastId, restarted, newcomers>>
    BY <1>0, <1>7 DEF StartSeed, SeedInv, db, history
  <2>2. NewcomersOK'
    BY <2>1, Orders DEF NumbersInv, NewcomersOK
  <2> QED BY <1>1, <1>6, <1>7, <2>1, <2>2
<1>8. CASE Clears /\ UNCHANGED handlers
  <2>1. PICK t \in Tables :
            /\ Turn[t] = step + 1 /\ dead'[t] = DOMAIN rows[t]
            /\ UNCHANGED <<rows, lastId, restarted, seed, newcomers>>
            /\ seed = "running" /\ step \in 0..4 /\ step' = step + 1
    BY <1>0, <1>8, ClearEffects DEF history
  <2>2. newcomers = {}
    BY <2>1, Orders DEF NumbersInv, NewcomersOK
  <2>3. step' = 5 => t = "user"
    BY <2>1 DEF Tables, Turn
  <2>4. step' = 5 => Live("user")' = {}
    BY <2>1, <2>3 DEF Live
  <2>5. NewcomersOK'
    BY <2>1, <2>2, <2>4, Orders DEF NewcomersOK
  <2> QED BY <1>1, <1>6, <1>8, <2>1, <2>5
<1>9. CASE SeedRestarts /\ UNCHANGED handlers
  <2>1. PICK t : t = RestartOrder[step - Restarts + 1]
    OBVIOUS
  <2>2. /\ seed = "running" /\ step \in 5..9 /\ step' = step + 1
        /\ restarted' = Put(restarted, t, 0)
        /\ \A q \in Requests : pc[q] = "insert" => TableOf(req[q].op) # t
        /\ UNCHANGED <<rows, lastId, dead, seed, newcomers>>
    BY <1>0, <1>9, <2>1, RestartEffects DEF history
  <2>3. NewcomersOK'
    BY <2>2, Orders DEF NumbersInv, NewcomersOK, Live
  <2>4. DOMAIN restarted' = DOMAIN restarted \cup {t}
    BY <2>2 DEF Put
  <2> QED BY <1>1, <1>6, <1>9, <2>2, <2>3, <2>4
<1>10. CASE (WritesUser \/ WritesRestaurant \/ WritesComments) /\ UNCHANGED handlers
  <2>1. /\ seed = "running" /\ step >= Users /\ step \in Nat /\ step' = step + 1
        /\ UNCHANGED <<rows, lastId, dead, seed, newcomers>>
    BY <1>0, <1>10, WriteEffects, Counts DEF SeedInv, history
  <2>2. NewcomersOK'
    BY <2>1, Orders DEF NumbersInv, NewcomersOK, Live
  <2>3. \A q \in Requests : pc[q] # "insert"
    BY <2>1, NobodyInserts DEF NumbersInv
  <2> QED BY <1>6, <1>10, <2>1, <2>2, <2>3
<1>11. CASE SeedCommits /\ UNCHANGED handlers
  <2>1. step \in Nat /\ step >= Users /\ ~(step < Restarts) /\ seed = "running"
        /\ seed' = "committed" /\ newcomers' = newcomers
    BY <1>11, CommitEffects, Counts, Orders
  <2>2. \A q \in Requests : pc'[q] # "insert"
    BY <1>11, <2>1, NobodyInserts DEF NumbersInv, handlers
  <2>3. NewcomersOK'
    BY <2>1 DEF NewcomersOK
  <2>4. FreshIdsAreFree'
    <3> SUFFICES ASSUME NEW t \in Tables, NEW i \in DOMAIN rows'[t], i \notin Theirs(t)'
                 PROVE  i <= lastId'[t]
      BY DEF FreshIdsAreFree, Others
    <3>1. /\ DOMAIN rows'[t] = Live(t) \cup DOMAIN fresh[t]
          /\ \A j \in Live(t) \ DOMAIN fresh[t] : rows'[t][j] = rows[t][j]
          /\ lastId' = [u \in Tables |->
                           IF u \in DOMAIN restarted THEN restarted[u] ELSE lastId[u]]
      BY <1>11, CommitEffects
    <3>2. t \in DOMAIN restarted /\ DOMAIN fresh[t] = 1..restarted[t]
      BY <1>0, <2>1, Orders DEF SeedInv
    <3>3. lastId'[t] = restarted[t] /\ restarted[t] \in Nat
      BY <1>0, <3>1, <3>2 DEF SeedInv
    <3>4. CASE i \in Live(t) \ DOMAIN fresh[t]
      <4>1. i \in Theirs(t)
        BY <1>0, <2>1, <3>4, RestIsTheirs DEF NumbersInv
      <4>2. rows'[t][i] = rows[t][i]
        BY <3>1, <3>4
      <4> QED BY <2>1, <4>1, <4>2, TheirsStay
    <3> QED BY <3>1, <3>2, <3>3, <3>4
  <2> QED BY <2>2, <2>3, <2>4 DEF NumbersInv, NumberOK
<1>12. CASE GivesUp /\ UNCHANGED handlers
  <2>1. seed' \in Ends /\ restarted' = NoRows /\ UNCHANGED <<rows, lastId, newcomers>>
    BY <1>12, GiveUpEffects DEF history
  <2>2. NewcomersOK'
    BY <2>1 DEF NewcomersOK, Ends
  <2>3. DOMAIN restarted' = {}
    BY <2>1 DEF NoRows
  <2> QED BY <1>6, <1>12, <2>1, <2>2, <2>3
<1> QED
  BY <1>2, <1>3, <1>4, <1>5, <1>7, <1>8, <1>9, <1>10, <1>11, <1>12, StepKinds

\* The sequences start after the rows.
LEMMA InitNumbers == Init => NumbersInv
<1> SUFFICES ASSUME Init PROVE NumbersInv
  OBVIOUS
<1>1. NewcomersOK
  BY DEF Init, NewcomersOK
<1>2. \A p \in Requests : NumberOK(p)
  BY DEF Init, HandlersInit, NumberOK
<1>3. FreshIdsAreFree
  <2> SUFFICES ASSUME NEW t \in Tables, NEW i \in DOMAIN rows[t] PROVE i <= lastId[t]
    BY DEF FreshIdsAreFree, Others
  <2>1. DOMAIN InitialRows[t] \subseteq 1..InitialIds[t] /\ InitialIds[t] \in Nat
    BY InitialAssumption DEF InitialAssumption
  <2>2. rows = InitialRows /\ lastId = InitialIds
    BY DEF Init
  <2> QED BY <2>1, <2>2
<1> QED BY <1>1, <1>2, <1>3 DEF NumbersInv

\* The numbers are apart always.
LEMMA NumbersInvariant == Spec => [](DbInv /\ NumbersInv)
<1>1. DbInv /\ NumbersInv /\ [Next]_vars => NumbersInv'
  BY NextNumbers DEF DbInv
<1> QED BY <1>1, InitDb, NextDb, InitNumbers, PTL DEF Spec

\* The next id of a table is above every id in it but those of the accounts that
\* registered while the seed ran, whichever way the transaction ended that restarted
\* the sequences, and whatever INSERTs held a number across it.
THEOREM NumbersAreFree == Spec => []FreshIdsAreFree
BY NumbersInvariant, PTL DEF NumbersInv

-------------------------------------------------------------------------------
(* The dataset.                                                            *)

\* Nobody writes a reservation beside the seed, so that when it has deleted them
\* there is none; favourites may come back.
ReservationsGone ==
    seed = "running" /\ step >= Turn["reservation"] => Live("reservation") = {}

\* Once the seed has deleted the reservations, its snapshot has none.
LEMMA NextReservationsGone ==
    ASSUME TypeInv, ReservationsGone, [Next]_vars
    PROVE  ReservationsGone'
<1>0. SeedInv /\ HandlersInv /\ DbOK /\ "reservation" \in Tables /\ step \in Nat
  BY Counts DEF TypeInv, SeedInv, Tables
<1>1. CASE rows'["reservation"] = rows["reservation"] /\ dead' = dead /\ UNCHANGED seeding
  BY <1>1 DEF ReservationsGone, Live, seeding
<1>2. CASE Quiet
  BY <1>1, <1>2 DEF Quiet, db
<1>3. ASSUME NEW p \in Requests, Draws(p) PROVE ReservationsGone'
  BY <1>1, <1>3 DEF Draws, Draw, DrawId, transaction
<1>4. ASSUME NEW p \in Requests, Inserts(p) PROVE ReservationsGone'
  <2> DEFINE t == TableOf(req[p].op)
             id == drawn[p]
             row == NewRow(p)
  <2>1. InsertDoes(p, t, id, row)
    BY <1>0, <1>4, InsertEffects
  <2>2. t # "reservation"
    BY <2>1 DEF InsertDoes, TableOf, Creates
  <2> HIDE DEF t, id, row
  <2>3. \A u \in Tables \ {t} : rows'[u] = rows[u]
    BY <2>1 DEF InsertDoes
  <2>4. dead' = dead /\ UNCHANGED seeding
    BY <2>1 DEF InsertDoes, seeding
  <2> QED BY <1>0, <1>1, <2>2, <2>3, <2>4
<1>5. ASSUME NEW p \in Requests, Deletes(p) PROVE ReservationsGone'
  <2>1. (\A u \in Tables \ {"comment"} : rows'[u] = rows[u]) /\ dead' = dead /\ UNCHANGED seeding
    BY <1>0, <1>5, DeleteEffects
  <2> QED BY <1>0, <1>1, <2>1
<1>6. CASE StartSeed
  BY <1>0, <1>6 DEF StartSeed, SeedInv, ReservationsGone, Turn
<1>7. CASE Clears
  <2>1. PICK t \in Tables :
            /\ Turn[t] = step + 1 /\ dead'[t] = DOMAIN rows[t]
            /\ \A u \in Tables \ {t} : dead'[u] = dead[u]
            /\ UNCHANGED <<rows, seed>> /\ step' = step + 1
    BY <1>0, <1>7, ClearEffects
  <2>2. CASE t = "reservation"
    BY <2>1, <2>2 DEF ReservationsGone, Live
  <2>3. CASE t # "reservation"
    <3>1. Turn["reservation"] \in Nat /\ Turn["reservation"] # step + 1
      BY <1>0, <2>1, <2>3, Orders
    <3>2. Live("reservation")' = Live("reservation")
      BY <1>0, <2>1, <2>3 DEF Live
    <3> QED BY <1>0, <2>1, <3>1, <3>2 DEF ReservationsGone
  <2> QED BY <2>2, <2>3
<1>8. CASE SeedRestarts \/ WritesUser \/ WritesRestaurant \/ WritesComments
  <2>1. step >= 5 /\ seed = "running" /\ UNCHANGED <<rows, dead>>
    BY <1>0, <1>8, RestartEffects, WriteEffects, Orders
  <2>2. Turn["reservation"] = 3
    BY DEF Turn
  <2>3. Live("reservation") = {}
    BY <1>0, <2>1, <2>2 DEF ReservationsGone
  <2>4. Live("reservation")' = Live("reservation")
    BY <2>1 DEF Live
  <2> QED BY <2>3, <2>4 DEF ReservationsGone
<1>9. CASE SeedCommits \/ GivesUp
  BY <1>9, CommitEffects, GiveUpEffects DEF ReservationsGone, Ends
<1> QED
  BY <1>2, <1>3, <1>4, <1>5, <1>6, <1>7, <1>8, <1>9, StepKinds

\* At the end of the transaction the dataset is complete.
LEMMA AllWritten ==
    ASSUME SeedInv, step = End
    PROVE  /\ DOMAIN fresh.restaurant = 1..Len(SeedComments)
           /\ \A r \in 1..Len(SeedComments) : Cardinality(FreshCommentsOf(r)) = SeedComments[r]
           /\ \A c \in DOMAIN fresh.comment : fresh.comment[c].userId = OwnerId
           /\ \A r \in DOMAIN fresh.restaurant : fresh.restaurant[r].ownerId = OwnerId
<1>1. /\ Restaurants \in Nat /\ Len(SeedComments) \in Nat /\ step \in Nat
      /\ step = Restaurants + 2 * Len(SeedComments) /\ Restaurants >= 10
  BY Counts, Orders
<1>2. RestaurantCount = Len(SeedComments) /\ CommentedCount = Len(SeedComments)
  BY <1>1 DEF RestaurantCount, CommentedCount
<1>3. "restaurant" \in Tables /\ "restaurant" \in DOMAIN restarted
  <2>1. "restaurant" \in Tables /\ step >= Restarts + Turn["restaurant"]
    BY <1>1, Orders DEF Tables
  <2> QED BY <2>1 DEF SeedInv
<1>4. DOMAIN fresh.restaurant = 1..RestaurantCount
  BY <1>3 DEF SeedInv, RestaurantsWritten
<1>5. \A r \in 1..CommentedCount : Cardinality(FreshCommentsOf(r)) = SeedComments[r]
  BY DEF SeedInv, CommentsWritten
<1>6. ASSUME NEW c \in DOMAIN fresh.comment PROVE fresh.comment[c].userId = OwnerId
  <2>1. PICK r : fresh.comment[c] = [userId |-> OwnerId, restaurantId |-> r]
    BY DEF SeedInv, CommentsWritten
  <2> QED BY <2>1
<1>7. ASSUME NEW r \in DOMAIN fresh.restaurant PROVE fresh.restaurant[r].ownerId = OwnerId
  <2>1. fresh.restaurant[r] = [ownerId |-> OwnerId]
    BY DEF SeedInv, RestaurantsWritten
  <2> QED BY <2>1
<1> QED BY <1>2, <1>4, <1>5, <1>6, <1>7

\* What the commit makes of the tables: beside what it has written, the newcomers'.
LEMMA CommitLeaves ==
    ASSUME DbInv, NewcomersOK, SeedCommits, NEW t \in Tables \ {"reservation"}
    PROVE  Others(t)' = DOMAIN fresh[t]
<1>0. TypeInv /\ SeedInv /\ DbOK /\ RefsInv /\ KeysInv /\ t \in Tables
  BY DEF DbInv, TypeInv
<1>1. /\ seed = "running" /\ step = End /\ step >= Restaurants /\ ~(step < Restarts)
      /\ newcomers' = newcomers /\ newcomers = Live("user")
      /\ DOMAIN rows'[t] = Live(t) \cup DOMAIN fresh[t]
      /\ \A i \in DOMAIN fresh[t] : rows'[t][i] = fresh[t][i]
      /\ \A i \in Live(t) \ DOMAIN fresh[t] : rows'[t][i] = rows[t][i]
  BY CommitEffects, Counts, Orders DEF NewcomersOK
<1>2. \A i \in Live(t) : i \notin DOMAIN fresh[t]
  BY <1>0 DEF KeysInv
<1>3. \A i \in DOMAIN fresh.user : i \notin newcomers'
  BY <1>0, <1>1 DEF KeysInv, Tables
<1>4. OwnerId \in DOMAIN fresh.user
  BY <1>0, <1>1, OwnerIsThere
<1>5. ASSUME NEW i \in Live(t) PROVE i \in Theirs(t)'
  <2>1. i \in Theirs(t)
    BY <1>0, <1>1, RestIsTheirs
  <2>2. i \in DOMAIN rows'[t] /\ rows'[t][i] = rows[t][i]
    BY <1>1, <1>2
  <2> QED BY <1>0, <1>1, <2>1, <2>2, TheirsStay
<1>6. ASSUME NEW i \in DOMAIN fresh[t] PROVE i \notin Theirs(t)'
  <2>1. rows'[t][i] = fresh[t][i]
    BY <1>1
  <2>2. CASE t = "user"
    BY <1>3, <2>2 DEF Theirs
  <2>3. CASE t = "restaurant"
    <3>1. rows'[t][i].ownerId \notin newcomers'
      BY <1>0, <1>1, <1>3, <1>4, <2>1, <2>3, AllWritten
    <3> QED BY <2>3, <3>1 DEF Theirs
  <2>4. CASE t = "comment"
    <3>1. rows'[t][i].userId \notin newcomers'
      BY <1>0, <1>1, <1>3, <1>4, <2>1, <2>4, AllWritten
    <3> QED BY <2>4, <3>1 DEF Theirs
  <2>5. CASE t = "favourite"
    BY <1>0, <2>5 DEF SeedInv
  <2> QED BY <1>0, <2>2, <2>3, <2>4, <2>5 DEF Tables
<1> QED BY <1>1, <1>5, <1>6 DEF Others

\* What a commit leaves is the dataset and the newcomers' rows.
LEMMA CommitDataset ==
    ASSUME DbInv, NewcomersOK, ReservationsGone, SeedCommits
    PROVE  SeedDataset'
<1>0. TypeInv /\ SeedInv /\ DbOK /\ RefsInv /\ KeysInv
  BY DEF DbInv, TypeInv
<1>1. /\ seed = "running" /\ step = End /\ step >= Restaurants /\ step \in Nat /\ step >= 10
      /\ rows' = [t \in Tables |-> Committed(t)]
      /\ \A t \in Tables : /\ DOMAIN rows'[t] = Live(t) \cup DOMAIN fresh[t]
                           /\ \A i \in DOMAIN fresh[t] : rows'[t][i] = fresh[t][i]
                           /\ \A i \in Live(t) \ DOMAIN fresh[t] : rows'[t][i] = rows[t][i]
  BY CommitEffects, Counts, Orders
<1>2. /\ Others("user")' = DOMAIN fresh.user
      /\ Others("restaurant")' = DOMAIN fresh.restaurant
      /\ Others("comment")' = DOMAIN fresh.comment
      /\ Others("favourite")' = DOMAIN fresh.favourite
  BY CommitLeaves DEF Tables
<1>3. /\ \A i \in DOMAIN fresh.user : rows'.user[i] = fresh.user[i]
      /\ \A i \in DOMAIN fresh.restaurant : rows'.restaurant[i] = fresh.restaurant[i]
      /\ \A i \in DOMAIN fresh.comment : rows'.comment[i] = fresh.comment[i]
  BY <1>1 DEF Tables
<1>4. /\ FreshUsers = SeedUsers /\ DOMAIN fresh.user = 1..Cardinality(SeedUsers)
      /\ OwnerId \in DOMAIN fresh.user /\ fresh.user[OwnerId].username = OwnerName
  BY <1>0, <1>1, OwnerIsThere
<1>5. /\ DOMAIN fresh.restaurant = 1..Len(SeedComments)
      /\ \A r \in 1..Len(SeedComments) : Cardinality(FreshCommentsOf(r)) = SeedComments[r]
      /\ \A c \in DOMAIN fresh.comment : fresh.comment[c].userId = OwnerId
      /\ \A r \in DOMAIN fresh.restaurant : fresh.restaurant[r].ownerId = OwnerId
  BY <1>0, <1>1, AllWritten
<1>6. {rows'.user[i] : i \in DOMAIN fresh.user} = SeedUsers
  BY <1>3, <1>4 DEF FreshUsers
<1>7. Cardinality(DOMAIN fresh.user) = Cardinality(SeedUsers)
  <2>1. Cardinality(SeedUsers) \in Nat
    BY Counts
  <2>2. Cardinality(1..Cardinality(SeedUsers)) = Cardinality(SeedUsers) - 1 + 1
    BY <2>1, FS_Interval
  <2> QED BY <1>4, <2>1, <2>2
<1>8. ASSUME NEW r \in 1..Len(SeedComments)
      PROVE  {c \in DOMAIN rows'.comment : rows'.comment[c].restaurantId = r} = FreshCommentsOf(r)
  <2>1. "comment" \in Tables /\ "restaurant" \in Tables
    BY DEF Tables
  <2>2. r \in DOMAIN fresh.restaurant
    BY <1>5
  <2>3. ASSUME NEW c \in Live("comment") PROVE rows.comment[c].restaurantId # r
    <3> DEFINE ref == <<"restaurant", rows.comment[c].restaurantId>>
    <3>1. ref \in References("comment", rows.comment[c])
      BY DEF References
    <3>2. ref[2] \in Live(ref[1])
      BY <1>0, <2>1, <3>1 DEF RefsInv
    <3>3. rows.comment[c].restaurantId \in Live("restaurant")
      BY <3>2
    <3> QED BY <1>0, <2>1, <2>2, <3>3 DEF KeysInv
  <2>4. /\ DOMAIN rows'.comment = Live("comment") \cup DOMAIN fresh.comment
        /\ \A c \in Live("comment") : c \notin DOMAIN fresh.comment
        /\ \A c \in Live("comment") : rows'.comment[c] = rows.comment[c]
    BY <1>0, <1>1, <2>1 DEF KeysInv
  <2> QED BY <1>3, <2>3, <2>4 DEF FreshCommentsOf
<1>9. rows'.reservation = NoRows
  <2>1. "reservation" \in Tables /\ DOMAIN fresh.reservation = {}
    BY <1>0 DEF SeedInv, Tables
  <2>2. Live("reservation") = {}
    BY <1>1 DEF ReservationsGone, Turn
  <2>3. rows'.reservation = Committed("reservation")
    BY <1>1, <2>1
  <2> QED BY <2>1, <2>2, <2>3 DEF Committed, NoRows
<1>10. DOMAIN fresh.favourite = {}
  BY <1>0 DEF SeedInv, Tables
<1>11. OwnerId \in {i \in Others("user")' : rows'.user[i].username = OwnerName}
  BY <1>2, <1>3, <1>4
<1>12. \A r \in Others("restaurant")' :
           /\ rows'.restaurant[r].ownerId = OwnerId
           /\ Cardinality({c \in DOMAIN rows'.comment : rows'.comment[c].restaurantId = r})
                  = SeedComments[r]
  BY <1>2, <1>3, <1>5, <1>8
<1>13. \A c \in Others("comment")' : rows'.comment[c].userId = OwnerId
  BY <1>2, <1>3, <1>5
<1> HIDE DEF OwnerId
<1> QED
  BY <1>2, <1>5, <1>6, <1>7, <1>9, <1>10, <1>11, <1>12, <1>13, Zenon DEF SeedDataset

\* The seed is seen whole or not at all, for any dataset, and whatever requests wrote
\* between its statements: at the commit the dataset is there with its owner, beside
\* it only the newcomers' rows, and no other step of the seed changes a row.
THEOREM SeedIsSeenWhole == Spec => SeedIsWhole
<1> DEFINE Whole == seed' # seed \/ step' # step =>
                        IF seed' = "committed" THEN SeedDataset' ELSE UNCHANGED <<rows, lastId>>
<1>1. ASSUME DbInv, NumbersInv, ReservationsGone, [Next]_vars
      PROVE  Whole
  <2>0. TypeInv /\ SeedInv /\ HandlersInv /\ DbOK /\ NewcomersOK
    BY <1>1 DEF DbInv, TypeInv, NumbersInv
  <2>1. CASE UNCHANGED seeding
    BY <2>1 DEF seeding
  <2>2. CASE Quiet
    BY <2>1, <2>2 DEF Quiet
  <2>3. ASSUME NEW p \in Requests, Draws(p) \/ Inserts(p) \/ Deletes(p) PROVE Whole
    BY <2>1, <2>3 DEF Draws, Inserts, Deletes
  <2>4. CASE StartSeed
    BY <2>4 DEF StartSeed, db
  <2>5. CASE Clears
    BY <2>0, <2>5, ClearEffects
  <2>6. CASE SeedRestarts
    BY <2>0, <2>6, RestartEffects
  <2>7. CASE WritesUser \/ WritesRestaurant \/ WritesComments
    BY <2>0, <2>7, WriteEffects
  <2>8. CASE SeedCommits
    <3>1. SeedDataset' /\ seed' = "committed"
      BY <1>1, <2>0, <2>8, CommitDataset, CommitEffects
    <3> QED BY <3>1
  <2>9. CASE GivesUp
    BY <2>9, GiveUpEffects
  <2> HIDE DEF Whole
  <2> QED
    BY <1>1, <2>0, <2>2, <2>3, <2>4, <2>5, <2>6, <2>7, <2>8, <2>9, StepKinds
<1>2. Init => ReservationsGone
  BY DEF Init, ReservationsGone
<1>3. DbInv /\ ReservationsGone /\ [Next]_vars => ReservationsGone'
  BY NextReservationsGone DEF DbInv
<1>4. Spec => []ReservationsGone
  BY <1>2, <1>3, DbInvariant, PTL DEF Spec
<1>5. DbInv /\ NumbersInv /\ ReservationsGone /\ [Next]_vars => [Whole]_vars
  BY <1>1
<1> HIDE DEF Whole
<1>6. Spec => [][Whole]_vars
  BY <1>4, <1>5, NumbersInvariant, PTL DEF Spec
<1> QED BY <1>6, PTL DEF SeedIsWhole, Whole

-------------------------------------------------------------------------------
(* Whose name a request acts in.                                           *)

\* Where a handler acts for the user that the guard has found.
Inside == {"handler", "draw", "insert", "delete", "blocked"}

IsNamed(id, name) == id \in DOMAIN rows.user /\ rows.user[id].username = name

\* The comment that a handler is about to delete is its user's, or gone for good.
TheirComment(p) ==
    /\ req[p].id <= lastId.comment
    /\ \A q \in Requests :
           pc[q] = "insert" /\ TableOf(req[q].op) = "comment" => drawn[q] # req[p].id
    /\ req[p].id \in DOMAIN rows.comment => rows.comment[req[p].id].userId = user[p].id

\* A request that no commit has overtaken holds the id of an account with the name
\* it came with, or logs in as.
HoldsTheirs(p) ==
    /\ pc[p] \in {"idle", "guard"} => user[p] = NoUser
    /\ p \notin overtaken =>
           /\ pc[p] = "compare" => IsNamed(user[p].id, req[p].username)
           /\ /\ pc[p] \in Inside
              /\ req[p].op \in Guarded \/ (req[p].op = "view" /\ user[p] # NoUser)
              => IsNamed(user[p].id, claim[p].username)
           /\ pc[p] \in {"delete", "blocked"} /\ user[p].id \notin newcomers =>
                  TheirComment(p)

\* The accounts stay, and the comments get no numbers but new ones and those that
\* INSERTs hold.
Mild ==
    /\ \A i \in DOMAIN rows.user : i \in DOMAIN rows'.user /\ rows'.user[i] = rows.user[i]
    /\ newcomers \subseteq newcomers' /\ overtaken' = overtaken
    /\ lastId.comment <= lastId'.comment
    /\ \A q \in Requests :
           pc'[q] = "insert" /\ TableOf(req'[q].op) = "comment" =>
               \/ pc[q] = "insert" /\ TableOf(req[q].op) = "comment" /\ drawn'[q] = drawn[q]
               \/ drawn'[q] > lastId.comment
    /\ \A i \in DOMAIN rows'.comment :
           \/ i \in DOMAIN rows.comment /\ rows'.comment[i] = rows.comment[i]
           \/ \E q \in Requests :
                  pc[q] = "insert" /\ TableOf(req[q].op) = "comment" /\ drawn[q] = i

\* Only the commit of the seed takes accounts away.
LEMMA MildSteps ==
    ASSUME TypeInv, [Next]_vars
    PROVE  Mild \/ (SeedCommits /\ UNCHANGED handlers)
<1>0. SeedInv /\ HandlersInv /\ DbOK /\ lastId \in [Tables -> Nat]
      /\ "comment" \in Tables /\ "user" \in Tables
  BY DEF TypeInv, DbOK, Tables
<1>1. ASSUME UNCHANGED <<rows, lastId, newcomers, overtaken>>,
             \A q \in Requests :
                 pc'[q] = "insert" =>
                     pc[q] = "insert" /\ req'[q] = req[q] /\ drawn'[q] = drawn[q]
      PROVE  Mild
  BY <1>0, <1>1 DEF Mild
<1>2. CASE Quiet
  BY <1>1, <1>2 DEF Quiet, db, history
<1>3. ASSUME NEW p \in Requests, Draws(p) PROVE Mild
  <2>1. PICK t \in Tables : t = TableOf(req[p].op)
    BY <1>0, <1>3, DrawTypes DEF Draws
  <2>2. /\ Alone(p) /\ req' = req
        /\ drawn'[p] = lastId[t] + 1 /\ lastId' = [lastId EXCEPT ![t] = @ + 1]
        /\ UNCHANGED <<rows, newcomers, overtaken>>
    BY <1>0, <1>3, <2>1, DrawTypes DEF Draws, history
  <2>3. lastId.comment <= lastId'.comment
    BY <1>0, <2>2
  <2>4. t = "comment" => drawn'[p] > lastId.comment
    BY <1>0, <2>2
  <2>5. \A q \in Requests \ {p} : pc'[q] = pc[q] /\ drawn'[q] = drawn[q]
    BY <2>2 DEF Alone
  <2> QED BY <2>1, <2>2, <2>3, <2>4, <2>5 DEF Mild
<1>4. ASSUME NEW p \in Requests, Inserts(p) PROVE Mild
  <2> DEFINE t == TableOf(req[p].op)
             id == drawn[p]
             row == NewRow(p)
  <2>1. InsertDoes(p, t, id, row) /\ t = TableOf(req[p].op) /\ id = drawn[p]
    BY <1>0, <1>4, InsertEffects
  <2> HIDE DEF t, id, row
  <2>2. /\ pc[p] = "insert" /\ pc'[p] = "done" /\ req' = req /\ drawn' = drawn
        /\ \A q \in Requests \ {p} : pc'[q] = pc[q]
        /\ \A u \in Tables \ {t} : rows'[u] = rows[u]
        /\ DOMAIN rows'[t] = DOMAIN rows[t] \cup {id}
        /\ \A i \in DOMAIN rows[t] : rows'[t][i] = rows[t][i]
        /\ UNCHANGED <<lastId, overtaken>>
    BY <2>1 DEF InsertDoes
  <2>3. newcomers \subseteq newcomers'
    BY <1>4 DEF Inserts
  <2>4. /\ \A i \in DOMAIN rows["user"] :
               i \in DOMAIN rows'["user"] /\ rows'["user"][i] = rows["user"][i]
        /\ \A i \in DOMAIN rows'["comment"] :
               \/ i \in DOMAIN rows["comment"] /\ rows'["comment"][i] = rows["comment"][i]
               \/ t = "comment" /\ i = id
    BY <1>0, <2>2
  <2>5. lastId.comment <= lastId'.comment
    BY <1>0, <2>2
  <2> QED BY <2>1, <2>2, <2>3, <2>4, <2>5 DEF Mild
<1>5. ASSUME NEW p \in Requests, Deletes(p) PROVE Mild
  <2>1. /\ pc'[p] = "done" /\ req' = req /\ drawn' = drawn
        /\ \A q \in Requests \ {p} : pc'[q] = pc[q]
        /\ \A u \in Tables \ {"comment"} : rows'[u] = rows[u]
        /\ \A i \in DOMAIN rows'["comment"] :
               i \in DOMAIN rows["comment"] /\ rows'["comment"][i] = rows["comment"][i]
        /\ UNCHANGED <<lastId, newcomers, overtaken>>
    BY <1>0, <1>5, DeleteEffects DEF history
  <2>2. rows'.user = rows.user /\ lastId.comment <= lastId'.comment
    BY <1>0, <2>1
  <2> QED BY <2>1, <2>2 DEF Mild
<1>6. ASSUME UNCHANGED <<rows, lastId, newcomers, overtaken, handlers>> PROVE Mild
  BY <1>1, <1>6 DEF handlers
<1>7. CASE StartSeed /\ UNCHANGED handlers
  BY <1>6, <1>7 DEF StartSeed, db, history
<1>8. CASE Clears /\ UNCHANGED handlers
  BY <1>0, <1>6, <1>8, ClearEffects DEF history
<1>9. CASE SeedRestarts /\ UNCHANGED handlers
  BY <1>0, <1>6, <1>9, RestartEffects DEF history
<1>10. CASE (WritesUser \/ WritesRestaurant \/ WritesComments) /\ UNCHANGED handlers
  BY <1>0, <1>6, <1>10, WriteEffects DEF history
<1>11. CASE GivesUp /\ UNCHANGED handlers
  BY <1>6, <1>11, GiveUpEffects DEF history
<1> QED
  BY <1>2, <1>3, <1>4, <1>5, <1>7, <1>8, <1>9, <1>10, <1>11, StepKinds

\* What a request that does not move holds.
LEMMA TheirsKept ==
    ASSUME HandlersInv, DbOK, DbOK', Mild, NEW p \in Requests, HoldsTheirs(p),
           pc'[p] = pc[p], req'[p] = req[p], claim'[p] = claim[p], user'[p] = user[p]
    PROVE  HoldsTheirs(p)'
<1>1. ASSUME NEW id, NEW name, IsNamed(id, name) PROVE IsNamed(id, name)'
  BY <1>1 DEF Mild, IsNamed
<1>2. ASSUME TheirComment(p), pc[p] \in {"delete", "blocked"} PROVE TheirComment(p)'
  <2>1. req[p].id \in Nat
    <3>1. req[p] \in Request /\ req[p].op = "deleteComment"
      BY <1>2 DEF HandlersInv, Fits
    <3> QED BY <3>1, RequestFields DEF Ids
  <2>2. lastId.comment \in Nat /\ lastId'.comment \in Nat /\ "comment" \in Tables
    BY DEF DbOK, Tables
  <2>3. /\ req[p].id <= lastId.comment
        /\ \A q \in Requests :
               pc[q] = "insert" /\ TableOf(req[q].op) = "comment" => drawn[q] # req[p].id
        /\ req[p].id \in DOMAIN rows.comment => rows.comment[req[p].id].userId = user[p].id
    BY <1>2 DEF TheirComment
  <2>4. ASSUME NEW q \in Requests, pc'[q] = "insert", TableOf(req'[q].op) = "comment"
        PROVE  drawn'[q] # req[p].id
    <3>1. CASE pc[q] = "insert" /\ TableOf(req[q].op) = "comment" /\ drawn'[q] = drawn[q]
      BY <2>3, <3>1
    <3>2. CASE drawn'[q] > lastId.comment
      BY <2>1, <2>2, <2>3, <3>2
    <3> QED BY <2>4, <3>1, <3>2 DEF Mild
  <2>5. req[p].id <= lastId'.comment
    BY <2>1, <2>2, <2>3 DEF Mild
  <2>6. req[p].id \in DOMAIN rows'.comment => rows'.comment[req[p].id].userId = user[p].id
    BY <2>3 DEF Mild
  <2> QED BY <2>4, <2>5, <2>6 DEF TheirComment
<1>3. overtaken' = overtaken /\ newcomers \subseteq newcomers'
  BY DEF Mild
<1> QED BY <1>1, <1>2, <1>3 DEF HoldsTheirs

\* A refusal says of nothing that it was done.
LEMMA NothingDone ==
    ASSUME NEW p, NEW s \in {"unauthorized", "forbidden", "notFound", "conflict", "error"},
           answer'[p] = Says(s)
    PROVE  InTheirName(p)
<1>1. /\ answer'[p] = [status |-> s] /\ answer'[p].status = s
      /\ "username" \notin DOMAIN answer'[p] /\ "canEdit" \notin DOMAIN answer'[p]
      /\ s # "created" /\ s # "deleted" /\ s # "ok"
  BY DEF Says
<1> QED BY <1>1 DEF InTheirName

\* A handler that answers holds nothing any more.
LEMMA AnsweredHolds == ASSUME NEW p, pc'[p] = "done" PROVE HoldsTheirs(p)'
BY DEF HoldsTheirs, Inside

\* A request goes on inside with the account that it holds.
LEMMA GoesOn ==
    ASSUME HandlersInv, NEW p \in Requests, HoldsTheirs(p), rows' = rows,
           overtaken' = overtaken, req' = req, claim' = claim, user'[p] = user[p],
           pc[p] \in Inside, pc'[p] \in Inside,
           p \notin overtaken' /\ pc'[p] \in {"delete", "blocked"} /\ user[p].id \notin newcomers' =>
               TheirComment(p)'
    PROVE  HoldsTheirs(p)'
<1>1. /\ pc'[p] \notin {"idle", "guard", "compare"} /\ rows' = rows /\ req' = req
  BY DEF Inside
<1>2. \A id, name : IsNamed(id, name)' = IsNamed(id, name)
  BY DEF IsNamed
<1> QED BY <1>1, <1>2 DEF HoldsTheirs

\* What the handlers know of the comment that they are going to delete.
LEMMA LooksAtTheirs ==
    ASSUME TypeInv, NumbersInv, NEW p \in Requests, user[p].id \notin newcomers,
           req[p].id \in DOMAIN rows.comment, rows.comment[req[p].id].userId = user[p].id
    PROVE  TheirComment(p)
<1>1. "comment" \in Tables /\ req[p].id \notin Theirs("comment")
  BY DEF Theirs, Tables
<1>2. req[p].id <= lastId.comment
  BY <1>1 DEF NumbersInv, FreshIdsAreFree, Others
<1>3. ASSUME NEW q \in Requests, pc[q] = "insert", TableOf(req[q].op) = "comment"
      PROVE  drawn[q] # req[p].id
  <2>1. drawn[q] \in DOMAIN rows["comment"] => drawn[q] \in Theirs("comment")
    BY <1>3 DEF NumbersInv, NumberOK
  <2> QED BY <1>1, <2>1
<1> QED BY <1>2, <1>3 DEF TheirComment

\* What is quiet for the comment: the tables are as they were, and this request is at
\* no INSERT.
LEMMA CommentStays ==
    ASSUME NEW p \in Requests, TheirComment(p), Alone(p), pc'[p] # "insert",
           UNCHANGED <<rows, lastId>>, req' = req, user'[p] = user[p]
    PROVE  TheirComment(p)'
<1>1. \A q \in Requests : pc'[q] = "insert" => pc[q] = "insert" /\ drawn'[q] = drawn[q]
  BY DEF Alone
<1> QED BY <1>1 DEF TheirComment

\* The request that moves, when it goes on.
LEMMA MovesOn ==
    ASSUME TypeInv, NumbersInv, NEW p \in Requests, HoldsTheirs(p), Alone(p), UNCHANGED history,
           \/ Hash(p) \/ Draw(p) \/ LookUpFound(p) \/ GuardAdmits(p)
           \/ DeleteBlocks(p) \/ DeleteUnblocks(p)
           \/ CreateRestaurant(p)
           \/ LookForRestaurant(p) /\ pc'[p] = "draw"
           \/ GuardRefuses(p) /\ pc'[p] = "handler"
           \/ LookAtComment(p) /\ pc'[p] = "delete"
    PROVE  HoldsTheirs(p)' /\ answer'[p] = answer[p]
<1>0. /\ HandlersInv /\ HandlersTypeOK /\ Fits(p) /\ DbOK
      /\ overtaken' = overtaken /\ newcomers' = newcomers
  BY DEF TypeInv, HandlersInv, history
<1>1. ASSUME NEW l \in Places, Goto(p, l)
      PROVE  /\ pc'[p] = l /\ UNCHANGED <<req, claim, answer>>
  BY <1>0, <1>1, GotoTypes
<1>2. CASE Hash(p)
  <2>1. Goto(p, "draw") /\ req[p].op = "register"
    BY <1>2 DEF Hash, At
  <2>2. pc'[p] = "draw" /\ UNCHANGED <<req, claim, answer>>
    BY <1>1, <2>1 DEF Places
  <2> QED BY <2>1, <2>2 DEF HoldsTheirs, Guarded
<1>3. CASE Draw(p)
  <2>1. /\ pc[p] = "draw" /\ pc'[p] = "insert" /\ rows' = rows
        /\ UNCHANGED <<req, claim, answer, user>>
    BY <1>0, <1>3, DrawTypes
  <2> QED BY <1>0, <2>1, GoesOn DEF Inside
<1>4. CASE LookUpFound(p)
  <2>1. PICK i \in Named(req[p].username) :
            Hold(p, [id |-> i, passwordHash |-> rows.user[i].passwordHash])
    BY <1>4 DEF LookUpFound
  <2>2. Goto(p, "compare") /\ rows' = rows
    BY <1>4 DEF LookUpFound, db
  <2>3. pc'[p] = "compare" /\ UNCHANGED <<req, claim, answer>>
    BY <1>1, <2>2 DEF Places
  <2>4. user'[p].id = i
    BY <1>0, <2>1 DEF Hold, HandlersTypeOK
  <2>5. IsNamed(i, req[p].username)
    BY <2>1 DEF Named, IsNamed
  <2>6. IsNamed(user[p].id, req[p].username)'
    BY <2>2, <2>3, <2>4, <2>5 DEF IsNamed
  <2> QED BY <2>3, <2>6 DEF HoldsTheirs, Inside
<1>5. CASE GuardAdmits(p)
  <2>1. /\ Goto(p, "handler") /\ rows' = rows /\ Validates(claim[p])
        /\ user' = [user EXCEPT ![p] = [id |-> claim[p].sub]]
    BY <1>5 DEF GuardAdmits, Hold, db
  <2>2. pc'[p] = "handler" /\ UNCHANGED <<req, claim, answer>>
    BY <1>1, <2>1 DEF Places
  <2>3. user'[p].id = claim[p].sub
    BY <1>0, <2>1 DEF HandlersTypeOK
  <2>4. IsNamed(user[p].id, claim[p].username)'
    BY <2>1, <2>2, <2>3 DEF IsNamed, Validates
  <2> QED BY <2>2, <2>4 DEF HoldsTheirs
<1>6. CASE DeleteBlocks(p) \/ DeleteUnblocks(p)
  <2>1. /\ pc[p] \in {"delete", "blocked"} /\ UNCHANGED <<rows, lastId, user>>
        /\ Goto(p, "blocked") \/ Goto(p, "delete")
    BY <1>6 DEF DeleteBlocks, DeleteUnblocks, Keep, db
  <2>2. pc'[p] \in {"delete", "blocked"} /\ UNCHANGED <<req, claim, answer>>
    BY <1>1, <2>1 DEF Places
  <2>3. p \notin overtaken /\ user[p].id \notin newcomers => TheirComment(p)'
    BY <2>1, <2>2, CommentStays DEF HoldsTheirs
  <2> QED BY <1>0, <2>1, <2>2, <2>3, GoesOn DEF Inside
<1>7. CASE CreateRestaurant(p) \/ (LookForRestaurant(p) /\ pc'[p] = "draw")
  <2>1. pc[p] = "handler" /\ UNCHANGED <<rows, user>>
    BY <1>7 DEF CreateRestaurant, LookForRestaurant, At, Keep, db
  <2>2. Goto(p, "draw")
    <3>1. Answer(p, Says("notFound")) => pc'[p] = "done"
      BY <1>0 DEF Answer, HandlersTypeOK
    <3> QED BY <1>7, <3>1 DEF CreateRestaurant, LookForRestaurant
  <2>3. pc'[p] = "draw" /\ UNCHANGED <<req, claim, answer>>
    BY <1>1, <2>2 DEF Places
  <2> QED BY <1>0, <2>1, <2>3, GoesOn DEF Inside
<1>8. CASE GuardRefuses(p) /\ pc'[p] = "handler"
  <2>1. pc[p] = "guard" /\ UNCHANGED <<rows, user>>
    BY <1>8 DEF GuardRefuses, Keep, db
  <2>2. Goto(p, "handler") /\ req[p].op = "view"
    <3>1. Answer(p, Says("unauthorized")) => pc'[p] = "done"
      BY <1>0 DEF Answer, HandlersTypeOK
    <3> QED BY <1>8, <3>1 DEF GuardRefuses
  <2>3. pc'[p] = "handler" /\ UNCHANGED <<req, claim, answer>>
    BY <1>1, <2>2 DEF Places
  <2>4. user'[p] = NoUser
    BY <2>1 DEF HoldsTheirs
  <2> QED BY <2>2, <2>3, <2>4 DEF HoldsTheirs, Guarded
<1>9. CASE LookAtComment(p) /\ pc'[p] = "delete"
  <2>1. /\ pc[p] = "handler" /\ UNCHANGED <<rows, lastId, user>> /\ req[p].op = "deleteComment"
    BY <1>9 DEF LookAtComment, Keep, db, At
  <2>2. \A s : Answer(p, Says(s)) => pc'[p] = "done"
    BY <1>0 DEF Answer, HandlersTypeOK
  <2>3. /\ req[p].id \in DOMAIN rows.comment /\ Goto(p, "delete")
        /\ rows.comment[req[p].id].userId = user[p].id
    BY <1>9, <2>2 DEF LookAtComment
  <2>4. pc'[p] = "delete" /\ UNCHANGED <<req, claim, answer>>
    BY <1>1, <2>3 DEF Places
  <2>5. user[p].id \notin newcomers => TheirComment(p)
    BY <2>3, LooksAtTheirs
  <2>6. user[p].id \notin newcomers => TheirComment(p)'
    BY <2>1, <2>4, <2>5, CommentStays
  <2> QED BY <1>0, <2>1, <2>4, <2>6, GoesOn DEF Inside
<1> QED BY <1>2, <1>3, <1>4, <1>5, <1>6, <1>7, <1>8, <1>9

\* The request that moves, when it answers.
LEMMA MovesOut ==
    ASSUME TypeInv, NEW p \in Requests \ overtaken, HoldsTheirs(p),
           \/ Insert(p) \/ CompareSucceeds(p) \/ Me(p) \/ View(p) \/ DeleteComment(p)
           \/ Logout(p)
    PROVE  HoldsTheirs(p)' /\ InTheirName(p)
<1>0. /\ HandlersInv /\ HandlersTypeOK /\ Fits(p) /\ DbOK
  BY DEF TypeInv, HandlersInv
<1>1. ASSUME NEW a, Answer(p, a)
      PROVE  /\ pc'[p] = "done" /\ answer'[p] = a /\ req' = req /\ claim' = claim
             /\ HoldsTheirs(p)'
  <2>1. pc'[p] = "done" /\ answer'[p] = a /\ req' = req /\ claim' = claim
    BY <1>0, <1>1 DEF Answer, HandlersTypeOK
  <2> QED BY <2>1, AnsweredHolds
<1>2. CASE Insert(p)
  <2> DEFINE t == TableOf(req[p].op)
  <2>1. /\ pc[p] = "insert" /\ Answer(p, Says("created")) /\ Inserted(t, drawn[p], NewRow(p))
    BY <1>2 DEF Insert, KeysPass
  <2>2. /\ answer'[p] = [status |-> "created"] /\ answer'[p].status = "created"
        /\ "username" \notin DOMAIN answer'[p] /\ "canEdit" \notin DOMAIN answer'[p]
        /\ req' = req /\ HoldsTheirs(p)'
    BY <1>1, <2>1 DEF Says
  <2>3. CASE req[p].op = "register"
    BY <2>2, <2>3 DEF InTheirName
  <2>4. CASE req[p].op \in Creates
    <3>1. IsNamed(user[p].id, claim[p].username)
      BY <2>1, <2>4 DEF HoldsTheirs, Inside, Creates, Guarded
    <3>2. t # "user" /\ t \in Tables /\ "user" \in Tables /\ rows = [u \in Tables |-> rows[u]]
      BY <1>0, <2>4 DEF TableOf, Creates, Tables, DbOK
    <3>3. rows' = [rows EXCEPT ![t] = Put(rows[t], drawn[p], NewRow(p))]
      BY <2>1 DEF Inserted
    <3> HIDE DEF t
    <3>4. rows'.user = rows.user /\ rows'[t][drawn[p]] = NewRow(p)
      BY <3>2, <3>3 DEF Put
    <3>5. CASE req[p].op = "createRestaurant"
      <4>1. t = "restaurant" /\ NewRow(p).ownerId = user[p].id
        BY <3>5 DEF TableOf, NewRow, t
      <4>2. rows'.user[rows'.restaurant[drawn[p]].ownerId].username = claim[p].username
        BY <3>1, <3>4, <4>1 DEF IsNamed
      <4> QED BY <2>2, <3>5, <4>2 DEF InTheirName
    <3>6. CASE req[p].op \in {"createComment", "createFavourite"}
      <4>1. NewRow(p).userId = user[p].id /\ req[p].op # "createRestaurant"
        BY <3>6 DEF NewRow
      <4>2. rows'.user[rows'[TableOf(req[p].op)][drawn[p]].userId].username = claim[p].username
        BY <3>1, <3>4, <4>1 DEF IsNamed, t
      <4> QED BY <2>2, <3>6, <4>1, <4>2 DEF InTheirName
    <3> QED BY <2>4, <3>5, <3>6 DEF Creates
  <2> QED BY <1>0, <2>1, <2>3, <2>4 DEF Fits
<1>3. CASE CompareSucceeds(p)
  <2>1. /\ pc[p] = "compare" /\ req[p].op = "login" /\ rows' = rows
        /\ SetCookie(p, [sub |-> user[p].id, username |-> req[p].username])
        /\ Answer(p, Says("ok"))
    BY <1>3 DEF CompareSucceeds, At, db
  <2>2. /\ answer'[p] = [status |-> "ok"] /\ answer'[p].status = "ok"
        /\ "username" \notin DOMAIN answer'[p] /\ "canEdit" \notin DOMAIN answer'[p]
        /\ req' = req /\ HoldsTheirs(p)'
    BY <1>1, <2>1 DEF Says
  <2>3. req[p].client \in Clients
    BY <1>0, <2>1, RequestFields DEF Fits
  <2>4. jar'[req[p].client] = [sub |-> user[p].id, username |-> req[p].username]
    BY <1>0, <2>1, <2>3 DEF SetCookie, HandlersTypeOK
  <2>5. IsNamed(user[p].id, req[p].username)
    BY <2>1 DEF HoldsTheirs
  <2>6. rows.user[jar'[req[p].client].sub].username = jar'[req[p].client].username
    BY <2>4, <2>5 DEF IsNamed
  <2> QED BY <2>1, <2>2, <2>6 DEF InTheirName
<1>4. CASE Me(p)
  <2>1. /\ pc[p] = "handler" /\ req[p].op = "me"
        /\ Answer(p, [status |-> "ok", username |-> rows.user[user[p].id].username])
    BY <1>4 DEF Me, At
  <2>2. /\ "username" \in DOMAIN answer'[p] /\ "canEdit" \notin DOMAIN answer'[p]
        /\ answer'[p].username = rows.user[user[p].id].username
        /\ req' = req /\ HoldsTheirs(p)'
    BY <1>1, <2>1
  <2>3. IsNamed(user[p].id, claim[p].username)
    BY <2>1 DEF HoldsTheirs, Inside, Guarded
  <2>4. answer'[p].username = claim[p].username
    BY <2>2, <2>3 DEF IsNamed
  <2> QED BY <2>1, <2>2, <2>4 DEF InTheirName
<1>5. CASE View(p)
  <2> DEFINE can == /\ user[p] # NoUser
                    /\ user[p].id = rows.restaurant[req[p].id].ownerId
  <2>1. /\ pc[p] = "handler" /\ req[p].op = "view" /\ rows' = rows
        /\ \/ Answer(p, [status |-> "ok", canEdit |-> can])
           \/ Answer(p, Says("notFound"))
    BY <1>5, Zenon DEF View, At, db
  <2>2. CASE Answer(p, Says("notFound"))
    BY <1>1, <2>2, NothingDone
  <2>3. CASE Answer(p, [status |-> "ok", canEdit |-> can])
    <3> HIDE DEF can
    <3>1. /\ "username" \notin DOMAIN answer'[p] /\ "canEdit" \in DOMAIN answer'[p]
          /\ answer'[p].canEdit = can
          /\ req' = req /\ HoldsTheirs(p)'
      BY <1>1, <2>3
    <3>2. ASSUME can PROVE rows'.user[rows.restaurant[req[p].id].ownerId].username = claim[p].username
      <4>1. IsNamed(user[p].id, claim[p].username)
        BY <2>1, <3>2 DEF HoldsTheirs, Inside, can
      <4> QED BY <2>1, <3>2, <4>1 DEF IsNamed, can
    <3> QED BY <2>1, <3>1, <3>2 DEF InTheirName
  <2> QED BY <2>1, <2>2, <2>3
<1>6. CASE DeleteComment(p)
  <2>1. /\ pc[p] = "delete" /\ req[p].id \in Live("comment") /\ Removed("comment", req[p].id)
        /\ Answer(p, Says("deleted")) /\ req[p].op = "deleteComment"
    BY <1>0, <1>6 DEF DeleteComment, Fits
  <2>2. /\ answer'[p] = [status |-> "deleted"] /\ answer'[p].status = "deleted"
        /\ "username" \notin DOMAIN answer'[p] /\ "canEdit" \notin DOMAIN answer'[p]
        /\ req' = req /\ HoldsTheirs(p)'
    BY <1>1, <2>1 DEF Says
  <2>3. IsNamed(user[p].id, claim[p].username)
    BY <2>1 DEF HoldsTheirs, Inside, Guarded
  <2>4. user[p].id \notin newcomers => rows.comment[req[p].id].userId = user[p].id
    BY <2>1 DEF HoldsTheirs, TheirComment, Live
  <2>5. rows'.user = rows.user
    BY <1>0, <2>1 DEF Removed, DbOK, Tables
  <2>6. user[p].id \notin newcomers =>
            rows'.user[rows.comment[req[p].id].userId].username = claim[p].username
    BY <2>3, <2>4, <2>5 DEF IsNamed
  <2> QED BY <2>1, <2>2, <2>6 DEF InTheirName
<1>7. CASE Logout(p)
  <2>1. Answer(p, Says("deleted")) /\ req[p].op = "logout"
    BY <1>7 DEF Logout, At
  <2>2. /\ answer'[p] = [status |-> "deleted"] /\ answer'[p].status = "deleted"
        /\ "username" \notin DOMAIN answer'[p] /\ "canEdit" \notin DOMAIN answer'[p]
        /\ req' = req /\ HoldsTheirs(p)'
    BY <1>1, <2>1 DEF Says
  <2> QED BY <2>1, <2>2 DEF InTheirName
<1> QED BY <1>2, <1>3, <1>4, <1>5, <1>6, <1>7

\* The rest of what a handler does is to go on or to refuse.
LEMMA Moves ==
    ASSUME TypeInv, NumbersInv, NEW p \in Requests, Handle(p), HoldsTheirs(p)
    PROVE  /\ HoldsTheirs(p)'
           /\ p \notin overtaken /\ answer'[p] # answer[p] => InTheirName(p)
<1>0. HandlersInv /\ HandlersTypeOK /\ Alone(p)
  BY HandleSteps DEF TypeInv, HandlersInv
<1>1. \A a : Answer(p, a) => pc'[p] = "done" /\ answer'[p] = a
  BY <1>0 DEF Answer, HandlersTypeOK
<1>2. CASE pc'[p] = "done"
  <2>1. HoldsTheirs(p)'
    BY <1>2, AnsweredHolds
  <2>2. \/ \E s \in {"unauthorized", "forbidden", "notFound", "conflict", "error"} :
               answer'[p] = Says(s)
        \/ Insert(p) \/ CompareSucceeds(p) \/ Me(p) \/ View(p) \/ DeleteComment(p) \/ Logout(p)
        \/ answer'[p] = answer[p]
    <3>1. \A l : Goto(p, l) => answer'[p] = answer[p]
      BY DEF Goto
    <3> QED
      BY <1>1, <3>1, Zenon DEF Handle, HandleAccount, Hash, Draw, InsertCollides, InsertDangles,
         LookUpUnknown, LookUpFound, CompareFails, GuardAdmits, GuardRefuses, MeGone,
         LookForRestaurant, CreateRestaurant, LookAtComment, DeleteFindsNone, DeleteBlocks,
         DeleteUnblocks
  <2> QED BY <2>1, <2>2, MovesOut, NothingDone
<1>3. CASE pc'[p] # "done"
  <2>1. ~(Insert(p) \/ InsertCollides(p) \/ InsertDangles(p) \/ LookUpUnknown(p)
          \/ CompareFails(p) \/ CompareSucceeds(p) \/ Me(p) \/ MeGone(p) \/ Logout(p)
          \/ View(p) \/ DeleteComment(p) \/ DeleteFindsNone(p))
    BY <1>1, <1>3, Zenon DEF Insert, InsertCollides, InsertDangles, LookUpUnknown, CompareFails,
       CompareSucceeds, Me, MeGone, Logout, View, DeleteComment, DeleteFindsNone
  <2>2. UNCHANGED history
    <3>1. Quiet \/ Draws(p) \/ Inserts(p) \/ Deletes(p)
      BY HandleSteps
    <3> QED BY <2>1, <3>1 DEF Quiet, Draws, Inserts, Deletes
  <2>3. LookForRestaurant(p) => pc'[p] = "draw"
    BY <1>0, <1>1, <1>3 DEF LookForRestaurant, Goto, HandlersTypeOK
  <2>4. GuardRefuses(p) => pc'[p] = "handler"
    BY <1>0, <1>1, <1>3 DEF GuardRefuses, Goto, HandlersTypeOK
  <2>5. LookAtComment(p) => pc'[p] = "delete"
    BY <1>0, <1>1, <1>3 DEF LookAtComment, Goto, HandlersTypeOK
  <2>6. \/ Hash(p) \/ Draw(p) \/ LookUpFound(p) \/ GuardAdmits(p)
        \/ DeleteBlocks(p) \/ DeleteUnblocks(p)
        \/ CreateRestaurant(p)
        \/ LookForRestaurant(p) /\ pc'[p] = "draw"
        \/ GuardRefuses(p) /\ pc'[p] = "handler"
        \/ LookAtComment(p) /\ pc'[p] = "delete"
    BY <2>1, <2>3, <2>4, <2>5, Zenon DEF Handle, HandleAccount
  <2> QED BY <1>0, <2>2, <2>6, MovesOn
<1> QED BY <1>2, <1>3

\* A request that arrives is at most told that it has no token.
LEMMA Arrives ==
    ASSUME TypeInv, NEW p \in Requests, Submit(p), HoldsTheirs(p)
    PROVE  HoldsTheirs(p)' /\ (answer'[p] # answer[p] => InTheirName(p))
<1>1. /\ pc[p] = "idle" /\ user' = user
      /\ pc'[p] \in {"hash", "lookUp", "guard", "handler", "done"}
      /\ pc'[p] = "handler" => req'[p].op = "view"
      /\ answer'[p] = answer[p] \/ answer'[p] = Says("unauthorized")
  BY SubmitTypes DEF TypeInv
<1>2. user'[p] = NoUser
  BY <1>1 DEF HoldsTheirs
<1>3. HoldsTheirs(p)'
  BY <1>1, <1>2 DEF HoldsTheirs, Inside, Guarded
<1> QED BY <1>1, <1>3, NothingDone

\* At most one request moves; the others hold what they held.
LEMMA OthersWait ==
    ASSUME TypeInv, DbOK', Mild, \A q \in Requests : HoldsTheirs(q),
           NEW p \in Requests, Alone(p), HoldsTheirs(p)',
           p \notin overtaken /\ answer'[p] # answer[p] => InTheirName(p)
    PROVE  /\ \A q \in Requests : HoldsTheirs(q)'
           /\ \A q \in Requests \ overtaken : answer'[q] # answer[q] => InTheirName(q)
<1> SUFFICES ASSUME NEW q \in Requests, q # p PROVE HoldsTheirs(q)' /\ answer'[q] = answer[q]
  OBVIOUS
<1>1. /\ pc'[q] = pc[q] /\ req'[q] = req[q] /\ claim'[q] = claim[q]
      /\ user'[q] = user[q] /\ answer'[q] = answer[q]
  BY DEF Alone
<1> QED BY <1>1, TheirsKept DEF TypeInv

\* Every step keeps each handler's ids its user's, and every answer in that name.
LEMMA NextTheirs ==
    ASSUME TypeInv, NumbersInv, \A q \in Requests : HoldsTheirs(q), [Next]_vars
    PROVE  /\ \A q \in Requests : HoldsTheirs(q)'
           /\ \A q \in Requests \ overtaken : answer'[q] # answer[q] => InTheirName(q)
<1>0. TypeInv' /\ DbOK' /\ HandlersInv /\ HandlersTypeOK /\ DbOK
  BY NextTypes DEF TypeInv, HandlersInv
<1>1. CASE SeedCommits /\ UNCHANGED handlers
  <2>1. /\ overtaken' = {q \in Requests : pc[q] \notin {"idle", "done"}}
        /\ pc' = pc /\ req' = req /\ user' = user /\ answer' = answer
    BY <1>1, CommitEffects DEF handlers
  <2>2. ASSUME NEW q \in Requests PROVE HoldsTheirs(q)'
    <3>1. pc[q] \in {"idle", "guard"} => user[q] = NoUser
      BY DEF HoldsTheirs
    <3>2. q \notin overtaken' => pc[q] \in {"idle", "done"}
      BY <2>1
    <3> QED BY <2>1, <3>1, <3>2 DEF HoldsTheirs, Inside
  <2> QED BY <2>1, <2>2
<1>2. CASE Mild
  <2>1. ASSUME NEW p \in Requests, Submit(p)
        PROVE  Alone(p) /\ HoldsTheirs(p)' /\ (answer'[p] # answer[p] => InTheirName(p))
    BY <1>0, <2>1, SubmitTypes, Arrives
  <2>2. ASSUME NEW p \in Requests, Handle(p)
        PROVE  /\ Alone(p) /\ HoldsTheirs(p)'
               /\ p \notin overtaken /\ answer'[p] # answer[p] => InTheirName(p)
    BY <2>2, HandleSteps, Moves
  <2>3. ASSUME NEW p \in Requests, pc[p] = "insert", Answer(p, Says("error")), Keep
        PROVE  Alone(p) /\ HoldsTheirs(p)' /\ InTheirName(p)
    <3>1. Says("error") \in Answers /\ pc[p] # "idle"
      BY <2>3, SaysAnswers
    <3>2. Alone(p) /\ pc'[p] = "done" /\ answer'[p] = Says("error")
      BY <1>0, <2>3, <3>1, Answering
    <3> QED BY <3>2, AnsweredHolds, NothingDone
  <2>4. ASSUME UNCHANGED <<req, pc, claim, user, answer>>
        PROVE  /\ \A q \in Requests : HoldsTheirs(q)'
               /\ \A q \in Requests : answer'[q] = answer[q]
    BY <1>0, <1>2, <2>4, TheirsKept
  <2>5. CASE \E p \in Requests : Submit(p) \/ Handle(p)
    BY <1>0, <1>2, <2>1, <2>2, <2>5, OthersWait
  <2>6. CASE \E c \in Clients : Expire(c)
    BY <2>4, <2>6 DEF Expire
  <2>7. CASE StartSeed \/ SeedProceeds \/ SeedTimesOut
    <3>1. UNCHANGED handlers
      BY <2>7 DEF StartSeed, SeedProceeds, SeedTimesOut, SeedDeletes, SeedRestarts,
         SeedCreatesUser, SeedCreatesRestaurant, SeedCreatesComments, SeedCommits, SeedInserts,
         Done, Fails
    <3> QED BY <2>4, <3>1 DEF handlers
  <2>8. CASE BreakDeadlock
    <3>1. PICK p \in Requests :
              pc[p] = "insert" /\ (Fails("killed") \/ (Answer(p, Says("error")) /\ Keep))
      BY <2>8 DEF BreakDeadlock, Deadlocked, SeedWaitsFor
    <3>2. CASE Fails("killed")
      BY <2>4, <3>2 DEF Fails, handlers
    <3>3. CASE Answer(p, Says("error")) /\ Keep
      BY <1>0, <1>2, <2>3, <3>1, <3>3, OthersWait
    <3> QED BY <3>1, <3>2, <3>3
  <2>9. CASE UNCHANGED vars
    BY <2>4, <2>9 DEF vars, handlers
  <2> QED BY <2>5, <2>6, <2>7, <2>8, <2>9 DEF Next
<1> QED BY <1>1, <1>2, MildSteps

\* What a request does in the name of its client it does for an account with the
\* username that the client logged in as, for any number of clients and requests,
\* unless a commit of the seed overtook it on its way.
THEOREM RequestsActForTheirUser == Spec => ForTheirUser
<1> DEFINE Holds == \A q \in Requests : HoldsTheirs(q)
           Acts == \A p \in Requests \ overtaken : answer'[p] # answer[p] => InTheirName(p)
<1>1. Init => Holds
  BY DEF Init, HandlersInit, HoldsTheirs, Inside
<1>2. ASSUME DbInv, NumbersInv, Holds, [Next]_vars PROVE Holds' /\ Acts
  BY <1>2, NextTheirs DEF DbInv
<1>3. DbInv /\ NumbersInv /\ Holds /\ [Next]_vars => Holds' /\ [Acts]_vars
  BY <1>2
<1> HIDE DEF Holds, Acts
<1>4. Spec => []Holds
  BY <1>1, <1>3, NumbersInvariant, PTL DEF Spec
<1>5. Spec => [][Acts]_vars
  BY <1>3, <1>4, NumbersInvariant, PTL DEF Spec
<1> QED BY <1>5, PTL DEF ForTheirUser, Acts
===============================================================================
