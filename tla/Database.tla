-------------------------------- MODULE Database --------------------------------
(***************************************************************************)
(* The five tables of the schema, and what PostgreSQL does to the          *)
(* statements of a request while the transaction of the seed is open.      *)
(*                                                                         *)
(* Everything runs at Read Committed.  A request's statement sees the      *)
(* committed rows only.  It waits for the open transaction when it meets   *)
(* a row that transaction deleted or inserted, or a sequence it has        *)
(* restarted; and the transaction waits for every INSERT that has drawn an *)
(* id from the sequence it is about to restart.                            *)
(***************************************************************************)
EXTENDS Integers, FiniteSets

CONSTANT
    Accounts    \* rows of User that clients may ask for, and those of the seed

Ids == Nat \ {0}
Tables == {"favourite", "comment", "reservation", "restaurant", "user"}

VARIABLES
    rows,       \* table -> id -> committed row
    lastId,     \* table -> the last value its sequence gave
    dead,       \* table -> ids of the rows that the open transaction has deleted
    fresh,      \* table -> id -> row that it has inserted
    restarted   \* table -> the last value of the sequence, for those it has restarted

db == <<rows, lastId, dead, fresh, restarted>>
transaction == <<dead, fresh, restarted>>

\* The columns of a row that this depends on.
RowType(t) ==
    CASE t = "user" -> Accounts
      [] t = "restaurant" -> [ownerId : Ids]
      [] OTHER -> [userId : Ids, restaurantId : Ids]

NoRows == [i \in {} |-> i]
NoneDead == [t \in Tables |-> {}]
NoneFresh == [t \in Tables |-> NoRows]

NoTransaction == dead = NoneDead /\ fresh = NoneFresh /\ restarted = NoRows
Close == dead' = NoneDead /\ fresh' = NoneFresh /\ restarted' = NoRows

\* A mutant: the user of a comment or favourite is a number like any other.
LooseReferences(t, row) ==
    CASE t = "user" -> {}
      [] t = "restaurant" -> {<<"user", row.ownerId>>}
      [] OTHER -> {<<"restaurant", row.restaurantId>>}

\* The foreign keys of a row: the tables and ids of the rows it refers to.
References(t, row) ==
    CASE t = "user" -> {}
      [] t = "restaurant" -> {<<"user", row.ownerId>>}
      [] OTHER -> {<<"user", row.userId>>, <<"restaurant", row.restaurantId>>}

\* A mutant: only the email of a user is unique.
SameEmail(t, a, b) ==
    \/ t = "user" /\ a.email = b.email
    \/ t = "favourite" /\ a = b

\* Two rows that a unique index keeps apart, beside the one on the id.
SameKey(t, a, b) ==
    \/ t = "user" /\ (a.email = b.email \/ a.username = b.username)
    \/ t = "favourite" /\ a = b

Live(t) == DOMAIN rows[t] \ dead[t]

Put(table, id, row) == [i \in DOMAIN table \cup {id} |-> IF i = id THEN row ELSE table[i]]

-------------------------------------------------------------------------------
(* An INSERT of a request: it draws an id, and then writes its row.        *)

DrawId(t) ==
    /\ t \notin DOMAIN restarted
    /\ lastId' = [lastId EXCEPT ![t] = @ + 1]
    /\ UNCHANGED <<rows, transaction>>

\* A unique index waits to learn whether a row with this key stays or comes.
KeyWaits(t, id, row) ==
    \/ \E i \in dead[t] : i = id \/ SameKey(t, rows[t][i], row)
    \/ \E i \in DOMAIN fresh[t] : i = id \/ SameKey(t, fresh[t][i], row)

\* P2002
Collides(t, id, row) == \E i \in Live(t) : i = id \/ SameKey(t, rows[t][i], row)

\* A foreign key waits to learn whether the row it refers to stays.
ReferenceWaits(t, row) == \E ref \in References(t, row) : ref[2] \in dead[ref[1]]

\* P2003
Dangles(t, row) == \E ref \in References(t, row) : ref[2] \notin DOMAIN rows[ref[1]]

Inserted(t, id, row) ==
    /\ rows' = [rows EXCEPT ![t] = Put(@, id, row)]
    /\ UNCHANGED <<lastId, transaction>>

Removed(t, id) ==
    /\ rows' = [rows EXCEPT ![t] = [i \in DOMAIN @ \ {id} |-> @[i]]]
    /\ UNCHANGED <<lastId, transaction>>

-------------------------------------------------------------------------------
(* The statements of the open transaction.                                 *)

\* A row that still refers to this one refuses its deletion (ON DELETE RESTRICT).
Held(t, id) ==
    \E u \in Tables : \E i \in Live(u) : <<t, id>> \in References(u, rows[u][i])

DeleteMany(t) ==
    /\ dead' = [dead EXCEPT ![t] = DOMAIN rows[t]]
    /\ UNCHANGED <<rows, lastId, fresh, restarted>>

\* A mutant: setval, which no rollback takes back, in the place of ALTER SEQUENCE.
SetSequence(t) ==
    /\ restarted' = Put(restarted, t, 0)
    /\ lastId' = [lastId EXCEPT ![t] = 0]
    /\ UNCHANGED <<rows, dead, fresh>>

RestartSequence(t) ==
    /\ restarted' = Put(restarted, t, 0)
    /\ UNCHANGED <<rows, lastId, dead, fresh>>

\* The transaction inserts rows under the next values of a sequence it restarted.
NextIds(t, n) == (restarted[t] + 1)..(restarted[t] + n)

InsertFresh(t, n, row) ==
    /\ restarted' = [restarted EXCEPT ![t] = @ + n]
    /\ fresh' = [fresh EXCEPT ![t] =
                     [i \in DOMAIN @ \cup NextIds(t, n) |-> IF i \in DOMAIN @ THEN @[i] ELSE row]]
    /\ UNCHANGED <<rows, lastId, dead>>

FreshCollides(t, n, row) == n > 0 /\ \E id \in NextIds(t, n) : Collides(t, id, row)

Committed(t) ==
    [i \in Live(t) \cup DOMAIN fresh[t] |->
        IF i \in DOMAIN fresh[t] THEN fresh[t][i] ELSE rows[t][i]]

Commit ==
    /\ rows' = [t \in Tables |-> Committed(t)]
    /\ lastId' = [t \in Tables |-> IF t \in DOMAIN restarted THEN restarted[t] ELSE lastId[t]]
    /\ Close

Rollback == Close /\ UNCHANGED <<rows, lastId>>
================================================================================
