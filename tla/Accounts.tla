-------------------------------- MODULE Accounts --------------------------------
(***************************************************************************)
(* Accounts and sessions: registration, login, the JWT that the cookie     *)
(* carries, the two guards, GET /auth/me and POST /auth/logout.            *)
(*                                                                         *)
(* The server keeps no session.  A token names a user by id and username,  *)
(* and the guard looks that user up again on every request; what the       *)
(* handler does afterwards it does for the id the guard found.  One action *)
(* is what a handler does from one await to the next.                      *)
(***************************************************************************)
EXTENDS Database

CONSTANTS
    Requests,    \* the HTTP requests
    Clients,     \* the browsers that send them
    Asked,       \* what clients may ask
    NoRequest,   \* in the place of a request that has not arrived
    NoToken, NoUser,
    OldTokens    \* what the cookies hold of accounts that an earlier seed deleted

Usernames == {a.username : a \in Accounts}
Passwords == {a.passwordHash : a \in Accounts}
Token == [sub : Ids, username : Usernames]

Guarded == {"me", "logout", "createRestaurant", "createComment", "createFavourite",
            "deleteComment"}
Request ==
    [op : {"register"}, client : Clients, account : Accounts]
    \cup [op : {"login"}, client : Clients, username : Usernames, password : Passwords]
    \cup [op : Guarded \cup {"view"}, client : Clients, id : Ids]

\* Of a password its hash keeps what compare needs: whether it is the same.
ASSUME AccountsAssumption ==
    /\ \A a \in Accounts : DOMAIN a = {"email", "username", "passwordHash"}
    /\ Asked \subseteq Request
    /\ NoRequest \notin Request /\ NoToken \notin Token
    /\ OldTokens \subseteq Token

VARIABLES
    jar,     \* client -> the access_token cookie that its browser holds
    req,     \* request -> what the client asked
    pc,      \* request -> the await its handler is at
    claim,   \* request -> the token it came with
    user,    \* request -> the user its handler holds: request.user, or the one logging in
    drawn,   \* request -> the id its INSERT has drawn
    answer   \* request -> its answer

handlers == <<jar, req, pc, claim, user, drawn, answer>>

Says(status) == [status |-> status]

Answers ==
    [status : {"pending", "created", "ok", "deleted", "unauthorized", "forbidden",
               "notFound", "conflict", "error"}]
    \cup [status : {"ok"}, username : Usernames]
    \cup [status : {"ok"}, canEdit : BOOLEAN]

HandlersTypeOK ==
    /\ jar \in [Clients -> Token \cup {NoToken}]
    /\ req \in [Requests -> Request \cup {NoRequest}]
    /\ pc \in [Requests -> {"idle", "hash", "lookUp", "compare", "guard", "handler", "draw",
                            "insert", "delete", "blocked", "done"}]
    /\ claim \in [Requests -> Token \cup {NoToken}]
    /\ user \in [Requests -> [id : Ids, passwordHash : Passwords] \cup [id : Ids] \cup {NoUser}]
    /\ drawn \in [Requests -> Nat]
    /\ answer \in [Requests -> Answers]

TokenOf(id) == [sub |-> id, username |-> rows.user[id].username]

\* The cookies of earlier logins are in the jars from the start.
HandlersInit ==
    /\ jar \in [Clients -> {TokenOf(id) : id \in DOMAIN rows.user} \cup OldTokens \cup {NoToken}]
    /\ req = [p \in Requests |-> NoRequest]
    /\ pc = [p \in Requests |-> "idle"]
    /\ claim = [p \in Requests |-> NoToken]
    /\ user = [p \in Requests |-> NoUser]
    /\ drawn = [p \in Requests |-> 0]
    /\ answer = [p \in Requests |-> Says("pending")]

-------------------------------------------------------------------------------
(* Steps of a handler.                                                     *)

At(p, op, l) == pc[p] = l /\ req[p].op = op

Goto(p, l) == pc' = [pc EXCEPT ![p] = l] /\ UNCHANGED <<req, claim, answer>>

Answer(p, a) ==
    /\ answer' = [answer EXCEPT ![p] = a]
    /\ pc' = [pc EXCEPT ![p] = "done"]
    /\ UNCHANGED <<req, claim>>

Keep == UNCHANGED <<jar, user, drawn>>
Hold(p, u) == user' = [user EXCEPT ![p] = u] /\ UNCHANGED <<jar, drawn>>
SetCookie(p, token) == jar' = [jar EXCEPT ![req[p].client] = token] /\ UNCHANGED <<user, drawn>>

\* A request arrives with the cookie of its client.  Passport answers a request
\* without a valid token before any handler runs; the optional guard lets it in.
Submit(p) ==
    \E q \in Asked :
        LET token == jar[q.client] IN
        /\ pc[p] = "idle"
        /\ req' = [req EXCEPT ![p] = q]
        /\ claim' = [claim EXCEPT ![p] = token]
        /\ pc' = [pc EXCEPT ![p] =
                     CASE q.op = "register" -> "hash"
                       [] q.op = "login" -> "lookUp"
                       [] q.op \in Guarded \cup {"view"} /\ token # NoToken -> "guard"
                       [] q.op = "view" /\ token = NoToken -> "handler"
                       [] OTHER -> "done"]
        /\ answer' = [answer EXCEPT ![p] =
                         IF q.op \in Guarded /\ token = NoToken
                         THEN Says("unauthorized") ELSE @]
        /\ Keep
        /\ UNCHANGED db

\* Cookie and token are both good for 24 hours from the login.
Expire(c) ==
    /\ jar[c] # NoToken
    /\ jar' = [jar EXCEPT ![c] = NoToken]
    /\ UNCHANGED <<db, req, pc, claim, user, drawn, answer>>

-------------------------------------------------------------------------------
(* POST /auth/register.                                                    *)

Hash(p) == At(p, "register", "hash") /\ Goto(p, "draw") /\ Keep /\ UNCHANGED db

\* The row that an INSERT of the handler writes, and its table.
TableOf(op) ==
    CASE op = "register" -> "user"
      [] op = "createRestaurant" -> "restaurant"
      [] op = "createComment" -> "comment"
      [] op = "createFavourite" -> "favourite"

NewRow(p) ==
    CASE req[p].op = "register" -> req[p].account
      [] req[p].op = "createRestaurant" -> [ownerId |-> user[p].id]
      [] OTHER -> [userId |-> user[p].id, restaurantId |-> req[p].id]

Draw(p) ==
    /\ pc[p] = "draw"
    /\ DrawId(TableOf(req[p].op))
    /\ drawn' = [drawn EXCEPT ![p] = lastId[TableOf(req[p].op)] + 1]
    /\ Goto(p, "insert")
    /\ UNCHANGED <<jar, user>>

\* The indexes are checked first, the foreign keys at the end of the statement.
KeysPass(p) ==
    LET t == TableOf(req[p].op) IN
    /\ pc[p] = "insert"
    /\ ~KeyWaits(t, drawn[p], NewRow(p))
    /\ ~Collides(t, drawn[p], NewRow(p))
    /\ ~ReferenceWaits(t, NewRow(p))

\* The INSERT waits for the open transaction to end.
InsertBlocked(p) ==
    LET t == TableOf(req[p].op) IN
    /\ pc[p] = "insert"
    /\ \/ KeyWaits(t, drawn[p], NewRow(p))
       \/ ~Collides(t, drawn[p], NewRow(p)) /\ ReferenceWaits(t, NewRow(p))

Insert(p) ==
    LET t == TableOf(req[p].op) IN
    /\ KeysPass(p)
    /\ ~Dangles(t, NewRow(p))
    /\ Inserted(t, drawn[p], NewRow(p))
    /\ Answer(p, Says("created"))
    /\ Keep

\* P2002 is a 409 to those who ask for it, whichever index the row ran into.
InsertCollides(p) ==
    /\ pc[p] = "insert"
    /\ ~InsertBlocked(p)
    /\ Collides(TableOf(req[p].op), drawn[p], NewRow(p))
    /\ Answer(p, Says(IF req[p].op \in {"register", "createFavourite"}
                      THEN "conflict" ELSE "error"))
    /\ Keep
    /\ UNCHANGED db

\* P2003 is a 404 to those who look for the restaurant first.
InsertDangles(p) ==
    /\ KeysPass(p)
    /\ Dangles(TableOf(req[p].op), NewRow(p))
    /\ Answer(p, Says(IF req[p].op = "createRestaurant" THEN "error" ELSE "notFound"))
    /\ Keep
    /\ UNCHANGED db

-------------------------------------------------------------------------------
(* POST /auth/login.                                                       *)

Named(name) == {i \in DOMAIN rows.user : rows.user[i].username = name}

LookUpUnknown(p) ==
    /\ At(p, "login", "lookUp")
    /\ Named(req[p].username) = {}
    /\ Answer(p, Says("unauthorized"))
    /\ Keep
    /\ UNCHANGED db

LookUpFound(p) ==
    /\ At(p, "login", "lookUp")
    /\ \E i \in Named(req[p].username) :
           Hold(p, [id |-> i, passwordHash |-> rows.user[i].passwordHash])
    /\ Goto(p, "compare")
    /\ UNCHANGED db

CompareFails(p) ==
    /\ At(p, "login", "compare")
    /\ user[p].passwordHash # req[p].password
    /\ Answer(p, Says("unauthorized"))
    /\ Keep
    /\ UNCHANGED db

CompareSucceeds(p) ==
    /\ At(p, "login", "compare")
    /\ user[p].passwordHash = req[p].password
    /\ SetCookie(p, [sub |-> user[p].id, username |-> req[p].username])
    /\ Answer(p, Says("ok"))
    /\ UNCHANGED db

-------------------------------------------------------------------------------
(* The guards.                                                             *)

\* A mutant: the id is enough.
KnowsId(token) == token.sub \in DOMAIN rows.user

\* JwtStrategy.validate
Validates(token) ==
    /\ token.sub \in DOMAIN rows.user
    /\ rows.user[token.sub].username = token.username

GuardAdmits(p) ==
    /\ pc[p] = "guard"
    /\ Validates(claim[p])
    /\ Hold(p, [id |-> claim[p].sub])
    /\ Goto(p, "handler")
    /\ UNCHANGED db

\* A mutant: a request whose user is gone is neither refused nor let on.
GuardRefusesOthers(p) ==
    /\ pc[p] = "guard"
    /\ ~Validates(claim[p])
    /\ claim[p].sub \in DOMAIN rows.user
    /\ IF req[p].op = "view" THEN Goto(p, "handler") ELSE Answer(p, Says("unauthorized"))
    /\ Keep
    /\ UNCHANGED db

GuardRefuses(p) ==
    /\ pc[p] = "guard"
    /\ ~Validates(claim[p])
    /\ IF req[p].op = "view" THEN Goto(p, "handler") ELSE Answer(p, Says("unauthorized"))
    /\ Keep
    /\ UNCHANGED db

-------------------------------------------------------------------------------
(* GET /auth/me and POST /auth/logout.                                     *)

\* A mutant: findCurrentById without its select, so that the hash is answered too.
MeWholeRow(p) ==
    /\ At(p, "me", "handler")
    /\ user[p].id \in DOMAIN rows.user
    /\ Answer(p, [status |-> "ok", username |-> rows.user[user[p].id].username,
                  passwordHash |-> rows.user[user[p].id].passwordHash])
    /\ Keep
    /\ UNCHANGED db

Me(p) ==
    /\ At(p, "me", "handler")
    /\ user[p].id \in DOMAIN rows.user
    /\ Answer(p, [status |-> "ok", username |-> rows.user[user[p].id].username])
    /\ Keep
    /\ UNCHANGED db

MeGone(p) ==
    /\ At(p, "me", "handler")
    /\ user[p].id \notin DOMAIN rows.user
    /\ Answer(p, Says("unauthorized"))
    /\ Keep
    /\ UNCHANGED db

Logout(p) ==
    /\ At(p, "logout", "handler")
    /\ SetCookie(p, NoToken)
    /\ Answer(p, Says("deleted"))
    /\ UNCHANGED db

HandleAccount(p) ==
    \/ Hash(p) \/ Draw(p) \/ Insert(p) \/ InsertCollides(p) \/ InsertDangles(p)
    \/ LookUpUnknown(p) \/ LookUpFound(p) \/ CompareFails(p) \/ CompareSucceeds(p)
    \/ GuardAdmits(p) \/ GuardRefuses(p)
    \/ Me(p) \/ MeGone(p) \/ Logout(p)
================================================================================
