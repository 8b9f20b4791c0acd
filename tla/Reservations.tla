----------------------------- MODULE Reservations -----------------------------
(***************************************************************************)
(* The reservation component: the handlers of POST /reservations,          *)
(* GET /reservations/:id and PATCH /reservations/:id/cancel, the           *)
(* repository they call, and the reservation and restaurant tables they    *)
(* share.                                                                  *)
(*                                                                         *)
(* Handlers run concurrently: the event loop interleaves them at every     *)
(* await, that is, between database calls.  One action is what a handler   *)
(* does from one await to the next.  The database (PostgreSQL behind       *)
(* Prisma, not under src/) is modelled by what the repository relies on:   *)
(*  - a statement is atomic;                                               *)
(*  - a Serializable transaction reads the snapshot of its first statement *)
(*    and commits only if no reservation it would have read was committed  *)
(*    meanwhile, otherwise it fails with P2034;                            *)
(*  - it may fail with P2034 also for a reservation it would not have read *)
(*    (there is no index on (restaurantId, date), so the conflict is       *)
(*    detected on the whole table);                                        *)
(*  - a PATCH of a restaurant runs at the default level, Read Committed,   *)
(*    and takes no part in that detection;                                 *)
(*  - the foreign key of a reservation is RESTRICT;                        *)
(*  - a call may fail and, at a commit, the failure may hide its success.  *)
(***************************************************************************)
EXTENDS AvailabilityCalculator

CONSTANTS
    Requests,         \* the HTTP requests to the reservation endpoints
    Users,
    Restaurants,
    Dates,
    Times,            \* the times of day that clients ask for
    MaxPartySize,     \* 99 in CreateReservationDto
    Settings,         \* well-formed values of the column reservationSettings
    MalformedSettings,\* other JSON objects, such as {}, the column's default
    NoRestaurant,     \* in the place of the settings of a deleted restaurant
    NoRequest,        \* in the place of a request that has not arrived
    CreateRequests,   \* what clients may POST
    ByIdRequests,     \* what clients may GET or cancel by id
    MaxAttempts,      \* MAX_TRANSACTION_ATTEMPTS
    SlotStart,        \* [Dates -> [Times -> Nat]]: the instant of a slot, in UTC
    MaxClock,         \* a bound on the clock
    Faults            \* whether database calls may fail for no logical reason

PartySizes == 1..MaxPartySize

CreateRequest ==
    [op : {"create"}, userId : Users, restaurantId : Restaurants, date : Dates,
     time : Times, partySize : PartySizes]

ByIdRequest == [op : {"find", "cancel"}, userId : Users, reservationId : Nat \ {0}]

WellFormed(s) ==
    /\ s.defaultSlotCapacity \in Nat
    /\ s.slotIntervalMinutes \in Nat \ {0}
    /\ s.serviceWindows \subseteq [start : Nat \X Nat, end : Nat \X Nat]
    /\ IsFiniteSet(DOMAIN s.bookedSlots)
    /\ \A i \in DOMAIN s.bookedSlots : s.bookedSlots[i].reservedSeats \in Nat

ASSUME BoundsAssumption ==
    /\ MaxPartySize \in Nat
    /\ MaxAttempts \in Nat \ {0}
    /\ MaxClock \in Nat
    /\ Faults \in BOOLEAN
ASSUME RequestsAssumption ==
    /\ CreateRequests \subseteq CreateRequest
    /\ ByIdRequests \subseteq ByIdRequest
    /\ NoRequest \notin CreateRequest \cup ByIdRequest
ASSUME SettingsAssumption ==
    /\ \A s \in Settings : WellFormed(s)
    /\ Settings \cap MalformedSettings = {}
    /\ NoRestaurant \notin Settings \cup MalformedSettings
ASSUME SlotStartAssumption == SlotStart \in [Dates -> [Times -> Nat]]

AllSettings == Settings \cup MalformedSettings

(* The outcomes of a request, by the HTTP status that the client sees.     *)
Outcomes ==
    {"pending"}
    \cup {"created"}                                  \* 201
    \cup {"found", "cancelled"}                       \* 200
    \cup {"inPast", "badTime"}                        \* 400
    \cup {"foreign"}                                  \* 403
    \cup {"noRestaurant", "noReservation"}            \* 404
    \cup {"full", "contended", "alreadyCancelled"}    \* 409
    \cup {"error"}                                    \* 500

VARIABLES
    reservations, \* the table: a sequence, the id of a row is its index
    settings,     \* restaurant -> its settings, or NoRestaurant when deleted
    published,    \* restaurant -> every settings it has had (history)
    now,          \* the server's clock
    req,          \* request -> what the client asked, or NoRequest
    pc,           \* request -> the await its handler is at
    attempt,      \* request -> the loop variable of createWithAvailabilityCheck
    seen,         \* request -> the rows in the snapshot of its transaction
    began,        \* request -> the rows in that of its first attempt (history)
    offer,        \* request -> the settings its transaction read
    outcome,      \* request -> its answer
    effect        \* request -> the row its own write changed, or 0 (history)

db == <<reservations, settings, published>>
vars == <<reservations, settings, published, now, req, pc, attempt, seen, began,
          offer, outcome, effect>>

Row == [userId : Users, restaurantId : Restaurants, date : Dates, time : Times,
        partySize : PartySizes, status : {"confirmed", "cancelled"}]

TypeOK ==
    /\ reservations \in Seq(Row)
    /\ settings \in [Restaurants -> AllSettings \cup {NoRestaurant}]
    /\ published \in [Restaurants -> SUBSET AllSettings]
    /\ now \in 0..MaxClock
    /\ req \in [Requests -> CreateRequest \cup ByIdRequest \cup {NoRequest}]
    /\ pc \in [Requests -> {"idle", "transaction", "insert", "lookup", "update",
                            "reread", "done"}]
    /\ attempt \in [Requests -> 1..MaxAttempts]
    /\ seen \in [Requests -> Nat]
    /\ began \in [Requests -> Nat]
    /\ offer \in [Requests -> AllSettings \cup {NoRestaurant}]
    /\ outcome \in [Requests -> Outcomes]
    /\ effect \in [Requests -> Nat]

RowIds == 1..Len(reservations)

Confirmed(id) == reservations[id].status = "confirmed"

\* The nested select of the transaction: the confirmed rows of a restaurant's day.
ConfirmedOn(restaurant, date) ==
    [id \in {i \in RowIds : /\ reservations[i].restaurantId = restaurant
                            /\ reservations[i].date = date
                            /\ Confirmed(i)} |-> reservations[id]]

SlotsFor(p) ==
    Calculate(settings[req[p].restaurantId],
              ConfirmedOn(req[p].restaurantId, req[p].date),
              req[p].date, req[p].partySize)

Init ==
    /\ reservations = <<>>
    /\ settings \in [Restaurants -> AllSettings]
    /\ published = [r \in Restaurants |-> {settings[r]}]
    /\ now = 0
    /\ req = [p \in Requests |-> NoRequest]
    /\ pc = [p \in Requests |-> "idle"]
    /\ attempt = [p \in Requests |-> 1]
    /\ seen = [p \in Requests |-> 0]
    /\ began = [p \in Requests |-> 0]
    /\ offer = [p \in Requests |-> NoRestaurant]
    /\ outcome = [p \in Requests |-> "pending"]
    /\ effect = [p \in Requests |-> 0]

-------------------------------------------------------------------------------
(* Steps that several handlers share.                                      *)

Answer(p, o) ==
    /\ outcome' = [outcome EXCEPT ![p] = o]
    /\ pc' = [pc EXCEPT ![p] = "done"]

Goto(p, l) ==
    /\ pc' = [pc EXCEPT ![p] = l]
    /\ UNCHANGED outcome

Arrive(p, q) == pc[p] = "idle" /\ req' = [req EXCEPT ![p] = q]

-------------------------------------------------------------------------------
(* POST /reservations.                                                     *)

\* validateNotInPast, the only look at the clock; then the first await.
SubmitCreate(p) ==
    \E q \in CreateRequests :
        /\ Arrive(p, q)
        /\ IF SlotStart[q.date][q.time] < now
           THEN Answer(p, "inPast")
           ELSE Goto(p, "transaction")
        /\ UNCHANGED <<db, now, attempt, seen, began, offer, effect>>

\* The callback checkAvailability runs on what the first statement of the
\* transaction read; it does not await.  When it throws, the transaction is
\* rolled back and the request is answered.
CheckThrows(p, o) ==
    /\ Answer(p, o)
    /\ UNCHANGED <<db, now, req, attempt, seen, began, offer, effect>>

RestaurantMissing(p) ==
    /\ pc[p] = "transaction"
    /\ settings[req[p].restaurantId] = NoRestaurant
    /\ CheckThrows(p, "noRestaurant")

\* calculate reads a field of undefined: a TypeError, not an HTTP exception.
CalculatorThrows(p) ==
    /\ pc[p] = "transaction"
    /\ settings[req[p].restaurantId] \in MalformedSettings
    /\ CheckThrows(p, "error")

SlotMissing(p) ==
    /\ pc[p] = "transaction"
    /\ settings[req[p].restaurantId] \in Settings
    /\ req[p].time \notin DOMAIN SlotsFor(p)
    /\ CheckThrows(p, "badTime")

SlotFull(p) ==
    /\ pc[p] = "transaction"
    /\ settings[req[p].restaurantId] \in Settings
    /\ req[p].time \in DOMAIN SlotsFor(p)
    /\ ~SlotsFor(p)[req[p].time].available
    /\ CheckThrows(p, "full")

\* The check passes: on to the insert, which the database judges by the snapshot.
SlotFits(p) ==
    /\ pc[p] = "transaction"
    /\ settings[req[p].restaurantId] \in Settings
    /\ req[p].time \in DOMAIN SlotsFor(p)
    /\ SlotsFor(p)[req[p].time].available
    /\ seen' = [seen EXCEPT ![p] = Len(reservations)]
    /\ began' = [began EXCEPT ![p] = IF attempt[p] = 1 THEN Len(reservations) ELSE @]
    /\ offer' = [offer EXCEPT ![p] = settings[req[p].restaurantId]]
    /\ Goto(p, "insert")
    /\ UNCHANGED <<db, now, req, attempt, effect>>

\* A mutant: the transaction runs without the isolation level.
ReadCommitted(p) == settings[req[p].restaurantId] # NoRestaurant

\* No row that the transaction would have read was committed after its snapshot.
Unchallenged(p) ==
    \A i \in RowIds :
        i > seen[p] => \/ reservations[i].restaurantId # req[p].restaurantId
                       \/ reservations[i].date # req[p].date

\* Nor was the restaurant deleted that its row refers to.
Serializable(p) == settings[req[p].restaurantId] # NoRestaurant /\ Unchallenged(p)

NewRow(p) ==
    [userId |-> req[p].userId, restaurantId |-> req[p].restaurantId,
     date |-> req[p].date, time |-> req[p].time, partySize |-> req[p].partySize,
     status |-> "confirmed"]

CommitInsert(p) ==
    /\ pc[p] = "insert"
    /\ Serializable(p)
    /\ reservations' = Append(reservations, NewRow(p))
    /\ effect' = [effect EXCEPT ![p] = Len(reservations) + 1]
    /\ UNCHANGED <<settings, published, now, req, attempt, seen, began, offer>>

Insert(p) == CommitInsert(p) /\ Answer(p, "created")

\* A mutant: an error at the commit is retried like a serialization failure.
RetryUnacknowledged(p) == Faults /\ CommitInsert(p) /\ Goto(p, "transaction")

\* The commit succeeds and the connection is lost before the server hears of it.
InsertUnacknowledged(p) == Faults /\ CommitInsert(p) /\ Answer(p, "error")

\* P2034: some transaction that ran beside this one has committed.
Disturbed(p) ==
    \/ Len(reservations) > seen[p]
    \/ settings[req[p].restaurantId] = NoRestaurant

\* A mutant: the loop runs once more than MaxAttempts.
RetryOnceMore(p) ==
    /\ pc[p] = "insert"
    /\ Disturbed(p)
    /\ attempt[p] <= MaxAttempts
    /\ attempt' = [attempt EXCEPT ![p] = attempt[p] + 1]
    /\ Goto(p, "transaction")
    /\ UNCHANGED <<db, now, req, seen, began, offer, effect>>

\* A mutant: the retry repeats the insert and not the check.
RetryWithoutCheck(p) ==
    /\ pc[p] = "insert"
    /\ Disturbed(p)
    /\ attempt[p] < MaxAttempts
    /\ attempt' = [attempt EXCEPT ![p] = attempt[p] + 1]
    /\ seen' = [seen EXCEPT ![p] = Len(reservations)]
    /\ UNCHANGED <<db, now, req, pc, began, offer, outcome, effect>>

RetryTransaction(p) ==
    /\ pc[p] = "insert"
    /\ Disturbed(p)
    /\ attempt[p] < MaxAttempts
    /\ attempt' = [attempt EXCEPT ![p] = attempt[p] + 1]
    /\ Goto(p, "transaction")
    /\ UNCHANGED <<db, now, req, seen, began, offer, effect>>

\* A mutant: the first conflict is reported.
GiveUpAtOnce(p) ==
    /\ pc[p] = "insert"
    /\ Disturbed(p)
    /\ Answer(p, "contended")
    /\ UNCHANGED <<db, now, req, attempt, seen, began, offer, effect>>

\* ReservationTransactionConflictError, which create answers as a full slot.
GiveUp(p) ==
    /\ pc[p] = "insert"
    /\ Disturbed(p)
    /\ attempt[p] = MaxAttempts
    /\ Answer(p, "contended")
    /\ UNCHANGED <<db, now, req, attempt, seen, began, offer, effect>>

-------------------------------------------------------------------------------
(* GET /reservations/:id and PATCH /reservations/:id/cancel.               *)

SubmitById(p) ==
    \E q \in ByIdRequests :
        /\ Arrive(p, q)
        /\ Goto(p, "lookup")
        /\ UNCHANGED <<db, now, attempt, seen, began, offer, effect>>

\* findOwnedReservation, and what its caller does before the next await.
Lookup(p) == pc[p] = "lookup" /\ UNCHANGED <<db, now, req, attempt, seen, began, offer, effect>>

\* A mutant: whoever is logged in owns every reservation.
OwnsAny(p) == req[p].reservationId \in RowIds

Owns(p) ==
    /\ req[p].reservationId \in RowIds
    /\ reservations[req[p].reservationId].userId = req[p].userId

LookupMissing(p) ==
    Lookup(p) /\ req[p].reservationId \notin RowIds /\ Answer(p, "noReservation")

LookupForeign(p) ==
    Lookup(p) /\ req[p].reservationId \in RowIds /\ ~Owns(p) /\ Answer(p, "foreign")

FindOne(p) == Lookup(p) /\ Owns(p) /\ req[p].op = "find" /\ Answer(p, "found")

CancelAgain(p) ==
    /\ Lookup(p) /\ Owns(p) /\ req[p].op = "cancel"
    /\ ~Confirmed(req[p].reservationId)
    /\ Answer(p, "alreadyCancelled")

CancelProceeds(p) ==
    /\ Lookup(p) /\ Owns(p) /\ req[p].op = "cancel"
    /\ Confirmed(req[p].reservationId)
    /\ Goto(p, "update")

\* A mutant: the WHERE of the update has the id only.
UpdateAny(p) ==
    /\ pc[p] = "update"
    /\ reservations' = [reservations EXCEPT ![req[p].reservationId].status = "cancelled"]
    /\ effect' = [effect EXCEPT ![p] = req[p].reservationId]
    /\ UNCHANGED <<settings, published, now, req, attempt, seen, began, offer>>

\* cancelConfirmed: updateMany with the status in its WHERE.
UpdateConfirmed(p) ==
    /\ pc[p] = "update"
    /\ Confirmed(req[p].reservationId)
    /\ reservations' = [reservations EXCEPT ![req[p].reservationId].status = "cancelled"]
    /\ effect' = [effect EXCEPT ![p] = req[p].reservationId]
    /\ UNCHANGED <<settings, published, now, req, attempt, seen, began, offer>>

CancelConfirmed(p) == UpdateConfirmed(p) /\ Goto(p, "reread")

UpdateUnacknowledged(p) == Faults /\ UpdateConfirmed(p) /\ Answer(p, "error")

\* Mutants: the count is not looked at; the update is repeated until it counts.
CancelLostUnnoticed(p) ==
    /\ pc[p] = "update"
    /\ ~Confirmed(req[p].reservationId)
    /\ Goto(p, "reread")
    /\ UNCHANGED <<db, now, req, attempt, seen, began, offer, effect>>

CancelLostRepeats(p) ==
    /\ pc[p] = "update"
    /\ ~Confirmed(req[p].reservationId)
    /\ Goto(p, "update")
    /\ UNCHANGED <<db, now, req, attempt, seen, began, offer, effect>>

\* count = 0: another cancel came between the lookup and the update.
CancelLost(p) ==
    /\ pc[p] = "update"
    /\ ~Confirmed(req[p].reservationId)
    /\ Answer(p, "alreadyCancelled")
    /\ UNCHANGED <<db, now, req, attempt, seen, began, offer, effect>>

ReRead(p) ==
    /\ pc[p] = "reread"
    /\ Answer(p, "cancelled")
    /\ UNCHANGED <<db, now, req, attempt, seen, began, offer, effect>>

-------------------------------------------------------------------------------
\* Any database call can fail with an error that no handler catches: a timeout,
\* a lost connection.  An open transaction is rolled back.
DatabaseError(p) ==
    /\ Faults
    /\ pc[p] \in {"transaction", "insert", "lookup", "update", "reread"}
    /\ Answer(p, "error")
    /\ UNCHANGED <<db, now, req, attempt, seen, began, offer, effect>>

(* What the owner of a restaurant does meanwhile, and time.                *)

PatchSettings(r) ==
    \E s \in AllSettings \ {settings[r]} :
        /\ settings[r] # NoRestaurant
        /\ settings' = [settings EXCEPT ![r] = s]
        /\ published' = [published EXCEPT ![r] = @ \cup {s}]
        /\ UNCHANGED <<reservations, now, req, pc, attempt, seen, began, offer, outcome, effect>>

\* A mutant: cancelled reservations do not count as relations.
DeleteUnlessConfirmed(r) ==
    /\ settings[r] # NoRestaurant
    /\ \A i \in RowIds : reservations[i].restaurantId = r => ~Confirmed(i)
    /\ settings' = [settings EXCEPT ![r] = NoRestaurant]
    /\ UNCHANGED <<reservations, published, now, req, pc, attempt, seen, began, offer, outcome,
                   effect>>

\* The foreign key refuses to orphan a reservation, cancelled ones included.
DeleteRestaurant(r) ==
    /\ settings[r] # NoRestaurant
    /\ \A i \in RowIds : reservations[i].restaurantId # r
    /\ settings' = [settings EXCEPT ![r] = NoRestaurant]
    /\ UNCHANGED <<reservations, published, now, req, pc, attempt, seen, began, offer, outcome,
                   effect>>

Tick ==
    /\ now < MaxClock
    /\ now' = now + 1
    /\ UNCHANGED <<db, req, pc, attempt, seen, began, offer, outcome, effect>>

Submit(p) == SubmitCreate(p) \/ SubmitById(p)

\* The server's part of a request.
Handle(p) ==
    \/ RestaurantMissing(p) \/ CalculatorThrows(p) \/ SlotMissing(p) \/ SlotFull(p)
    \/ SlotFits(p) \/ Insert(p) \/ InsertUnacknowledged(p)
    \/ RetryTransaction(p) \/ GiveUp(p)
    \/ LookupMissing(p) \/ LookupForeign(p) \/ FindOne(p)
    \/ CancelAgain(p) \/ CancelProceeds(p) \/ CancelConfirmed(p)
    \/ UpdateUnacknowledged(p) \/ CancelLost(p) \/ ReRead(p)
    \/ DatabaseError(p)

Next ==
    \/ \E p \in Requests : Submit(p) \/ Handle(p)
    \/ \E r \in Restaurants : PatchSettings(r) \/ DeleteRestaurant(r)
    \/ Tick

\* A handler that can take its next step takes it: the event loop runs every
\* resolved promise and every database call ends, in an answer or in an error.
\* Clients, owners and the clock owe nothing.
Spec == Init /\ [][Next]_vars /\ \A p \in Requests : WF_vars(Handle(p))

-------------------------------------------------------------------------------
(* Properties.                                                             *)

SeatsTaken(r, date, time) == ReservationSeats(ConfirmedOn(r, date), time)

\* Settings s offer n seats in all for reservations at a slot.
Offers(s, date, time, n) ==
    /\ s \in Settings
    /\ time \in SlotTimes(s)
    /\ SeededReservedSeats(s, date, time) + n <= s.defaultSlotCapacity

\* However many creations, retries, cancellations and changes of settings
\* interleave, the confirmed seats of a slot fit settings that its restaurant has
\* published (the current ones, if it never changed them).
NoOverbooking ==
    \A r \in Restaurants, d \in Dates, t \in Times :
        SeatsTaken(r, d, t) > 0 => \E s \in published[r] : Offers(s, d, t, SeatsTaken(r, d, t))

\* Why NoOverbooking is inductive.  A pending insert still fits the settings its
\* transaction read, unless a row has come since that will make it fail; those
\* settings, and the current ones, have been published.
PendingInsertsFit ==
    \A p \in Requests :
        pc[p] = "insert" =>
            /\ seen[p] <= Len(reservations)
            /\ offer[p] \in published[req[p].restaurantId]
            /\ Unchallenged(p) =>
                   Offers(offer[p], req[p].date, req[p].time,
                          SeatsTaken(req[p].restaurantId, req[p].date, req[p].time)
                              + req[p].partySize)

CurrentIsPublished ==
    \A r \in Restaurants : settings[r] # NoRestaurant => settings[r] \in published[r]

\* What each handler knows of its request: it has the right kind, and once past
\* the lookup it owns the reservation it is about to cancel.
HandlersOK ==
    \A p \in Requests :
        /\ pc[p] \in {"transaction", "insert"} => req[p] \in CreateRequest
        /\ pc[p] \in {"lookup", "update", "reread"} => req[p] \in ByIdRequest
        /\ pc[p] \in {"update", "reread"} => Owns(p)

\* The inductive invariant: from each state that satisfies it, whether reachable
\* or not, every step of any handler leads to one that does.
BookingInv ==
    TypeOK /\ HandlersOK /\ CurrentIsPublished /\ PendingInsertsFit /\ NoOverbooking

Creates(p) == req[p] # NoRequest /\ req[p].op = "create"

\* What the client is told is what happened to the table: 201 and 200 (cancelled)
\* stand for a row of this request, with what it asked for; every refusal means
\* that the request changed nothing.  Only a 500 leaves it open.
AnswersMatchTable ==
    \A p \in Requests :
        /\ outcome[p] = "created" =>
               /\ effect[p] \in RowIds
               /\ [reservations[effect[p]] EXCEPT !.status = "confirmed"] = NewRow(p)
        /\ outcome[p] = "cancelled" =>
               /\ effect[p] = req[p].reservationId
               /\ ~Confirmed(effect[p])
        /\ outcome[p] \in Outcomes \ {"pending", "created", "cancelled", "error"} =>
               effect[p] = 0

\* Every row was inserted by exactly one request (a retried transaction leaves no
\* second row) and every cancelled row was cancelled by exactly one.
OneRequestPerChange ==
    \A i \in RowIds :
        /\ Cardinality({p \in Requests : Creates(p) /\ effect[p] = i}) = 1
        /\ Cardinality({p \in Requests : req[p] # NoRequest /\ ~Creates(p) /\ effect[p] = i})
               = IF Confirmed(i) THEN 0 ELSE 1

\* Reservations outlive no restaurant: a row inserted beside a concurrent DELETE
\* of its restaurant does not survive without it.
NoOrphans == \A i \in RowIds : settings[reservations[i].restaurantId] # NoRestaurant

\* The rows that came since the first attempt of a request read the table.
CameSince(p) == {i \in RowIds : i > began[p]}

\* Giving up after MaxAttempts is no livelock: when a request is answered that it
\* was beaten, as many rows as it made attempts have come since the first of them
\* read the table, each inserted by another request.  Only the last attempt can
\* have lost to the deletion of the restaurant instead.
ContentionIsProgress ==
    [][\A p \in Requests :
           outcome[p] = "pending" /\ outcome'[p] = "contended" =>
               /\ Cardinality(CameSince(p)) >=
                      MaxAttempts - IF settings[req[p].restaurantId] = NoRestaurant THEN 1 ELSE 0
               /\ \A i \in CameSince(p) :
                      \E q \in Requests \ {p} : Creates(q) /\ effect[q] = i]_vars

\* A row once inserted only ever changes from confirmed to cancelled, in a step
\* of a cancellation by the user who owns it; no row disappears or comes back.
OnlyOwnersCancel ==
    [][\A i \in RowIds :
           /\ i <= Len(reservations')
           /\ reservations'[i] # reservations[i] =>
                  /\ Confirmed(i)
                  /\ reservations'[i] = [reservations[i] EXCEPT !.status = "cancelled"]
                  /\ \E p \in Requests :
                         /\ pc[p] = "update" /\ pc'[p] # "update"
                         /\ req[p].userId = reservations[i].userId
                         /\ req[p].reservationId = i]_vars

\* Every request is answered: no handler is left waiting, whatever the others do.
EveryRequestAnswered ==
    \A p \in Requests : (pc[p] # "idle") ~> (outcome[p] # "pending")

-------------------------------------------------------------------------------
(* The reservation handlers implement the book of seats.                   *)

Slots == Restaurants \X Dates \X Times

\* The seats that each settings offer for reservations at a slot, if they offer it.
SeatsOffered ==
    [s \in Settings |-> [slot \in Dates \X Times |->
        IF slot[2] \in SlotTimes(s)
        THEN {s.defaultSlotCapacity - SeededReservedSeats(s, slot[1], slot[2])}
        ELSE {}]]

LimitsOf(r, date, time) ==
    UNION {SeatsOffered[s][<<date, time>>] : s \in published[r] \cap Settings}

VerdictOf(p) ==
    CASE pc[p] = "reread" \/ outcome[p] = "cancelled" -> "released"
      [] outcome[p] = "pending" /\ pc[p] # "reread" -> "open"
      [] outcome[p] = "created" -> "booked"
      [] outcome[p] = "error" -> "failed"
      [] OTHER -> "refused"

Book == INSTANCE SlotBook WITH
    taken   <- [s \in Slots |-> SeatsTaken(s[1], s[2], s[3])],
    limits  <- [s \in Slots |-> LimitsOf(s[1], s[2], s[3])],
    verdict <- [p \in Requests |-> VerdictOf(p)]

\* Every behaviour of the handlers is one of SlotBook: seats change in one step
\* per request, inside a published limit, and answers tell what happened.
ImplementsSlotBook == Book!Spec

-------------------------------------------------------------------------------
(* What the documentation says of the endpoints and the code does not do.  *)

Fits(p) ==
    LET q == req[p] IN
    Offers(settings[q.restaurantId], q.date, q.time,
           SeatsTaken(q.restaurantId, q.date, q.time) + q.partySize)

\* 409 of POST means what its documentation says, "The selected slot does not
\* have enough capacity": when a creation is answered so after its retries, and only
\* other restaurants have had reservations since the first attempt, the party does
\* not fit.
ConflictMeansFull ==
    [][\A p \in Requests :
           /\ outcome[p] = "pending" /\ outcome'[p] = "contended"
           /\ \A i \in CameSince(p) : reservations[i].restaurantId # req[p].restaurantId
           => ~Fits(p)]_vars

\* Concurrent requests do not exceed the capacity of a slot: a reservation that
\* is committed fits the settings in effect at that moment.
AdmittedUnderCurrentSettings ==
    [][\A p \in Requests :
           Creates(p) /\ outcome[p] = "pending" /\ outcome'[p] = "created" => Fits(p)]_vars

\* A reservation cannot be created in the past: its slot has not begun when its
\* row is committed.
NotCreatedInPast ==
    [][\A p \in Requests :
           Creates(p) /\ outcome[p] = "pending" /\ outcome'[p] = "created"
               => SlotStart[req[p].date][req[p].time] >= now]_vars
===============================================================================
