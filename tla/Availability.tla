------------------------------ MODULE Availability ------------------------------
(***************************************************************************)
(* GET /restaurants/:restaurantId/availability beside the reservation      *)
(* handlers.                                                               *)
(*                                                                         *)
(* The endpoint checks the date in the local time of the server, reads the *)
(* restaurant and then, in a second statement outside any transaction, the *)
(* confirmed reservations of that day, and hands both to the calculator    *)
(* that the reservation transaction uses.                                  *)
(***************************************************************************)
EXTENDS Reservations

CONSTANTS
    Views,         \* the HTTP requests to this endpoint
    Queries,       \* what they may ask
    NoQuery,       \* in the place of a request that has not arrived
    DayEnd,        \* [Dates -> Nat]: the instant, in UTC, at which a date is over
    ServerOffset   \* how far the server's local time is ahead of UTC

Query == [restaurantId : Restaurants, date : Dates, partySize : PartySizes]

ASSUME QueriesAssumption == Queries \subseteq Query /\ NoQuery \notin Query
ASSUME DaysAssumption == DayEnd \in [Dates -> Nat] /\ ServerOffset \in Int

VARIABLES
    query,  \* view -> what the client asked
    at,     \* view -> the await its handler is at, or its answer
    found,  \* view -> the settings its first statement read
    shown   \* view -> the slots of its answer

views == <<query, at, found, shown>>

NoSlots == [t \in {} |-> t]

ViewsTypeOK ==
    /\ query \in [Views -> Query \cup {NoQuery}]
    /\ at \in [Views -> {"idle", "restaurant", "reservations",
                         "ok", "inPast", "noRestaurant", "error"}]
    /\ found \in [Views -> AllSettings \cup {NoRestaurant}]
    /\ DOMAIN shown = Views
    /\ \A v \in Views : \A t \in DOMAIN shown[v] : t \in Nat \X (0..59)

AvailabilityInit ==
    /\ Init
    /\ query = [v \in Views |-> NoQuery]
    /\ at = [v \in Views |-> "idle"]
    /\ found = [v \in Views |-> NoRestaurant]
    /\ shown = [v \in Views |-> NoSlots]

-------------------------------------------------------------------------------
GotoAt(v, l) == at' = [at EXCEPT ![v] = l] /\ UNCHANGED vars

\* isCurrentOrFutureDate: the date against the local date of the server.
IsPast(date) == now + ServerOffset >= DayEnd[date]

SubmitView(v) ==
    \E q \in Queries :
        /\ at[v] = "idle"
        /\ query' = [query EXCEPT ![v] = q]
        /\ GotoAt(v, IF IsPast(q.date) THEN "inPast" ELSE "restaurant")
        /\ UNCHANGED <<found, shown>>

\* A mutant: the handler goes on with no restaurant, and answers without slots.
ViewNothing(v) ==
    /\ at[v] = "restaurant"
    /\ settings[query[v].restaurantId] = NoRestaurant
    /\ GotoAt(v, "empty")
    /\ UNCHANGED <<query, found, shown>>

ViewMissing(v) ==
    /\ at[v] = "restaurant"
    /\ settings[query[v].restaurantId] = NoRestaurant
    /\ GotoAt(v, "noRestaurant")
    /\ UNCHANGED <<query, found, shown>>

\* findUnique's statement on Restaurant.
ReadRestaurant(v) ==
    /\ at[v] = "restaurant"
    /\ settings[query[v].restaurantId] # NoRestaurant
    /\ found' = [found EXCEPT ![v] = settings[query[v].restaurantId]]
    /\ GotoAt(v, "reservations")
    /\ UNCHANGED <<query, shown>>

\* A mutant: the nested select without its condition on the status.
AllOn(restaurant, date) ==
    [id \in {i \in RowIds : /\ reservations[i].restaurantId = restaurant
                            /\ reservations[i].date = date} |-> reservations[id]]

DayOf(restaurant, date) == ConfirmedOn(restaurant, date)

\* Its statement on Reservation, and the calculator, which does not await.
ShowSlots(v) ==
    LET q == query[v] IN
    /\ at[v] = "reservations"
    /\ found[v] \in Settings
    /\ shown' = [shown EXCEPT ![v] =
                     Calculate(found[v], DayOf(q.restaurantId, q.date), q.date, q.partySize)]
    /\ GotoAt(v, "ok")
    /\ UNCHANGED <<query, found>>

\* A mutant: the error is caught and the read repeated.
RetryThrows(v) ==
    /\ at[v] = "reservations"
    /\ found[v] \in MalformedSettings
    /\ GotoAt(v, "restaurant")
    /\ UNCHANGED <<query, found, shown>>

\* The calculator reads a field of undefined: a 500.
ViewThrows(v) ==
    /\ at[v] = "reservations"
    /\ found[v] \in MalformedSettings
    /\ GotoAt(v, "error")
    /\ UNCHANGED <<query, found, shown>>

\* Either statement may fail.
ViewDatabaseError(v) ==
    /\ at[v] \in {"restaurant", "reservations"}
    /\ GotoAt(v, "error")
    /\ UNCHANGED <<query, found, shown>>

HandleView(v) ==
    ViewMissing(v) \/ ReadRestaurant(v) \/ ShowSlots(v) \/ ViewThrows(v) \/ ViewDatabaseError(v)

AvailabilityNext ==
    \/ Next /\ UNCHANGED views
    \/ \E v \in Views : SubmitView(v) \/ HandleView(v)

AvailabilitySpec ==
    /\ AvailabilityInit
    /\ [][AvailabilityNext]_<<vars, views>>
    /\ \A p \in Requests : WF_vars(Handle(p))
    /\ \A v \in Views : WF_<<vars, views>>(HandleView(v))

-------------------------------------------------------------------------------
(* Properties.                                                             *)

\* A slot that is shown as available had room for the party when it was shown, under
\* settings its restaurant has published, although the seats and the settings were
\* read by two statements and both may have changed between them; and a slot shown
\* as full had none under those settings.
ShownSlotsAreTrue ==
    [][\A v \in Views :
           at[v] # "ok" /\ at'[v] = "ok" =>
               LET q == query[v] IN
               \E s \in published[q.restaurantId] \cap Settings :
                   \A t \in Times :
                       (t \in DOMAIN shown'[v] /\ shown'[v][t].available)
                           <=> Offers(s, q.date, t,
                                      SeatsTaken(q.restaurantId, q.date, t) + q.partySize)
      ]_<<vars, views>>

\* Every view is answered, whatever the reservations, owners and the clock do.
EveryViewAnswered ==
    \A v \in Views :
        at[v] # "idle" ~> at[v] \in {"ok", "inPast", "noRestaurant", "error"}
================================================================================
