--------------------------- MODULE AvailabilityProofs ---------------------------
(***************************************************************************)
(* Theorems about the availability endpoint beside the reservation         *)
(* handlers, for any number of both, any settings and any changes of them. *)
(***************************************************************************)
EXTENDS Availability, ReservationsProofs

-------------------------------------------------------------------------------
(* The inductive invariant.  It needs the reservations' own invariant: a   *)
(* view is true only because the seats it adds up are numbers and because  *)
(* the settings of a restaurant are among those it has published.          *)

\* What a view knows at its awaits: it has a query, and the settings it has read were
\* published by the restaurant it asks about.
ViewOK(v) ==
    /\ at[v] # "idle" => query[v] \in Query
    /\ at[v] = "reservations" => found[v] \in published[query[v].restaurantId]

ViewsInv == BookingInv /\ ViewsTypeOK /\ \A v \in Views : ViewOK(v)

allVars == <<vars, views>>

\* Well-formed settings have slots at times of whole minutes.
LEMMA SlotTimesType ==
    ASSUME NEW s \in Settings, NEW t \in SlotTimes(s)
    PROVE  t \in Nat \X (0..59)
<1>1. WellFormed(s)
  BY SettingsAssumption
<1>2. PICK w \in s.serviceWindows : t \in generateTimes(w.start, w.end, s.slotIntervalMinutes)
  BY DEF SlotTimes
<1>3. w.start \in Nat \X Nat /\ s.slotIntervalMinutes \in Nat
  BY <1>1 DEF WellFormed
<1>4. toMinutes(w.start) \in Nat
  BY <1>3 DEF toMinutes
<1>5. PICK n \in Int : n >= 0 /\ t = toTime(toMinutes(w.start) + n * s.slotIntervalMinutes)
  BY <1>2 DEF generateTimes
<1> DEFINE m == toMinutes(w.start) + n * s.slotIntervalMinutes
<1>6. m \in Nat
  <2>1. \A a \in Nat, b \in Nat : a * b \in Nat
    OBVIOUS
  <2>2. n * s.slotIntervalMinutes \in Nat
    BY <1>3, <1>5, <2>1
  <2> QED BY <1>4, <2>2
<1>7. t = toTime(m)
  BY <1>5
<1> HIDE DEF m
<1> QED BY <1>6, <1>7 DEF toTime

\* What has been published stays published, and the endpoint writes none of it.
LEMMA PublishedGrows ==
    ASSUME TypeInv, [Next]_vars, NEW r \in Restaurants
    PROVE  published[r] \subseteq published'[r]
<1>1. CASE UNCHANGED published
  BY <1>1
<1>2. ASSUME NEW q \in Restaurants, PatchSettings(q) PROVE published[r] \subseteq published'[r]
  BY <1>2 DEF PatchSettings, TypeInv, TypeOK
<1>3. ASSUME NEW q \in Restaurants, DeleteRestaurant(q) PROVE UNCHANGED published
  BY <1>3 DEF DeleteRestaurant
<1>4. ASSUME NEW p \in Requests, Submit(p) \/ Handle(p) PROVE UNCHANGED published
  <2>1. CASE SubmitCreate(p)
    BY <2>1, Zenon DEF SubmitCreate, db
  <2>2. CASE SubmitById(p)
    BY <2>2, Zenon DEF SubmitById, db
  <2>3. CASE Insert(p) \/ InsertUnacknowledged(p) \/ CancelConfirmed(p) \/ UpdateUnacknowledged(p)
    BY <2>3 DEF Insert, InsertUnacknowledged, CommitInsert,
                CancelConfirmed, UpdateUnacknowledged, UpdateConfirmed
  <2>4. CASE \/ RestaurantMissing(p) \/ CalculatorThrows(p) \/ SlotMissing(p) \/ SlotFull(p)
             \/ SlotFits(p) \/ RetryTransaction(p) \/ GiveUp(p)
             \/ LookupMissing(p) \/ LookupForeign(p) \/ FindOne(p) \/ CancelAgain(p)
             \/ CancelProceeds(p) \/ CancelLost(p) \/ ReRead(p) \/ DatabaseError(p)
    BY <2>4 DEF RestaurantMissing, CalculatorThrows, SlotMissing, SlotFull, CheckThrows,
                SlotFits, RetryTransaction, GiveUp, LookupMissing, LookupForeign, FindOne,
                Lookup, CancelAgain, CancelProceeds, CancelLost, ReRead, DatabaseError, db
  <2> QED BY <1>4, <2>1, <2>2, <2>3, <2>4 DEF Submit, Handle
<1>5. Tick \/ UNCHANGED vars => UNCHANGED published
  BY DEF Tick, vars, db
<1> QED BY <1>1, <1>2, <1>3, <1>4, <1>5 DEF Next

\* Nobody has asked yet.
LEMMA InitViews == AvailabilityInit => ViewsInv
<1> SUFFICES ASSUME AvailabilityInit PROVE ViewsInv
  OBVIOUS
<1>1. BookingInv
  BY InitBooking DEF AvailabilityInit
<1>2. ViewsTypeOK
  BY DEF AvailabilityInit, ViewsTypeOK, NoSlots
<1>3. \A v \in Views : ViewOK(v)
  BY DEF AvailabilityInit, ViewOK
<1> QED BY <1>1, <1>2, <1>3 DEF ViewsInv

\* A step of the reservation handlers, the owners or the clock.
LEMMA OthersViews ==
    ASSUME ViewsInv, [Next]_vars, UNCHANGED views
    PROVE  ViewsInv'
<1>1. BookingInv' /\ TypeInv
  BY NextBooking DEF ViewsInv, BookingInv, TypeInv
<1>2. ViewsTypeOK'
  BY DEF ViewsInv, ViewsTypeOK, views
<1>3. ASSUME NEW v \in Views PROVE ViewOK(v)'
  <2>1. ViewOK(v) /\ query' = query /\ at' = at /\ found' = found
    BY DEF ViewsInv, views
  <2>2. at[v] = "reservations" => query[v].restaurantId \in Restaurants
    BY <2>1 DEF ViewOK, Query
  <2> QED BY <1>1, <2>1, <2>2, PublishedGrows DEF ViewOK
<1> QED BY <1>1, <1>2, <1>3 DEF ViewsInv

\* A step of a view.
LEMMA OwnViews ==
    ASSUME ViewsInv, NEW v \in Views, SubmitView(v) \/ HandleView(v)
    PROVE  ViewsInv' /\ UNCHANGED vars
<1> USE DEF GotoAt
<1>1. /\ query \in [Views -> Query \cup {NoQuery}]
      /\ at \in [Views -> {"idle", "restaurant", "reservations",
                           "ok", "inPast", "noRestaurant", "error"}]
      /\ found \in [Views -> AllSettings \cup {NoRestaurant}]
      /\ DOMAIN shown = Views
      /\ \A w \in Views : \A t \in DOMAIN shown[w] : t \in Nat \X (0..59)
      /\ \A w \in Views : ViewOK(w)
  BY DEF ViewsInv, ViewsTypeOK
<1>2. ASSUME UNCHANGED vars PROVE BookingInv' /\ published' = published
  BY <1>2, NextBooking DEF ViewsInv, vars
<1>3. CASE SubmitView(v)
  <2>1. PICK q \in Queries :
            /\ query' = [query EXCEPT ![v] = q]
            /\ at' = [at EXCEPT ![v] = "inPast"] \/ at' = [at EXCEPT ![v] = "restaurant"]
            /\ UNCHANGED <<vars, found, shown>>
    BY <1>3 DEF SubmitView
  <2>2. q \in Query
    BY QueriesAssumption
  <2>3. ViewsTypeOK'
    BY <1>1, <2>1, <2>2 DEF ViewsTypeOK
  <2>4. \A w \in Views : ViewOK(w)'
    BY <1>1, <1>2, <2>1, <2>2 DEF ViewOK
  <2> QED BY <1>2, <2>1, <2>3, <2>4 DEF ViewsInv
<1>4. CASE ViewMissing(v) \/ ViewThrows(v) \/ ViewDatabaseError(v)
  <2>1. /\ at[v] # "idle"
        /\ at' = [at EXCEPT ![v] = "noRestaurant"] \/ at' = [at EXCEPT ![v] = "error"]
        /\ UNCHANGED <<vars, query, found, shown>>
    BY <1>4 DEF ViewMissing, ViewThrows, ViewDatabaseError
  <2>2. ViewsTypeOK'
    BY <1>1, <2>1 DEF ViewsTypeOK
  <2>3. \A w \in Views : ViewOK(w)'
    BY <1>1, <1>2, <2>1 DEF ViewOK
  <2> QED BY <1>2, <2>1, <2>2, <2>3 DEF ViewsInv
<1>5. CASE ReadRestaurant(v)
  <2> DEFINE r == query[v].restaurantId
  <2>1. /\ at[v] = "restaurant" /\ settings[r] # NoRestaurant
        /\ found' = [found EXCEPT ![v] = settings[r]]
        /\ at' = [at EXCEPT ![v] = "reservations"]
        /\ UNCHANGED <<vars, query, shown>>
    BY <1>5 DEF ReadRestaurant
  <2>2. r \in Restaurants
    BY <1>1, <2>1 DEF ViewOK, Query
  <2>3. settings[r] \in AllSettings \cup {NoRestaurant} /\ settings[r] \in published[r]
    BY <2>1, <2>2 DEF ViewsInv, BookingInv, TypeOK, CurrentIsPublished
  <2>4. ViewsTypeOK'
    BY <1>1, <2>1, <2>3 DEF ViewsTypeOK
  <2>5. \A w \in Views : ViewOK(w)'
    BY <1>1, <1>2, <2>1, <2>3 DEF ViewOK
  <2> QED BY <1>2, <2>1, <2>4, <2>5 DEF ViewsInv
<1>6. CASE ShowSlots(v)
  <2> DEFINE q == query[v]
             slots == Calculate(found[v], DayOf(q.restaurantId, q.date), q.date, q.partySize)
  <2>1. /\ found[v] \in Settings /\ shown' = [shown EXCEPT ![v] = slots]
        /\ at' = [at EXCEPT ![v] = "ok"] /\ at[v] = "reservations"
        /\ UNCHANGED <<vars, query, found>>
    BY <1>6 DEF ShowSlots
  <2>2. DOMAIN slots = SlotTimes(found[v])
    BY DEF Calculate
  <2>3. \A t \in DOMAIN slots : t \in Nat \X (0..59)
    BY <2>1, <2>2, SlotTimesType
  <2> HIDE DEF slots
  <2>4. ViewsTypeOK'
    BY <1>1, <2>1, <2>3 DEF ViewsTypeOK
  <2>5. \A w \in Views : ViewOK(w)'
    BY <1>1, <1>2, <2>1 DEF ViewOK
  <2> QED BY <1>2, <2>1, <2>4, <2>5 DEF ViewsInv
<1> QED BY <1>3, <1>4, <1>5, <1>6 DEF HandleView

\* Every step keeps the invariant.
LEMMA NextViews == ViewsInv /\ [AvailabilityNext]_allVars => ViewsInv'
<1> SUFFICES ASSUME ViewsInv, [AvailabilityNext]_allVars PROVE ViewsInv'
  OBVIOUS
<1>1. CASE UNCHANGED allVars
  BY <1>1, OthersViews DEF allVars
<1>2. CASE Next /\ UNCHANGED views
  BY <1>2, OthersViews
<1>3. ASSUME NEW v \in Views, SubmitView(v) \/ HandleView(v) PROVE ViewsInv'
  BY <1>3, OwnViews
<1> QED BY <1>1, <1>2, <1>3 DEF AvailabilityNext

\* The invariant holds of every behaviour: with views beside them, too, the
\* reservation handlers overbook nothing.
LEMMA ViewsInvariant == AvailabilitySpec => []ViewsInv
BY InitViews, NextViews, PTL DEF AvailabilitySpec, allVars

\* The types of the views: whatever owners publish meanwhile, an answer has slots at
\* whole minutes.
THEOREM ViewsTypeCorrect == AvailabilitySpec => []ViewsTypeOK
<1>1. ViewsInv => ViewsTypeOK
  BY DEF ViewsInv
<1> QED BY ViewsInvariant, <1>1, PTL

-------------------------------------------------------------------------------
(* What the views say.                                                     *)

\* The step in which a view is answered with its slots, in one piece.
ShowsTheTruth(v) ==
    LET q == query[v] IN
    \E s \in published[q.restaurantId] \cap Settings :
        \A t \in Times :
            (t \in DOMAIN shown'[v] /\ shown'[v][t].available)
                <=> Offers(s, q.date, t, SeatsTaken(q.restaurantId, q.date, t) + q.partySize)

\* The slots that are shown are those of the settings that were found, with the seats
\* of now.
LEMMA SlotsAreTrue ==
    ASSUME ViewsInv, NEW v \in Views, ShowSlots(v)
    PROVE  ShowsTheTruth(v)
<1> DEFINE q == query[v]
           s == found[v]
           rows == DayOf(q.restaurantId, q.date)
           slots == Calculate(s, rows, q.date, q.partySize)
<1>1. /\ at[v] = "reservations" /\ s \in Settings
      /\ shown' = [shown EXCEPT ![v] = slots] /\ DOMAIN shown = Views
  BY DEF ShowSlots, ViewsInv, ViewsTypeOK
<1>2. q \in Query /\ s \in published[q.restaurantId]
  BY <1>1 DEF ViewsInv, ViewOK
<1>3. q.partySize \in Nat \ {0}
  BY <1>2, BoundsAssumption DEF Query, PartySizes
<1>4. shown'[v] = slots
  BY <1>1
<1>5. DOMAIN slots = SlotTimes(s)
  BY DEF Calculate
<1>6. ASSUME NEW t \in Times
      PROVE  (t \in DOMAIN slots /\ slots[t].available)
                 <=> Offers(s, q.date, t, SeatsTaken(q.restaurantId, q.date, t) + q.partySize)
  <2>1. SeatsTaken(q.restaurantId, q.date, t) = ReservationSeats(rows, t)
    BY DEF SeatsTaken, DayOf
  <2>2. ReservationSeats(rows, t) \in Nat
    <3>1. SeatsTaken(q.restaurantId, q.date, t) \in Nat
      BY SeatsTakenIn, SeatsType DEF ViewsInv, BookingInv, TypeOK
    <3> QED BY <2>1, <3>1
  <2>3. SeededReservedSeats(s, q.date, t) \in Nat /\ s.defaultSlotCapacity \in Nat
    BY <1>1, SeededType
  <2> DEFINE seeded == SeededReservedSeats(s, q.date, t)
             taken == ReservationSeats(rows, t)
             fits == seeded + taken + q.partySize <= s.defaultSlotCapacity
  <2>4. ASSUME t \in SlotTimes(s) PROVE slots[t].available <=> fits
    <3> HIDE DEF q, s, rows
    <3> QED BY <1>3, <2>2, <2>3, <2>4, AvailableIffRoom
  <2>5. seeded + (taken + q.partySize) = seeded + taken + q.partySize
    BY <1>3, <2>2, <2>3
  <2>6. Offers(s, q.date, t, taken + q.partySize) <=> t \in SlotTimes(s) /\ fits
    <3> HIDE DEF rows, taken
    <3> QED BY <1>1, <2>5 DEF Offers
  <2> HIDE DEF q, s, rows, slots, taken, seeded, fits
  <2> QED BY <1>5, <2>1, <2>4, <2>6, Zenon DEF taken
<1> HIDE DEF rows, slots
<1>7. \A t \in Times :
          (t \in DOMAIN shown'[v] /\ shown'[v][t].available)
              <=> Offers(s, q.date, t, SeatsTaken(q.restaurantId, q.date, t) + q.partySize)
  BY <1>4, <1>6, Zenon
<1> QED BY <1>1, <1>2, <1>7, Zenon DEF ShowsTheTruth

\* Only ShowSlots answers with slots.
LEMMA OnlyShowSlots ==
    ASSUME ViewsInv, [AvailabilityNext]_allVars, NEW v \in Views, at[v] # "ok", at'[v] = "ok"
    PROVE  ShowSlots(v)
<1> USE DEF GotoAt
<1>1. at \in [Views -> {"idle", "restaurant", "reservations",
                        "ok", "inPast", "noRestaurant", "error"}]
  BY DEF ViewsInv, ViewsTypeOK
<1>2. PICK w \in Views : SubmitView(w) \/ HandleView(w)
  BY DEF AvailabilityNext, allVars, views
<1>3. ASSUME NEW l \in {"inPast", "restaurant", "reservations", "noRestaurant", "error"},
             at' = [at EXCEPT ![w] = l]
      PROVE  FALSE
  BY <1>1, <1>3
<1>4. ~SubmitView(w)
  BY <1>3 DEF SubmitView
<1>5. ~(ViewMissing(w) \/ ReadRestaurant(w) \/ ViewThrows(w) \/ ViewDatabaseError(w))
  BY <1>3 DEF ViewMissing, ReadRestaurant, ViewThrows, ViewDatabaseError
<1>6. ShowSlots(w) /\ at' = [at EXCEPT ![w] = "ok"]
  BY <1>2, <1>4, <1>5 DEF HandleView, ShowSlots
<1>7. w = v
  BY <1>1, <1>6
<1> QED BY <1>6, <1>7

\* A slot is shown as available exactly when the party fits it at that moment, under
\* settings that its restaurant has published: although the endpoint reads the settings
\* and the seats in two statements and outside any transaction.
THEOREM ShownSlotsHold == AvailabilitySpec => ShownSlotsAreTrue
<1>1. ViewsInv /\ [AvailabilityNext]_allVars =>
          [\A v \in Views : at[v] # "ok" /\ at'[v] = "ok" => ShowsTheTruth(v)]_allVars
  BY OnlyShowSlots, SlotsAreTrue
<1>2. ViewsInv /\ [AvailabilityNext]_allVars =>
          [\A v \in Views :
               at[v] # "ok" /\ at'[v] = "ok" =>
                   LET q == query[v] IN
                   \E s \in published[q.restaurantId] \cap Settings :
                       \A t \in Times :
                           (t \in DOMAIN shown'[v] /\ shown'[v][t].available)
                               <=> Offers(s, q.date, t,
                                          SeatsTaken(q.restaurantId, q.date, t) + q.partySize)
          ]_allVars
  BY <1>1, Zenon DEF ShowsTheTruth
<1> QED BY ViewsInvariant, <1>2, PTL DEF AvailabilitySpec, ShownSlotsAreTrue, allVars
===============================================================================
