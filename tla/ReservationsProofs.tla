-------------------------- MODULE ReservationsProofs --------------------------
(***************************************************************************)
(* Theorems about the reservation component, for any number of requests,   *)
(* users, restaurants and settings, any bound on the attempts, and with or *)
(* without database failures.                                              *)
(***************************************************************************)
EXTENDS Reservations, AvailabilityCalculatorProofs

-------------------------------------------------------------------------------
(* Types.  What a handler knows of its request at each await (HandlersOK)  *)
(* belongs to the inductive invariant: without it NewRow(p) has no type.   *)

TypeInv == TypeOK /\ HandlersOK

\* At the start there is no row and no request.
LEMMA InitTypes == Init => TypeInv
<1> SUFFICES ASSUME Init PROVE TypeInv
  OBVIOUS
<1> USE BoundsAssumption
<1>1. TypeOK
  <2>1. reservations \in Seq(Row)
    BY DEF Init
  <2>2. settings \in [Restaurants -> AllSettings \cup {NoRestaurant}]
    BY DEF Init
  <2>3. published \in [Restaurants -> SUBSET AllSettings]
    BY DEF Init
  <2>4. now \in 0..MaxClock /\ attempt \in [Requests -> 1..MaxAttempts]
    BY DEF Init
  <2>5. /\ req \in [Requests -> CreateRequest \cup ByIdRequest \cup {NoRequest}]
        /\ offer \in [Requests -> AllSettings \cup {NoRestaurant}]
        /\ outcome \in [Requests -> Outcomes]
    BY DEF Init, Outcomes
  <2>6. /\ pc \in [Requests -> {"idle", "transaction", "insert", "lookup", "update",
                                "reread", "done"}]
        /\ seen \in [Requests -> Nat] /\ began \in [Requests -> Nat]
        /\ effect \in [Requests -> Nat]
    BY DEF Init
  <2> QED BY <2>1, <2>2, <2>3, <2>4, <2>5, <2>6 DEF TypeOK
<1>2. HandlersOK
  BY DEF Init, HandlersOK
<1> QED BY <1>1, <1>2 DEF TypeInv

\* Types are kept by the steps that only move a handler on.
LEMMA HandlerTypes ==
    ASSUME TypeInv, NEW p \in Requests,
           \/ SubmitCreate(p) \/ SubmitById(p)
           \/ RestaurantMissing(p) \/ CalculatorThrows(p) \/ SlotMissing(p) \/ SlotFull(p)
           \/ SlotFits(p) \/ RetryTransaction(p) \/ GiveUp(p)
           \/ LookupMissing(p) \/ LookupForeign(p) \/ FindOne(p) \/ CancelAgain(p)
           \/ CancelProceeds(p) \/ CancelLost(p) \/ ReRead(p) \/ DatabaseError(p)
    PROVE  TypeInv'
<1> USE DEF TypeInv, TypeOK, HandlersOK, Outcomes, Answer, Goto, Arrive, Owns, RowIds, db
<1>1. CASE SubmitCreate(p)
  <2>1. PICK q \in CreateRequests :
            /\ Arrive(p, q)
            /\ Answer(p, "inPast") \/ Goto(p, "transaction")
            /\ UNCHANGED <<db, now, attempt, seen, began, offer, effect>>
    BY <1>1, Zenon DEF SubmitCreate
  <2>2. q \in CreateRequest
    BY RequestsAssumption
  <2> QED BY <2>1, <2>2
<1>2. CASE SubmitById(p)
  BY <1>2, RequestsAssumption DEF SubmitById
<1>3. CASE RestaurantMissing(p)
  BY <1>3 DEF RestaurantMissing, CheckThrows
<1>4. CASE CalculatorThrows(p)
  BY <1>4 DEF CalculatorThrows, CheckThrows
<1>5. CASE SlotMissing(p)
  BY <1>5 DEF SlotMissing, CheckThrows
<1>6. CASE SlotFull(p)
  BY <1>6 DEF SlotFull, CheckThrows
<1>7. CASE SlotFits(p)
  BY <1>7 DEF SlotFits, CreateRequest
<1>8. CASE RetryTransaction(p)
  BY <1>8, BoundsAssumption DEF RetryTransaction
<1>9. CASE GiveUp(p)
  BY <1>9 DEF GiveUp
<1>10. CASE LookupMissing(p)
  BY <1>10 DEF LookupMissing, Lookup
<1>11. CASE LookupForeign(p)
  BY <1>11 DEF LookupForeign, Lookup
<1>12. CASE FindOne(p)
  BY <1>12 DEF FindOne, Lookup
<1>13. CASE CancelAgain(p)
  BY <1>13 DEF CancelAgain, Lookup
<1>14. CASE CancelProceeds(p)
  BY <1>14 DEF CancelProceeds, Lookup
<1>15. CASE CancelLost(p)
  BY <1>15 DEF CancelLost
<1>16. CASE ReRead(p)
  BY <1>16 DEF ReRead
<1>17. CASE DatabaseError(p)
  BY <1>17 DEF DatabaseError
<1> QED BY <1>1, <1>2, <1>3, <1>4, <1>5, <1>6, <1>7, <1>8, <1>9, <1>10, <1>11, <1>12,
          <1>13, <1>14, <1>15, <1>16, <1>17

\* A reservation that is inserted has the type of a row.
LEMMA InsertTypes ==
    ASSUME TypeInv, NEW p \in Requests, Insert(p) \/ InsertUnacknowledged(p)
    PROVE  TypeInv'
<1> USE DEF TypeInv, TypeOK, HandlersOK
<1>1. CommitInsert(p) /\ (Answer(p, "created") \/ Answer(p, "error"))
  BY DEF Insert, InsertUnacknowledged
<1>2. req[p] \in CreateRequest
  BY <1>1 DEF CommitInsert
<1>3. NewRow(p) \in Row
  BY <1>2 DEF NewRow, Row, CreateRequest
<1>4. /\ reservations' = Append(reservations, NewRow(p))
      /\ reservations' \in Seq(Row)
      /\ Len(reservations') = Len(reservations) + 1
      /\ \A i \in 1..Len(reservations) : reservations'[i] = reservations[i]
  BY <1>1, <1>3 DEF CommitInsert
<1>5. TypeOK'
  <2>1. Len(reservations) + 1 \in Nat
    OBVIOUS
  <2>2. effect' \in [Requests -> Nat]
    BY <1>1, <2>1 DEF CommitInsert
  <2>3. "created" \in Outcomes /\ "error" \in Outcomes
    BY DEF Outcomes
  <2>4. /\ outcome' \in [Requests -> Outcomes]
        /\ pc' \in [Requests -> {"idle", "transaction", "insert", "lookup", "update",
                                 "reread", "done"}]
    BY <1>1, <2>3 DEF Answer
  <2> QED BY <1>1, <1>4, <2>2, <2>4 DEF CommitInsert
<1>6. ASSUME NEW q \in Requests, Owns(q), req[q] \in ByIdRequest PROVE Owns(q)'
  BY <1>1, <1>4, <1>6 DEF CommitInsert, Owns, RowIds, ByIdRequest
<1>7. HandlersOK'
  BY <1>1, <1>6 DEF CommitInsert, Answer
<1> QED BY <1>5, <1>7

\* Cancelling a row keeps its owner and its type.
LEMMA CancelTypes ==
    ASSUME TypeInv, NEW p \in Requests, CancelConfirmed(p) \/ UpdateUnacknowledged(p)
    PROVE  TypeInv'
<1> USE DEF TypeInv, TypeOK, HandlersOK
<1> DEFINE id == req[p].reservationId
<1>1. UpdateConfirmed(p) /\ (Goto(p, "reread") \/ Answer(p, "error"))
  BY DEF CancelConfirmed, UpdateUnacknowledged
<1>2. req[p] \in ByIdRequest /\ id \in RowIds
  BY <1>1 DEF UpdateConfirmed, Owns
<1>3. [reservations[id] EXCEPT !.status = "cancelled"] \in Row
  <2>1. reservations[id] \in Row
    BY <1>2 DEF RowIds
  <2>2. \A row \in Row : [row EXCEPT !.status = "cancelled"] \in Row
    BY DEF Row
  <2> QED BY <2>1, <2>2, Zenon
<1>4. /\ reservations' \in Seq(Row)
      /\ Len(reservations') = Len(reservations)
      /\ \A i \in RowIds : reservations'[i].userId = reservations[i].userId
  <2>1. reservations' = [reservations EXCEPT ![id] = [reservations[id] EXCEPT !.status = "cancelled"]]
    BY <1>1 DEF UpdateConfirmed
  <2> QED BY <1>2, <1>3, <2>1 DEF RowIds, Row
<1>5. TypeOK'
  BY <1>1, <1>2, <1>4 DEF UpdateConfirmed, Goto, Answer, Outcomes, ByIdRequest
<1>6. ASSUME NEW q \in Requests, Owns(q) PROVE Owns(q)'
  BY <1>1, <1>4, <1>6 DEF UpdateConfirmed, Owns, RowIds
<1>7. HandlersOK'
  BY <1>1, <1>2, <1>6 DEF UpdateConfirmed, Goto, Answer
<1> QED BY <1>5, <1>7

\* Owners and the clock touch no handler.
LEMMA EnvironmentTypes ==
    ASSUME TypeInv, \/ \E r \in Restaurants : PatchSettings(r) \/ DeleteRestaurant(r)
                    \/ Tick
    PROVE  TypeInv'
<1> USE DEF TypeInv, TypeOK, HandlersOK, Owns, RowIds, db
<1>1. ASSUME NEW r \in Restaurants, PatchSettings(r) PROVE TypeInv'
  BY <1>1 DEF PatchSettings
<1>2. ASSUME NEW r \in Restaurants, DeleteRestaurant(r) PROVE TypeInv'
  BY <1>2 DEF DeleteRestaurant
<1>3. CASE Tick
  BY <1>3, BoundsAssumption DEF Tick
<1> QED BY <1>1, <1>2, <1>3

\* Every step of the system keeps the types.
LEMMA NextTypes == TypeInv /\ [Next]_vars => TypeInv'
<1> SUFFICES ASSUME TypeInv, [Next]_vars PROVE TypeInv'
  OBVIOUS
<1>1. CASE UNCHANGED vars
  BY <1>1 DEF vars, TypeInv, TypeOK, HandlersOK, Owns, RowIds
<1>2. ASSUME NEW p \in Requests, Submit(p) \/ Handle(p) PROVE TypeInv'
  BY <1>2, HandlerTypes, InsertTypes, CancelTypes DEF Submit, Handle
<1>3. CASE \/ \E r \in Restaurants : PatchSettings(r) \/ DeleteRestaurant(r)
           \/ Tick
  BY <1>3, EnvironmentTypes
<1> QED BY <1>1, <1>2, <1>3 DEF Next

\* Whatever the requests, the settings and the failures, every variable keeps the
\* type the code gives it; so no handler uses a field its request does not have.
THEOREM TypeCorrect == Spec => []TypeOK
<1>1. TypeInv => TypeOK
  BY DEF TypeInv
<1> QED BY InitTypes, NextTypes, <1>1, PTL DEF Spec

-------------------------------------------------------------------------------
(* Seats as a function of the table.                                       *)

Hits(table, r, date, time) ==
    {i \in 1..Len(table) : /\ table[i].restaurantId = r /\ table[i].date = date
                           /\ table[i].time = time /\ table[i].status = "confirmed"}

SeatsIn(table, r, date, time) == Total([i \in Hits(table, r, date, time) |-> table[i].partySize])

\* The seats that the transaction adds up are the seats of the matching rows.
LEMMA SeatsTakenIn ==
    ASSUME NEW r, NEW date, NEW time
    PROVE  /\ SeatsTaken(r, date, time) = SeatsIn(reservations, r, date, time)
           /\ SeatsTaken(r, date, time)' = SeatsIn(reservations', r, date, time)
<1>1. ASSUME NEW table, NEW rows,
             rows = [id \in {i \in 1..Len(table) : /\ table[i].restaurantId = r
                                                   /\ table[i].date = date
                                                   /\ table[i].status = "confirmed"}
                         |-> table[id]]
      PROVE  ReservationSeats(rows, time) = SeatsIn(table, r, date, time)
  <2>1. {j \in DOMAIN rows : rows[j].time = time} = Hits(table, r, date, time)
    BY <1>1 DEF Hits
  <2>2. \A i \in Hits(table, r, date, time) : rows[i] = table[i]
    BY <1>1 DEF Hits
  <2>3. [i \in {j \in DOMAIN rows : rows[j].time = time} |-> rows[i].partySize]
            = [i \in Hits(table, r, date, time) |-> table[i].partySize]
    BY <2>1, <2>2
  <2> QED BY <2>3 DEF ReservationSeats, SeatsIn
<1>2. SeatsTaken(r, date, time) = SeatsIn(reservations, r, date, time)
  BY <1>1 DEF SeatsTaken, ConfirmedOn, RowIds, Confirmed
<1>3. SeatsTaken(r, date, time)' = SeatsIn(reservations', r, date, time)
  BY <1>1 DEF SeatsTaken, ConfirmedOn, RowIds, Confirmed
<1> QED BY <1>2, <1>3

\* Only finitely many rows match, and each takes a number of seats.
LEMMA HitsFinite ==
    ASSUME NEW table \in Seq(Row), NEW r, NEW date, NEW time
    PROVE  /\ IsFiniteSet(Hits(table, r, date, time))
           /\ [i \in Hits(table, r, date, time) |-> table[i].partySize]
                  \in [Hits(table, r, date, time) -> Nat]
<1>1. IsFiniteSet(1..Len(table))
  <2>1. Len(table) \in Int
    OBVIOUS
  <2> QED BY <2>1, FS_Interval
<1>2. Hits(table, r, date, time) \in SUBSET (1..Len(table))
  BY DEF Hits
<1>3. \A i \in 1..Len(table) : table[i].partySize \in Nat
  <2>1. \A i \in 1..Len(table) : table[i] \in Row
    OBVIOUS
  <2>2. \A row \in Row : row.partySize \in Nat
    BY BoundsAssumption DEF Row, PartySizes
  <2> QED BY <2>1, <2>2
<1> QED BY <1>1, <1>2, <1>3, FS_Subset

\* The seats taken in a slot are a natural number.
LEMMA SeatsType ==
    ASSUME NEW table \in Seq(Row), NEW r, NEW date, NEW time
    PROVE  SeatsIn(table, r, date, time) \in Nat
BY HitsFinite, TotalType DEF SeatsIn

\* A new row adds its party to its slot, and nothing to any other.
LEMMA SeatsAppend ==
    ASSUME NEW table \in Seq(Row), NEW row \in Row, row.status = "confirmed",
           NEW r, NEW date, NEW time
    PROVE  SeatsIn(Append(table, row), r, date, time) =
               SeatsIn(table, r, date, time) +
               (IF r = row.restaurantId /\ date = row.date /\ time = row.time
                THEN row.partySize ELSE 0)
<1> DEFINE old == Hits(table, r, date, time)
           new == Len(table) + 1
           n == [i \in old |-> table[i].partySize]
           grown == Append(table, row)
           m == [i \in Hits(grown, r, date, time) |-> grown[i].partySize]
<1>1. /\ Len(grown) = new /\ grown[new] = row /\ new \notin 1..Len(table)
      /\ 1..Len(grown) = 1..Len(table) \cup {new}
      /\ \A i \in 1..Len(table) : grown[i] = table[i]
  OBVIOUS
<1>2. \A i \in old : i \in 1..Len(table)
  BY DEF Hits
<1>3. IsFiniteSet(old) /\ n \in [old -> Nat]
  BY HitsFinite
<1>4. row.partySize \in Nat
  BY BoundsAssumption DEF Row, PartySizes
<1>0. SeatsIn(Append(table, row), r, date, time) = Total(m)
      /\ SeatsIn(table, r, date, time) = Total(n)
  BY DEF SeatsIn
<1> HIDE DEF grown, new
<1>5. CASE r = row.restaurantId /\ date = row.date /\ time = row.time
  <2>1. Hits(grown, r, date, time) = old \cup {new}
    BY <1>1, <1>5 DEF Hits
  <2>2. new \notin old
    BY <1>1, <1>2
  <2>3. /\ DOMAIN m = old \cup {new}
        /\ m[new] = row.partySize
        /\ \A i \in old : m[i] = n[i]
    BY <1>1, <1>2, <2>1, <2>2
  <2> HIDE DEF m, n, old
  <2>4. DOMAIN n = old /\ m[new] \in Nat
    BY <1>3, <1>4, <2>3
  <2>5. /\ IsFiniteSet(DOMAIN n) /\ n \in [DOMAIN n -> Nat] /\ new \notin DOMAIN n
        /\ DOMAIN m = DOMAIN n \cup {new} /\ m[new] \in Nat
        /\ \A i \in DOMAIN n : m[i] = n[i]
    BY <1>3, <2>2, <2>3, <2>4
  <2>6. Total(m) = Total(n) + m[new]
    BY <2>5, TotalAdd
  <2> QED BY <1>0, <1>5, <2>3, <2>6
<1>6. CASE ~(r = row.restaurantId /\ date = row.date /\ time = row.time)
  <2>1. Hits(grown, r, date, time) = old
    BY <1>1, <1>6 DEF Hits
  <2>2. m = n
    BY <1>1, <1>2, <2>1
  <2>3. Total(n) \in Nat
    BY <1>3, TotalType
  <2> HIDE DEF m, n, old
  <2> QED BY <1>0, <1>6, <2>2, <2>3
<1> QED BY <1>5, <1>6

\* Cancelling a row takes no seat of any slot.
LEMMA SeatsCancel ==
    ASSUME NEW table \in Seq(Row), NEW id \in 1..Len(table), NEW r, NEW date, NEW time,
           NEW less, less = [table EXCEPT ![id].status = "cancelled"]
    PROVE  SeatsIn(less, r, date, time) <= SeatsIn(table, r, date, time)
<1> DEFINE old == Hits(table, r, date, time)
           n == [i \in old |-> table[i].partySize]
<1>1. table[id] \in Row
  OBVIOUS
<1>2. /\ [table[id] EXCEPT !.status = "cancelled"].partySize = table[id].partySize
      /\ [table[id] EXCEPT !.status = "cancelled"].status = "cancelled"
  BY <1>1 DEF Row
<1>3. /\ Len(less) = Len(table)
      /\ less[id] = [table[id] EXCEPT !.status = "cancelled"]
      /\ \A i \in 1..Len(table) : i # id => less[i] = table[i]
  OBVIOUS
<1>4. Hits(less, r, date, time) = old \ {id}
  BY <1>2, <1>3 DEF Hits
<1>5. Hits(less, r, date, time) \in SUBSET old
  BY <1>4
<1>6. \A i \in Hits(less, r, date, time) : i \in old /\ i # id /\ i \in 1..Len(table)
  BY <1>4 DEF Hits
<1>7. [i \in Hits(less, r, date, time) |-> less[i].partySize]
          = [i \in Hits(less, r, date, time) |-> n[i]]
  <2>1. \A i \in Hits(less, r, date, time) : less[i].partySize = n[i]
    <3> SUFFICES ASSUME NEW i \in Hits(less, r, date, time) PROVE less[i].partySize = n[i]
      OBVIOUS
    <3>1. i \in old /\ less[i] = table[i]
      BY <1>3, <1>6
    <3> QED BY <3>1
  <2> HIDE DEF n
  <2> QED BY <2>1
<1>8. IsFiniteSet(old) /\ n \in [old -> Nat]
  BY HitsFinite
<1> HIDE DEF n, old
<1>9. Total([i \in Hits(less, r, date, time) |-> n[i]]) <= Total(n)
  BY <1>5, <1>8, TotalMonotone
<1> QED BY <1>7, <1>9 DEF SeatsIn, n, old

-------------------------------------------------------------------------------
(* No overbooking.                                                         *)

\* Seats that settings declare as taken are a number.
LEMMA SeededType ==
    ASSUME NEW s \in Settings, NEW date, NEW time
    PROVE  SeededReservedSeats(s, date, time) \in Nat /\ s.defaultSlotCapacity \in Nat
<1> DEFINE booked == s.bookedSlots
           hits == {i \in DOMAIN booked : booked[i].date = date /\ booked[i].time = time}
           n == [i \in hits |-> booked[i].reservedSeats]
<1>1. WellFormed(s)
  BY SettingsAssumption
<1>2. IsFiniteSet(hits)
  BY <1>1, FS_Subset DEF WellFormed
<1>3. n \in [hits -> Nat]
  BY <1>1 DEF WellFormed
<1>4. Total(n) \in Nat
  BY <1>2, <1>3, TotalType
<1> QED BY <1>1, <1>4 DEF SeededReservedSeats, WellFormed

\* Fewer seats need no other settings.
LEMMA OffersLess ==
    ASSUME NEW s, NEW date, NEW time, NEW n \in Nat, NEW k \in Nat, k <= n,
           Offers(s, date, time, n)
    PROVE  Offers(s, date, time, k)
BY SeededType DEF Offers

\* The transaction of p goes on to its insert only when its party fits what it read.
LEMMA SlotFitsOffers ==
    ASSUME TypeInv, NEW p \in Requests, SlotFits(p)
    PROVE  LET q == req[p] IN
           Offers(settings[q.restaurantId], q.date, q.time,
                  SeatsTaken(q.restaurantId, q.date, q.time) + q.partySize)
<1> DEFINE q == req[p]
           s == settings[q.restaurantId]
           rows == ConfirmedOn(q.restaurantId, q.date)
<1>1. /\ q \in CreateRequest /\ s \in Settings
      /\ q.time \in DOMAIN SlotsFor(p) /\ SlotsFor(p)[q.time].available
  BY DEF SlotFits, TypeInv, HandlersOK
<1>2. q.partySize \in Nat \ {0}
  BY <1>1, BoundsAssumption DEF CreateRequest, PartySizes
<1>3. q.time \in SlotTimes(s) /\ Calculate(s, rows, q.date, q.partySize)[q.time].available
  BY <1>1 DEF SlotsFor, Calculate
<1>4. ReservationSeats(rows, q.time) \in Nat
  BY SeatsTakenIn, SeatsType DEF SeatsTaken, TypeInv, TypeOK
<1>5. SeededReservedSeats(s, q.date, q.time) \in Nat /\ s.defaultSlotCapacity \in Nat
  BY <1>1, SeededType
<1> HIDE DEF q, s, rows
<1>6. SeededReservedSeats(s, q.date, q.time) + ReservationSeats(rows, q.time) + q.partySize
          <= s.defaultSlotCapacity
  BY <1>2, <1>3, <1>4, <1>5, AvailableMeansRoom
<1>7. SeatsTaken(q.restaurantId, q.date, q.time) = ReservationSeats(rows, q.time)
  BY DEF SeatsTaken, rows
<1>8. Offers(s, q.date, q.time, SeatsTaken(q.restaurantId, q.date, q.time) + q.partySize)
  BY <1>1, <1>2, <1>3, <1>4, <1>5, <1>6, <1>7 DEF Offers
<1> QED BY <1>8 DEF q, s

\* An empty table overbooks nothing.
LEMMA InitBooking == Init => BookingInv
<1> SUFFICES ASSUME Init PROVE BookingInv
  OBVIOUS
<1>1. TypeOK /\ HandlersOK
  BY InitTypes DEF TypeInv
<1>2. CurrentIsPublished
  BY DEF Init, CurrentIsPublished
<1>3. PendingInsertsFit
  BY DEF Init, PendingInsertsFit
<1>4. NoOverbooking
  <2> SUFFICES ASSUME NEW r \in Restaurants, NEW d \in Dates, NEW t \in Times
               PROVE  SeatsTaken(r, d, t) = 0
    BY DEF NoOverbooking
  <2>1. Hits(reservations, r, d, t) = {}
    BY DEF Init, Hits
  <2>2. SeatsOf([i \in {} |-> reservations[i].partySize]) = {}
    BY DEF SeatsOf
  <2>3. SeatsIn(reservations, r, d, t) = 0
    BY <2>1, <2>2, FS_EmptySet DEF SeatsIn, Total
  <2> QED BY <2>3, SeatsTakenIn
<1> QED BY <1>1, <1>2, <1>3, <1>4 DEF BookingInv

\* A step that leaves the tables alone, and begins no insert but a fitting one.
LEMMA QuietBooking ==
    ASSUME BookingInv, TypeInv', UNCHANGED db,
           \A p \in Requests :
               pc'[p] = "insert" => \/ UNCHANGED <<pc[p], req[p], seen[p], offer[p]>>
                                    \/ SlotFits(p)
    PROVE  BookingInv'
<1> USE DEF BookingInv, db
<1>1. \A r, d, t : SeatsTaken(r, d, t)' = SeatsTaken(r, d, t)
  BY SeatsTakenIn
<1>2. CurrentIsPublished'
  BY DEF CurrentIsPublished
<1>3. NoOverbooking'
  BY <1>1 DEF NoOverbooking, Offers
<1>4. PendingInsertsFit'
  <2> SUFFICES ASSUME NEW p \in Requests, pc'[p] = "insert"
               PROVE  /\ seen'[p] <= Len(reservations')
                      /\ offer'[p] \in published'[req'[p].restaurantId]
                      /\ Unchallenged(p)' =>
                             Offers(offer'[p], req'[p].date, req'[p].time,
                                    SeatsTaken(req[p].restaurantId, req[p].date, req[p].time)'
                                        + req'[p].partySize)
    BY DEF PendingInsertsFit
  <2>1. CASE UNCHANGED <<pc[p], req[p], seen[p], offer[p]>>
    BY <1>1, <2>1 DEF PendingInsertsFit, Unchallenged, RowIds
  <2>2. CASE SlotFits(p)
    <3> DEFINE q == req[p]
    <3>1. /\ q \in CreateRequest /\ req' = req
          /\ settings[q.restaurantId] \in Settings
          /\ seen'[p] = Len(reservations) /\ offer'[p] = settings[q.restaurantId]
      BY <2>2 DEF SlotFits, TypeOK, HandlersOK
    <3>2. settings[q.restaurantId] \in published[q.restaurantId]
      BY <3>1, SettingsAssumption DEF CurrentIsPublished, CreateRequest
    <3>3. Offers(settings[q.restaurantId], q.date, q.time,
                 SeatsTaken(q.restaurantId, q.date, q.time) + q.partySize)
      BY <2>2, SlotFitsOffers DEF TypeInv
    <3>4. Len(reservations) \in Nat
      BY DEF TypeOK
    <3> HIDE DEF q
    <3> QED BY <1>1, <3>1, <3>2, <3>3, <3>4 DEF q
  <2> QED BY <2>1, <2>2
<1> QED BY <1>2, <1>3, <1>4 DEF TypeInv

\* The insert: the row that p adds fits the settings it read, because no row has
\* come to its day since; and it makes every other pending insert of its day fail.
LEMMA InsertBooking ==
    ASSUME BookingInv, TypeInv', NEW p \in Requests, CommitInsert(p),
           pc' = [pc EXCEPT ![p] = "done"]
    PROVE  BookingInv'
<1> USE DEF BookingInv
<1> DEFINE q == req[p]
           row == NewRow(p)
<1>1. /\ q \in CreateRequest /\ row \in Row /\ row.status = "confirmed"
      /\ row.restaurantId = q.restaurantId /\ row.date = q.date /\ row.time = q.time
      /\ row.partySize = q.partySize /\ q.partySize \in Nat \ {0}
  BY BoundsAssumption
     DEF CommitInsert, HandlersOK, NewRow, Row, CreateRequest, PartySizes
<1>2. /\ reservations' = Append(reservations, row)
      /\ Len(reservations) \in Nat /\ Len(reservations') = Len(reservations) + 1
      /\ reservations'[Len(reservations')] = row
      /\ \A i \in RowIds : reservations'[i] = reservations[i]
  BY <1>1 DEF CommitInsert, TypeOK, RowIds
<1>3. UNCHANGED <<settings, published, req, seen, offer>>
  BY DEF CommitInsert
<1>4. \A r, d, t : SeatsTaken(r, d, t) \in Nat
  BY SeatsTakenIn, SeatsType DEF TypeOK
<1> HIDE DEF row
<1>5. \A r, d, t :
          SeatsTaken(r, d, t)' = SeatsTaken(r, d, t) +
              (IF r = q.restaurantId /\ d = q.date /\ t = q.time THEN q.partySize ELSE 0)
  BY <1>1, <1>2, SeatsTakenIn, SeatsAppend DEF TypeOK
<1>6. CurrentIsPublished'
  BY <1>3 DEF CurrentIsPublished
<1>7. /\ offer[p] \in published[q.restaurantId]
      /\ Offers(offer[p], q.date, q.time, SeatsTaken(q.restaurantId, q.date, q.time) + q.partySize)
  BY DEF PendingInsertsFit, CommitInsert, Serializable
<1>8. NoOverbooking'
  <2> SUFFICES ASSUME NEW r \in Restaurants, NEW d \in Dates, NEW t \in Times,
                      SeatsTaken(r, d, t)' > 0
               PROVE  \E s \in published[r] : Offers(s, d, t, SeatsTaken(r, d, t)')
    BY <1>3 DEF NoOverbooking, Offers
  <2>1. CASE r = q.restaurantId /\ d = q.date /\ t = q.time
    BY <1>5, <1>7, <2>1
  <2>2. CASE ~(r = q.restaurantId /\ d = q.date /\ t = q.time)
    <3>1. SeatsTaken(r, d, t)' = SeatsTaken(r, d, t)
      BY <1>4, <1>5, <2>2
    <3> QED BY <3>1 DEF NoOverbooking
  <2> QED BY <2>1, <2>2
<1>9. PendingInsertsFit'
  <2> SUFFICES ASSUME NEW o \in Requests, pc'[o] = "insert"
               PROVE  /\ seen'[o] <= Len(reservations')
                      /\ offer'[o] \in published'[req'[o].restaurantId]
                      /\ Unchallenged(o)' =>
                             Offers(offer'[o], req'[o].date, req'[o].time,
                                    SeatsTaken(req[o].restaurantId, req[o].date, req[o].time)'
                                        + req'[o].partySize)
    BY <1>3 DEF PendingInsertsFit
  <2>1. o # p /\ pc[o] = "insert"
    BY DEF TypeOK
  <2>2. /\ seen[o] <= Len(reservations) /\ offer[o] \in published[req[o].restaurantId]
        /\ Unchallenged(o) =>
               Offers(offer[o], req[o].date, req[o].time,
                      SeatsTaken(req[o].restaurantId, req[o].date, req[o].time)
                          + req[o].partySize)
    BY <2>1 DEF PendingInsertsFit
  <2>3. seen[o] \in Nat
    BY DEF TypeOK
  <2>4. ASSUME Unchallenged(o)'
        PROVE  /\ Unchallenged(o)
               /\ ~(req[o].restaurantId = q.restaurantId /\ req[o].date = q.date)
    <3>1. \A i \in 1..Len(reservations') :
              i > seen[o] => \/ reservations'[i].restaurantId # req[o].restaurantId
                             \/ reservations'[i].date # req[o].date
      BY <1>3, <2>4 DEF Unchallenged, RowIds
    <3>2. Len(reservations') \in 1..Len(reservations') /\ Len(reservations') > seen[o]
      BY <1>2, <2>2, <2>3
    <3>3. ~(req[o].restaurantId = q.restaurantId /\ req[o].date = q.date)
      BY <1>1, <1>2, <3>1, <3>2
    <3>4. Unchallenged(o)
      BY <1>2, <3>1 DEF Unchallenged, RowIds
    <3> QED BY <3>3, <3>4
  <2>5. ASSUME Unchallenged(o)'
        PROVE  SeatsTaken(req[o].restaurantId, req[o].date, req[o].time)'
                   = SeatsTaken(req[o].restaurantId, req[o].date, req[o].time)
    BY <1>3, <1>4, <1>5, <2>4, <2>5
  <2> QED BY <1>2, <1>3, <2>2, <2>3, <2>4, <2>5
<1> QED BY <1>6, <1>8, <1>9 DEF TypeInv

\* The cancellation: seats only become free.
LEMMA CancelBooking ==
    ASSUME BookingInv, TypeInv', NEW p \in Requests, UpdateConfirmed(p),
           pc' \in {[pc EXCEPT ![p] = "reread"], [pc EXCEPT ![p] = "done"]}
    PROVE  BookingInv'
<1> USE DEF BookingInv
<1> DEFINE id == req[p].reservationId
<1>1. id \in RowIds /\ reservations' = [reservations EXCEPT ![id].status = "cancelled"]
  BY DEF UpdateConfirmed, HandlersOK, Owns
<1>2. UNCHANGED <<settings, published, req, seen, offer>>
  BY DEF UpdateConfirmed
<1>3. /\ Len(reservations') = Len(reservations)
      /\ \A i \in RowIds : /\ reservations'[i].restaurantId = reservations[i].restaurantId
                           /\ reservations'[i].date = reservations[i].date
  <2>1. \A i \in RowIds : reservations[i] \in Row
    BY DEF TypeOK, RowIds
  <2>2. [reservations[id] EXCEPT !.status = "cancelled"].restaurantId = reservations[id].restaurantId
        /\ [reservations[id] EXCEPT !.status = "cancelled"].date = reservations[id].date
    BY <1>1, <2>1 DEF Row
  <2> QED BY <1>1, <2>2 DEF TypeOK, RowIds
<1>4. \A r, d, t : SeatsTaken(r, d, t)' <= SeatsTaken(r, d, t)
  <2> SUFFICES ASSUME NEW r, NEW d, NEW t
               PROVE  SeatsTaken(r, d, t)' <= SeatsTaken(r, d, t)
    OBVIOUS
  <2>1. /\ reservations \in Seq(Row) /\ id \in 1..Len(reservations)
        /\ reservations' = [reservations EXCEPT ![id].status = "cancelled"]
    BY <1>1 DEF TypeOK, RowIds
  <2> HIDE DEF id
  <2>2. SeatsIn(reservations', r, d, t) <= SeatsIn(reservations, r, d, t)
    BY <2>1, SeatsCancel
  <2> QED BY <2>2, SeatsTakenIn
<1>5. \A r, d, t : SeatsTaken(r, d, t) \in Nat /\ SeatsTaken(r, d, t)' \in Nat
  BY SeatsTakenIn, SeatsType DEF TypeInv, TypeOK
<1>6. CurrentIsPublished'
  BY <1>2 DEF CurrentIsPublished
<1>7. NoOverbooking'
  <2> SUFFICES ASSUME NEW r \in Restaurants, NEW d \in Dates, NEW t \in Times,
                      SeatsTaken(r, d, t)' > 0
               PROVE  \E s \in published[r] : Offers(s, d, t, SeatsTaken(r, d, t)')
    BY <1>2 DEF NoOverbooking, Offers
  <2>1. SeatsTaken(r, d, t) > 0
    BY <1>4, <1>5
  <2>2. PICK s \in published[r] : Offers(s, d, t, SeatsTaken(r, d, t))
    BY <2>1 DEF NoOverbooking
  <2> QED BY <1>4, <1>5, <2>2, OffersLess
<1>8. PendingInsertsFit'
  <2> SUFFICES ASSUME NEW o \in Requests, pc'[o] = "insert"
               PROVE  /\ seen'[o] <= Len(reservations')
                      /\ offer'[o] \in published'[req'[o].restaurantId]
                      /\ Unchallenged(o)' =>
                             Offers(offer'[o], req'[o].date, req'[o].time,
                                    SeatsTaken(req[o].restaurantId, req[o].date, req[o].time)'
                                        + req'[o].partySize)
    BY <1>2 DEF PendingInsertsFit
  <2> DEFINE q == req[o]
             before == SeatsTaken(q.restaurantId, q.date, q.time) + q.partySize
             after == SeatsTaken(q.restaurantId, q.date, q.time)' + q.partySize
  <2>1. pc[o] = "insert"
    BY DEF TypeOK
  <2>2. /\ seen[o] <= Len(reservations) /\ offer[o] \in published[q.restaurantId]
        /\ Unchallenged(o) => Offers(offer[o], q.date, q.time, before)
    BY <2>1 DEF PendingInsertsFit
  <2>3. Unchallenged(o)' => Unchallenged(o)
    BY <1>2, <1>3 DEF Unchallenged, RowIds
  <2>4. q.partySize \in Nat
    BY <2>1, BoundsAssumption DEF HandlersOK, CreateRequest, PartySizes
  <2>5. before \in Nat /\ after \in Nat /\ after <= before
    BY <1>2, <1>4, <1>5, <2>4
  <2> HIDE DEF before, after
  <2>6. Offers(offer[o], q.date, q.time, before) => Offers(offer[o], q.date, q.time, after)
    BY <2>5, OffersLess
  <2> QED BY <1>2, <1>3, <2>2, <2>3, <2>6 DEF after
<1> QED BY <1>6, <1>7, <1>8 DEF TypeInv

\* Owners and the clock: what has been published stays published, so no seat
\* loses the settings it was sold under.
LEMMA EnvironmentBooking ==
    ASSUME BookingInv, TypeInv',
           UNCHANGED <<reservations, req, pc, seen, offer>>,
           \A r \in Restaurants : published[r] \subseteq published'[r],
           CurrentIsPublished'
    PROVE  BookingInv'
<1> USE DEF BookingInv
<1>1. \A r, d, t : SeatsTaken(r, d, t)' = SeatsTaken(r, d, t)
  BY SeatsTakenIn
<1>2. NoOverbooking'
  <2> SUFFICES ASSUME NEW r \in Restaurants, NEW d \in Dates, NEW t \in Times,
                      SeatsTaken(r, d, t)' > 0
               PROVE  \E s \in published'[r] : Offers(s, d, t, SeatsTaken(r, d, t)')
    BY DEF NoOverbooking, Offers
  <2>1. SeatsTaken(r, d, t) > 0 /\ SeatsTaken(r, d, t)' = SeatsTaken(r, d, t)
    BY <1>1
  <2>2. PICK s \in published[r] : Offers(s, d, t, SeatsTaken(r, d, t))
    BY <2>1 DEF NoOverbooking
  <2>3. s \in published'[r]
    BY <2>2
  <2> QED BY <2>1, <2>2, <2>3
<1>3. PendingInsertsFit'
  <2> SUFFICES ASSUME NEW p \in Requests, pc'[p] = "insert"
               PROVE  /\ seen'[p] <= Len(reservations')
                      /\ offer'[p] \in published'[req'[p].restaurantId]
                      /\ Unchallenged(p)' =>
                             Offers(offer'[p], req'[p].date, req'[p].time,
                                    SeatsTaken(req[p].restaurantId, req[p].date, req[p].time)'
                                        + req'[p].partySize)
    BY DEF PendingInsertsFit
  <2>1. req[p].restaurantId \in Restaurants
    BY DEF HandlersOK, CreateRequest
  <2>2. offer[p] \in published'[req[p].restaurantId]
    BY <2>1 DEF PendingInsertsFit
  <2>3. Unchallenged(p)' => Unchallenged(p)
    BY DEF Unchallenged, RowIds
  <2> QED BY <1>1, <2>2, <2>3 DEF PendingInsertsFit
<1> QED BY <1>2, <1>3 DEF TypeInv

\* Every step of the system keeps the inductive invariant.
LEMMA NextBooking == BookingInv /\ [Next]_vars => BookingInv'
<1> SUFFICES ASSUME BookingInv, [Next]_vars PROVE BookingInv'
  OBVIOUS
<1>1. TypeInv'
  BY NextTypes DEF BookingInv, TypeInv
<1>2. CASE UNCHANGED vars
  BY <1>1, <1>2, QuietBooking DEF vars, db
<1>3. ASSUME NEW p \in Requests, SubmitCreate(p) PROVE BookingInv'
  <2>1. PICK q \in CreateRequests :
            /\ Answer(p, "inPast") \/ Goto(p, "transaction")
            /\ pc[p] = "idle" /\ req' = [req EXCEPT ![p] = q]
            /\ UNCHANGED <<db, now, attempt, seen, began, offer, effect>>
    BY <1>3, Zenon DEF SubmitCreate, Arrive
  <2>2. UNCHANGED db
    BY <2>1
  <2>3. \A o \in Requests :
            pc'[o] = "insert" => UNCHANGED <<pc[o], req[o], seen[o], offer[o]>>
    BY <2>1 DEF Answer, Goto, BookingInv, TypeOK
  <2> QED BY <1>1, <2>2, <2>3, QuietBooking
<1>4. ASSUME NEW p \in Requests, SubmitById(p) PROVE BookingInv'
  <2>1. PICK q \in ByIdRequests :
            /\ Goto(p, "lookup")
            /\ pc[p] = "idle" /\ req' = [req EXCEPT ![p] = q]
            /\ UNCHANGED <<db, now, attempt, seen, began, offer, effect>>
    BY <1>4 DEF SubmitById, Arrive
  <2>2. UNCHANGED db
    BY <2>1
  <2>3. \A o \in Requests :
            pc'[o] = "insert" => UNCHANGED <<pc[o], req[o], seen[o], offer[o]>>
    BY <2>1 DEF Goto, BookingInv, TypeOK
  <2> QED BY <1>1, <2>2, <2>3, QuietBooking
<1>5. ASSUME NEW p \in Requests, SlotFits(p) PROVE BookingInv'
  <2>1. UNCHANGED db
    BY <1>5 DEF SlotFits
  <2>2. \A o \in Requests :
            pc'[o] = "insert" => \/ UNCHANGED <<pc[o], req[o], seen[o], offer[o]>>
                                 \/ SlotFits(o)
    BY <1>5 DEF SlotFits, Goto, BookingInv, TypeOK
  <2> QED BY <1>1, <2>1, <2>2, QuietBooking
<1>6. ASSUME NEW p \in Requests, NEW l \in {"transaction", "lookup", "update", "reread", "done"},
             pc' = [pc EXCEPT ![p] = l], UNCHANGED <<db, req, seen, offer>>
      PROVE  BookingInv'
  <2>1. \A o \in Requests :
            pc'[o] = "insert" => UNCHANGED <<pc[o], req[o], seen[o], offer[o]>>
    BY <1>6 DEF BookingInv, TypeOK
  <2> QED BY <1>1, <1>6, <2>1, QuietBooking
<1>7. ASSUME NEW p \in Requests,
             \/ RestaurantMissing(p) \/ CalculatorThrows(p) \/ SlotMissing(p) \/ SlotFull(p)
             \/ RetryTransaction(p) \/ GiveUp(p)
             \/ LookupMissing(p) \/ LookupForeign(p) \/ FindOne(p) \/ CancelAgain(p)
             \/ CancelProceeds(p) \/ CancelLost(p) \/ ReRead(p) \/ DatabaseError(p)
      PROVE  BookingInv'
  <2>1. /\ \/ pc' = [pc EXCEPT ![p] = "transaction"]
           \/ pc' = [pc EXCEPT ![p] = "update"]
           \/ pc' = [pc EXCEPT ![p] = "done"]
        /\ UNCHANGED <<db, req, seen, offer>>
    BY <1>7 DEF RestaurantMissing, CalculatorThrows, SlotMissing, SlotFull, CheckThrows,
                RetryTransaction, GiveUp, LookupMissing, LookupForeign, FindOne, Lookup,
                CancelAgain, CancelProceeds, CancelLost, ReRead, DatabaseError, Answer, Goto
  <2> QED BY <1>6, <2>1
<1>8. ASSUME NEW p \in Requests, Insert(p) \/ InsertUnacknowledged(p) PROVE BookingInv'
  BY <1>1, <1>8, InsertBooking DEF Insert, InsertUnacknowledged, Answer
<1>9. ASSUME NEW p \in Requests, CancelConfirmed(p) \/ UpdateUnacknowledged(p)
      PROVE  BookingInv'
  BY <1>1, <1>9, CancelBooking DEF CancelConfirmed, UpdateUnacknowledged, Answer, Goto
<1>10. ASSUME NEW r \in Restaurants, PatchSettings(r) PROVE BookingInv'
  <2>1. PICK s \in AllSettings \ {settings[r]} :
            /\ settings' = [settings EXCEPT ![r] = s]
            /\ published' = [published EXCEPT ![r] = published[r] \cup {s}]
            /\ UNCHANGED <<reservations, req, pc, seen, offer>>
    BY <1>10 DEF PatchSettings
  <2>2. /\ \A x \in Restaurants : published[x] \subseteq published'[x]
        /\ CurrentIsPublished'
    BY <2>1 DEF BookingInv, TypeOK, CurrentIsPublished
  <2> QED BY <1>1, <2>1, <2>2, EnvironmentBooking
<1>11. ASSUME NEW r \in Restaurants, DeleteRestaurant(r) PROVE BookingInv'
  <2>1. /\ settings' = [settings EXCEPT ![r] = NoRestaurant]
        /\ UNCHANGED <<reservations, published, req, pc, seen, offer>>
    BY <1>11 DEF DeleteRestaurant
  <2>2. /\ \A x \in Restaurants : published[x] \subseteq published'[x]
        /\ CurrentIsPublished'
    BY <2>1 DEF BookingInv, TypeOK, CurrentIsPublished
  <2> QED BY <1>1, <2>1, <2>2, EnvironmentBooking
<1>12. CASE Tick
  BY <1>1, <1>12, QuietBooking DEF Tick, db
<1> QED BY <1>2, <1>3, <1>4, <1>5, <1>7, <1>8, <1>9, <1>10, <1>11, <1>12
       DEF Next, Submit, Handle

\* The booking invariant, of which NoOverbooking is one part: the check-then-insert
\* of createWithAvailabilityCheck is safe only because what a pending insert has
\* read stays true until it commits or its transaction is thrown away.
THEOREM BookingInvariant == Spec => []BookingInv
BY InitBooking, NextBooking, PTL DEF Spec

\* No interleaving of creations, retries, cancellations, changes of settings and
\* lost commits sells more seats of a slot than settings of its restaurant offer.
THEOREM NeverOverbooked == Spec => []NoOverbooking
<1>1. BookingInv => NoOverbooking
  BY DEF BookingInv
<1> QED BY BookingInvariant, <1>1, PTL
===============================================================================
