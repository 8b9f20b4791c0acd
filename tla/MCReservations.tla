---------------------------- MODULE MCReservations ----------------------------
(* Small instances of Reservations: two users, a slot with room for two of *)
(* the three seats asked for, a second slot of the same day, and a second  *)
(* value of the settings that closes that slot and has fewer seats.        *)
EXTENDS Reservations, TLC

CONSTANTS u1, u2, r1, r2, d1, EmptySettings

MCDates == {d1}
Lunch == <<13, 0>>
Later == <<13, 30>>
MCTimes == {Lunch, Later}

Window(start, end) == [start |-> start, end |-> end]

Roomy == [slotIntervalMinutes |-> 30, defaultSlotCapacity |-> 3,
          serviceWindows |-> {Window(Lunch, <<14, 0>>)},
          bookedSlots |-> <<[date |-> d1, time |-> Lunch, reservedSeats |-> 1]>>]

Tight == [slotIntervalMinutes |-> 30, defaultSlotCapacity |-> 1,
          serviceWindows |-> {Window(Lunch, Later)}, bookedSlots |-> <<>>]

MCSettings == {Roomy, Tight}
OneSettings == {Roomy}
\* The slots as in Roomy, with a seat less; and with one more, that is with three free.
CapacityOnly == {Roomy, [Roomy EXCEPT !.defaultSlotCapacity = 2]}
RoomForThree == {[Roomy EXCEPT !.defaultSlotCapacity = 4]}
NoSettings == {}
MCMalformedSettings == {EmptySettings}

Post(u, r, time, n) == [op |-> "create", userId |-> u, restaurantId |-> r, date |-> d1,
                        time |-> time, partySize |-> n]
ById(op, u, id) == [op |-> op, userId |-> u, reservationId |-> id]

\* Two parties for one slot, and one for the next slot, which not all settings offer.
MCCreateRequests == {Post(u1, r1, Lunch, 2), Post(u2, r1, Lunch, 1), Post(u2, r1, Later, 1)}
MCByIdRequests == {ById("cancel", u1, 1), ById("cancel", u2, 1), ById("find", u1, 1)}

\* Parties for one slot only, to fill it, and the cancellation of the first.
LunchRequests == {Post(u1, r1, Lunch, 2), Post(u2, r1, Lunch, 1)}
CancelRequests == {ById("cancel", u1, 1)}
\* Two restaurants, whose reservations share nothing but the table.
TwoRestaurantRequests == {Post(u1, r1, Lunch, 1), Post(u2, r2, Lunch, 1)}
NoByIdRequests == {}

\* Lunch begins when the model does, the other slot a tick later.
MCSlotStart == [d \in MCDates |-> [t \in MCTimes |-> IF t = Lunch THEN 0 ELSE 1]]

Symmetry == Permutations(Requests)
===============================================================================
