----------------------------- MODULE MCAvailability -----------------------------
(* A view of the one day beside the reservations of MCReservations.        *)
EXTENDS MCReservations, Availability

MCQueries == {[restaurantId |-> r1, date |-> d1, partySize |-> 1]}
\* Parties of one for a slot with two free seats, and the cancellation of the first.
PartiesOfOne == {Post(u2, r1, Lunch, 1)}
CancelFirst == {ById("cancel", u2, 1)}
\* The day has slots at its last instant, and is then over.
MCDayEnd == [d \in MCDates |-> 1]
MCDaySlotStart == [d \in MCDates |-> [t \in MCTimes |-> 0]]
================================================================================
