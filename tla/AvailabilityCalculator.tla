------------------------ MODULE AvailabilityCalculator ------------------------
(***************************************************************************)
(* The pure part of the booking rules: src/availability/                   *)
(* availability.calculator.ts.  It turns a restaurant's reservation        *)
(* settings and the confirmed reservations of a day into the slots of that *)
(* day, each with its seats.  Both readers of the code share it: the       *)
(* availability endpoint and the reservation transaction.                  *)
(*                                                                         *)
(* A time of day "HH:mm" is the pair <<hours, minutes>>.  Settings are the *)
(* record the code casts the JSON column to:                               *)
(*   [slotIntervalMinutes, defaultSlotCapacity,                            *)
(*    serviceWindows : a set of [start, end],                              *)
(*    bookedSlots    : a sequence of [date, time, reservedSeats]]          *)
(* The order of the windows only orders the answer, so they form a set.    *)
(***************************************************************************)
EXTENDS Integers, Sequences, FiniteSets

toMinutes(time) == 60 * time[1] + time[2]

toTime(totalMinutes) == <<totalMinutes \div 60, totalMinutes % 60>>

\* What the loop of generateTimes pushes, in closed form: the multiples of the
\* interval that start at the opening minute and stay before the closing one.
\* SlotGeneration.tla has the loop itself.
generateTimes(start, end, intervalMinutes) ==
    LET first == toMinutes(start)
        steps == {n \in 0..(toMinutes(end) - first) :
                      first + n * intervalMinutes < toMinutes(end)}
    IN  {toTime(first + n * intervalMinutes) : n \in steps}

SlotTimes(settings) ==
    UNION {generateTimes(w.start, w.end, settings.slotIntervalMinutes) :
               w \in settings.serviceWindows}

-------------------------------------------------------------------------------
(* Adding up seats.  n is a function from a finite set of rows to numbers; *)
(* the code's reduce((total, row) => total + row.n, 0) counts the seats    *)
(* <<row, 1>>, ..., <<row, n[row]>> of all rows.                           *)

SeatsOf(n) == UNION {{row} \X (1..n[row]) : row \in DOMAIN n}

Total(n) == Cardinality(SeatsOf(n))

\* The seats that the settings declare as taken before any reservation.
SeededReservedSeats(settings, date, time) ==
    LET booked == settings.bookedSlots
        hits   == {i \in DOMAIN booked : booked[i].date = date /\ booked[i].time = time}
    IN  Total([i \in hits |-> booked[i].reservedSeats])

\* rows: a function from reservation ids to records with a time and a partySize.
ReservationSeats(rows, time) ==
    Total([i \in {j \in DOMAIN rows : rows[j].time = time} |-> rows[i].partySize])

Clamped(n) == IF n > 0 THEN n ELSE 0

\* A mutant: seats that the settings declare as taken are forgotten.
CalculateWithoutSeededSeats(settings, rows, date, partySize) ==
    [time \in SlotTimes(settings) |->
        LET reserved == ReservationSeats(rows, time)
            free     == Clamped(settings.defaultSlotCapacity - reserved)
        IN  [capacity |-> settings.defaultSlotCapacity, reservedSeats |-> reserved,
             availableSeats |-> free, available |-> free >= partySize]]

\* calculate: rows are the confirmed reservations of the restaurant on that date.
Calculate(settings, rows, date, partySize) ==
    [time \in SlotTimes(settings) |->
        LET reserved == SeededReservedSeats(settings, date, time)
                            + ReservationSeats(rows, time)
            free     == Clamped(settings.defaultSlotCapacity - reserved)
        IN  [capacity |-> settings.defaultSlotCapacity, reservedSeats |-> reserved,
             availableSeats |-> free, available |-> free >= partySize]]
===============================================================================
