--------------------- MODULE AvailabilityCalculatorProofs ---------------------
(***************************************************************************)
(* Lemmas about the operators of AvailabilityCalculator.  Total is a       *)
(* cardinality, so that what it does when a row comes or goes follows from *)
(* facts about finite sets instead of an induction over the rows.          *)
(***************************************************************************)
EXTENDS AvailabilityCalculator, FiniteSetTheorems, TLAPS

\* The seats of finitely many rows are finitely many.
LEMMA SeatsFinite ==
    ASSUME NEW I, IsFiniteSet(I), NEW n \in [I -> Nat]
    PROVE  IsFiniteSet(SeatsOf(n))
<1> DEFINE row(i) == {i} \X (1..n[i])
           Family == {row(i) : i \in I}
           f == [i \in I |-> row(i)]
<1>1. IsFiniteSet(Family)
  <2>1. f \in Surjection(I, Family)
    BY DEF Surjection
  <2> QED BY <2>1, FS_Surjection
<1>2. \A T \in Family : IsFiniteSet(T)
  <2> SUFFICES ASSUME NEW i \in I PROVE IsFiniteSet(row(i))
    OBVIOUS
  <2>1. IsFiniteSet({i})
    BY FS_Singleton
  <2>2. n[i] \in Int
    OBVIOUS
  <2>3. IsFiniteSet(1..n[i])
    BY <2>2, FS_Interval
  <2> QED BY <2>1, <2>3, FS_Product
<1>3. SeatsOf(n) = UNION Family
  BY DEF SeatsOf
<1> HIDE DEF Family
<1> QED BY <1>1, <1>2, <1>3, FS_UNION

\* A total of natural numbers is a natural number.
LEMMA TotalType ==
    ASSUME NEW I, IsFiniteSet(I), NEW n \in [I -> Nat]
    PROVE  Total(n) \in Nat
BY SeatsFinite, FS_CardinalityType DEF Total

\* Without some of its rows a total is no larger.
LEMMA TotalMonotone ==
    ASSUME NEW I, IsFiniteSet(I), NEW n \in [I -> Nat], NEW J \in SUBSET I
    PROVE  Total([i \in J |-> n[i]]) <= Total(n)
<1>1. SeatsOf([i \in J |-> n[i]]) \subseteq SeatsOf(n)
  BY DEF SeatsOf
<1> QED BY <1>1, SeatsFinite, FS_Subset DEF Total

\* One more row adds its number.
LEMMA TotalAdd ==
    ASSUME NEW n, IsFiniteSet(DOMAIN n), n \in [DOMAIN n -> Nat],
           NEW m, NEW x, x \notin DOMAIN n,
           DOMAIN m = DOMAIN n \cup {x}, m[x] \in Nat, \A i \in DOMAIN n : m[i] = n[i]
    PROVE  Total(m) = Total(n) + m[x]
<1> DEFINE I == DOMAIN n
           k == m[x]
           new == {x} \X (1..k)
<1>1. SeatsOf(m) = SeatsOf(n) \cup new
  <2>1. SeatsOf(m) = (UNION {{i} \X (1..m[i]) : i \in I}) \cup ({x} \X (1..m[x]))
    BY DEF SeatsOf
  <2>2. {{i} \X (1..m[i]) : i \in I} = {{i} \X (1..n[i]) : i \in I}
    OBVIOUS
  <2> QED BY <2>1, <2>2 DEF SeatsOf
<1>2. SeatsOf(n) \cap new = {}
  BY DEF SeatsOf
<1>3. IsFiniteSet(new) /\ Cardinality(new) = k
  <2>1. IsFiniteSet({x}) /\ Cardinality({x}) = 1
    BY FS_Singleton
  <2>2. IsFiniteSet(1..k) /\ Cardinality(1..k) = k
    <3>1. /\ IsFiniteSet(1..k)
          /\ Cardinality(1..k) = IF 1 > k THEN 0 ELSE k - 1 + 1
      BY FS_Interval
    <3> QED BY <3>1
  <2>3. /\ IsFiniteSet({x} \X (1..k))
        /\ Cardinality({x} \X (1..k)) = Cardinality({x}) * Cardinality(1..k)
    BY <2>1, <2>2, FS_Product
  <2> QED BY <2>1, <2>2, <2>3
<1>4. IsFiniteSet(SeatsOf(n)) /\ Cardinality(SeatsOf(n)) \in Nat
  BY SeatsFinite, FS_CardinalityType
<1> HIDE DEF new
<1>5. Cardinality(SeatsOf(n) \cup new)
          = Cardinality(SeatsOf(n)) + Cardinality(new) - Cardinality(SeatsOf(n) \cap new)
  BY <1>3, <1>4, FS_Union
<1>6. Cardinality({}) = 0
  BY FS_EmptySet
<1>7. Cardinality(SeatsOf(n) \cap new) = 0
  BY <1>2, <1>6, Zenon
<1>8. Cardinality(SeatsOf(n) \cup new) = Cardinality(SeatsOf(n)) + k
  BY <1>3, <1>4, <1>5, <1>7
<1> QED BY <1>1, <1>8 DEF Total

\* The clamping at zero neither makes up seats nor hides any: calculate calls a slot
\* available exactly when it has room for the party.
LEMMA AvailableIffRoom ==
    ASSUME NEW settings, settings.defaultSlotCapacity \in Nat,
           NEW rows, NEW date, NEW partySize \in Nat \ {0},
           NEW time \in SlotTimes(settings),
           SeededReservedSeats(settings, date, time) \in Nat,
           ReservationSeats(rows, time) \in Nat
    PROVE  Calculate(settings, rows, date, partySize)[time].available
               <=> SeededReservedSeats(settings, date, time) + ReservationSeats(rows, time)
                       + partySize <= settings.defaultSlotCapacity
<1> DEFINE slot == Calculate(settings, rows, date, partySize)[time]
           reserved == SeededReservedSeats(settings, date, time) + ReservationSeats(rows, time)
           free == Clamped(settings.defaultSlotCapacity - reserved)
           enough == free >= partySize
<1>1. slot = [capacity |-> settings.defaultSlotCapacity, reservedSeats |-> reserved,
              availableSeats |-> free, available |-> enough]
  BY DEF Calculate
<1>2. reserved \in Nat
  OBVIOUS
<1> HIDE DEF slot, reserved, free, enough
<1>3. slot.available = enough
  BY <1>1
<1>4. enough <=> partySize <= settings.defaultSlotCapacity - reserved
  BY <1>2 DEF enough, free, Clamped
<1>5. enough <=> reserved + partySize <= settings.defaultSlotCapacity
  BY <1>2, <1>4
<1>6. slot.available <=> reserved + partySize <= settings.defaultSlotCapacity
  BY <1>3, <1>5, Zenon
<1> QED BY <1>6, Zenon DEF slot, reserved

\* A slot that calculate calls available has room for the party: what the
\* reservation handler relies on when it inserts a row.
THEOREM AvailableMeansRoom ==
    ASSUME NEW settings, settings.defaultSlotCapacity \in Nat,
           NEW rows, NEW date, NEW partySize \in Nat \ {0},
           NEW time \in SlotTimes(settings),
           SeededReservedSeats(settings, date, time) \in Nat,
           ReservationSeats(rows, time) \in Nat,
           Calculate(settings, rows, date, partySize)[time].available
    PROVE  SeededReservedSeats(settings, date, time) + ReservationSeats(rows, time) + partySize
               <= settings.defaultSlotCapacity
BY AvailableIffRoom
===============================================================================
