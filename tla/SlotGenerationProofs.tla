-------------------------- MODULE SlotGenerationProofs --------------------------
(***************************************************************************)
(* Theorems about the loop of generateTimes, for all windows of a day and  *)
(* all intervals, zero included: whatever it pushes lies in the window,    *)
(* and if it returns, it returns the closed form that the other models     *)
(* use.  That it returns is for TLC, and with interval zero it does not.   *)
(***************************************************************************)
EXTENDS SlotGeneration, TLAPS

-------------------------------------------------------------------------------
(* Arithmetic.                                                             *)

\* toMinutes undoes toTime.
LEMMA MinutesOfTime ==
    ASSUME NEW m \in Nat
    PROVE  toMinutes(toTime(m)) = m
BY DEF toMinutes, toTime

\* A window is made of two times of a day, in minutes.
LEMMA WindowMinutes ==
    ASSUME NEW w \in ServiceWindows
    PROVE  toMinutes(w.start) \in Nat /\ toMinutes(w.end) \in Nat
<1>1. w.start \in TimesOfDay /\ w.end \in TimesOfDay
  BY WindowsAssumption
<1>2. \A t \in TimesOfDay : toMinutes(t) \in Nat
  BY DEF TimesOfDay, toMinutes
<1> QED BY <1>1, <1>2

\* The multiples of an interval are in the order of their factors.
LEMMA Multiples ==
    ASSUME NEW i \in Nat, NEW m \in Nat, NEW n \in Nat
    PROVE  /\ m * i \in Nat
           /\ (n + 1) * i = n * i + i
           /\ m <= n => m * i <= n * i
           /\ i # 0 => m <= m * i
<1>1. m * i \in Nat /\ (n + 1) * i = n * i + i
  OBVIOUS
<1>2. ASSUME m <= n PROVE m * i <= n * i
  <2>1. n - m \in Nat /\ n = m + (n - m)
    BY <1>2
  <2>2. PICK d \in Nat : n = m + d
    BY <2>1
  <2>3. n * i = m * i + d * i /\ d * i \in Nat
    BY <2>2
  <2> QED BY <1>1, <2>3
<1>3. ASSUME i # 0 PROVE m <= m * i
  <2>1. i - 1 \in Nat /\ i = (i - 1) + 1
    BY <1>3
  <2>2. PICK d \in Nat : i = d + 1
    BY <2>1
  <2>3. m * i = m * d + m /\ m * d \in Nat
    BY <2>2
  <2> QED BY <2>3
<1> QED BY <1>1, <1>2, <1>3

-------------------------------------------------------------------------------
(* The inductive invariant: after n rounds the loop has pushed the first n *)
(* multiples, each while it was still inside the window.                   *)

Pushed(n) == {toTime(toMinutes(window.start) + k * intervalMinutes) : k \in 0..(n - 1)}

Rounds(n) ==
    /\ currentMinutes = toMinutes(window.start) + n * intervalMinutes
    /\ times = Pushed(n)
    /\ \A k \in 0..(n - 1) : toMinutes(window.start) + k * intervalMinutes < endMinutes

LoopInv ==
    /\ window \in ServiceWindows /\ intervalMinutes \in Intervals
    /\ pc \in {"test", "push", "returned"}
    /\ \E n \in Nat : Rounds(n)
    /\ pc = "push" => currentMinutes < endMinutes
    /\ pc = "returned" => currentMinutes >= endMinutes

\* At the start the loop has made no round.
LEMMA InitLoop == Init => LoopInv
<1> SUFFICES ASSUME Init PROVE LoopInv
  OBVIOUS
<1>1. toMinutes(window.start) \in Nat /\ intervalMinutes \in Nat
  BY WindowMinutes, IntervalsAssumption DEF Init
<1>2. toMinutes(window.start) + 0 * intervalMinutes = toMinutes(window.start)
  BY <1>1
<1>3. 0..(0 - 1) = {}
  OBVIOUS
<1>4. Rounds(0)
  BY <1>2, <1>3 DEF Init, Rounds, Pushed
<1> QED BY <1>4 DEF Init, LoopInv

\* Each step of the loop keeps the invariant; a push makes one round.
LEMMA NextLoop == LoopInv /\ [Next]_vars => LoopInv'
<1> SUFFICES ASSUME LoopInv, [Next]_vars PROVE LoopInv'
  OBVIOUS
<1> DEFINE first == toMinutes(window.start)
<1>1. /\ first \in Nat /\ endMinutes \in Nat /\ intervalMinutes \in Nat
      /\ window \in ServiceWindows /\ intervalMinutes \in Intervals
  BY WindowMinutes, IntervalsAssumption DEF LoopInv, endMinutes
<1>2. PICK n \in Nat : Rounds(n)
  BY DEF LoopInv
<1>3. ASSUME UNCHANGED <<window, intervalMinutes, currentMinutes, times>>
      PROVE  /\ window' \in ServiceWindows /\ intervalMinutes' \in Intervals
             /\ \E k \in Nat : Rounds(k)'
             /\ currentMinutes' = currentMinutes /\ endMinutes' = endMinutes
  <2>1. Rounds(n)'
    BY <1>2, <1>3 DEF Rounds, Pushed, endMinutes
  <2> QED BY <1>1, <1>3, <2>1 DEF endMinutes
<1>4. currentMinutes \in Nat
  BY <1>1, <1>2, Multiples DEF Rounds
<1>5. CASE UNCHANGED vars
  BY <1>3, <1>5 DEF vars, LoopInv
<1>6. CASE Continue
  BY <1>3, <1>6 DEF Continue, LoopInv
<1>7. CASE Return
  BY <1>3, <1>7 DEF Return, LoopInv
<1>8. CASE Push
  <2>1. UNCHANGED <<window, intervalMinutes>> /\ endMinutes' = endMinutes
    BY <1>8 DEF Push, endMinutes
  <2>2. currentMinutes' = first + (n + 1) * intervalMinutes
    <3>1. currentMinutes = first + n * intervalMinutes
      BY <1>2 DEF Rounds
    <3>2. (n + 1) * intervalMinutes = n * intervalMinutes + intervalMinutes
          /\ n * intervalMinutes \in Nat
      BY <1>1, Multiples
    <3> HIDE DEF first
    <3> QED BY <1>1, <1>8, <3>1, <3>2 DEF Push
  <2>3. 0..((n + 1) - 1) = 0..(n - 1) \cup {n}
    OBVIOUS
  <2>4. times' = Pushed(n + 1)
    <3>1. times' = Pushed(n) \cup {toTime(first + n * intervalMinutes)}
      BY <1>2, <1>8 DEF Push, Rounds
    <3> QED BY <2>3, <3>1 DEF Pushed
  <2>5. \A k \in 0..((n + 1) - 1) : first + k * intervalMinutes < endMinutes
    <3>1. first + n * intervalMinutes < endMinutes
      BY <1>2, <1>8 DEF Push, LoopInv, Rounds
    <3> QED BY <1>2, <2>3, <3>1 DEF Rounds
  <2>6. Rounds(n + 1)'
    BY <2>1, <2>2, <2>4, <2>5 DEF Rounds, Pushed
  <2>7. n + 1 \in Nat
    OBVIOUS
  <2> QED BY <1>1, <1>8, <2>1, <2>6, <2>7 DEF Push, LoopInv
<1> QED BY <1>5, <1>6, <1>7, <1>8 DEF Next

\* The loop keeps its invariant.
LEMMA LoopInvariant == Spec => []LoopInv
BY InitLoop, NextLoop, PTL DEF Spec

-------------------------------------------------------------------------------
(* What follows from it.                                                   *)

\* Every variable keeps its type: what has been pushed are times up to the loop
\* variable.
THEOREM TypeCorrect == Spec => []TypeOK
<1>1. LoopInv => TypeOK
  <2> SUFFICES ASSUME LoopInv PROVE TypeOK
    OBVIOUS
  <2> DEFINE first == toMinutes(window.start)
  <2>1. first \in Nat /\ intervalMinutes \in Nat
    BY WindowMinutes, IntervalsAssumption DEF LoopInv
  <2>2. PICK n \in Nat : Rounds(n)
    BY DEF LoopInv
  <2>3. currentMinutes = first + n * intervalMinutes /\ currentMinutes \in Nat
    BY <2>1, <2>2, Multiples DEF Rounds
  <2>4. \A k \in 0..(n - 1) : first + k * intervalMinutes \in 0..currentMinutes
    <3> SUFFICES ASSUME NEW k \in 0..(n - 1)
                 PROVE  first + k * intervalMinutes \in 0..currentMinutes
      OBVIOUS
    <3>1. k \in Nat /\ k <= n
      OBVIOUS
    <3>2. /\ k * intervalMinutes \in Nat /\ n * intervalMinutes \in Nat
          /\ k * intervalMinutes <= n * intervalMinutes
      BY <2>1, <3>1, Multiples
    <3> HIDE DEF first
    <3> QED BY <2>1, <2>3, <3>2
  <2>5. times \subseteq {toTime(m) : m \in 0..currentMinutes}
    BY <2>2, <2>4 DEF Rounds, Pushed
  <2> QED BY <2>3, <2>5 DEF LoopInv, TypeOK
<1> QED BY LoopInvariant, <1>1, PTL

\* At no point of the loop is a slot outside the window: none before it opens, none
\* at its closing time or later.
THEOREM SlotsStayInside == Spec => []SlotsWithinWindow
<1>1. LoopInv => SlotsWithinWindow
  <2> SUFFICES ASSUME LoopInv, NEW t \in times
               PROVE  toMinutes(window.start) <= toMinutes(t) /\ toMinutes(t) < endMinutes
    BY DEF SlotsWithinWindow
  <2> DEFINE first == toMinutes(window.start)
  <2>1. first \in Nat /\ intervalMinutes \in Nat
    BY WindowMinutes, IntervalsAssumption DEF LoopInv
  <2>2. PICK n \in Nat : Rounds(n)
    BY DEF LoopInv
  <2>3. PICK k \in 0..(n - 1) : t = toTime(first + k * intervalMinutes)
    BY <2>2 DEF Rounds, Pushed
  <2>4. first + k * intervalMinutes < endMinutes
    BY <2>2 DEF Rounds
  <2>5. k * intervalMinutes \in Nat
    BY <2>1, Multiples
  <2>6. toMinutes(t) = first + k * intervalMinutes
    BY <2>1, <2>3, <2>5, MinutesOfTime
  <2> HIDE DEF first
  <2> QED BY <2>1, <2>4, <2>5, <2>6 DEF first
<1> QED BY LoopInvariant, <1>1, PTL

\* The closed form has no multiple that the loop has not reached, nor fewer: the
\* factors that stay inside the window are those below the number of rounds.
LEMMA RoundsInside ==
    ASSUME NEW first \in Nat, NEW end \in Nat, NEW i \in Nat, NEW n \in Nat,
           end <= first + n * i, \A k \in 0..(n - 1) : first + k * i < end
    PROVE  {k \in 0..(end - first) : first + k * i < end} = 0..(n - 1)
<1>1. CASE i = 0
  <2>1. n * i = 0 /\ \A k \in Nat : k * i = 0
    BY <1>1
  <2>2. end <= first
    BY <2>1
  <2>3. 0..(n - 1) = {}
    <3> SUFFICES ASSUME NEW k \in 0..(n - 1) PROVE FALSE
      OBVIOUS
    <3>1. k \in Nat /\ first + k * i < end
      OBVIOUS
    <3>2. k * i = 0
      BY <2>1, <3>1
    <3> QED BY <2>2, <3>1, <3>2
  <2>4. \A k \in 0..(end - first) : ~(first + k * i < end)
    BY <2>1, <2>2
  <2> QED BY <2>3, <2>4
<1>2. CASE i # 0
  <2>1. ASSUME NEW k \in 0..(end - first), first + k * i < end PROVE k \in 0..(n - 1)
    <3>1. k \in Nat
      OBVIOUS
    <3>2. n <= k => n * i <= k * i
      BY <3>1, Multiples
    <3>3. n * i \in Nat /\ k * i \in Nat
      BY <3>1, Multiples
    <3>4. ~(n <= k)
      BY <2>1, <3>2, <3>3
    <3> QED BY <3>1, <3>4
  <2>2. ASSUME NEW k \in 0..(n - 1) PROVE k \in 0..(end - first) /\ first + k * i < end
    <3>1. k \in Nat /\ first + k * i < end
      OBVIOUS
    <3>2. k <= k * i /\ k * i \in Nat
      BY <1>2, <3>1, Multiples
    <3> QED BY <3>1, <3>2
  <2> QED BY <2>1, <2>2
<1> QED BY <1>1, <1>2

\* What the loop returns is generateTimes in closed form, so the reservation and the
\* availability models use what the code computes, for every interval an owner may set.
THEOREM ReturnsTheClosedForm == Spec => []ReturnsGenerateTimes
<1>1. LoopInv => ReturnsGenerateTimes
  <2> SUFFICES ASSUME LoopInv, pc = "returned"
               PROVE  times = generateTimes(window.start, window.end, intervalMinutes)
    BY DEF ReturnsGenerateTimes
  <2> DEFINE first == toMinutes(window.start)
  <2>1. first \in Nat /\ endMinutes \in Nat /\ intervalMinutes \in Nat
    BY WindowMinutes, IntervalsAssumption DEF LoopInv, endMinutes
  <2>2. PICK n \in Nat : Rounds(n)
    BY DEF LoopInv
  <2>3. /\ endMinutes <= first + n * intervalMinutes
        /\ \A k \in 0..(n - 1) : first + k * intervalMinutes < endMinutes
    <3>1. currentMinutes = first + n * intervalMinutes /\ currentMinutes \in Nat
      BY <2>1, <2>2, Multiples DEF Rounds
    <3>2. endMinutes <= currentMinutes
      BY <2>1, <3>1 DEF LoopInv
    <3> QED BY <2>2, <3>1, <3>2 DEF Rounds
  <2>4. {k \in 0..(endMinutes - first) : first + k * intervalMinutes < endMinutes} = 0..(n - 1)
    <3> HIDE DEF first
    <3> QED BY <2>1, <2>3, RoundsInside
  <2>5. generateTimes(window.start, window.end, intervalMinutes) =
            {toTime(first + k * intervalMinutes) :
                 k \in {k \in 0..(endMinutes - first) : first + k * intervalMinutes < endMinutes}}
    BY DEF generateTimes, endMinutes
  <2> QED BY <2>2, <2>4, <2>5 DEF Rounds, Pushed
<1> QED BY LoopInvariant, <1>1, PTL
===============================================================================
