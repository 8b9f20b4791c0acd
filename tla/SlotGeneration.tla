---------------------------- MODULE SlotGeneration ----------------------------
(***************************************************************************)
(* The loop of AvailabilityCalculator.generateTimes, step by step.  It is  *)
(* synchronous: while it runs, the single thread of the server does        *)
(* nothing else, so whether it returns is a question about every client.   *)
(* The settings come from a JSON column that restaurant owners write and   *)
(* that is validated only to be an object, so the interval is whatever the *)
(* owner sent.                                                             *)
(***************************************************************************)
EXTENDS AvailabilityCalculator

CONSTANTS
    ServiceWindows, \* the windows [start, end] that settings may contain
    Intervals       \* the values that settings may give slotIntervalMinutes

TimesOfDay == (0..24) \X (0..59)

ASSUME WindowsAssumption == ServiceWindows \subseteq [start : TimesOfDay, end : TimesOfDay]
ASSUME IntervalsAssumption == Intervals \subseteq Nat

VARIABLES
    window,          \* the arguments start and end
    intervalMinutes, \* the argument intervalMinutes
    currentMinutes,  \* the loop variable
    times,           \* what has been pushed
    pc               \* "test", "push" or "returned"

vars == <<window, intervalMinutes, currentMinutes, times, pc>>

endMinutes == toMinutes(window.end)

TypeOK ==
    /\ window \in ServiceWindows
    /\ intervalMinutes \in Intervals
    /\ currentMinutes \in Nat
    /\ times \subseteq {toTime(m) : m \in 0..currentMinutes}
    /\ pc \in {"test", "push", "returned"}

Init ==
    /\ window \in ServiceWindows
    /\ intervalMinutes \in Intervals
    /\ currentMinutes = toMinutes(window.start)
    /\ times = {}
    /\ pc = "test"

\* Mutants: the closing time is offered too; the loop steps before it pushes; it
\* does not step; it steps back.
ContinueThroughEnd ==
    /\ pc = "test" /\ currentMinutes <= endMinutes
    /\ pc' = "push"
    /\ UNCHANGED <<window, intervalMinutes, currentMinutes, times>>

PushAfterStep ==
    /\ pc = "push"
    /\ times' = times \cup {toTime(currentMinutes + intervalMinutes)}
    /\ currentMinutes' = currentMinutes + intervalMinutes
    /\ pc' = "test"
    /\ UNCHANGED <<window, intervalMinutes>>

PushWithoutStep ==
    /\ pc = "push"
    /\ times' = times \cup {toTime(currentMinutes)}
    /\ pc' = "test"
    /\ UNCHANGED <<window, intervalMinutes, currentMinutes>>

PushAndRewind ==
    /\ pc = "push"
    /\ times' = times \cup {toTime(currentMinutes)}
    /\ currentMinutes' = currentMinutes - intervalMinutes
    /\ pc' = "test"
    /\ UNCHANGED <<window, intervalMinutes>>

-------------------------------------------------------------------------------
\* currentMinutes < endMinutes holds: the body runs.
Continue ==
    /\ pc = "test" /\ currentMinutes < endMinutes
    /\ pc' = "push"
    /\ UNCHANGED <<window, intervalMinutes, currentMinutes, times>>

\* times.push(this.toTime(currentMinutes)), then currentMinutes += intervalMinutes.
Push ==
    /\ pc = "push"
    /\ times' = times \cup {toTime(currentMinutes)}
    /\ currentMinutes' = currentMinutes + intervalMinutes
    /\ pc' = "test"
    /\ UNCHANGED <<window, intervalMinutes>>

\* The loop condition fails: return times.
Return ==
    /\ pc = "test" /\ currentMinutes >= endMinutes
    /\ pc' = "returned"
    /\ UNCHANGED <<window, intervalMinutes, currentMinutes, times>>

Next == Continue \/ Push \/ Return

\* The thread runs: nothing preempts a synchronous loop.
Spec == Init /\ [][Next]_vars /\ WF_vars(Next)

-------------------------------------------------------------------------------
\* No slot starts before the window opens or at or after it closes, at any point
\* of the loop.
SlotsWithinWindow ==
    \A t \in times : toMinutes(window.start) <= toMinutes(t) /\ toMinutes(t) < endMinutes

\* What the loop returns is the closed form that the reservation and the
\* availability models use, so those models use what the code computes.
ReturnsGenerateTimes ==
    pc = "returned" => times = generateTimes(window.start, window.end, intervalMinutes)

\* The loop returns, so one availability query cannot stop the server.
LoopReturns == <>(pc = "returned")
===============================================================================
