------------------------------- MODULE SlotBook -------------------------------
(***************************************************************************)
(* What the reservation endpoints promise, without handlers, transactions  *)
(* or a database: a book of seats.  A request changes the book at most     *)
(* once and in one step, and its verdict says whether it did, except that  *)
(* a request that failed may or may not have changed it.  A booking fits   *)
(* one of the limits that the slot's restaurant has published.             *)
(***************************************************************************)
EXTENDS Integers

CONSTANTS Requests, Slots, MaxPartySize

VARIABLES
    taken,   \* slot -> the seats that confirmed reservations take
    limits,  \* slot -> the numbers of seats that settings have offered for it
    verdict  \* request -> open, booked, released, refused or failed

vars == <<taken, limits, verdict>>

Init ==
    /\ taken = [s \in Slots |-> 0]
    /\ limits \in [Slots -> SUBSET Int]
    /\ verdict = [p \in Requests |-> "open"]

Decide(p, answers) ==
    verdict[p] = "open" /\ \E v \in answers : verdict' = [verdict EXCEPT ![p] = v]

\* The seats are booked; the requester hears so, or hears of a failure.
Book(p) ==
    /\ Decide(p, {"booked", "failed"})
    /\ \E s \in Slots, n \in 1..MaxPartySize :
           /\ \E limit \in limits[s] : taken[s] + n <= limit
           /\ taken' = [taken EXCEPT ![s] = @ + n]
    /\ UNCHANGED limits

\* A booking is given back whole.
Release(p) ==
    /\ Decide(p, {"released", "failed"})
    /\ \E s \in Slots, n \in 1..MaxPartySize :
           /\ n <= taken[s]
           /\ taken' = [taken EXCEPT ![s] = @ - n]
    /\ UNCHANGED limits

\* Nothing was changed.
Refuse(p) ==
    /\ Decide(p, {"refused"})
    /\ UNCHANGED <<taken, limits>>

\* The server fails; the answer to a seat already released may be lost too.
Fail(p) ==
    /\ verdict[p] \in {"open", "released"}
    /\ verdict' = [verdict EXCEPT ![p] = "failed"]
    /\ UNCHANGED <<taken, limits>>

\* A restaurant publishes further limits.
Publish ==
    /\ UNCHANGED <<verdict, taken>>
    /\ limits' \in [Slots -> SUBSET Int]
    /\ \A s \in Slots : limits[s] \subseteq limits'[s]

Next == Publish \/ \E p \in Requests : Refuse(p) \/ Fail(p) \/ Book(p) \/ Release(p)

Spec == Init /\ [][Next]_vars
===============================================================================
