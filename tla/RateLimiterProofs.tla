--------------------------- MODULE RateLimiterProofs ---------------------------
(***************************************************************************)
(* Theorems about the rate limiter, for any number of clients, any limits  *)
(* (a penalty no shorter than a window) and any interleaving of requests   *)
(* and the clock.                                                          *)
(***************************************************************************)
EXTENDS RateLimiter, TLAPS

\* The accepted requests of the current window of a client that has an entry.
InWindow(c) ==
    IF IsBlocked(c) THEN MaxRequests ELSE requestsByClient[c].count

WindowStart(c) == requestsByClient[c].windowResetAt - WindowMs

\* A client without an entry has never been heard of.
UnknownOK(c) ==
    accepted[c] = <<>> /\ blockedAt[c] = Undefined /\ comeBackAt[c] = Undefined

\* The last InWindow(c) accepted requests came in the current window, the first of
\* them when it began, and those that a window of MaxRequests before them cannot
\* hold came a whole window before it began.
WindowOK(c) ==
    LET n == Len(accepted[c]) IN
    /\ InWindow(c) \in 1..MaxRequests /\ InWindow(c) <= n
    /\ WindowStart(c) <= now
    /\ \A i \in 1..n :
           /\ accepted[c][i] <= now
           /\ i <= n - InWindow(c) + 1 => accepted[c][i] <= WindowStart(c)
           /\ i > n - InWindow(c) => accepted[c][i] >= WindowStart(c)
           /\ i <= n - InWindow(c) - (MaxRequests - 1) =>
                  accepted[c][i] + WindowMs <= WindowStart(c)

\* A penalty began in the window and lasts PenaltyMs; an earlier one is over.
PenaltyOK(c) ==
    IF IsBlocked(c)
    THEN /\ blockedAt[c] # Undefined
         /\ requestsByClient[c].blockedUntil = blockedAt[c] + PenaltyMs
         /\ WindowStart(c) <= blockedAt[c] /\ blockedAt[c] <= now
    ELSE /\ comeBackAt[c] = Undefined
         /\ blockedAt[c] # Undefined => blockedAt[c] + PenaltyMs <= now

\* The inductive invariant, without the types.
LimiterOK(c) == IF HasEntry(c) THEN WindowOK(c) /\ PenaltyOK(c) ELSE UnknownOK(c)

LimiterInv == TypeOK /\ BurstBound /\ RetryAfterIsExact /\ \A c \in Clients : LimiterOK(c)

-------------------------------------------------------------------------------
(* Arithmetic.                                                             *)

\* Retry-After, in units, covers what is left of a penalty and less than a second more.
LEMMA RoundedUp ==
    ASSUME NEW d \in Nat \ {0}, NEW up, up = (d + SecondMs - 1) \div SecondMs
    PROVE  /\ up \in Nat \ {0}
           /\ SecondMs * up >= d
           /\ SecondMs * up < d + SecondMs
<1>1. SecondMs \in Nat \ {0} /\ d + SecondMs - 1 \in Nat
  BY LimitsAssumption
<1>2. ASSUME NEW a \in Nat, NEW b \in Nat \ {0}
      PROVE  /\ a \div b \in Nat
             /\ b * (a \div b) <= a
             /\ a < b * (a \div b) + b
  BY <1>2
<1>3. /\ up \in Nat
      /\ SecondMs * up <= d + SecondMs - 1
      /\ d + SecondMs - 1 < SecondMs * up + SecondMs
  BY <1>1, <1>2
<1> QED BY <1>1, <1>3

-------------------------------------------------------------------------------
(* Types.                                                                  *)

\* The entry that a request is counted in has the type of an entry.
LEMMA CurrentEntryType ==
    ASSUME TypeOK, NEW c \in Clients
    PROVE  CurrentEntry(c) \in Entry
BY LimitsAssumption DEF TypeOK, CurrentEntry, HasEntry, Entry, Undefined

\* Writing an entry changes that client's entry and no other.
LEMMA SetEntryEffect ==
    ASSUME TypeOK, NEW c \in Clients, NEW e \in Entry, SetEntry(c, e)
    PROVE  /\ HasEntry(c)' /\ requestsByClient'[c] = e
           /\ \A k : k # c => /\ HasEntry(k)' = HasEntry(k)
                              /\ HasEntry(k) => requestsByClient'[k] = requestsByClient[k]
           /\ DOMAIN requestsByClient' \subseteq Clients
           /\ requestsByClient' \in [DOMAIN requestsByClient' -> Entry]
BY DEF SetEntry, HasEntry, TypeOK

\* What the client of a 429 is told is a time.
LEMMA ResponseType ==
    ASSUME TypeOK, NEW c \in Clients, NEW until \in Nat, until > now,
           SendRateLimitResponse(c, until)
    PROVE  /\ comeBackAt' \in [Clients -> Nat \cup {Undefined}]
           /\ \A k \in Clients : k # c => comeBackAt'[k] = comeBackAt[k]
           /\ comeBackAt'[c] \in Nat /\ until <= comeBackAt'[c]
           /\ comeBackAt'[c] < until + SecondMs
<1> DEFINE d == until - now
           up == (d + SecondMs - 1) \div SecondMs
<1>1. now \in Nat /\ d \in Nat \ {0} /\ SecondMs \in Nat \ {0}
  BY LimitsAssumption DEF TypeOK
<1>2. up \in Nat \ {0} /\ SecondMs * up >= d /\ SecondMs * up < d + SecondMs
  BY <1>1, RoundedUp
<1>3. RetryAfterSeconds(until) = up
  <2>1. RetryAfterSeconds(until) = IF up > 1 THEN up ELSE 1
    BY DEF RetryAfterSeconds
  <2> QED BY <1>2, <2>1
<1>4. comeBackAt' = [comeBackAt EXCEPT ![c] = now + SecondMs * up]
  BY <1>3 DEF SendRateLimitResponse
<1> HIDE DEF up
<1>5. SecondMs * up \in Nat
  BY <1>1, <1>2
<1>6. now + SecondMs * up \in Nat /\ until <= now + SecondMs * up
      /\ now + SecondMs * up < until + SecondMs
  BY <1>1, <1>2, <1>5
<1> QED BY <1>4, <1>6 DEF TypeOK

\* The limiter starts with an empty Map.
LEMMA InitTypes == Init => TypeOK
BY LimitsAssumption DEF Init, TypeOK

\* Every step keeps the types.
LEMMA NextTypes == TypeOK /\ [Next]_vars => TypeOK'
<1> SUFFICES ASSUME TypeOK, [Next]_vars PROVE TypeOK'
  OBVIOUS
<1>1. CASE Tick
  BY <1>1, LimitsAssumption DEF Tick, TypeOK
<1>2. ASSUME NEW c \in Clients, RejectDuringPenalty(c) PROVE TypeOK'
  <2>1. requestsByClient[c].blockedUntil \in Nat /\ requestsByClient[c].blockedUntil > now
    BY <1>2 DEF RejectDuringPenalty, InPenalty, IsBlocked, HasEntry, TypeOK, Entry, Undefined
  <2>2. comeBackAt' \in [Clients -> Nat \cup {Undefined}]
    BY <1>2, <2>1, ResponseType DEF RejectDuringPenalty
  <2> QED BY <1>2, <2>2 DEF RejectDuringPenalty, TypeOK
<1>3. ASSUME NEW c \in Clients, Accept(c) PROVE TypeOK'
  <2> DEFINE e == [CurrentEntry(c) EXCEPT !.count = CurrentEntry(c).count + 1]
  <2>1. e \in Entry
    BY CurrentEntryType DEF Entry
  <2>2. /\ DOMAIN requestsByClient' \subseteq Clients
        /\ requestsByClient' \in [DOMAIN requestsByClient' -> Entry]
    BY <1>3, <2>1, SetEntryEffect DEF Accept
  <2>3. accepted' \in [Clients -> Seq(Nat)]
    BY <1>3 DEF Accept, TypeOK
  <2> QED BY <1>3, <2>2, <2>3 DEF Accept, TypeOK
<1>4. ASSUME NEW c \in Clients, StartPenalty(c) PROVE TypeOK'
  <2> DEFINE e == [CurrentEntry(c) EXCEPT !.count = CurrentEntry(c).count + 1,
                                          !.blockedUntil = now + PenaltyMs]
  <2>1. now + PenaltyMs \in Nat /\ now + PenaltyMs > now /\ now \in Nat
    BY LimitsAssumption, PenaltyAssumption DEF TypeOK
  <2>2. e \in Entry
    <3>1. [CurrentEntry(c) EXCEPT !.count = CurrentEntry(c).count + 1] \in Entry
      BY CurrentEntryType DEF Entry
    <3>2. ASSUME NEW b \in Entry, NEW until \in Nat
          PROVE  [b EXCEPT !.blockedUntil = until] \in Entry
      BY DEF Entry
    <3>3. e = [[CurrentEntry(c) EXCEPT !.count = CurrentEntry(c).count + 1]
                   EXCEPT !.blockedUntil = now + PenaltyMs]
      OBVIOUS
    <3> QED BY <2>1, <3>1, <3>2, <3>3
  <2>3. /\ DOMAIN requestsByClient' \subseteq Clients
        /\ requestsByClient' \in [DOMAIN requestsByClient' -> Entry]
    BY <1>4, <2>2, SetEntryEffect DEF StartPenalty
  <2>4. comeBackAt' \in [Clients -> Nat \cup {Undefined}]
    BY <1>4, <2>1, ResponseType DEF StartPenalty
  <2> QED BY <1>4, <2>1, <2>3, <2>4 DEF StartPenalty, TypeOK
<1>5. CASE UNCHANGED vars
  BY <1>5 DEF vars, TypeOK
<1> QED BY <1>1, <1>2, <1>3, <1>4, <1>5 DEF Next, Request

\* The Map and the clock keep their types, for any clients and limits.
THEOREM TypeCorrect == Spec => []TypeOK
BY InitTypes, NextTypes, PTL DEF Spec

-------------------------------------------------------------------------------
(* The invariant.                                                          *)

\* Without clients nothing has been counted.
LEMMA InitLimiter == Init => LimiterInv
<1> SUFFICES ASSUME Init PROVE LimiterInv
  OBVIOUS
<1>1. \A c \in Clients : LimiterOK(c)
  BY DEF Init, LimiterOK, HasEntry, UnknownOK
<1>2. BurstBound /\ RetryAfterIsExact
  BY DEF Init, BurstBound, RetryAfterIsExact, Undefined
<1> QED BY <1>1, <1>2, InitTypes DEF LimiterInv

\* A request of another client changes nothing that is said of this one.
LEMMA OtherClient ==
    ASSUME TypeOK, NEW c \in Clients, NEW e \in Entry, SetEntry(c, e), now' = now,
           NEW k \in Clients, k # c, LimiterOK(k),
           UNCHANGED <<accepted[k], blockedAt[k], comeBackAt[k]>>
    PROVE  LimiterOK(k)'
<1>1. /\ HasEntry(k)' = HasEntry(k)
      /\ HasEntry(k) => requestsByClient'[k] = requestsByClient[k]
  BY SetEntryEffect
<1> QED BY <1>1 DEF LimiterOK, WindowOK, PenaltyOK, UnknownOK, InWindow, WindowStart, IsBlocked

\* What is left of the entry when a request may be accepted: the current window, or
\* a new one, and then an earlier window has been over for the client.
LEMMA Windows ==
    ASSUME LimiterInv, NEW c \in Clients, ~InPenalty(c)
    PROVE  \/ /\ HasEntry(c) /\ ~IsBlocked(c) /\ CurrentEntry(c) = requestsByClient[c]
              /\ requestsByClient[c].windowResetAt > now
           \/ /\ CurrentEntry(c) = [count |-> 0, windowResetAt |-> now + WindowMs,
                                    blockedUntil |-> Undefined]
              /\ HasEntry(c) => WindowStart(c) + WindowMs <= now
<1>1. CASE HasEntry(c) /\ ~IsBlocked(c) /\ requestsByClient[c].windowResetAt > now
  BY <1>1 DEF CurrentEntry
<1>2. CASE ~(HasEntry(c) /\ ~IsBlocked(c) /\ requestsByClient[c].windowResetAt > now)
  <2>1. CurrentEntry(c) = [count |-> 0, windowResetAt |-> now + WindowMs,
                           blockedUntil |-> Undefined]
    BY <1>2 DEF CurrentEntry
  <2>2. ASSUME HasEntry(c) PROVE WindowStart(c) + WindowMs <= now
    <3>1. /\ WindowOK(c) /\ PenaltyOK(c) /\ now \in Nat /\ requestsByClient[c] \in Entry
          /\ blockedAt[c] \in Nat \cup {Undefined}
      BY <2>2 DEF LimiterInv, LimiterOK, TypeOK, HasEntry
    <3>2. WindowStart(c) + WindowMs = requestsByClient[c].windowResetAt
      BY <3>1, LimitsAssumption DEF WindowStart, Entry
    <3>3. CASE IsBlocked(c)
      <4>1. /\ requestsByClient[c].blockedUntil = blockedAt[c] + PenaltyMs
            /\ WindowStart(c) <= blockedAt[c] /\ blockedAt[c] \in Nat
        BY <3>1, <3>3 DEF PenaltyOK
      <4>2. requestsByClient[c].blockedUntil <= now
        BY <3>1, <3>3, <4>1, LimitsAssumption DEF InPenalty
      <4> QED BY <3>1, <3>2, <4>1, <4>2, LimitsAssumption, PenaltyAssumption DEF WindowStart, Entry
    <3>4. CASE ~IsBlocked(c)
      BY <1>2, <2>2, <3>1, <3>2, <3>4 DEF Entry
    <3> QED BY <3>3, <3>4
  <2> QED BY <2>1, <2>2
<1> QED BY <1>1, <1>2

\* No penalty of a client whose request may be accepted is running.
LEMMA PenaltyOver ==
    ASSUME LimiterInv, NEW c \in Clients, ~InPenalty(c), blockedAt[c] # Undefined
    PROVE  blockedAt[c] + PenaltyMs <= now
<1>1. HasEntry(c) /\ PenaltyOK(c)
  BY DEF LimiterInv, LimiterOK, UnknownOK
<1>2. CASE IsBlocked(c)
  BY <1>1, <1>2, LimitsAssumption DEF PenaltyOK, InPenalty, LimiterInv, TypeOK, Entry, HasEntry
<1>3. CASE ~IsBlocked(c)
  BY <1>1, <1>3 DEF PenaltyOK
<1> QED BY <1>2, <1>3

\* An accepted request joins the window it is counted in, and comes a window after
\* every request that is 2 * MaxRequests - 1 places before it.
LEMMA AcceptLimiter ==
    ASSUME LimiterInv, TypeOK', NEW c \in Clients, Accept(c)
    PROVE  LimiterInv'
<1> DEFINE cur == CurrentEntry(c)
           e == [cur EXCEPT !.count = cur.count + 1]
           n == Len(accepted[c])
           past == accepted[c]
<1>1. /\ ~InPenalty(c) /\ cur.count + 1 <= MaxRequests /\ SetEntry(c, e)
      /\ accepted' = [accepted EXCEPT ![c] = Append(past, now)]
      /\ comeBackAt' = [comeBackAt EXCEPT ![c] = Undefined]
      /\ now' = now /\ blockedAt' = blockedAt
  BY DEF Accept
<1>2. /\ cur \in Entry /\ e \in Entry /\ e.count = cur.count + 1
      /\ e.windowResetAt = cur.windowResetAt /\ e.blockedUntil = cur.blockedUntil
  BY CurrentEntryType DEF LimiterInv, Entry
<1>3. /\ HasEntry(c)' /\ requestsByClient'[c] = e
  BY <1>1, <1>2, SetEntryEffect DEF LimiterInv
<1>4. /\ now \in Nat /\ n \in Nat /\ past \in Seq(Nat)
      /\ MaxRequests \in Nat \ {0} /\ WindowMs \in Nat \ {0} /\ PenaltyMs \in Nat
  BY LimitsAssumption DEF LimiterInv, TypeOK
<1>5. /\ Len(accepted'[c]) = n + 1 /\ accepted'[c][n + 1] = now
      /\ \A i \in 1..n : accepted'[c][i] = past[i] /\ past[i] \in Nat
      /\ \A k \in Clients : k # c => accepted'[k] = accepted[k] /\ comeBackAt'[k] = comeBackAt[k]
      /\ comeBackAt'[c] = Undefined
  BY <1>1, <1>4 DEF LimiterInv, TypeOK
<1>6. ~IsBlocked(c)' /\ InWindow(c)' = cur.count + 1
      /\ WindowStart(c)' = cur.windowResetAt - WindowMs
  <2>1. cur.blockedUntil = Undefined
    BY <1>1, Windows DEF IsBlocked, HasEntry
  <2> QED BY <1>2, <1>3, <2>1 DEF IsBlocked, InWindow, WindowStart
<1> HIDE DEF cur, e, n, past
<1>7. /\ WindowOK(c)'
      /\ \A i \in 1..n : i <= n + 2 - 2 * MaxRequests => past[i] + WindowMs <= now
  <2>1. CASE /\ HasEntry(c) /\ ~IsBlocked(c) /\ cur = requestsByClient[c]
             /\ requestsByClient[c].windowResetAt > now
    <3> DEFINE w == requestsByClient[c].count
               start == requestsByClient[c].windowResetAt - WindowMs
    <3>1. /\ InWindow(c) = w /\ WindowStart(c) = start
          /\ InWindow(c)' = w + 1 /\ WindowStart(c)' = start
          /\ w + 1 <= MaxRequests /\ start \in Int /\ w \in Nat
      BY <1>1, <1>2, <1>4, <1>6, <2>1 DEF InWindow, WindowStart, Entry
    <3> HIDE DEF w, start
    <3>2. /\ w \in 1..MaxRequests /\ w <= n /\ start <= now
          /\ \A i \in 1..n : /\ past[i] <= now
                             /\ i <= n - w + 1 => past[i] <= start
                             /\ i > n - w => past[i] >= start
                             /\ i <= n - w - (MaxRequests - 1) => past[i] + WindowMs <= start
      BY <2>1, <3>1 DEF LimiterInv, LimiterOK, WindowOK, n, past
    <3>3. ASSUME NEW i \in 1..(n + 1)
          PROVE  /\ accepted'[c][i] <= now
                 /\ i <= (n + 1) - (w + 1) + 1 => accepted'[c][i] <= start
                 /\ i > (n + 1) - (w + 1) => accepted'[c][i] >= start
                 /\ i <= (n + 1) - (w + 1) - (MaxRequests - 1) =>
                        accepted'[c][i] + WindowMs <= start
      <4>1. CASE i \in 1..n
        <5>1. /\ accepted'[c][i] = past[i] /\ past[i] \in Nat /\ past[i] <= now
              /\ i <= n - w + 1 => past[i] <= start
              /\ i > n - w => past[i] >= start
              /\ i <= n - w - (MaxRequests - 1) => past[i] + WindowMs <= start
          BY <1>5, <3>2, <4>1
        <5>2. (n + 1) - (w + 1) = n - w
          BY <1>4, <3>1
        <5> QED BY <5>1, <5>2, <1>4, <3>1
      <4>2. CASE i = n + 1
        BY <1>4, <1>5, <3>1, <3>2, <4>2
      <4> QED BY <1>4, <4>1, <4>2
    <3>4. WindowOK(c)'
      BY <1>1, <1>4, <1>5, <3>1, <3>2, <3>3 DEF WindowOK
    <3>5. ASSUME NEW i \in 1..n, i <= n + 2 - 2 * MaxRequests PROVE past[i] + WindowMs <= now
      <4>1. past[i] \in Nat /\ (i <= n - w - (MaxRequests - 1) => past[i] + WindowMs <= start)
        BY <1>5, <3>2
      <4>2. i <= n - w - (MaxRequests - 1)
        BY <1>4, <3>1, <3>5
      <4> QED BY <1>4, <3>1, <3>2, <4>1, <4>2
    <3> QED BY <3>4, <3>5
  <2>2. CASE /\ cur = [count |-> 0, windowResetAt |-> now + WindowMs, blockedUntil |-> Undefined]
             /\ HasEntry(c) => WindowStart(c) + WindowMs <= now
    <3>1. InWindow(c)' = 1 /\ WindowStart(c)' = now
      BY <1>4, <1>6, <2>2
    <3>2. \A i \in 1..n : past[i] <= now /\ (i <= n - (MaxRequests - 1) => past[i] + WindowMs <= now)
      <4>1. CASE HasEntry(c)
        <5>1. /\ InWindow(c) \in 1..MaxRequests /\ InWindow(c) <= n
              /\ \A i \in 1..n : /\ past[i] <= now
                                 /\ i <= n - InWindow(c) + 1 => past[i] <= WindowStart(c)
          BY <4>1 DEF LimiterInv, LimiterOK, WindowOK, n, past
        <5>2. WindowStart(c) \in Int
          BY <1>4, <4>1 DEF WindowStart, LimiterInv, TypeOK, HasEntry, Entry
        <5>3. ASSUME NEW i \in 1..n, i <= n - (MaxRequests - 1)
              PROVE  past[i] + WindowMs <= now
          <6>1. past[i] \in Nat /\ (i <= n - InWindow(c) + 1 => past[i] <= WindowStart(c))
            BY <1>5, <5>1
          <6>2. i <= n - InWindow(c) + 1
            BY <1>4, <5>1, <5>3
          <6> QED BY <1>4, <2>2, <4>1, <5>2, <6>1, <6>2
        <5> QED BY <5>1, <5>3
      <4>2. CASE ~HasEntry(c)
        BY <1>4, <4>2 DEF LimiterInv, LimiterOK, UnknownOK, n, past
      <4> QED BY <4>1, <4>2
    <3>3. WindowOK(c)'
      <4>1. ASSUME NEW i \in 1..(n + 1)
            PROVE  /\ accepted'[c][i] <= now
                   /\ i > n => accepted'[c][i] >= now
                   /\ i <= n - (MaxRequests - 1) => accepted'[c][i] + WindowMs <= now
        <5>1. CASE i \in 1..n
          BY <1>4, <1>5, <3>2, <5>1
        <5>2. CASE i = n + 1
          BY <1>4, <1>5, <5>2
        <5> QED BY <1>4, <5>1, <5>2
      <4> QED BY <1>1, <1>4, <1>5, <3>1, <4>1 DEF WindowOK
    <3>4. \A i \in 1..n : i <= n + 2 - 2 * MaxRequests => past[i] + WindowMs <= now
      BY <1>4, <3>2
    <3> QED BY <3>3, <3>4
  <2> QED BY <1>1, <2>1, <2>2, Windows DEF cur
<1>8. PenaltyOK(c)'
  BY <1>1, <1>5, <1>6, PenaltyOver DEF PenaltyOK
<1>9. \A k \in Clients : LimiterOK(k)'
  <2>1. LimiterOK(c)'
    BY <1>3, <1>7, <1>8 DEF LimiterOK
  <2>2. ASSUME NEW k \in Clients, k # c PROVE LimiterOK(k)'
    BY <1>1, <1>2, <1>5, <2>2, OtherClient DEF LimiterInv
  <2> QED BY <2>1, <2>2
<1>10. BurstBound'
  <2> SUFFICES ASSUME NEW k \in Clients,
                      NEW i \in 1..Len(accepted'[k]), NEW j \in 1..Len(accepted'[k]),
                      j - i >= 2 * MaxRequests - 1
               PROVE  accepted'[k][j] - accepted'[k][i] >= WindowMs
    BY DEF BurstBound
  <2>1. CASE k = c /\ j = n + 1
    <3>1. i \in 1..n /\ i <= n + 2 - 2 * MaxRequests
      BY <1>4, <1>5, <2>1
    <3>2. accepted'[k][i] = past[i] /\ past[i] \in Nat /\ accepted'[k][j] = now
      BY <1>5, <2>1, <3>1
    <3>3. past[i] + WindowMs <= now
      BY <1>7, <3>1
    <3> QED BY <1>4, <3>2, <3>3
  <2>2. CASE k = c /\ j # n + 1
    <3>1. i \in 1..n /\ j \in 1..n
      BY <1>4, <1>5, <2>2
    <3> QED BY <1>5, <2>2, <3>1 DEF LimiterInv, BurstBound, n, past
  <2>3. CASE k # c
    BY <1>5, <2>3 DEF LimiterInv, BurstBound
  <2> QED BY <2>1, <2>2, <2>3
<1>11. RetryAfterIsExact'
  BY <1>1, <1>5 DEF LimiterInv, RetryAfterIsExact
<1> QED BY <1>9, <1>10, <1>11 DEF LimiterInv

\* A penalty begins in a window that is full: the requests that filled it came
\* since the window began, less than WindowMs ago.
LEMMA FullWindow ==
    ASSUME LimiterInv, NEW c \in Clients, StartPenalty(c)
    PROVE  LET n == Len(accepted[c]) IN
           /\ HasEntry(c) /\ ~IsBlocked(c) /\ CurrentEntry(c) = requestsByClient[c]
           /\ requestsByClient[c].count = MaxRequests
           /\ MaxRequests <= n
           /\ accepted[c][n - MaxRequests + 1] > now - WindowMs
<1> DEFINE n == Len(accepted[c])
           past == accepted[c]
<1>1. ~InPenalty(c) /\ CurrentEntry(c).count + 1 > MaxRequests
  BY DEF StartPenalty
<1>2. /\ MaxRequests \in Nat \ {0} /\ WindowMs \in Nat \ {0} /\ now \in Nat
      /\ past \in Seq(Nat) /\ n \in Nat
  BY LimitsAssumption DEF LimiterInv, TypeOK
<1>3. /\ HasEntry(c) /\ ~IsBlocked(c) /\ CurrentEntry(c) = requestsByClient[c]
      /\ requestsByClient[c].windowResetAt > now
  <2>1. CurrentEntry(c).count # 0
    BY <1>1, <1>2
  <2> QED BY <1>1, <2>1, Windows
<1>4. requestsByClient[c] \in Entry
  BY <1>3 DEF LimiterInv, TypeOK, HasEntry
<1> DEFINE w == requestsByClient[c].count
           start == requestsByClient[c].windowResetAt - WindowMs
<1>5. /\ InWindow(c) = w /\ WindowStart(c) = start /\ start > now - WindowMs
      /\ w \in Nat /\ start \in Int /\ w + 1 > MaxRequests
  BY <1>1, <1>2, <1>3, <1>4 DEF InWindow, WindowStart, Entry
<1> HIDE DEF n, past, w, start
<1>6. /\ w \in 1..MaxRequests /\ w <= n
      /\ \A i \in 1..n : i > n - w => past[i] >= start
  BY <1>3, <1>5 DEF LimiterInv, LimiterOK, WindowOK, n, past
<1>7. w = MaxRequests
  BY <1>2, <1>5, <1>6
<1>8. n - MaxRequests + 1 \in 1..n /\ n - MaxRequests + 1 > n - w
  BY <1>2, <1>6, <1>7
<1>9. past[n - MaxRequests + 1] \in Nat
  BY <1>2, <1>8 DEF n, past
<1>10. past[n - MaxRequests + 1] > now - WindowMs
  BY <1>2, <1>5, <1>6, <1>8, <1>9
<1> QED BY <1>3, <1>6, <1>7, <1>10 DEF n, past, w

\* A request too many blocks the client from now until PenaltyMs later, and the
\* answer tells it so.
LEMMA PenaltyLimiter ==
    ASSUME LimiterInv, TypeOK', NEW c \in Clients, StartPenalty(c)
    PROVE  LimiterInv'
<1> DEFINE cur == CurrentEntry(c)
           until == now + PenaltyMs
           counted == [cur EXCEPT !.count = cur.count + 1]
           e == [cur EXCEPT !.count = cur.count + 1, !.blockedUntil = until]
           n == Len(accepted[c])
           past == accepted[c]
<1>1. /\ SetEntry(c, e)
      /\ blockedAt' = [blockedAt EXCEPT ![c] = now]
      /\ SendRateLimitResponse(c, until)
      /\ now' = now /\ accepted' = accepted
  BY DEF StartPenalty
<1>2. /\ MaxRequests \in Nat \ {0} /\ WindowMs \in Nat \ {0} /\ PenaltyMs \in Nat
      /\ SecondMs \in Nat \ {0} /\ now \in Nat /\ until \in Nat /\ until > now
  BY LimitsAssumption, PenaltyAssumption DEF LimiterInv, TypeOK
<1>3. /\ HasEntry(c) /\ ~IsBlocked(c) /\ cur = requestsByClient[c]
      /\ requestsByClient[c].count = MaxRequests
  BY FullWindow
<1>4. /\ cur \in Entry /\ e \in Entry
      /\ e.windowResetAt = cur.windowResetAt /\ e.blockedUntil = until
  <2>1. cur \in Entry
    BY CurrentEntryType DEF LimiterInv
  <2>2. counted \in Entry /\ counted.windowResetAt = cur.windowResetAt
    BY <2>1 DEF Entry
  <2>3. ASSUME NEW b \in Entry
        PROVE  /\ [b EXCEPT !.blockedUntil = until] \in Entry
               /\ [b EXCEPT !.blockedUntil = until].windowResetAt = b.windowResetAt
               /\ [b EXCEPT !.blockedUntil = until].blockedUntil = until
    BY <1>2 DEF Entry
  <2>4. e = [counted EXCEPT !.blockedUntil = until]
    OBVIOUS
  <2> HIDE DEF counted, e, cur, until
  <2> QED BY <2>1, <2>2, <2>3, <2>4
<1> HIDE DEF cur, until, e, counted
<1>5. HasEntry(c)' /\ requestsByClient'[c] = e
  BY <1>1, <1>4, SetEntryEffect DEF LimiterInv
<1>6. IsBlocked(c)' /\ InWindow(c)' = InWindow(c) /\ WindowStart(c)' = WindowStart(c)
  BY <1>2, <1>3, <1>4, <1>5 DEF IsBlocked, InWindow, WindowStart, Undefined
<1>7. /\ \A k \in Clients : k # c => comeBackAt'[k] = comeBackAt[k] /\ blockedAt'[k] = blockedAt[k]
      /\ comeBackAt'[c] \in Nat /\ until <= comeBackAt'[c]
      /\ comeBackAt'[c] < until + SecondMs
      /\ blockedAt'[c] = now
  BY <1>1, <1>2, ResponseType DEF LimiterInv, TypeOK
<1>8. WindowOK(c)'
  BY <1>1, <1>3, <1>6 DEF LimiterInv, LimiterOK, WindowOK
<1>9. PenaltyOK(c)'
  <2>1. WindowStart(c) <= now
    BY <1>3 DEF LimiterInv, LimiterOK, WindowOK
  <2> QED BY <1>1, <1>2, <1>4, <1>5, <1>6, <1>7, <2>1 DEF PenaltyOK, Undefined, until
<1>10. \A k \in Clients : LimiterOK(k)'
  <2>1. LimiterOK(c)'
    BY <1>5, <1>8, <1>9 DEF LimiterOK
  <2>2. ASSUME NEW k \in Clients, k # c PROVE LimiterOK(k)'
    BY <1>1, <1>4, <1>7, <2>2, OtherClient DEF LimiterInv
  <2> QED BY <2>1, <2>2
<1>11. BurstBound'
  BY <1>1 DEF LimiterInv, BurstBound
<1>12. RetryAfterIsExact'
  BY <1>2, <1>7 DEF LimiterInv, RetryAfterIsExact, Undefined, until
<1> QED BY <1>10, <1>11, <1>12 DEF LimiterInv

\* A request during the penalty changes nothing but what the client was last told.
LEMMA RejectLimiter ==
    ASSUME LimiterInv, TypeOK', NEW c \in Clients, RejectDuringPenalty(c)
    PROVE  LimiterInv'
<1> DEFINE until == requestsByClient[c].blockedUntil
<1>1. /\ InPenalty(c) /\ SendRateLimitResponse(c, until)
      /\ requestsByClient' = requestsByClient /\ now' = now /\ accepted' = accepted
      /\ blockedAt' = blockedAt
  BY DEF RejectDuringPenalty
<1>2. /\ HasEntry(c) /\ IsBlocked(c) /\ until > now /\ until \in Nat
      /\ until = blockedAt[c] + PenaltyMs /\ blockedAt[c] # Undefined
  BY <1>1 DEF InPenalty, IsBlocked, LimiterInv, LimiterOK, PenaltyOK, TypeOK, HasEntry,
              Entry, Undefined
<1>3. /\ \A k \in Clients : k # c => comeBackAt'[k] = comeBackAt[k]
      /\ until <= comeBackAt'[c] /\ comeBackAt'[c] < until + SecondMs
  BY <1>1, <1>2, ResponseType DEF LimiterInv
<1>4. ASSUME NEW k \in Clients PROVE LimiterOK(k)'
  <2>1. CASE k = c
    BY <1>1, <1>2, <2>1 DEF LimiterInv, LimiterOK, WindowOK, PenaltyOK, HasEntry, IsBlocked,
                            InWindow, WindowStart
  <2>2. CASE k # c
    BY <1>1, <1>3, <2>2 DEF LimiterInv, LimiterOK, WindowOK, PenaltyOK, UnknownOK, HasEntry,
                            IsBlocked, InWindow, WindowStart
  <2> QED BY <2>1, <2>2
<1>5. BurstBound'
  BY <1>1 DEF LimiterInv, BurstBound
<1>6. RetryAfterIsExact'
  BY <1>1, <1>2, <1>3 DEF LimiterInv, RetryAfterIsExact
<1> QED BY <1>4, <1>5, <1>6 DEF LimiterInv

\* What is over stays over as the clock goes on.
LEMMA TickLimiter ==
    ASSUME LimiterInv, TypeOK', Tick
    PROVE  LimiterInv'
<1>1. /\ now' = now + 1 /\ now \in Nat
      /\ UNCHANGED <<requestsByClient, accepted, blockedAt, comeBackAt>>
  BY DEF Tick, LimiterInv, TypeOK
<1>2. ASSUME NEW c \in Clients PROVE LimiterOK(c)'
  <2>1. CASE HasEntry(c)
    <3> DEFINE n == Len(accepted[c])
    <3>1. /\ requestsByClient[c] \in Entry /\ WindowStart(c) \in Int
          /\ blockedAt[c] \in Nat \cup {Undefined} /\ PenaltyMs \in Nat
          /\ \A i \in 1..n : accepted[c][i] \in Nat
      BY <2>1, LimitsAssumption DEF LimiterInv, TypeOK, HasEntry, WindowStart, Entry
    <3>2. WindowOK(c)'
      <4>1. \A i \in 1..n : accepted[c][i] <= now + 1
        BY <1>1, <2>1, <3>1 DEF LimiterInv, LimiterOK, WindowOK
      <4>2. WindowStart(c) <= now + 1
        BY <1>1, <2>1, <3>1 DEF LimiterInv, LimiterOK, WindowOK
      <4>3. InWindow(c)' = InWindow(c) /\ WindowStart(c)' = WindowStart(c)
        BY <1>1 DEF InWindow, WindowStart, IsBlocked, HasEntry
      <4> QED BY <1>1, <2>1, <4>1, <4>2, <4>3 DEF LimiterInv, LimiterOK, WindowOK
    <3>3. PenaltyOK(c)'
      BY <1>1, <2>1, <3>1 DEF LimiterInv, LimiterOK, PenaltyOK, IsBlocked, HasEntry,
                              WindowStart, Undefined
    <3> QED BY <1>1, <2>1, <3>2, <3>3 DEF LimiterOK, HasEntry
  <2>2. CASE ~HasEntry(c)
    BY <1>1, <2>2 DEF LimiterInv, LimiterOK, UnknownOK, HasEntry
  <2> QED BY <2>1, <2>2
<1>3. BurstBound' /\ RetryAfterIsExact'
  BY <1>1 DEF LimiterInv, BurstBound, RetryAfterIsExact
<1> QED BY <1>2, <1>3 DEF LimiterInv

\* Every step of the middleware and of the clock keeps the inductive invariant.
LEMMA NextLimiter == LimiterInv /\ [Next]_vars => LimiterInv'
<1> SUFFICES ASSUME LimiterInv, [Next]_vars PROVE LimiterInv'
  OBVIOUS
<1>1. TypeOK'
  BY NextTypes DEF LimiterInv
<1>2. CASE Tick
  BY <1>1, <1>2, TickLimiter
<1>3. ASSUME NEW c \in Clients, Request(c) PROVE LimiterInv'
  BY <1>1, <1>3, RejectLimiter, AcceptLimiter, PenaltyLimiter DEF Request
<1>4. CASE UNCHANGED vars
  BY <1>4 DEF vars, LimiterInv, TypeOK, BurstBound, RetryAfterIsExact, LimiterOK, WindowOK,
              PenaltyOK, UnknownOK, HasEntry, IsBlocked, InWindow, WindowStart
<1> QED BY <1>2, <1>3, <1>4 DEF Next

-------------------------------------------------------------------------------
(* Theorems.                                                               *)

\* What the Map remembers of a client is true of the requests accepted of it: this
\* is what the bounds on bursts and penalties rest on.
THEOREM LimiterInvariant == Spec => []LimiterInv
BY InitLimiter, NextLimiter, PTL DEF Spec

\* Wherever a span of time starts, 2 * MaxRequests accepted requests of a client
\* take at least a window.
THEOREM BurstsAreBounded == Spec => []BurstBound
<1>1. LimiterInv => BurstBound
  BY DEF LimiterInv
<1> QED BY LimiterInvariant, <1>1, PTL

\* Waiting as long as Retry-After says is enough, and less than a second too long.
THEOREM RetryAfterCorrect == Spec => []RetryAfterIsExact
<1>1. LimiterInv => RetryAfterIsExact
  BY DEF LimiterInv
<1> QED BY LimiterInvariant, <1>1, PTL

\* Nothing is accepted during a penalty, a 429 after it is a new one, and requests
\* during it do not make it longer.
THEOREM PenaltiesAreExact == Spec => PenaltyIsExact
<1> DEFINE Exact(c) ==
        /\ accepted'[c] # accepted[c] =>
               blockedAt[c] = Undefined \/ now >= blockedAt[c] + PenaltyMs
        /\ /\ comeBackAt'[c] # comeBackAt[c] /\ comeBackAt'[c] # Undefined
           /\ blockedAt'[c] = blockedAt[c]
           => now < blockedAt[c] + PenaltyMs
<1>1. LimiterInv /\ [Next]_vars => [\A c \in Clients : Exact(c)]_vars
  <2> SUFFICES ASSUME LimiterInv, Next, NEW c \in Clients PROVE Exact(c)
    OBVIOUS
  <2>0. /\ blockedAt[c] \in Nat \cup {Undefined} /\ now \in Nat /\ PenaltyMs \in Nat
        /\ comeBackAt \in [Clients -> Nat \cup {Undefined}]
        /\ accepted \in [Clients -> Seq(Nat)]
        /\ blockedAt \in [Clients -> Nat \cup {Undefined}]
    BY LimitsAssumption DEF LimiterInv, TypeOK
  <2>1. CASE Tick
    BY <2>1 DEF Tick
  <2>2. ASSUME NEW k \in Clients, Accept(k) PROVE Exact(c)
    <3>1. /\ accepted' = [accepted EXCEPT ![k] = Append(accepted[k], now)]
          /\ comeBackAt' = [comeBackAt EXCEPT ![k] = Undefined]
          /\ ~InPenalty(k)
      BY <2>2 DEF Accept
    <3>2. CASE k = c
      BY <2>0, <3>1, <3>2, PenaltyOver
    <3>3. CASE k # c
      BY <2>0, <3>1, <3>3
    <3> QED BY <3>2, <3>3
  <2>3. ASSUME NEW k \in Clients, RejectDuringPenalty(k) PROVE Exact(c)
    <3>1. /\ InPenalty(k) /\ accepted' = accepted
          /\ comeBackAt' = [comeBackAt EXCEPT
                  ![k] = now + SecondMs * RetryAfterSeconds(requestsByClient[k].blockedUntil)]
      BY <2>3 DEF RejectDuringPenalty, SendRateLimitResponse
    <3>2. now < blockedAt[k] + PenaltyMs
      BY <3>1 DEF InPenalty, IsBlocked, LimiterInv, LimiterOK, PenaltyOK
    <3> QED BY <2>0, <3>1, <3>2
  <2>4. ASSUME NEW k \in Clients, StartPenalty(k) PROVE Exact(c)
    <3>1. /\ ~InPenalty(k) /\ accepted' = accepted
          /\ blockedAt' = [blockedAt EXCEPT ![k] = now]
          /\ comeBackAt' = [comeBackAt EXCEPT
                  ![k] = now + SecondMs * RetryAfterSeconds(now + PenaltyMs)]
      BY <2>4 DEF StartPenalty, SendRateLimitResponse
    <3>2. CASE k = c
      <4>1. blockedAt'[c] = now /\ PenaltyMs > 0 /\ accepted'[c] = accepted[c]
        BY <2>0, <3>1, <3>2, LimitsAssumption, PenaltyAssumption
      <4> QED BY <2>0, <4>1
    <3>3. CASE k # c
      BY <2>0, <3>1, <3>3
    <3> QED BY <3>2, <3>3
  <2> QED BY <2>1, <2>2, <2>3, <2>4 DEF Next, Request
<1> QED BY LimiterInvariant, <1>1, PTL DEF Spec, PenaltyIsExact

\* A client is blocked only after MaxRequests of its requests were accepted within
\* the last window.
THEOREM PenaltiesAreEarned == Spec => PenaltyIsEarned
<1> DEFINE Earned(c) ==
        blockedAt'[c] # blockedAt[c] =>
            LET n == Len(accepted[c]) IN
            /\ n >= MaxRequests
            /\ accepted[c][n - MaxRequests + 1] > now - WindowMs
<1>1. LimiterInv /\ [Next]_vars => [\A c \in Clients : Earned(c)]_vars
  <2> SUFFICES ASSUME LimiterInv, Next, NEW c \in Clients, blockedAt'[c] # blockedAt[c]
               PROVE  Earned(c)
    OBVIOUS
  <2>1. PICK k \in Clients : StartPenalty(k)
    BY DEF Next, Request, Tick, Accept, RejectDuringPenalty
  <2>2. k = c
    BY <2>1 DEF StartPenalty, LimiterInv, TypeOK
  <2>3. MaxRequests \in Nat /\ Len(accepted[c]) \in Nat
    BY LimitsAssumption DEF LimiterInv, TypeOK
  <2> QED BY <2>1, <2>2, <2>3, FullWindow
<1> QED BY LimiterInvariant, <1>1, PTL DEF Spec, PenaltyIsEarned
===============================================================================
