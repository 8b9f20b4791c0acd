----------------------------- MODULE RateLimiter -----------------------------
(***************************************************************************)
(* The middleware that every request passes before its handler:            *)
(* src/common/middleware/rate-limit.middleware.ts.  It is synchronous, so  *)
(* one action is one request; requests of all clients and the clock        *)
(* interleave.  Time is counted in units that stand for milliseconds; the  *)
(* clock never goes back.                                                  *)
(***************************************************************************)
EXTENDS Integers, Sequences

CONSTANTS
    Clients,     \* the keys getClientKey gives: request.ip
    MaxRequests, \* RATE_LIMIT_MAX_REQUESTS
    WindowMs,    \* RATE_LIMIT_WINDOW_MS
    PenaltyMs,   \* RATE_LIMIT_PENALTY_MS
    SecondMs,    \* the units of time in a second of Retry-After
    MaxClock     \* a bound on the clock

ASSUME LimitsAssumption ==
    /\ MaxRequests \in Nat \ {0}
    /\ WindowMs \in Nat \ {0}
    /\ PenaltyMs \in Nat
    /\ SecondMs \in Nat \ {0}
    /\ MaxClock \in Nat
ASSUME PenaltyAssumption == PenaltyMs >= WindowMs

Undefined == -1

Entry == [count : Nat, windowResetAt : Nat, blockedUntil : Nat \cup {Undefined}]

VARIABLES
    requestsByClient, \* the Map: a function on the clients that have an entry
    now,              \* Date.now()
    accepted,         \* client -> the times at which next() was called (history)
    blockedAt,        \* client -> when its last penalty began, or Undefined (history)
    comeBackAt        \* client -> now + Retry-After of its last 429, until it is
                      \*           accepted again, or Undefined (history)

vars == <<requestsByClient, now, accepted, blockedAt, comeBackAt>>

HasEntry(c) == c \in DOMAIN requestsByClient

TypeOK ==
    /\ DOMAIN requestsByClient \subseteq Clients
    /\ requestsByClient \in [DOMAIN requestsByClient -> Entry]
    /\ now \in 0..MaxClock
    /\ accepted \in [Clients -> Seq(Nat)]
    /\ blockedAt \in [Clients -> Nat \cup {Undefined}]
    /\ comeBackAt \in [Clients -> Nat \cup {Undefined}]

Init ==
    /\ requestsByClient = [c \in {} |-> {}]
    /\ now = 0
    /\ accepted = [c \in Clients |-> <<>>]
    /\ blockedAt = [c \in Clients |-> Undefined]
    /\ comeBackAt = [c \in Clients |-> Undefined]

-------------------------------------------------------------------------------
IsBlocked(c) == HasEntry(c) /\ requestsByClient[c].blockedUntil # Undefined

InPenalty(c) == IsBlocked(c) /\ requestsByClient[c].blockedUntil > now

\* Mutants: the end of the window is not looked at; it lies in the past.
CurrentEntryForever(c) ==
    IF HasEntry(c) /\ ~IsBlocked(c)
    THEN requestsByClient[c]
    ELSE [count |-> 0, windowResetAt |-> now + WindowMs, blockedUntil |-> Undefined]

CurrentEntryInThePast(c) ==
    IF HasEntry(c) /\ ~IsBlocked(c) /\ requestsByClient[c].windowResetAt > now
    THEN requestsByClient[c]
    ELSE [count |-> 0, windowResetAt |-> now - WindowMs, blockedUntil |-> Undefined]

\* The entry to count the request in: a new window when there is none, when a
\* penalty is over or when the window is; otherwise the one in the Map.
CurrentEntry(c) ==
    IF HasEntry(c) /\ ~IsBlocked(c) /\ requestsByClient[c].windowResetAt > now
    THEN requestsByClient[c]
    ELSE [count |-> 0, windowResetAt |-> now + WindowMs, blockedUntil |-> Undefined]

SetEntry(c, e) ==
    requestsByClient' = [k \in DOMAIN requestsByClient \cup {c} |->
                            IF k = c THEN e ELSE requestsByClient[k]]

\* A mutant: Retry-After rounds down.
RetryAfterRoundedDown(blockedUntil) == (blockedUntil - now) \div SecondMs

\* Math.max(1, Math.ceil((blockedUntil - now) / 1000))
RetryAfterSeconds(blockedUntil) ==
    LET up == (blockedUntil - now + SecondMs - 1) \div SecondMs
    IN  IF up > 1 THEN up ELSE 1

SendRateLimitResponse(c, blockedUntil) ==
    comeBackAt' = [comeBackAt EXCEPT
                      ![c] = now + SecondMs * RetryAfterSeconds(blockedUntil)]

\* Mutants: a request during the penalty starts it again; the quota is off by one.
RejectAndExtend(c) ==
    /\ InPenalty(c)
    /\ SetEntry(c, [requestsByClient[c] EXCEPT !.blockedUntil = now + PenaltyMs])
    /\ SendRateLimitResponse(c, now + PenaltyMs)
    /\ UNCHANGED <<now, accepted, blockedAt>>

AcceptOneMore(c) ==
    LET e == CurrentEntry(c) IN
    /\ ~InPenalty(c)
    /\ e.count <= MaxRequests
    /\ SetEntry(c, [e EXCEPT !.count = e.count + 1])
    /\ accepted' = [accepted EXCEPT ![c] = Append(@, now)]
    /\ comeBackAt' = [comeBackAt EXCEPT ![c] = Undefined]
    /\ UNCHANGED <<now, blockedAt>>

-------------------------------------------------------------------------------
RejectDuringPenalty(c) ==
    /\ InPenalty(c)
    /\ SendRateLimitResponse(c, requestsByClient[c].blockedUntil)
    /\ UNCHANGED <<requestsByClient, now, accepted, blockedAt>>

Accept(c) ==
    LET e == CurrentEntry(c) IN
    /\ ~InPenalty(c)
    /\ e.count + 1 <= MaxRequests
    /\ SetEntry(c, [e EXCEPT !.count = e.count + 1])
    /\ accepted' = [accepted EXCEPT ![c] = Append(@, now)]
    /\ comeBackAt' = [comeBackAt EXCEPT ![c] = Undefined]
    /\ UNCHANGED <<now, blockedAt>>

StartPenalty(c) ==
    LET e == CurrentEntry(c) IN
    /\ ~InPenalty(c)
    /\ e.count + 1 > MaxRequests
    /\ SetEntry(c, [e EXCEPT !.count = e.count + 1, !.blockedUntil = now + PenaltyMs])
    /\ blockedAt' = [blockedAt EXCEPT ![c] = now]
    /\ SendRateLimitResponse(c, now + PenaltyMs)
    /\ UNCHANGED <<now, accepted>>

Tick ==
    /\ now < MaxClock
    /\ now' = now + 1
    /\ UNCHANGED <<requestsByClient, accepted, blockedAt, comeBackAt>>

Request(c) == RejectDuringPenalty(c) \/ Accept(c) \/ StartPenalty(c)

Next == Tick \/ \E c \in Clients : Request(c)

Spec == Init /\ [][Next]_vars

-------------------------------------------------------------------------------
(* Properties.                                                             *)

\* What fixed windows guarantee of any span of time, wherever it starts: of
\* 2 * MaxRequests consecutive accepted requests of a client, the last comes at
\* least a window after the first.  (A bound of MaxRequests would be too much to
\* ask: a burst at the end of a window and one at the start of the next add up.)
BurstBound ==
    \A c \in Clients : \A i, j \in 1..Len(accepted[c]) :
        j - i >= 2 * MaxRequests - 1 => accepted[c][j] - accepted[c][i] >= WindowMs

\* A penalty lasts PenaltyMs from the request that began it: until then nothing
\* of that client is accepted, and from then on a 429 is a new penalty, however
\* many requests came during the old one.
PenaltyIsExact ==
    [][\A c \in Clients :
        /\ accepted'[c] # accepted[c] =>
               blockedAt[c] = Undefined \/ now >= blockedAt[c] + PenaltyMs
        /\ /\ comeBackAt'[c] # comeBackAt[c] /\ comeBackAt'[c] # Undefined
           /\ blockedAt'[c] = blockedAt[c]
           => now < blockedAt[c] + PenaltyMs]_vars

\* A client that waits as long as the Retry-After of its last 429 says comes back
\* after the penalty, and less than a second after it.
RetryAfterIsExact ==
    \A c \in Clients :
        comeBackAt[c] # Undefined =>
            /\ blockedAt[c] # Undefined
            /\ comeBackAt[c] >= blockedAt[c] + PenaltyMs
            /\ comeBackAt[c] < blockedAt[c] + PenaltyMs + SecondMs

\* A penalty is earned: when it begins, MaxRequests requests of that client were
\* accepted within the last window.  Slower clients are never blocked.
PenaltyIsEarned ==
    [][\A c \in Clients :
        blockedAt'[c] # blockedAt[c] =>
            LET n == Len(accepted[c]) IN
            /\ n >= MaxRequests
            /\ accepted[c][n - MaxRequests + 1] > now - WindowMs]_vars
===============================================================================
