# A TLA+ model of the restaurant reservation API

The repository is a NestJS server over PostgreSQL (through Prisma): users look
at restaurants, comment on them, keep favourites and reserve seats in slots
that are computed from settings the restaurant's owner writes. The server has
one thread. Requests run concurrently all the same: each handler gives up the
thread at every `await`, which in this code means at every database call, and
several servers or scripts may share one database. What can go wrong is
therefore between the statements of a handler, between a transaction's read and
its commit, between a commit and its acknowledgement, and in the few pieces of
synchronous code whose result or whose termination everything else relies on.

## Inventory

| Component (`src/src/...`) | State | Operations | Talks to | Hard part |
|---|---|---|---|---|
| `reservations/` | rows of `Reservation` | create with availability check, find one, find mine, cancel | calculator (callback inside the transaction), tables of restaurants and reservations | check-then-insert in a Serializable transaction retried three times; check-then-update of a cancellation; lost acknowledgements |
| `availability/availability.calculator.ts` | none | `calculate`, `generateTimes` | called by reservations and availability | settings are any JSON object; the loop; the sums |
| `availability/` (endpoint) | none | one read of two statements, and `calculate` | same tables | what the statements see may not belong together; date check in local time |
| `common/middleware/rate-limit.middleware.ts` | a `Map` of clients | one function per request | every request passes it | windows, penalties and `Retry-After` at their boundaries |
| `restaurants/` | rows of `Restaurant` | list, get, create, update, delete | referred to by the other tables | ownership and relations are checked a statement before the write; the average rating is read after the count |
| `comments/` | rows of `Comment` | list, create, update, delete | restaurant table | same, and two-statement reads |
| `favourites/` | rows of `Favourite`, unique per user and restaurant | list, create, delete | restaurant table | duplicates, told apart by error codes |
| `auth/` | rows of `User`; the token in each client's cookie | register, login, logout, me, the two guards | user table | registrations that hash at the same time, tokens that outlive their user |
| `app.setup.ts`, `common/` | none | order of middleware, validation, exception filter | everything | what passes which stage |
| `prisma/seed.ts` | all tables | reseed in one transaction | every deployment runs it beside the old server | ids start again at 1; waits, a time limit and a deadlock with requests |

What makes each component correct:

* Reservations: no slot is oversold; one row per acknowledged creation; a
  cancellation happens once and only by the owner; every answer tells what
  happened to the table; every request is answered.
* Calculator: slots lie inside the service windows; a slot called available has
  room; it returns for all settings the API accepts (it does not, see findings).
* Rate limiter: it blocks only who earned it, for exactly as long as it says.
* Restaurants, comments, favourites: no orphans; each row's insertion and
  deletion acknowledged once; every answer true at some moment of the request; a
  500 only when a row went away under the handler.
* Availability endpoint: what it shows is true when it shows it.
* Accounts: no two share a name; a request acts for the account its client logged
  in as, whoever has that account's id now.
* Seed: it is seen whole or not at all, and it and the requests beside it all end.

## Modules

| Module | Models |
|---|---|
| `AvailabilityCalculator` | the calculator as operators: times as `<<hours, minutes>>`, `generateTimes` in closed form, the sums of seats as cardinalities (`Total`), `Calculate` |
| `SlotGeneration` | the loop of `generateTimes` step by step |
| `Reservations` | the reservation handlers, the repository and the owner's changes; extends `AvailabilityCalculator` |
| `SlotBook` | the abstract specification: a book of seats changed in one step per request |
| `RateLimiter` | the middleware, one action per path through it |
| `Availability` | the availability endpoint beside the reservation handlers; extends `Reservations` |
| `Catalogue` | the restaurant, comment and favourite handlers, reads included, over their tables |
| `Database` | all five tables with their sequences and keys, and what PostgreSQL does to a request's statement while the seed's transaction is open |
| `Accounts` | registration, login, logout, `GET /auth/me`, the JWT and the two guards; extends `Database` |
| `Reseed` | the seed's transaction beside `Accounts` and the catalogue operations that depend on who is logged in; extends `Accounts` |
| `MC...` | instances for TLC |
| `AvailabilityCalculatorProofs` | lemmas about the calculator's sums |
| `ReservationsProofs`, `ReservationAnswersProofs` | theorems about `Reservations`: no overbooking; the answers, and the refinement of `SlotBook` |
| `AvailabilityProofs`, `SlotGenerationProofs`, `RateLimiterProofs`, `CatalogueProofs`, `ReseedProofs` | theorems about the module each is named for |

### How the models correspond to the code

One action is what a handler does from one `await` to the next. `pc[p]` is the
await that request `p` is at, `req[p]` what the client asked, with the user that
the guard established. An answer is a name for an HTTP status and message; the
exception filter appears as the rule that an error which is no `HttpException`
is a 500.

In `Reservations` a creation is at `"transaction"` before the first statement of
its transaction and at `"insert"` after the check, which runs in the same step
as the read because the callback does not await. `seen[p]` is the snapshot (the
number of rows then), `offer[p]` the settings read, `attempt[p]` the loop
variable. The insert and the commit are one action: between them the handler
does nothing, and nobody sees an uncommitted row. The database is external and
modelled by what the repository relies on, listed in the module's head: the
important parts are that a Serializable transaction fails (P2034) when a
reservation it would have read was committed meanwhile, may fail for any other
reservation (there is no index on `(restaurantId, date)`), and does not notice a
Read Committed PATCH of the settings. With `Faults`, any call may fail with a
500, and at a commit or an update the failure may hide a success. `published`,
`effect` and `began` are history: the settings a restaurant has had, the row a
request itself changed, and the rows in the table when the first attempt of a creation
read it, so that the rows that came since can be told (`CameSince`).

In `Availability` a view is at `"restaurant"` or at `"reservations"`: Prisma reads a
relation in a statement of its own after that of the row, and nothing puts the two in
a transaction. The calculator is the operator that the creation uses. `DayEnd` is the
instant at which a date is over, `ServerOffset` how far the server's local time, which
the DTO's check of the date uses, is ahead of UTC.

In `Catalogue` a handler is at `"check"`, `"relations"` or `"write"`, and one that
reads restaurants at `"rows"` (the row with its `_count`) or `"ratings"` (the
comments' ratings, divided by that count). No handler
there uses a transaction; foreign keys and unique indexes are part of the guards
of the writes, and each error code (P2002, P2003, P2025) has the action that the
repository's `catch` gives it. `truths[p]` is history: in every state from the
arrival of `p` to its answer, the answer that a handler without awaits would
give there is added. `torn[p]` is set when what a view has read changes before it is done.

In `Database` a table is a function from ids to committed rows. The seed's
transaction is the only one that stays open between actions, so what it has done is
kept apart: `dead` are the rows it deleted, `fresh` those it inserted, `restarted` the
values of the sequences it restarted (`ALTER SEQUENCE` is undone by a rollback, unlike
`nextval`). An `INSERT` of a request takes two actions, because it locks the sequence
when it draws its id and then may wait: for the seed to decide about a row with its
key or about a row it refers to. The waits are guards (`KeyWaits`, `ReferenceWaits`,
`SeedWaitsFor`); when a request and the seed wait for each other, `BreakDeadlock` gives
up one of them.

In `Accounts`, `jar[c]` is the cookie that client `c` holds and `claim[p]` the token that
request `p` came with; `user[p]` is what the guard put in `request.user`, and a handler
uses its id long after. The jars hold tokens from the start, as those of logins before
the deployment do, and those of `OldTokens`: a cookie lives for a day, so it may name
an account that an earlier seed has deleted. In `Reseed`, `step` counts the statements of
the transaction; `disturbed`, `newcomers` and `overtaken` are history. `newcomers` are the
ids of those who register after the seed has deleted the users: the seed does not see
them and leaves their rows, so the properties tell the rows of newcomers (`Theirs`) from
those of the `Others`. The seed has as many users and restaurants as the constants say,
and the tables may have gaps when it begins (`InitialIds` are the sequences then).

`RateLimiter` is synchronous code, so an action is a whole call. Time is an
integer; `SecondMs` is the number of units in a second, so that the rounding of
`Retry-After` can be seen with small numbers.

Abstracted throughout: texts, logging, response layout, timestamps that nothing
depends on, DTO validation (requests are well-typed, as after the
`ValidationPipe`).

## Runs

| Run | Shows | Bounds |
|---|---|---|
| `reservations` | `NoOverbooking`, `BookingInv`, `AnswersMatchTable`, `OneRequestPerChange`, `NoOrphans`, `ContentionIsProgress`, `OnlyOwnersCancel`, and that the handlers implement `SlotBook` | 3 requests, 2 users, 1 restaurant, 2 times, 2 well-formed settings and a malformed one, 2 attempts, faults on, clock 0..1 |
| `reservations_answered` | `ViewsTypeOK`, `ShownSlotsAreTrue`, `EveryRequestAnswered`, `EveryViewAnswered` | 2 creations, 1 cancellation and 1 view, malformed settings, clock 0..1 (the day ends at 1), faults off but for the statements of the view |
| `slot_generation` | the loop returns the closed form, inside the window | a few windows (empty, inverted, not divisible) and positive intervals |
| `rate_limiter` | `BurstBound`, `PenaltyIsExact`, `PenaltyIsEarned`, `RetryAfterIsExact` | 2 clients, 2 requests per window of 2, penalty 4, second 3, clock 0..7 |
| `catalogue` | `ReferentialIntegrity`, `AnswersWereTrue`, `ShownNumbersWereTrue`, `ErrorsMeanGone`, `LedgerBalances`, `OnlyOwnersChange`, `PatchesMerge` | 3 requests out of 21, 3 restaurants, 1 comment and 1 favourite to begin with |
| `reseed` | `AccountsAreDistinct`, `FreshIdsAreFree`, `ReferencesHold`, `RefusedOnlyIfDisturbed`, `SeedIsWhole`, `ForTheirUser`, `EverythingEnds` | 2 requests of one client, 5 accounts, a seed of 2 users, 1 restaurant and 1 comment |
| `slot_generation_zero_interval`, `reservations_contended`, `reservations_patch`, `reservations_past`, `catalogue_gone`, `reseed_conflict` | one disagreement with the documentation each | the smallest instances that show it: `reservations_contended` has room for three in the victim's own restaurant, and the owner of `reservations_patch` can change the capacity only |

Why the bounds are enough to be interesting: with three requests, one creation
can be disturbed by a second while a third cancels what the first inserted; one
slot has room for two of the three seats that are asked for; two attempts let a
retry succeed, fail and give up. The second settings close a slot and have fewer
seats, so `NoOverbooking` is not about one constant capacity. Requests are
interchangeable, so they are a symmetry set, except where liveness is checked.
The limiter's clock runs through a window, a whole penalty and the window
after it. In the catalogue two requests already race on a row; the third is
needed for a list read between the deletion of a comment and of its restaurant, or
between the removal of a favourite and the deletion of its restaurant. In the reseed
two requests suffice for every wait: one draws an id while the other registers, or one
is overtaken by the seed and the next one meets its ids. An earlier seed there created
the users in another order than the file's, so the ids do change hands.
`CHECK_DEADLOCK FALSE` stands where all requests may have been answered and the
clock is at its bound: the model stops there because it is bounded.

Each property of a passing run is accompanied by a mutant of the code that breaks
it (a missing isolation level, a retry that skips the check, an error code taken
for another, ...); the mutated forms stand beside the definitions they mutate.

### What the properties say that is easy to miss

* `NoOverbooking` is about settings the restaurant *has published*. The stronger
  statement, with the settings in effect, is false; that is finding
  `reservations_patch`.
* `BurstBound` allows `2 * MaxRequests - 1` requests in the span of a window: fixed
  windows do not give the `MaxRequests` that a sliding one would.
* `ContentionIsProgress` speaks of the rows that came after the first attempt of a
  request had read the table: for each of its attempts one, and all of other requests. The
  deletion of the restaurant may have beaten one attempt in the place of a row.
* `AnswersWereTrue` excepts a view whose rows changed between its statements: its
  average divides the ratings of now by the count of then, so it may be true at no time
  and even exceed 5. Of such a view `ShownNumbersWereTrue` says what still holds, that each
  of the two numbers was true at some moment while the request ran. `AnswersWereTrue`
  excepts a 500, too; that one also occurs where 404 is documented is finding
  `catalogue_gone`.
* `ErrorsMeanGone` names the only reason for a 500 in the catalogue, apart from the
  database itself failing.
* No property is about the date that the availability endpoint refuses. The guard is
  modelled (`IsPast`), and where the server's local time is UTC a property would repeat it;
  where it is not, the two endpoints disagree around midnight, and nothing in the
  repository sets the time zone or says which of them is right.
* `ForTheirUser` excepts the requests that a seed overtook between their guard and their
  last statement: they carry an id and not the name it belonged to, so they may write
  for whoever has that id now. It excepts one more case: a newcomer may have a comment
  with an id that the restarted sequence gives out again, so a deletion of such a comment
  may come to stand for another row.
* `FreshIdsAreFree` excepts the rows of newcomers, in every table that they can write; what
  can happen to a registration is finding `reseed_conflict`.
* `SeedIsWhole` lets the newcomers stay, with what they wrote.

### Fairness

`Reservations` assumes weak fairness of each handler: the event loop runs every
resolved promise and every database call ends, in a result or in an error.
Clients, owners and the clock owe nothing. No fairness is assumed between
requests for the retry loop: it ends because of `MaxAttempts`.
`Availability` assumes the same of its views, and `Reseed` of its handlers; there the
seed runs on as well, because nobody waits in it for anything but the database, and
`BreakDeadlock` is fair because PostgreSQL looks for deadlocks after a second. That the
seed starts, or is cut off by Prisma's five seconds, is assumed nowhere.
`SlotGeneration` assumes that the thread runs: nothing preempts synchronous code.
`Catalogue` and `RateLimiter` state safety only.

## Findings

1. `slotIntervalMinutes: 0`, accepted from any owner, makes `generateTimes` loop for
   ever, and with it the server's only thread.
2. 409 "not enough capacity" is also the answer to three serialization failures, even
   if all the reservations that came while the request tried are another restaurant's and
   the party fits.
3. A PATCH that lowers the capacity, and leaves the slots as they are, can be committed
   between the check and the insert of a reservation, which then exceeds the capacity in
   effect.
4. A reservation can be committed after its slot has begun: the clock is read once,
   before the transaction and its retries.
5. PATCH and DELETE of a restaurant that is deleted meanwhile answer 500 and not the
   documented 404.
6. A registration that commits between the seed's deletion of the users and the restart
   of their sequence stays, with an id that the sequence will give again. The
   registration that gets it is refused with 409 "email or username already exists",
   although nobody has either.

## Proofs

TLAPS checks the theorems below for all values of the constants, under the assumptions
that the modules name. Every invariant and every action property that a run checks, and
the refinement, is the statement of a theorem; what is only model-checked is liveness.

### The calculator

`AvailableIffRoom` (and `AvailableMeansRoom`, the half that the reservations need): a
slot is called available exactly when the party fits, because `Math.max(..., 0)` never
reaches a positive party size without it. The sums of seats are cardinalities of sets of
pairs `<<row, seat>>`, not folds, so their monotonicity and additivity (`TotalMonotone`,
`TotalAdd`) follow from the library's theorems on finite sets. No induction over data is
needed.

`SlotGenerationProofs`, for any window of a day and any interval, zero included: the
invariant (`LoopInv`) is that after `n` rounds the loop has pushed the first `n`
multiples, each while it was inside the window. So the slots stay inside
(`SlotsStayInside`), and what is returned is the closed form (`ReturnsTheClosedForm`);
`RoundsInside` is the arithmetic of that. That it returns is not proved, and with
interval zero it is false.

### Reservations

* `TypeCorrect`. The invariant needs `HandlersOK` beside the types: `NewRow(p)` is a row
  only because a request at `"insert"` is a creation, and a cancellation may index the
  table only because its handler has found its row.
* `BookingInvariant`, and from it `NeverOverbooked`.

`NoOverbooking` is not inductive: nothing in it stops a pending insert from bringing
too many seats. `BookingInv` adds `PendingInsertsFit`: a pending insert, as long as
no row of its restaurant's day has come since its snapshot, still fits the settings
it read, on top of the seats taken *now*. The argument, one lemma per kind of step:

* `SlotFits` establishes it for its own request (`SlotFitsOffers`), by the theorem
  about the calculator.
* `CommitInsert` may use it, since `Serializable` is its hypothesis; the new row makes
  every other pending insert of that day fail its own hypothesis, and leaves the
  other slots' seats alone (`SeatsAppend`, `InsertBooking`).
* A cancellation only frees seats (`SeatsCancel`, `CancelBooking`).
* An owner's change only adds to what has been published (`EnvironmentBooking`).
* All other steps are quiet (`QuietBooking`).

`ReservationAnswersProofs` relates answers to the table:

* `AnswersAreTrue`, `RowsHaveOneAuthor`: the invariant (`AnswersInv`) says which `effect`
  a request has at each await, that this row is the one it asked for, and that each row
  has one creator and, if it is cancelled, one canceller. Requests that have not arrived
  are not counted, so arrivals disturb nothing.
* `GivingUpIsProgress`: `AttemptsOK` says that attempt `k` finds at least `k - 1` rows
  more than the first one did (`began`); a serialization failure means there is one more
  by then (or the restaurant is gone, and does not come back). They are rows of others:
  each row has a creator, and a request that has not inserted has no effect.
* `NoOrphansEver`, `OwnersCancel`: from the guards of the steps that write.
* `Refinement`: `Spec => Book!Spec`, with the seats, the limits of the published settings
  and the verdicts as the mapping. A commit is the booking (`InsertBooks`), the update of
  a cancellation the release (`UpdateReleases`), the answers without an effect are verdicts,
  and every other step is a stutter (`SameBook`). `SlotBook` states safety only.

### Availability

`AvailabilityProofs` needs `BookingInv` again, now of the composed specification, and
`ViewOK`: the settings that a view has found were published by its restaurant. From it
`ShownSlotsHold`, by `AvailableIffRoom`.

### Rate limiter

`LimiterInv` ties the entry of the Map to the client's history: the last `count` accepted
requests came in the running window, the first of them when it began, and every request
that is `MaxRequests` or more before them came a whole window earlier (`WindowOK`); a
penalty began in the window and lasts `PenaltyMs` (`PenaltyOK`). `BurstsAreBounded`,
`RetryAfterCorrect`, `PenaltiesAreExact` and `PenaltiesAreEarned` follow. It needs
`PenaltyAssumption` (a penalty is no shorter than a window; the code has two minutes and
one): an entry that is over its penalty is then over its window as well.

### Catalogue

Four invariants, the last three each on top of the first:

* `TablesInv`: types, `ReferentialIntegrity`, and what each handler has learnt by its
  await (`KnownOK`). Its heart is that ids are not given twice, so a row that a handler
  has checked is that row with that owner, or gone. From it `ReferencesHold`,
  `OwnersChange` and `NoLostPatch`.
* `LedgerInv`: for each row, the acknowledged insertions and deletions are the sets
  that its presence in the table requires, of at most one request each (for favourites,
  that may come and go, by their numbers). From it `LedgerAlwaysBalances` and, with what
  is deleted once, `ErrorsNeedADeletion`.
* `TruthInv`: what a handler has read and not yet answered was a true answer at some
  moment since its arrival (`TruthOK`). From it `AnswersAreTrueSometime`.
* `NumbersInv`: what a view has counted is on record as soon as it is read, and a sum of
  no stars is when there are no comments, or when the restaurant is gone by the time the
  ratings are read: it can only be deleted when its comments are (`NumbersOK`). From it
  `NumbersAreTrueSometime`.

### Accounts and the seed

The invariant has layers, because each needs the one before:

* `TypeInv`, with `SeedInv`: what the open transaction has written is a function of `step`
  alone, whatever the requests do: so many users, restaurants and comments, under the ids
  from 1, and sequences restarted in their order.
* `DbInv` adds keys and references twice: of the committed rows, and of those that a commit
  would leave (`KeysInv`, `RefsInv`). The second half is what makes the commit keep the
  first. `AccountsDiffer` and `SeedReferencesHold` follow.
* `UndisturbedInv`: a seed that nobody disturbs has emptied the tables it has been
  through, so no statement of it can fail: `RefusalsAreDisturbed`.
* `NumbersInv`: a handler between `nextval` and its row holds a number that nobody else
  holds, of a sequence that is not restarted, and that is free but for newcomers; from the
  deletion of the users on, those the seed leaves are the newcomers. From it
  `NumbersAreFree`, and with `ReservationsGone` and `SeedInv` at the last step
  `SeedIsSeenWhole`.
* `HoldsTheirs`: a request that no commit has overtaken holds the id of an account with
  the name in its token. From it `RequestsActForTheirUser`.

### What the proofs changed

They found three statements about the seed that TLC had passed because its instance was
too small: `FreshIdsAreFree` and `SeedIsWhole` forgot that a newcomer may write other
rows than that of the account, and `ForTheirUser` forgot the deletion of a newcomer's
comment. They are stated now as under "easy to miss". The cases of `Submit` in `Accounts`
overlapped for a view without a cookie. And the types of `Availability` bounded the hours
of a slot by those of a day, which nothing in the settings does: any JSON object is
accepted.

### What is only model-checked

* Liveness: `EveryRequestAnswered`, `EveryViewAnswered`, `EverythingEnds`, `LoopReturns`.
  Liveness under fairness and `ENABLED` are out of the prover's reach.
* The findings, which are counterexamples.

## Not modelled, and the plan

What is left:

1. A safety half of `EverythingEnds`: whoever waits for the seed is waited for by it only
   where `BreakDeadlock` applies, so that no wait is without an exit.
2. The same for `EveryRequestAnswered`: a request that is neither idle nor done always has
   one of the conditions that its handler distinguishes.
3. The findings as theorems where they are safe to state: with the settings never patched,
   `AdmittedUnderCurrentSettings` holds.

Not modelled:

* The order of the pipeline's stages: CORS answers a preflight request before the
  limiter sees it, validation comes after the guards. No stage but the limiter keeps
  state. Error bodies and logging are layout.
* `GET /me/reservations`: it changes nothing, and the restaurants whose names it reads
  cannot be deleted as long as they have reservations.
* Reservations during a reseed: the seed's statements on `Reservation` are modelled, the
  reservation handlers beside them are not. A cancellation then is the case of
  `deleteComment` (an id looked up before the seed and written after it), and a creation
  that of `createFavourite`, in a transaction that is rolled back. One thing is left out
  thereby: a cancellation whose row the seed removes before it is read back is answered
  as one that came too late.
* Reading and checking `restaurants.json`, Swagger, Prisma's connection handling and the
  modules that only wire dependencies.
* Arithmetic with `NaN` on settings that lack a number, and `null` in the fields of a
  PATCH, which validation lets through and Prisma refuses with a 500.
