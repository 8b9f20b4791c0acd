------------------------ MODULE ReservationAnswersProofs ------------------------
(***************************************************************************)
(* Theorems that relate what the reservation endpoints answer to what they *)
(* did to the table, and the proof that the handlers implement the book of *)
(* seats of SlotBook.                                                      *)
(***************************************************************************)
EXTENDS ReservationsProofs

\* The answers that say that nothing was changed.
Refusals == Outcomes \ {"pending", "created", "cancelled", "error"}

\* What a request has done to the table, by the await it is at: nothing before its
\* one write; and what its answer says when it is done.
EffectOK(p) ==
    /\ pc[p] \in {"idle", "transaction", "insert", "lookup", "update"} =>
           outcome[p] = "pending" /\ effect[p] = 0
    /\ pc[p] = "reread" => outcome[p] = "pending" /\ effect[p] = req[p].reservationId
    /\ pc[p] = "done" => outcome[p] # "pending"
    /\ outcome[p] = "created" => Creates(p) /\ effect[p] # 0
    /\ outcome[p] = "cancelled" => ~Creates(p) /\ effect[p] # 0
    /\ outcome[p] \in Refusals => effect[p] = 0

\* The row that a request changed is its own: the one it asked to be inserted, or
\* the one it asked to be cancelled.
EffectMatches(p) ==
    effect[p] # 0 =>
        /\ effect[p] \in RowIds
        /\ \/ /\ req[p] \in CreateRequest
              /\ [reservations[effect[p]] EXCEPT !.status = "confirmed"] = NewRow(p)
           \/ /\ req[p] \in ByIdRequest
              /\ effect[p] = req[p].reservationId /\ ~Confirmed(effect[p])

Creators(i) == {p \in Requests : Creates(p) /\ effect[p] = i}

Cancellers(i) == {p \in Requests : req[p] # NoRequest /\ ~Creates(p) /\ effect[p] = i}

\* Which requests changed a row: one inserted it, and one cancelled it if it is.
AuthorsOK ==
    \A i \in RowIds :
        /\ \E p \in Requests : Creators(i) = {p}
        /\ IF Confirmed(i) THEN Cancellers(i) = {}
                           ELSE \E p \in Requests : Cancellers(i) = {p}

\* The inductive invariant of the answers.
AnswersInv ==
    TypeInv /\ AuthorsOK /\ \A p \in Requests : EffectOK(p) /\ EffectMatches(p)

\* Why a request gives up only after others made progress: each attempt but the
\* first saw a row more than the one before.  A deleted restaurant does not come
\* back, so no attempt is wasted on it but the last.
AttemptsOK(p) ==
    /\ pc[p] = "idle" => attempt[p] = 1
    /\ pc[p] = "transaction" /\ settings[req[p].restaurantId] # NoRestaurant =>
           attempt[p] = 1 \/ Len(reservations) >= began[p] + attempt[p] - 1
    /\ pc[p] = "insert" =>
           began[p] + attempt[p] - 1 <= seen[p] /\ seen[p] <= Len(reservations)

AttemptsInv == AnswersInv /\ \A p \in Requests : AttemptsOK(p)

-------------------------------------------------------------------------------
(* The answers match the table.                                            *)

\* A request creates or it does not, by its type.
LEMMA RequestKinds ==
    ASSUME NEW p \in Requests
    PROVE  /\ req[p] \in CreateRequest => Creates(p)
           /\ req[p] \in ByIdRequest => ~Creates(p) /\ req[p] # NoRequest
BY RequestsAssumption DEF Creates, CreateRequest, ByIdRequest

\* At the start nothing has been answered or attempted.
LEMMA InitAnswers == Init => AttemptsInv
<1> SUFFICES ASSUME Init PROVE AttemptsInv
  OBVIOUS
<1>1. TypeInv /\ AuthorsOK
  BY InitTypes DEF Init, AuthorsOK, RowIds
<1>2. ASSUME NEW p \in Requests PROVE EffectOK(p) /\ EffectMatches(p) /\ AttemptsOK(p)
  BY DEF Init, EffectOK, EffectMatches, AttemptsOK, Refusals
<1> QED BY <1>1, <1>2 DEF AttemptsInv, AnswersInv

\* A step that changes no row: the authors stay, and so does what the requests say
\* that it leaves alone.
LEMMA QuietAnswers ==
    ASSUME AnswersInv, TypeInv', UNCHANGED <<reservations, effect>>,
           \A k \in Requests : effect[k] # 0 => req'[k] = req[k],
           \A k \in Requests : EffectOK(k)'
    PROVE  AnswersInv'
<1>1. ASSUME NEW i \in RowIds
      PROVE  Creators(i)' = Creators(i) /\ Cancellers(i)' = Cancellers(i)
  <2>1. i # 0
    BY DEF RowIds, AnswersInv, TypeInv, TypeOK
  <2>2. \A k \in Requests : effect[k] = i => (Creates(k)' <=> Creates(k)) /\ req'[k] = req[k]
    BY <2>1 DEF Creates
  <2> QED BY <2>2 DEF Creators, Cancellers
<1>2. AuthorsOK'
  BY <1>1 DEF AnswersInv, AuthorsOK, RowIds, Confirmed
<1>3. ASSUME NEW k \in Requests PROVE EffectMatches(k)'
  BY DEF AnswersInv, EffectMatches, NewRow, RowIds, Confirmed
<1> QED BY <1>2, <1>3 DEF AnswersInv

\* A handler moves on, or answers, without writing.
LEMMA HandlerAnswers ==
    ASSUME AnswersInv, TypeInv', NEW p \in Requests,
           UNCHANGED <<reservations, effect>>,
           \/ req' = req
           \/ pc[p] = "idle" /\ \E q : req' = [req EXCEPT ![p] = q],
           \/ /\ pc[p] \in {"idle", "transaction", "insert", "lookup", "update"}
              /\ \/ \E l \in {"transaction", "insert", "lookup", "update"} : Goto(p, l)
                 \/ \E o \in Refusals \cup {"error"} : Answer(p, o)
           \/ pc[p] = "reread" /\ (Answer(p, "cancelled") \/ Answer(p, "error"))
    PROVE  AnswersInv'
<1> USE DEF AnswersInv
<1>1. pc \in [Requests -> {"idle", "transaction", "insert", "lookup", "update", "reread", "done"}]
      /\ outcome \in [Requests -> Outcomes]
      /\ req \in [Requests -> CreateRequest \cup ByIdRequest \cup {NoRequest}]
  BY DEF TypeInv, TypeOK
<1>2. ASSUME NEW k \in Requests, effect[k] # 0 PROVE req'[k] = req[k]
  BY <1>1, <1>2 DEF EffectOK
<1>3. ASSUME NEW k \in Requests, k # p PROVE EffectOK(k)'
  <2>1. UNCHANGED <<pc[k], outcome[k], req[k], effect[k]>>
    BY <1>1, <1>3 DEF Goto, Answer
  <2> QED BY <2>1 DEF EffectOK, Creates
<1>4. EffectOK(p)'
  <2>1. CASE pc[p] \in {"idle", "transaction", "insert", "lookup", "update"}
    <3>1. effect[p] = 0 /\ effect'[p] = 0 /\ outcome[p] = "pending"
      BY <2>1 DEF EffectOK
    <3>2. CASE \E l \in {"transaction", "insert", "lookup", "update"} : Goto(p, l)
      BY <1>1, <3>1, <3>2 DEF Goto, EffectOK, Refusals
    <3>3. CASE \E o \in Refusals \cup {"error"} : Answer(p, o)
      <4>1. PICK o \in Refusals \cup {"error"} : Answer(p, o)
        BY <3>3
      <4>2. pc'[p] = "done" /\ outcome'[p] = o
        BY <1>1, <4>1 DEF Answer
      <4> QED BY <3>1, <4>2 DEF EffectOK, Refusals
    <3> QED BY <2>1, <3>2, <3>3
  <2>2. CASE pc[p] = "reread"
    <3>1. effect'[p] = req[p].reservationId /\ req' = req /\ req[p] \in ByIdRequest
      BY <2>2 DEF EffectOK, TypeInv, HandlersOK
    <3>2. effect'[p] # 0 /\ ~Creates(p)'
      BY <3>1, RequestKinds DEF ByIdRequest, Creates
    <3>3. pc'[p] = "done" /\ outcome'[p] \in {"cancelled", "error"}
      BY <1>1, <2>2 DEF Answer
    <3> QED BY <3>2, <3>3 DEF EffectOK, Refusals
  <2> QED BY <2>1, <2>2
<1> QED BY <1>2, <1>3, <1>4, QuietAnswers

\* The insert: the new row has one author, and no other row gains one.
LEMMA InsertAnswers ==
    ASSUME AnswersInv, TypeInv', NEW p \in Requests, Insert(p) \/ InsertUnacknowledged(p)
    PROVE  AnswersInv'
<1> USE DEF AnswersInv
<1> DEFINE new == Len(reservations) + 1
<1>1. /\ reservations' = Append(reservations, NewRow(p))
      /\ effect' = [effect EXCEPT ![p] = new]
      /\ pc[p] = "insert" /\ req' = req
      /\ Answer(p, "created") \/ Answer(p, "error")
  BY DEF Insert, InsertUnacknowledged, CommitInsert
<1>2. /\ reservations \in Seq(Row) /\ effect \in [Requests -> Nat]
      /\ pc \in [Requests -> {"idle", "transaction", "insert", "lookup", "update", "reread", "done"}]
      /\ outcome \in [Requests -> Outcomes]
  BY DEF TypeInv, TypeOK
<1>3. /\ req[p] \in CreateRequest /\ Creates(p) /\ effect[p] = 0
  BY <1>1, RequestKinds DEF TypeInv, HandlersOK, EffectOK
<1>4. NewRow(p) \in Row /\ NewRow(p).status = "confirmed"
  BY <1>3 DEF NewRow, Row, CreateRequest
<1>5. /\ Len(reservations) \in Nat /\ Len(reservations') = new /\ new \notin RowIds /\ new # 0
      /\ RowIds' = RowIds \cup {new} /\ reservations'[new] = NewRow(p)
      /\ \A i \in RowIds : reservations'[i] = reservations[i]
  BY <1>1, <1>2, <1>4 DEF RowIds
<1> HIDE DEF new
<1>6. /\ effect'[p] = new
      /\ \A k \in Requests : k # p => effect'[k] = effect[k]
      /\ \A k \in Requests : effect[k] \in RowIds \cup {0}
  BY <1>1, <1>2 DEF EffectMatches
<1>7. ASSUME NEW k \in Requests PROVE EffectOK(k)'
  <2>1. CASE k = p
    <3>1. pc'[p] = "done" /\ outcome'[p] \in {"created", "error"} /\ Creates(p)'
      BY <1>1, <1>2, <1>3 DEF Answer, Creates
    <3> QED BY <1>5, <1>6, <2>1, <3>1 DEF EffectOK, Refusals
  <2>2. CASE k # p
    <3>1. UNCHANGED <<pc[k], outcome[k], req[k], effect[k]>>
      BY <1>1, <1>2, <1>6, <2>2 DEF Answer
    <3> QED BY <3>1 DEF EffectOK, Creates
  <2> QED BY <2>1, <2>2
<1>8. ASSUME NEW k \in Requests PROVE EffectMatches(k)'
  <2>1. NewRow(k)' = NewRow(k)
    BY <1>1 DEF NewRow
  <2>2. CASE k = p
    <3>1. [NewRow(p) EXCEPT !.status = "confirmed"] = NewRow(p)
      BY DEF NewRow
    <3> QED BY <1>1, <1>3, <1>5, <1>6, <2>1, <2>2, <3>1 DEF EffectMatches
  <2>3. CASE k # p
    <3>1. UNCHANGED <<effect[k], req[k]>>
      BY <1>1, <1>6, <2>3
    <3>2. ASSUME effect[k] # 0
          PROVE  effect[k] \in RowIds /\ reservations'[effect[k]] = reservations[effect[k]]
      BY <1>5, <1>6, <3>2
    <3> QED BY <1>5, <2>1, <3>1, <3>2 DEF EffectMatches, Confirmed
  <2> QED BY <2>2, <2>3
<1>9. AuthorsOK'
  <2> SUFFICES ASSUME NEW i \in RowIds \cup {new}
               PROVE  /\ \E k \in Requests : Creators(i)' = {k}
                      /\ IF Confirmed(i)' THEN Cancellers(i)' = {}
                                          ELSE \E k \in Requests : Cancellers(i)' = {k}
    BY <1>5 DEF AuthorsOK
  <2>0. \A k \in Requests : Creates(k)' <=> Creates(k)
    BY <1>1 DEF Creates
  <2>1. CASE i = new
    <3>1. \A k \in Requests : effect'[k] = new <=> k = p
      BY <1>5, <1>6
    <3>2. Creators(i)' = {p} /\ Cancellers(i)' = {}
      BY <1>3, <2>0, <2>1, <3>1 DEF Creators, Cancellers
    <3>3. Confirmed(i)'
      BY <1>4, <1>5, <2>1 DEF Confirmed
    <3> QED BY <3>2, <3>3
  <2>2. CASE i \in RowIds
    <3>1. \A k \in Requests : effect'[k] = i <=> effect[k] = i
      BY <1>2, <1>3, <1>5, <1>6, <2>2 DEF RowIds
    <3>2. Creators(i)' = Creators(i) /\ Cancellers(i)' = Cancellers(i)
      BY <1>1, <2>0, <3>1 DEF Creators, Cancellers
    <3>3. Confirmed(i)' <=> Confirmed(i)
      BY <1>5, <2>2 DEF Confirmed
    <3> QED BY <2>2, <3>2, <3>3 DEF AuthorsOK
  <2> QED BY <2>1, <2>2
<1> QED BY <1>7, <1>8, <1>9

\* The update: a confirmed row had no canceller, and has this one now.
LEMMA CancelAnswers ==
    ASSUME AnswersInv, TypeInv', NEW p \in Requests,
           CancelConfirmed(p) \/ UpdateUnacknowledged(p)
    PROVE  AnswersInv'
<1> USE DEF AnswersInv
<1> DEFINE id == req[p].reservationId
<1>1. /\ reservations' = [reservations EXCEPT ![id].status = "cancelled"]
      /\ effect' = [effect EXCEPT ![p] = id]
      /\ pc[p] = "update" /\ req' = req /\ Confirmed(id)
      /\ Goto(p, "reread") \/ Answer(p, "error")
  BY DEF CancelConfirmed, UpdateUnacknowledged, UpdateConfirmed
<1>2. /\ reservations \in Seq(Row) /\ effect \in [Requests -> Nat]
      /\ pc \in [Requests -> {"idle", "transaction", "insert", "lookup", "update", "reread", "done"}]
      /\ outcome \in [Requests -> Outcomes]
  BY DEF TypeInv, TypeOK
<1>3. /\ req[p] \in ByIdRequest /\ ~Creates(p) /\ req[p] # NoRequest /\ effect[p] = 0
      /\ id \in RowIds /\ id # 0
  BY <1>1, RequestKinds DEF TypeInv, HandlersOK, EffectOK, Owns, ByIdRequest
<1> HIDE DEF id
<1>4. /\ RowIds' = RowIds
      /\ reservations'[id] = [reservations[id] EXCEPT !.status = "cancelled"]
      /\ \A i \in RowIds : i # id => reservations'[i] = reservations[i]
  BY <1>1, <1>2, <1>3 DEF RowIds
<1>5. /\ effect'[p] = id
      /\ \A k \in Requests : k # p => effect'[k] = effect[k]
      /\ reservations'[id].status = "cancelled"
  <2>1. reservations[id] \in Row
    BY <1>2, <1>3 DEF RowIds
  <2>2. [reservations[id] EXCEPT !.status = "cancelled"].status = "cancelled"
    BY <2>1 DEF Row
  <2> QED BY <1>1, <1>2, <1>4, <2>2
<1>6. ASSUME NEW k \in Requests PROVE EffectOK(k)'
  <2>1. CASE k = p
    <3>1. \/ pc'[p] = "reread" /\ outcome'[p] = "pending"
          \/ pc'[p] = "done" /\ outcome'[p] = "error"
      BY <1>1, <1>2 DEF Answer, Goto, EffectOK
    <3> QED BY <1>1, <1>3, <1>5, <2>1, <3>1 DEF EffectOK, Refusals, id
  <2>2. CASE k # p
    <3>1. UNCHANGED <<pc[k], outcome[k], req[k], effect[k]>>
      BY <1>1, <1>2, <1>5, <2>2 DEF Answer, Goto
    <3> QED BY <3>1 DEF EffectOK, Creates
  <2> QED BY <2>1, <2>2
<1>7. ASSUME NEW k \in Requests PROVE EffectMatches(k)'
  <2>1. NewRow(k)' = NewRow(k)
    BY <1>1 DEF NewRow
  <2>2. CASE k = p
    BY <1>1, <1>3, <1>4, <1>5, <2>2 DEF EffectMatches, Confirmed, id
  <2>3. CASE k # p /\ effect[k] = id
    <3>1. /\ req[k] \in CreateRequest
          /\ [reservations[id] EXCEPT !.status = "confirmed"] = NewRow(k)
      BY <1>1, <1>3, <2>3 DEF EffectMatches
    <3>2. ASSUME NEW row
          PROVE  [[row EXCEPT !.status = "cancelled"] EXCEPT !.status = "confirmed"]
                     = [row EXCEPT !.status = "confirmed"]
      OBVIOUS
    <3>3. [reservations'[id] EXCEPT !.status = "confirmed"] = NewRow(k)'
      BY <1>4, <2>1, <3>1, <3>2
    <3>4. effect'[k] = id /\ req'[k] = req[k] /\ id \in RowIds'
      BY <1>1, <1>3, <1>4, <1>5, <2>3
    <3> QED BY <3>1, <3>3, <3>4 DEF EffectMatches
  <2>4. CASE k # p /\ effect[k] # id
    BY <1>1, <1>4, <1>5, <2>1, <2>4 DEF EffectMatches, Confirmed
  <2> QED BY <2>2, <2>3, <2>4
<1>8. AuthorsOK'
  <2> SUFFICES ASSUME NEW i \in RowIds
               PROVE  /\ \E k \in Requests : Creators(i)' = {k}
                      /\ IF Confirmed(i)' THEN Cancellers(i)' = {}
                                          ELSE \E k \in Requests : Cancellers(i)' = {k}
    BY <1>4 DEF AuthorsOK
  <2>0. /\ \A k \in Requests : Creates(k)' <=> Creates(k)
        /\ i # 0
    BY <1>1, <1>2 DEF Creates, RowIds
  <2>1. Creators(i)' = Creators(i)
    BY <1>3, <1>5, <2>0 DEF Creators
  <2>2. CASE i = id
    <3>1. Cancellers(i) = {}
      BY <1>1, <2>2 DEF AuthorsOK
    <3>2. Cancellers(i)' = {p}
      BY <1>1, <1>3, <1>5, <2>0, <2>2, <3>1 DEF Cancellers
    <3>3. ~Confirmed(i)'
      BY <1>5, <2>2 DEF Confirmed
    <3> QED BY <2>1, <3>2, <3>3 DEF AuthorsOK
  <2>3. CASE i # id
    <3>1. Cancellers(i)' = Cancellers(i)
      BY <1>1, <1>3, <1>5, <2>0, <2>3 DEF Cancellers
    <3>2. Confirmed(i)' <=> Confirmed(i)
      BY <1>4, <2>3 DEF Confirmed
    <3> QED BY <2>1, <3>1, <3>2 DEF AuthorsOK
  <2> QED BY <2>2, <2>3
<1> QED BY <1>6, <1>7, <1>8

\* What the steps that write nothing have in common.
LEMMA QuietHandler ==
    ASSUME NEW p \in Requests,
           \/ Submit(p) \/ RestaurantMissing(p) \/ CalculatorThrows(p) \/ SlotMissing(p)
           \/ SlotFull(p) \/ SlotFits(p) \/ RetryTransaction(p) \/ GiveUp(p)
           \/ LookupMissing(p) \/ LookupForeign(p) \/ FindOne(p) \/ CancelAgain(p)
           \/ CancelProceeds(p) \/ CancelLost(p) \/ ReRead(p) \/ DatabaseError(p)
    PROVE  /\ UNCHANGED <<reservations, settings, published, now, effect>>
           /\ \/ req' = req
              \/ pc[p] = "idle" /\ \E q : req' = [req EXCEPT ![p] = q]
           /\ \/ /\ pc[p] \in {"idle", "transaction", "insert", "lookup", "update"}
                 /\ \/ \E l \in {"transaction", "insert", "lookup", "update"} : Goto(p, l)
                    \/ \E o \in Refusals \cup {"error"} : Answer(p, o)
              \/ pc[p] = "reread" /\ (Answer(p, "cancelled") \/ Answer(p, "error"))
<1> USE DEF db, Refusals, Outcomes
<1>1. CASE SubmitCreate(p)
  <2>1. PICK q \in CreateRequests :
            /\ Arrive(p, q)
            /\ Answer(p, "inPast") \/ Goto(p, "transaction")
            /\ UNCHANGED <<db, now, attempt, seen, began, offer, effect>>
    BY <1>1, Zenon DEF SubmitCreate
  <2> QED BY <2>1 DEF Arrive
<1>2. CASE SubmitById(p)
  BY <1>2 DEF SubmitById, Arrive
<1>3. CASE \/ RestaurantMissing(p) \/ CalculatorThrows(p) \/ SlotMissing(p) \/ SlotFull(p)
  BY <1>3 DEF RestaurantMissing, CalculatorThrows, SlotMissing, SlotFull, CheckThrows
<1>4. CASE SlotFits(p) \/ RetryTransaction(p) \/ GiveUp(p)
  BY <1>4 DEF SlotFits, RetryTransaction, GiveUp
<1>5. CASE \/ LookupMissing(p) \/ LookupForeign(p) \/ FindOne(p) \/ CancelAgain(p)
           \/ CancelProceeds(p)
  BY <1>5 DEF LookupMissing, LookupForeign, FindOne, CancelAgain, CancelProceeds, Lookup
<1>6. CASE CancelLost(p) \/ ReRead(p) \/ DatabaseError(p)
  BY <1>6 DEF CancelLost, ReRead, DatabaseError
<1> QED BY <1>1, <1>2, <1>3, <1>4, <1>5, <1>6 DEF Submit

\* Owners and the clock change no row and no answer.
LEMMA EnvironmentStep ==
    ASSUME \/ \E r \in Restaurants : PatchSettings(r) \/ DeleteRestaurant(r)
           \/ Tick \/ UNCHANGED vars
    PROVE  UNCHANGED <<reservations, req, pc, attempt, seen, began, offer, outcome, effect>>
BY DEF PatchSettings, DeleteRestaurant, Tick, vars, db

\* Every step keeps answers and table in agreement.
LEMMA NextAnswers == AnswersInv /\ [Next]_vars => AnswersInv'
<1> SUFFICES ASSUME AnswersInv, [Next]_vars PROVE AnswersInv'
  OBVIOUS
<1>1. TypeInv'
  BY NextTypes DEF AnswersInv
<1>2. ASSUME NEW p \in Requests, Submit(p) \/ Handle(p) PROVE AnswersInv'
  <2>1. CASE Insert(p) \/ InsertUnacknowledged(p)
    BY <1>1, <2>1, InsertAnswers
  <2>2. CASE CancelConfirmed(p) \/ UpdateUnacknowledged(p)
    BY <1>1, <2>2, CancelAnswers
  <2>3. CASE ~(Insert(p) \/ InsertUnacknowledged(p) \/ CancelConfirmed(p) \/ UpdateUnacknowledged(p))
    BY <1>1, <1>2, <2>3, QuietHandler, HandlerAnswers DEF Handle
  <2> QED BY <2>1, <2>2, <2>3
<1>3. CASE \/ \E r \in Restaurants : PatchSettings(r) \/ DeleteRestaurant(r)
           \/ Tick \/ UNCHANGED vars
  <2>1. UNCHANGED <<reservations, req, pc, attempt, seen, began, offer, outcome, effect>>
    BY <1>3, EnvironmentStep
  <2>2. \A k \in Requests : EffectOK(k)'
    BY <2>1 DEF AnswersInv, EffectOK, Creates
  <2> QED BY <1>1, <2>1, <2>2, QuietAnswers
<1> QED BY <1>2, <1>3 DEF Next

\* An answer that stands for a change names the row that was changed; a refusal
\* means that the request changed nothing.
THEOREM AnswersAreTrue == Spec => []AnswersMatchTable
<1>1. ASSUME AnswersInv PROVE AnswersMatchTable
  <2> SUFFICES ASSUME NEW p \in Requests
               PROVE  /\ outcome[p] = "created" =>
                             /\ effect[p] \in RowIds
                             /\ [reservations[effect[p]] EXCEPT !.status = "confirmed"] = NewRow(p)
                      /\ outcome[p] = "cancelled" =>
                             effect[p] = req[p].reservationId /\ ~Confirmed(effect[p])
                      /\ outcome[p] \in Refusals => effect[p] = 0
    BY DEF AnswersMatchTable, Refusals
  <2> QED BY <1>1, RequestKinds DEF AnswersInv, EffectOK, EffectMatches
<1>2. Init => AnswersInv
  BY InitAnswers DEF AttemptsInv
<1> QED BY <1>1, <1>2, NextAnswers, PTL DEF Spec

\* However often a transaction is retried and whichever cancellations race, each
\* row has one request that inserted it, and one that cancelled it if it is.
THEOREM RowsHaveOneAuthor == Spec => []OneRequestPerChange
<1>1. ASSUME AnswersInv PROVE OneRequestPerChange
  <2> SUFFICES ASSUME NEW i \in RowIds
               PROVE  /\ Cardinality(Creators(i)) = 1
                      /\ Cardinality(Cancellers(i)) = IF Confirmed(i) THEN 0 ELSE 1
    BY DEF OneRequestPerChange, Creators, Cancellers
  <2>1. \A p : Cardinality({p}) = 1
    BY FS_Singleton
  <2>2. Cardinality({}) = 0
    BY FS_EmptySet
  <2> QED BY <1>1, <2>1, <2>2 DEF AnswersInv, AuthorsOK
<1>2. Init => AnswersInv
  BY InitAnswers DEF AttemptsInv
<1> QED BY <1>1, <1>2, NextAnswers, PTL DEF Spec

-------------------------------------------------------------------------------
(* Retries.                                                                *)

\* Handlers: a failed attempt has seen one reservation more than the one before; and
\* only GiveUp answers that a request was beaten.
LEMMA HandlerAttempts ==
    ASSUME AttemptsInv, TypeInv', NEW p \in Requests, Submit(p) \/ Handle(p)
    PROVE  /\ \A k \in Requests : AttemptsOK(k)'
           /\ \A k \in Requests :
                  outcome[k] = "pending" /\ outcome'[k] = "contended" => k = p /\ GiveUp(p)
<1> DEFINE Kept == /\ \A k \in Requests : AttemptsOK(k)'
                   /\ \A k \in Requests :
                          outcome[k] = "pending" /\ outcome'[k] = "contended"
                              => k = p /\ GiveUp(p)
<1>0. /\ TypeOK /\ Len(reservations) \in Nat
      /\ \A k \in Requests : /\ AttemptsOK(k) /\ attempt[k] \in Nat \ {0} /\ seen[k] \in Nat
                             /\ began[k] \in Nat
                             /\ EffectOK(k)
      /\ MaxAttempts \in Nat \ {0}
  BY BoundsAssumption DEF AttemptsInv, AnswersInv, TypeInv, TypeOK
<1>1. ASSUME UNCHANGED settings,
             \A k \in Requests \ {p} :
                 UNCHANGED <<req[k], pc[k], attempt[k], seen[k], began[k], outcome[k]>>,
             Len(reservations') >= Len(reservations), Len(reservations') \in Nat,
             AttemptsOK(p)', outcome'[p] = "contended" => GiveUp(p)
      PROVE  Kept
  <2>1. ASSUME NEW k \in Requests \ {p} PROVE AttemptsOK(k)'
    BY <1>0, <1>1 DEF AttemptsOK
  <2> QED BY <1>1, <2>1
<1>2. CASE SubmitCreate(p)
  <2>1. PICK q \in CreateRequests :
            /\ pc[p] = "idle" /\ req' = [req EXCEPT ![p] = q]
            /\ Answer(p, "inPast") \/ Goto(p, "transaction")
            /\ UNCHANGED <<db, now, attempt, seen, began, offer, effect>>
    BY <1>2, Zenon DEF SubmitCreate, Arrive
  <2>2. /\ \A k \in Requests \ {p} : UNCHANGED <<req[k], pc[k], outcome[k]>>
        /\ attempt'[p] = 1 /\ pc'[p] \in {"transaction", "done"} /\ outcome'[p] # "contended"
        /\ UNCHANGED <<reservations, settings, attempt, seen, began>>
    BY <1>0, <2>1 DEF Answer, Goto, TypeOK, AttemptsOK, EffectOK, db
  <2>3. AttemptsOK(p)'
    BY <1>0, <2>2 DEF AttemptsOK
  <2> QED BY <1>0, <1>1, <2>2, <2>3
<1>3. CASE SubmitById(p)
  <2>1. /\ \A k \in Requests \ {p} : UNCHANGED <<req[k], pc[k], outcome[k]>>
        /\ pc'[p] = "lookup" /\ outcome'[p] # "contended"
        /\ UNCHANGED <<reservations, settings, attempt, seen, began>>
    BY <1>0, <1>3 DEF SubmitById, Arrive, Goto, TypeOK, EffectOK, db
  <2>2. AttemptsOK(p)'
    BY <2>1 DEF AttemptsOK
  <2> QED BY <1>0, <1>1, <2>1, <2>2
<1>4. CASE SlotFits(p)
  <2>1. /\ \A k \in Requests \ {p} : UNCHANGED <<req[k], pc[k], seen[k], began[k], outcome[k]>>
        /\ pc[p] = "transaction" /\ settings[req[p].restaurantId] \in Settings
        /\ pc'[p] = "insert" /\ outcome'[p] # "contended"
        /\ seen'[p] = Len(reservations)
        /\ began'[p] = IF attempt[p] = 1 THEN Len(reservations) ELSE began[p]
        /\ UNCHANGED <<reservations, settings, attempt, req>>
    BY <1>0, <1>4 DEF SlotFits, Goto, TypeOK, EffectOK, db
  <2>2. AttemptsOK(p)'
    BY <1>0, <2>1, SettingsAssumption DEF AttemptsOK
  <2> QED BY <1>0, <1>1, <2>1, <2>2
<1>5. CASE RetryTransaction(p)
  <2>1. /\ \A k \in Requests \ {p} : UNCHANGED <<req[k], pc[k], attempt[k], outcome[k]>>
        /\ pc[p] = "insert" /\ Disturbed(p)
        /\ pc'[p] = "transaction" /\ outcome'[p] # "contended"
        /\ attempt'[p] = attempt[p] + 1
        /\ UNCHANGED <<reservations, settings, seen, began, req>>
    BY <1>0, <1>5 DEF RetryTransaction, Goto, TypeOK, EffectOK, db
  <2>2. AttemptsOK(p)'
    BY <1>0, <2>1 DEF AttemptsOK, Disturbed
  <2> QED BY <1>0, <1>1, <2>1, <2>2
<1>6. CASE GiveUp(p)
  <2>1. /\ \A k \in Requests \ {p} : UNCHANGED <<req[k], pc[k], outcome[k]>>
        /\ pc[p] = "insert" /\ attempt[p] = MaxAttempts /\ pc'[p] = "done"
        /\ UNCHANGED <<reservations, settings, attempt, seen, began, req>>
    BY <1>0, <1>6 DEF GiveUp, Answer, TypeOK, db
  <2>2. AttemptsOK(p)'
    BY <2>1 DEF AttemptsOK
  <2> QED BY <1>0, <1>1, <1>6, <2>1, <2>2
<1>7. CASE Insert(p) \/ InsertUnacknowledged(p)
  <2>1. /\ \A k \in Requests \ {p} : UNCHANGED <<req[k], pc[k], outcome[k]>>
        /\ pc'[p] = "done" /\ outcome'[p] # "contended"
        /\ UNCHANGED <<settings, attempt, seen, began, req>>
        /\ Len(reservations') = Len(reservations) + 1
    BY <1>0, <1>7 DEF Insert, InsertUnacknowledged, CommitInsert, Answer, TypeOK
  <2>2. AttemptsOK(p)'
    BY <2>1 DEF AttemptsOK
  <2> QED BY <1>0, <1>1, <2>1, <2>2
<1>8. ASSUME \/ CancelConfirmed(p) \/ UpdateUnacknowledged(p)
             \/ RestaurantMissing(p) \/ CalculatorThrows(p) \/ SlotMissing(p) \/ SlotFull(p)
             \/ LookupMissing(p) \/ LookupForeign(p) \/ FindOne(p) \/ CancelAgain(p)
             \/ CancelProceeds(p) \/ CancelLost(p) \/ ReRead(p) \/ DatabaseError(p)
      PROVE  Kept
  <2>1. /\ UNCHANGED <<settings, attempt, seen, began, req>> /\ Len(reservations') = Len(reservations)
        /\ pc[p] # "done"
        /\ \/ Goto(p, "update") \/ Goto(p, "reread")
           \/ \E o \in {"noRestaurant", "error", "badTime", "full", "noReservation", "foreign",
                        "found", "alreadyCancelled", "cancelled"} : Answer(p, o)
    <3>1. CASE CancelConfirmed(p) \/ UpdateUnacknowledged(p)
      BY <1>0, <3>1 DEF CancelConfirmed, UpdateUnacknowledged, UpdateConfirmed, TypeOK
    <3>2. CASE ~(CancelConfirmed(p) \/ UpdateUnacknowledged(p))
      BY <1>8, <3>2 DEF RestaurantMissing, CalculatorThrows, SlotMissing, SlotFull, CheckThrows,
             LookupMissing, LookupForeign, FindOne, CancelAgain, CancelProceeds, Lookup,
             CancelLost, ReRead, DatabaseError, db
    <3> QED BY <3>1, <3>2
  <2>2. /\ \A k \in Requests \ {p} : UNCHANGED <<req[k], pc[k], outcome[k]>>
        /\ pc'[p] \in {"update", "reread", "done"} /\ outcome'[p] # "contended"
    BY <1>0, <2>1 DEF Answer, Goto, TypeOK, EffectOK
  <2>3. AttemptsOK(p)'
    BY <2>2 DEF AttemptsOK
  <2> QED BY <1>0, <1>1, <2>1, <2>2, <2>3
<1> QED BY <1>2, <1>3, <1>4, <1>5, <1>6, <1>7, <1>8 DEF Submit, Handle

\* Every step keeps the bound on the attempts.
LEMMA NextAttempts == AttemptsInv /\ [Next]_vars => AttemptsInv'
<1> SUFFICES ASSUME AttemptsInv, [Next]_vars PROVE AttemptsInv'
  OBVIOUS
<1>1. AnswersInv' /\ TypeInv'
  BY NextAnswers DEF AttemptsInv, AnswersInv
<1>2. ASSUME NEW p \in Requests, Submit(p) \/ Handle(p) PROVE AttemptsInv'
  BY <1>1, <1>2, HandlerAttempts DEF AttemptsInv
<1>3. CASE \/ \E r \in Restaurants : PatchSettings(r) \/ DeleteRestaurant(r)
           \/ Tick \/ UNCHANGED vars
  <2>1. UNCHANGED <<reservations, req, pc, attempt, seen, began, offer, outcome, effect>>
    BY <1>3, EnvironmentStep
  <2>2. \A r \in Restaurants : settings[r] = NoRestaurant => settings'[r] = NoRestaurant
    BY <1>3 DEF PatchSettings, DeleteRestaurant, Tick, vars, db, AttemptsInv, AnswersInv,
                TypeInv, TypeOK
  <2>3. \A k \in Requests : pc[k] = "transaction" => req[k].restaurantId \in Restaurants
    BY DEF AttemptsInv, AnswersInv, TypeInv, HandlersOK, CreateRequest
  <2>4. \A k \in Requests : AttemptsOK(k)'
    BY <2>1, <2>2, <2>3 DEF AttemptsInv, AttemptsOK
  <2> QED BY <1>1, <2>4 DEF AttemptsInv
<1> QED BY <1>2, <1>3 DEF Next

\* The rows that came during the attempts of a request, and their number.
LEMMA CameSinceCounts ==
    ASSUME NEW p \in Requests, began[p] \in Nat, Len(reservations) \in Nat,
           began[p] <= Len(reservations)
    PROVE  Cardinality(CameSince(p)) = Len(reservations) - began[p]
<1> DEFINE a == began[p] + 1
           b == Len(reservations)
<1>1. CameSince(p) = a..b
  BY DEF CameSince, RowIds
<1>2. a \in Int /\ b \in Int /\ a <= b + 1
  OBVIOUS
<1>3. Cardinality(a..b) = IF a > b THEN 0 ELSE b - a + 1
  <2> HIDE DEF a, b
  <2> QED BY <1>2, FS_Interval, Zenon
<1>4. (IF a > b THEN 0 ELSE b - a + 1) = Len(reservations) - began[p]
  OBVIOUS
<1> QED BY <1>1, <1>3, <1>4

\* A request that gives up after MaxAttempts lost each of its attempts to a row that
\* another request inserted after the first of them had read the table (the last one,
\* perhaps, to the deletion of its restaurant).
THEOREM GivingUpIsProgress == Spec => ContentionIsProgress
<1> DEFINE Beaten(p) ==
               outcome[p] = "pending" /\ outcome'[p] = "contended" =>
                   /\ Cardinality(CameSince(p)) >=
                          MaxAttempts
                              - IF settings[req[p].restaurantId] = NoRestaurant THEN 1 ELSE 0
                   /\ \A i \in CameSince(p) :
                          \E q \in Requests \ {p} : Creates(q) /\ effect[q] = i
<1>1. ASSUME AttemptsInv, [Next]_vars, NEW p \in Requests,
             outcome[p] = "pending", outcome'[p] = "contended"
      PROVE  GiveUp(p)
  <2>1. AttemptsInv /\ TypeInv'
    BY <1>1, NextTypes DEF AttemptsInv, AnswersInv
  <2>2. PICK q \in Requests : Submit(q) \/ Handle(q)
    BY <1>1, EnvironmentStep DEF Next
  <2> QED BY <1>1, <2>1, <2>2, HandlerAttempts
<1>2. ASSUME AttemptsInv, [Next]_vars, NEW p \in Requests PROVE Beaten(p)
  <2> SUFFICES ASSUME outcome[p] = "pending", outcome'[p] = "contended"
               PROVE  /\ Cardinality(CameSince(p)) >=
                             MaxAttempts
                                 - IF settings[req[p].restaurantId] = NoRestaurant THEN 1 ELSE 0
                      /\ \A i \in CameSince(p) :
                             \E q \in Requests \ {p} : Creates(q) /\ effect[q] = i
    OBVIOUS
  <2>1. pc[p] = "insert" /\ Disturbed(p) /\ attempt[p] = MaxAttempts
    BY <1>1, <1>2 DEF GiveUp
  <2>2. /\ began[p] \in Nat /\ seen[p] \in Nat /\ MaxAttempts \in Nat \ {0}
        /\ Len(reservations) \in Nat
        /\ began[p] + MaxAttempts - 1 <= seen[p] /\ seen[p] <= Len(reservations)
        /\ effect[p] = 0
    BY <1>2, <2>1, BoundsAssumption
       DEF AttemptsInv, AttemptsOK, AnswersInv, EffectOK, TypeInv, TypeOK
  <2>3. Cardinality(CameSince(p)) = Len(reservations) - began[p]
    BY <2>2, CameSinceCounts
  <2>4. ASSUME NEW i \in CameSince(p)
        PROVE  \E q \in Requests \ {p} : Creates(q) /\ effect[q] = i
    <3>1. i \in RowIds /\ i # 0
      BY <2>2 DEF CameSince, RowIds
    <3>2. PICK q \in Requests : Creators(i) = {q}
      BY <1>2, <3>1 DEF AttemptsInv, AnswersInv, AuthorsOK
    <3>3. Creates(q) /\ effect[q] = i
      BY <3>2 DEF Creators
    <3> QED BY <2>2, <3>1, <3>3
  <2>5. Len(reservations) - began[p] >=
            MaxAttempts - IF settings[req[p].restaurantId] = NoRestaurant THEN 1 ELSE 0
    BY <2>1, <2>2 DEF Disturbed
  <2> QED BY <2>3, <2>4, <2>5
<1>3. AttemptsInv /\ [Next]_vars => [\A p \in Requests : Beaten(p)]_vars
  BY <1>2
<1> QED BY InitAnswers, NextAttempts, <1>3, PTL DEF Spec, ContentionIsProgress

-------------------------------------------------------------------------------
(* Rows: who changes them, and whose they are.                             *)

\* What a step may do to the table: insert a row, cancel one, or leave it alone.
LEMMA TableSteps ==
    ASSUME TypeInv, [Next]_vars
    PROVE  \/ UNCHANGED reservations
           \/ \E p \in Requests : Insert(p) \/ InsertUnacknowledged(p)
           \/ \E p \in Requests : CancelConfirmed(p) \/ UpdateUnacknowledged(p)
<1>1. ASSUME NEW p \in Requests, Submit(p) \/ Handle(p)
      PROVE  \/ UNCHANGED reservations
             \/ Insert(p) \/ InsertUnacknowledged(p)
             \/ CancelConfirmed(p) \/ UpdateUnacknowledged(p)
  BY <1>1, QuietHandler DEF Handle
<1>2. CASE \/ \E r \in Restaurants : PatchSettings(r) \/ DeleteRestaurant(r)
           \/ Tick \/ UNCHANGED vars
  BY <1>2, EnvironmentStep
<1> QED BY <1>1, <1>2 DEF Next

\* Whatever happens between an insert's check and its commit, and however deletions
\* interleave, no reservation is left without its restaurant.
LEMMA NextOrphans == TypeInv /\ NoOrphans /\ [Next]_vars => NoOrphans'
<1> SUFFICES ASSUME TypeInv, NoOrphans, [Next]_vars PROVE NoOrphans'
  OBVIOUS
<1>1. /\ reservations \in Seq(Row) /\ TypeOK
      /\ settings \in [Restaurants -> AllSettings \cup {NoRestaurant}]
      /\ \A i \in RowIds : reservations[i].restaurantId \in Restaurants
  <2>1. \A i \in RowIds : reservations[i] \in Row
    BY DEF TypeInv, TypeOK, RowIds
  <2> QED BY <2>1 DEF TypeInv, TypeOK, Row
<1>2. ASSUME NEW p \in Requests, Insert(p) \/ InsertUnacknowledged(p) PROVE NoOrphans'
  <2>1. /\ reservations' = Append(reservations, NewRow(p)) /\ settings' = settings
        /\ settings[req[p].restaurantId] # NoRestaurant
    BY <1>2 DEF Insert, InsertUnacknowledged, CommitInsert, Serializable
  <2>2. NewRow(p).restaurantId = req[p].restaurantId
    BY DEF NewRow
  <2> QED BY <1>1, <2>1, <2>2 DEF NoOrphans, RowIds
<1>3. ASSUME NEW p \in Requests, CancelConfirmed(p) \/ UpdateUnacknowledged(p) PROVE NoOrphans'
  <2> DEFINE id == req[p].reservationId
  <2>1. /\ reservations' = [reservations EXCEPT ![id].status = "cancelled"] /\ settings' = settings
        /\ id \in RowIds
    BY <1>3 DEF CancelConfirmed, UpdateUnacknowledged, UpdateConfirmed, TypeInv, HandlersOK, Owns
  <2> HIDE DEF id
  <2>2. [reservations[id] EXCEPT !.status = "cancelled"].restaurantId = reservations[id].restaurantId
    <3>1. reservations[id] \in Row
      BY <1>1, <2>1 DEF RowIds
    <3> QED BY <3>1 DEF Row
  <2>3. ASSUME NEW i \in RowIds PROVE reservations'[i].restaurantId = reservations[i].restaurantId
    BY <1>1, <2>1, <2>2 DEF RowIds
  <2>4. RowIds' = RowIds
    BY <1>1, <2>1 DEF RowIds
  <2> QED BY <2>1, <2>3, <2>4 DEF NoOrphans
<1>4. CASE UNCHANGED reservations
  <2>1. ASSUME NEW r \in Restaurants, settings[r] # NoRestaurant,
               \E i \in RowIds : reservations[i].restaurantId = r
        PROVE  settings'[r] # NoRestaurant
    <3>1. ASSUME NEW x \in Restaurants, PatchSettings(x) PROVE settings'[r] # NoRestaurant
      <4>1. PICK new \in AllSettings : settings' = [settings EXCEPT ![x] = new]
        BY <3>1 DEF PatchSettings
      <4>2. new # NoRestaurant
        BY SettingsAssumption DEF AllSettings
      <4> QED BY <1>1, <2>1, <4>1, <4>2
    <3>2. ASSUME NEW x \in Restaurants, DeleteRestaurant(x) PROVE settings'[r] # NoRestaurant
      BY <1>1, <2>1, <3>2 DEF DeleteRestaurant
    <3>3. ASSUME NEW p \in Requests, Submit(p) \/ Handle(p) PROVE settings' = settings
      <4>1. CASE \/ Insert(p) \/ InsertUnacknowledged(p)
                 \/ CancelConfirmed(p) \/ UpdateUnacknowledged(p)
        BY <4>1 DEF Insert, InsertUnacknowledged, CommitInsert, CancelConfirmed,
                    UpdateUnacknowledged, UpdateConfirmed
      <4> QED BY <3>3, <4>1, QuietHandler DEF Handle
    <3>4. CASE Tick \/ UNCHANGED vars
      BY <2>1, <3>4 DEF Tick, vars, db
    <3> QED BY <2>1, <3>1, <3>2, <3>3, <3>4 DEF Next
  <2> QED BY <1>1, <1>4, <2>1 DEF NoOrphans, RowIds
<1> QED BY <1>2, <1>3, <1>4, TableSteps

\* A row never refers to a restaurant that is gone.
THEOREM NoOrphansEver == Spec => []NoOrphans
<1>1. Init => TypeInv /\ NoOrphans
  BY InitTypes DEF Init, NoOrphans, RowIds
<1>2. TypeInv /\ NoOrphans /\ [Next]_vars => (TypeInv /\ NoOrphans)'
  BY NextTypes, NextOrphans
<1>3. TypeInv /\ NoOrphans => NoOrphans
  OBVIOUS
<1> QED BY <1>1, <1>2, <1>3, PTL DEF Spec

\* No row disappears or comes back, and only a cancellation by the user who owns it
\* changes it: the ownership seen at the lookup still holds at the update.
THEOREM OwnersCancel == Spec => OnlyOwnersCancel
<1> DEFINE Kept(i) ==
        /\ i <= Len(reservations')
        /\ reservations'[i] # reservations[i] =>
               /\ Confirmed(i)
               /\ reservations'[i] = [reservations[i] EXCEPT !.status = "cancelled"]
               /\ \E p \in Requests :
                      /\ pc[p] = "update" /\ pc'[p] # "update"
                      /\ req[p].userId = reservations[i].userId
                      /\ req[p].reservationId = i
<1>1. TypeInv /\ [Next]_vars => [\A i \in RowIds : Kept(i)]_vars
  <2> SUFFICES ASSUME TypeInv, [Next]_vars, NEW i \in RowIds PROVE Kept(i)
    OBVIOUS
  <2>1. /\ reservations \in Seq(Row) /\ i \in 1..Len(reservations) /\ Len(reservations) \in Nat
        /\ pc \in [Requests -> {"idle", "transaction", "insert", "lookup", "update", "reread", "done"}]
    BY DEF TypeInv, TypeOK, RowIds
  <2>2. CASE UNCHANGED reservations
    BY <2>1, <2>2
  <2>3. ASSUME NEW p \in Requests, Insert(p) \/ InsertUnacknowledged(p) PROVE Kept(i)
    BY <2>1, <2>3 DEF Insert, InsertUnacknowledged, CommitInsert
  <2>4. ASSUME NEW p \in Requests, CancelConfirmed(p) \/ UpdateUnacknowledged(p) PROVE Kept(i)
    <3> DEFINE id == req[p].reservationId
    <3>1. /\ reservations' = [reservations EXCEPT ![id].status = "cancelled"]
          /\ pc[p] = "update" /\ pc'[p] # "update" /\ Confirmed(id)
          /\ id \in RowIds /\ reservations[id].userId = req[p].userId
      BY <2>1, <2>4 DEF CancelConfirmed, UpdateUnacknowledged, UpdateConfirmed, Goto, Answer,
                        TypeInv, HandlersOK, Owns
    <3>2. Len(reservations') = Len(reservations)
      BY <2>1, <3>1
    <3>3. CASE i = id
      BY <2>1, <3>1, <3>2, <3>3
    <3>4. CASE i # id
      BY <2>1, <3>1, <3>2, <3>4
    <3> QED BY <3>3, <3>4
  <2> QED BY <2>2, <2>3, <2>4, TableSteps
<1> QED BY InitTypes, NextTypes, <1>1, PTL DEF Spec, OnlyOwnersCancel

-------------------------------------------------------------------------------
(* The book of seats.  The refinement mapping, by names.                   *)

Taken == [s \in Slots |-> SeatsTaken(s[1], s[2], s[3])]
Limits == [s \in Slots |-> LimitsOf(s[1], s[2], s[3])]
Verdicts == [p \in Requests |-> VerdictOf(p)]

\* Cancelling a confirmed row gives its party back to its slot, and to no other.
LEMMA SeatsReleased ==
    ASSUME NEW table \in Seq(Row), NEW id \in 1..Len(table), table[id].status = "confirmed",
           NEW less \in Seq(Row), Len(less) = Len(table), less[id].status = "cancelled",
           \A i \in 1..Len(table) : i # id => less[i] = table[i],
           NEW r, NEW date, NEW time
    PROVE  SeatsIn(table, r, date, time) =
               SeatsIn(less, r, date, time) +
               (IF /\ r = table[id].restaurantId /\ date = table[id].date
                   /\ time = table[id].time
                THEN table[id].partySize ELSE 0)
<1> DEFINE kept == Hits(less, r, date, time)
           n == [i \in kept |-> less[i].partySize]
           m == [i \in Hits(table, r, date, time) |-> table[i].partySize]
<1>1. table[id] \in Row
  OBVIOUS
<1>2. table[id].partySize \in Nat
  BY <1>1, BoundsAssumption DEF Row, PartySizes
<1>3. /\ SeatsIn(less, r, date, time) = Total(n) /\ SeatsIn(table, r, date, time) = Total(m)
      /\ IsFiniteSet(kept) /\ n \in [kept -> Nat]
  BY HitsFinite DEF SeatsIn
<1>4. id \notin kept /\ \A i \in kept : i \in 1..Len(table) /\ less[i] = table[i]
  BY DEF Hits
<1>5. CASE r = table[id].restaurantId /\ date = table[id].date /\ time = table[id].time
  <2>1. Hits(table, r, date, time) = kept \cup {id}
    BY <1>5 DEF Hits
  <2>2. /\ DOMAIN m = kept \cup {id} /\ m[id] = table[id].partySize
        /\ DOMAIN n = kept /\ \A i \in kept : m[i] = n[i]
    BY <1>4, <2>1
  <2> HIDE DEF m, n, kept
  <2>3. /\ IsFiniteSet(DOMAIN n) /\ n \in [DOMAIN n -> Nat] /\ id \notin DOMAIN n
        /\ DOMAIN m = DOMAIN n \cup {id} /\ m[id] \in Nat
        /\ \A i \in DOMAIN n : m[i] = n[i]
    BY <1>2, <1>3, <1>4, <2>2
  <2>4. Total(m) = Total(n) + m[id]
    BY <2>3, TotalAdd
  <2> QED BY <1>3, <1>5, <2>2, <2>4
<1>6. CASE ~(r = table[id].restaurantId /\ date = table[id].date /\ time = table[id].time)
  <2>1. Hits(table, r, date, time) = kept
    BY <1>6 DEF Hits
  <2>2. m = n
    BY <1>4, <2>1
  <2>3. Total(n) \in Nat
    BY <1>3, TotalType
  <2> HIDE DEF m, n, kept
  <2> QED BY <1>3, <1>6, <2>2, <2>3
<1> QED BY <1>5, <1>6

\* Limits are numbers of seats, whatever has been published.
LEMMA LimitsType == Limits \in [Slots -> SUBSET Int] /\ Limits' \in [Slots -> SUBSET Int]
<1>1. ASSUME NEW s \in Settings, NEW date \in Dates, NEW time \in Times
      PROVE  SeatsOffered[s][<<date, time>>] \in SUBSET Int
  <2>1. /\ SeededReservedSeats(s, date, time) \in Nat /\ s.defaultSlotCapacity \in Nat
        /\ <<date, time>> \in Dates \X Times /\ <<date, time>>[1] = date /\ <<date, time>>[2] = time
    BY SeededType
  <2> QED BY <2>1 DEF SeatsOffered
<1>2. ASSUME NEW P, NEW slot \in Slots
      PROVE  UNION {SeatsOffered[s][<<slot[2], slot[3]>>] : s \in P \cap Settings} \in SUBSET Int
  <2>1. slot[2] \in Dates /\ slot[3] \in Times
    BY DEF Slots
  <2> QED BY <1>1, <2>1
<1> QED BY <1>2 DEF Limits, LimitsOf

\* Settings that offer a number of seats set a limit that allows it.
LEMMA OfferIsLimit ==
    ASSUME NEW r \in Restaurants, NEW date \in Dates, NEW time \in Times, NEW n \in Nat,
           NEW s \in published[r], Offers(s, date, time, n)
    PROVE  \E limit \in Limits[<<r, date, time>>] : n <= limit
<1> DEFINE limit == s.defaultSlotCapacity - SeededReservedSeats(s, date, time)
           slot == <<r, date, time>>
<1>1. s \in Settings /\ time \in SlotTimes(s)
      /\ SeededReservedSeats(s, date, time) + n <= s.defaultSlotCapacity
  BY DEF Offers
<1>2. SeededReservedSeats(s, date, time) \in Nat /\ s.defaultSlotCapacity \in Nat
  BY <1>1, SeededType
<1>3. /\ <<date, time>> \in Dates \X Times
      /\ <<date, time>>[1] = date /\ <<date, time>>[2] = time
  OBVIOUS
<1>4. SeatsOffered[s][<<date, time>>] = {limit}
  BY <1>1, <1>3 DEF SeatsOffered
<1>5. slot \in Slots /\ slot[1] = r /\ slot[2] = date /\ slot[3] = time
  BY DEF Slots
<1>6. Limits[slot] = LimitsOf(r, date, time)
  BY <1>5 DEF Limits
<1> HIDE DEF slot
<1>7. limit \in LimitsOf(r, date, time)
  BY <1>1, <1>4 DEF LimitsOf
<1>8. n <= limit
  BY <1>1, <1>2
<1> QED BY <1>6, <1>7, <1>8 DEF slot

\* Verdicts follow the await a request is at and its answer.
LEMMA VerdictIs ==
    ASSUME NEW p \in Requests
    PROVE  /\ pc[p] # "reread" /\ outcome[p] = "pending" => VerdictOf(p) = "open"
           /\ pc[p] = "reread" /\ outcome[p] = "pending" => VerdictOf(p) = "released"
           /\ outcome[p] = "cancelled" => VerdictOf(p) = "released"
           /\ pc[p] = "done" /\ outcome[p] = "created" => VerdictOf(p) = "booked"
           /\ pc[p] = "done" /\ outcome[p] = "error" => VerdictOf(p) = "failed"
           /\ pc[p] = "done" /\ outcome[p] \in Refusals => VerdictOf(p) = "refused"
BY DEF VerdictOf, Refusals, Outcomes

\* An insert books its party at its slot, inside a published limit.
LEMMA InsertBooks ==
    ASSUME BookingInv, NEW p \in Requests, CommitInsert(p)
    PROVE  \E slot \in Slots, n \in 1..MaxPartySize :
               /\ \E limit \in Limits[slot] : Taken[slot] + n <= limit
               /\ Taken' = [Taken EXCEPT ![slot] = @ + n]
<1> USE DEF BookingInv
<1> DEFINE q == req[p]
           slot == <<q.restaurantId, q.date, q.time>>
           n == q.partySize
<1>1. /\ q \in CreateRequest /\ reservations' = Append(reservations, NewRow(p))
      /\ reservations \in Seq(Row) /\ pc[p] = "insert" /\ Unchallenged(p)
  BY DEF CommitInsert, HandlersOK, TypeOK, Serializable
<1>2. /\ slot \in Slots /\ slot[1] = q.restaurantId /\ slot[2] = q.date /\ slot[3] = q.time
      /\ n \in 1..MaxPartySize /\ n \in Nat
  BY <1>1, BoundsAssumption DEF Slots, CreateRequest, PartySizes
<1>3. /\ NewRow(p) \in Row /\ NewRow(p).status = "confirmed"
      /\ NewRow(p).restaurantId = q.restaurantId /\ NewRow(p).date = q.date
      /\ NewRow(p).time = q.time /\ NewRow(p).partySize = n
  BY <1>1 DEF NewRow, Row, CreateRequest
<1>4. Taken[slot] \in Nat /\ Taken[slot] = SeatsTaken(q.restaurantId, q.date, q.time)
  BY <1>1, <1>2, SeatsTakenIn, SeatsType DEF Taken
<1>5. \E limit \in Limits[slot] : Taken[slot] + n <= limit
  <2>1. /\ offer[p] \in published[q.restaurantId]
        /\ Offers(offer[p], q.date, q.time, Taken[slot] + n)
    BY <1>1, <1>4 DEF PendingInsertsFit
  <2>2. q.restaurantId \in Restaurants /\ q.date \in Dates /\ q.time \in Times
        /\ Taken[slot] + n \in Nat
    BY <1>1, <1>2, <1>4 DEF CreateRequest
  <2> HIDE DEF q
  <2> QED BY <2>1, <2>2, OfferIsLimit
<1>6. ASSUME NEW s \in Slots
      PROVE  Taken'[s] = IF s = slot THEN Taken[slot] + n ELSE Taken[s]
  <2>1. /\ Taken'[s] = SeatsIn(reservations', s[1], s[2], s[3])
        /\ Taken[s] = SeatsIn(reservations, s[1], s[2], s[3])
    BY SeatsTakenIn DEF Taken
  <2>2. SeatsIn(reservations', s[1], s[2], s[3]) =
            SeatsIn(reservations, s[1], s[2], s[3]) +
            (IF s[1] = q.restaurantId /\ s[2] = q.date /\ s[3] = q.time THEN n ELSE 0)
    BY <1>1, <1>3, SeatsAppend
  <2>3. SeatsIn(reservations, s[1], s[2], s[3]) \in Nat
    BY <1>1, SeatsType
  <2>4. s = slot <=> s[1] = q.restaurantId /\ s[2] = q.date /\ s[3] = q.time
    BY <1>2 DEF Slots
  <2> HIDE DEF slot, n, q
  <2> QED BY <2>1, <2>2, <2>3, <2>4
<1> HIDE DEF slot, n
<1>7. Taken' = [Taken EXCEPT ![slot] = @ + n]
  BY <1>6 DEF Taken
<1> QED BY <1>2, <1>5, <1>7

\* An update gives the party of its row back.
LEMMA UpdateReleases ==
    ASSUME BookingInv, NEW p \in Requests, UpdateConfirmed(p)
    PROVE  \E slot \in Slots, n \in 1..MaxPartySize :
               /\ n <= Taken[slot]
               /\ Taken' = [Taken EXCEPT ![slot] = @ - n]
<1> USE DEF BookingInv
<1> DEFINE id == req[p].reservationId
           row == reservations[id]
           slot == <<row.restaurantId, row.date, row.time>>
           n == row.partySize
<1>1. /\ reservations' = [reservations EXCEPT ![id].status = "cancelled"]
      /\ reservations \in Seq(Row) /\ id \in 1..Len(reservations)
      /\ reservations[id].status = "confirmed"
  BY DEF UpdateConfirmed, HandlersOK, TypeOK, Owns, RowIds, Confirmed
<1> HIDE DEF id
<1>2. /\ row \in Row /\ reservations' \in Seq(Row)
      /\ Len(reservations') = Len(reservations)
      /\ reservations'[id].status = "cancelled"
      /\ \A i \in 1..Len(reservations) : i # id => reservations'[i] = reservations[i]
  <2>1. row \in Row
    BY <1>1
  <2>2. /\ [row EXCEPT !.status = "cancelled"] \in Row
        /\ [row EXCEPT !.status = "cancelled"].status = "cancelled"
    BY <2>1 DEF Row
  <2> QED BY <1>1, <2>1, <2>2
<1>3. ASSUME NEW r, NEW d, NEW t
      PROVE  SeatsIn(reservations, r, d, t) =
                 SeatsIn(reservations', r, d, t) +
                 (IF r = row.restaurantId /\ d = row.date /\ t = row.time THEN n ELSE 0)
  <2>1. /\ reservations \in Seq(Row) /\ id \in 1..Len(reservations)
        /\ reservations[id].status = "confirmed"
    BY <1>1
  <2> QED BY <1>2, <2>1, SeatsReleased
<1>4. /\ slot \in Slots /\ slot[1] = row.restaurantId /\ slot[2] = row.date /\ slot[3] = row.time
      /\ n \in 1..MaxPartySize /\ n \in Nat
  BY <1>2, BoundsAssumption DEF Slots, Row, PartySizes
<1>5. ASSUME NEW s \in Slots
      PROVE  /\ Taken'[s] = IF s = slot THEN Taken[slot] - n ELSE Taken[s]
             /\ s = slot => n <= Taken[slot]
  <2>1. /\ Taken'[s] = SeatsIn(reservations', s[1], s[2], s[3])
        /\ Taken[s] = SeatsIn(reservations, s[1], s[2], s[3])
    BY SeatsTakenIn DEF Taken
  <2>2. SeatsIn(reservations, s[1], s[2], s[3]) =
            SeatsIn(reservations', s[1], s[2], s[3]) +
            (IF s[1] = row.restaurantId /\ s[2] = row.date /\ s[3] = row.time THEN n ELSE 0)
    BY <1>3
  <2>3. SeatsIn(reservations, s[1], s[2], s[3]) \in Nat
        /\ SeatsIn(reservations', s[1], s[2], s[3]) \in Nat
    BY <1>1, <1>2, SeatsType
  <2>4. s = slot <=> s[1] = row.restaurantId /\ s[2] = row.date /\ s[3] = row.time
    BY <1>4 DEF Slots
  <2> HIDE DEF slot, n, row
  <2> QED BY <1>4, <2>1, <2>2, <2>3, <2>4
<1> HIDE DEF slot, n, row
<1>6. Taken' = [Taken EXCEPT ![slot] = @ - n]
  BY <1>5 DEF Taken
<1> QED BY <1>4, <1>5, <1>6

\* A request decides by itself: the other verdicts stay.
LEMMA VerdictMoves ==
    ASSUME NEW p \in Requests, NEW v, VerdictOf(p)' = v,
           \A k \in Requests \ {p} : UNCHANGED <<pc[k], outcome[k]>>
    PROVE  Verdicts' = [Verdicts EXCEPT ![p] = v]
<1>1. \A k \in Requests \ {p} : VerdictOf(k)' = VerdictOf(k)
  BY DEF VerdictOf
<1> QED BY <1>1 DEF Verdicts

\* The book stays as it is when the table and what was published do.
LEMMA SameBook ==
    /\ UNCHANGED reservations => UNCHANGED Taken
    /\ UNCHANGED published => UNCHANGED Limits
    /\ UNCHANGED <<pc, outcome>> => UNCHANGED Verdicts
<1>1. ASSUME UNCHANGED reservations PROVE UNCHANGED Taken
  BY <1>1, SeatsTakenIn DEF Taken
<1>2. ASSUME UNCHANGED published PROVE UNCHANGED Limits
  BY <1>2 DEF Limits, LimitsOf
<1>3. ASSUME UNCHANGED <<pc, outcome>> PROVE UNCHANGED Verdicts
  BY <1>3 DEF Verdicts, VerdictOf
<1> QED BY <1>1, <1>2, <1>3

\* The book starts empty, with every verdict open.
LEMMA InitBook == Init => Book!Init
<1> SUFFICES ASSUME Init PROVE Book!Init
  OBVIOUS
<1>1. Taken = [s \in Slots |-> 0]
  <2>1. ASSUME NEW r, NEW d, NEW t PROVE SeatsTaken(r, d, t) = 0
    <3>1. Hits(reservations, r, d, t) = {}
      BY DEF Init, Hits
    <3>2. SeatsOf([i \in {} |-> reservations[i].partySize]) = {}
      BY DEF SeatsOf
    <3>3. SeatsIn(reservations, r, d, t) = 0
      BY <3>1, <3>2, FS_EmptySet DEF SeatsIn, Total
    <3> QED BY <3>3, SeatsTakenIn
  <2> QED BY <2>1 DEF Taken
<1>2. Verdicts = [p \in Requests |-> "open"]
  BY VerdictIs DEF Init, Verdicts
<1> QED BY <1>1, <1>2, LimitsType DEF Book!Init, Taken, Limits, Verdicts

\* A handler's step is one step of the book, or none.
LEMMA HandlerBook ==
    ASSUME BookingInv, AnswersInv, NEW p \in Requests, Submit(p) \/ Handle(p)
    PROVE  Book!Refuse(p) \/ Book!Fail(p) \/ Book!Book(p) \/ Book!Release(p)
           \/ UNCHANGED <<Taken, Limits, Verdicts>>
<1>1. /\ pc \in [Requests -> {"idle", "transaction", "insert", "lookup", "update", "reread", "done"}]
      /\ outcome \in [Requests -> Outcomes]
      /\ EffectOK(p)
  BY DEF BookingInv, AnswersInv, TypeOK
<1>2. ASSUME NEW l, Goto(p, l) \/ Answer(p, l)
      PROVE  \A k \in Requests \ {p} : UNCHANGED <<pc[k], outcome[k]>>
  BY <1>1, <1>2 DEF Goto, Answer
<1>3. ASSUME NEW o, Answer(p, o), o \in Outcomes PROVE pc'[p] = "done" /\ outcome'[p] = o
  BY <1>1, <1>3 DEF Answer
<1>4. ASSUME NEW o, Answer(p, o) PROVE VerdictOf(p)' =
          CASE o = "cancelled" -> "released" [] o = "pending" -> "open"
            [] o = "created" -> "booked" [] o = "error" -> "failed" [] OTHER -> "refused"
  BY <1>1, <1>4 DEF Answer, VerdictOf
<1>5. ASSUME pc[p] \in {"idle", "transaction", "insert", "lookup", "update"}
      PROVE  VerdictOf(p) = "open"
  BY <1>1, <1>5, VerdictIs DEF EffectOK
<1>6. ASSUME pc[p] = "reread" PROVE VerdictOf(p) = "released"
  BY <1>1, <1>6, VerdictIs DEF EffectOK
<1>7. Verdicts[p] = VerdictOf(p)
  BY DEF Verdicts
<1>8. CASE Insert(p) \/ InsertUnacknowledged(p)
  <2>1. /\ CommitInsert(p) /\ pc[p] = "insert" /\ UNCHANGED published
        /\ Answer(p, "created") \/ Answer(p, "error")
    BY <1>8 DEF Insert, InsertUnacknowledged, CommitInsert
  <2>2. PICK v \in {"booked", "failed"} : Verdicts' = [Verdicts EXCEPT ![p] = v]
    <3>1. VerdictOf(p)' \in {"booked", "failed"}
      BY <1>4, <2>1
    <3> QED BY <1>2, <2>1, <3>1, VerdictMoves
  <2>3. Verdicts[p] = "open" /\ UNCHANGED Limits
    BY <1>5, <1>7, <2>1, SameBook
  <2>4. \E slot \in Slots, n \in 1..MaxPartySize :
            /\ \E limit \in Limits[slot] : Taken[slot] + n <= limit
            /\ Taken' = [Taken EXCEPT ![slot] = @ + n]
    BY <2>1, InsertBooks
  <2>5. Book!Book(p)
    BY <2>2, <2>3, <2>4 DEF Book!Book, Book!Decide, Taken, Limits, Verdicts
  <2> QED BY <2>5
<1>9. CASE CancelConfirmed(p) \/ UpdateUnacknowledged(p)
  <2>1. /\ UpdateConfirmed(p) /\ pc[p] = "update" /\ UNCHANGED published
        /\ Goto(p, "reread") \/ Answer(p, "error")
    BY <1>9 DEF CancelConfirmed, UpdateUnacknowledged, UpdateConfirmed
  <2>2. PICK v \in {"released", "failed"} : Verdicts' = [Verdicts EXCEPT ![p] = v]
    <3>1. VerdictOf(p)' \in {"released", "failed"}
      <4>1. CASE Goto(p, "reread")
        BY <1>1, <2>1, <4>1 DEF Goto, VerdictOf, EffectOK
      <4>2. CASE Answer(p, "error")
        BY <1>4, <4>2
      <4> QED BY <2>1, <4>1, <4>2
    <3> QED BY <1>2, <2>1, <3>1, VerdictMoves
  <2>3. Verdicts[p] = "open" /\ UNCHANGED Limits
    BY <1>5, <1>7, <2>1, SameBook
  <2>4. \E slot \in Slots, n \in 1..MaxPartySize :
            /\ n <= Taken[slot]
            /\ Taken' = [Taken EXCEPT ![slot] = @ - n]
    BY <2>1, UpdateReleases
  <2>5. Book!Release(p)
    BY <2>2, <2>3, <2>4 DEF Book!Release, Book!Decide, Taken, Limits, Verdicts
  <2> QED BY <2>5
<1>10. CASE ~(Insert(p) \/ InsertUnacknowledged(p) \/ CancelConfirmed(p) \/ UpdateUnacknowledged(p))
  <2>1. /\ UNCHANGED <<reservations, published>>
        /\ \/ /\ pc[p] \in {"idle", "transaction", "insert", "lookup", "update"}
              /\ \/ \E l \in {"transaction", "insert", "lookup", "update"} : Goto(p, l)
                 \/ \E o \in Refusals \cup {"error"} : Answer(p, o)
           \/ pc[p] = "reread" /\ (Answer(p, "cancelled") \/ Answer(p, "error"))
    BY <1>10, QuietHandler DEF Handle
  <2>2. UNCHANGED <<Taken, Limits>>
    BY <2>1, SameBook
  <2>3. ASSUME VerdictOf(p) \in {"open", "released"}, Answer(p, "error") PROVE Book!Fail(p)
    <3>1. Verdicts' = [Verdicts EXCEPT ![p] = "failed"]
      BY <1>2, <1>4, <2>3, VerdictMoves
    <3> QED BY <1>7, <2>2, <2>3, <3>1 DEF Book!Fail, Taken, Limits, Verdicts
  <2>4. ASSUME VerdictOf(p)' = VerdictOf(p), NEW l, Goto(p, l) \/ Answer(p, l)
        PROVE  UNCHANGED Verdicts
    <3>1. Verdicts' = [Verdicts EXCEPT ![p] = Verdicts[p]]
      BY <1>2, <1>7, <2>4, VerdictMoves
    <3> QED BY <3>1 DEF Verdicts
  <2>5. CASE \E l \in {"transaction", "insert", "lookup", "update"} : Goto(p, l)
    <3>1. PICK l \in {"transaction", "insert", "lookup", "update"} : Goto(p, l)
      BY <2>5
    <3>2. CASE pc[p] \in {"idle", "transaction", "insert", "lookup", "update"}
      <4>1. VerdictOf(p)' = "open"
        BY <1>1, <3>1, <3>2 DEF Goto, VerdictOf, EffectOK
      <4> QED BY <1>5, <2>2, <2>4, <3>1, <3>2, <4>1
    <3> QED BY <1>6, <2>1, <2>2, <2>3, <2>4, <3>2, <1>4
  <2>6. CASE /\ pc[p] \in {"idle", "transaction", "insert", "lookup", "update"}
             /\ \E o \in Refusals : Answer(p, o)
    <3>1. PICK o \in Refusals : Answer(p, o)
      BY <2>6
    <3>2. VerdictOf(p)' = "refused"
      BY <1>4, <3>1 DEF Refusals
    <3>3. Verdicts' = [Verdicts EXCEPT ![p] = "refused"] /\ Verdicts[p] = "open"
      BY <1>2, <1>5, <1>7, <2>6, <3>1, <3>2, VerdictMoves
    <3>4. Book!Refuse(p)
      BY <2>2, <3>3 DEF Book!Refuse, Book!Decide, Taken, Limits, Verdicts
    <3> QED BY <3>4
  <2>7. CASE pc[p] \in {"idle", "transaction", "insert", "lookup", "update"} /\ Answer(p, "error")
    BY <1>5, <2>3, <2>7
  <2>8. CASE pc[p] = "reread" /\ Answer(p, "error")
    BY <1>6, <2>3, <2>8
  <2>9. CASE pc[p] = "reread" /\ Answer(p, "cancelled")
    BY <1>4, <1>6, <2>2, <2>4, <2>9
  <2> QED BY <2>1, <2>5, <2>6, <2>7, <2>8, <2>9
<1> QED BY <1>8, <1>9, <1>10

\* Owners publish limits; time passes.
LEMMA EnvironmentBook ==
    ASSUME BookingInv,
           \/ \E r \in Restaurants : PatchSettings(r) \/ DeleteRestaurant(r)
           \/ Tick \/ UNCHANGED vars
    PROVE  Book!Publish \/ UNCHANGED <<Taken, Limits, Verdicts>>
<1>1. UNCHANGED <<reservations, pc, outcome>>
  BY EnvironmentStep
<1>2. UNCHANGED <<Taken, Verdicts>>
  BY <1>1, SameBook
<1>3. \A r \in Restaurants : published[r] \subseteq published'[r]
  BY DEF BookingInv, TypeOK, PatchSettings, DeleteRestaurant, Tick, vars, db
<1>4. \A s \in Slots : Limits[s] \subseteq Limits'[s]
  <2> SUFFICES ASSUME NEW s \in Slots PROVE Limits[s] \subseteq Limits'[s]
    OBVIOUS
  <2>1. s[1] \in Restaurants
    BY DEF Slots
  <2> QED BY <1>3, <2>1 DEF Limits, LimitsOf
<1>5. Book!Publish
  BY <1>2, <1>4, LimitsType DEF Book!Publish, Taken, Limits, Verdicts
<1> QED BY <1>5

\* The handlers, their transactions and retries, and the owners beside them do no
\* more than a book of seats that each request changes at most once, in one step.
THEOREM Refinement == Spec => ImplementsSlotBook
<1>1. BookingInv /\ AnswersInv /\ [Next]_vars => [Book!Next]_(Book!vars)
  <2> SUFFICES ASSUME BookingInv, AnswersInv, [Next]_vars PROVE [Book!Next]_(Book!vars)
    OBVIOUS
  <2>1. CASE UNCHANGED <<Taken, Limits, Verdicts>>
    BY <2>1 DEF Book!vars, Taken, Limits, Verdicts
  <2>2. ASSUME NEW p \in Requests, Submit(p) \/ Handle(p) PROVE [Book!Next]_(Book!vars)
    BY <2>1, <2>2, HandlerBook DEF Book!Next
  <2>3. CASE \/ \E r \in Restaurants : PatchSettings(r) \/ DeleteRestaurant(r)
             \/ Tick \/ UNCHANGED vars
    BY <2>1, <2>3, EnvironmentBook DEF Book!Next
  <2> QED BY <2>2, <2>3 DEF Next
<1>2. Init => BookingInv /\ AnswersInv
  BY InitBooking, InitAnswers DEF AttemptsInv
<1>3. BookingInv /\ AnswersInv /\ [Next]_vars => (BookingInv /\ AnswersInv)'
  BY NextBooking, NextAnswers
<1> QED BY InitBook, <1>1, <1>2, <1>3, PTL DEF Spec, ImplementsSlotBook, Book!Spec
===============================================================================
