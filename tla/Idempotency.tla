----------------------------- MODULE Idempotency -----------------------------
(***************************************************************************)
(* `Idempotency-Key' replay of POST writes (web/idempotency.rs): the table *)
(* idempotency_keys, the reservation a keyed write takes before its        *)
(* handler runs, and the answer that is kept for its retries.              *)
(*                                                                         *)
(* One call on the store is one step: it holds the connection's mutex.     *)
(* The handler and the keeping of its answer are steps of their own, so    *)
(* requests interleave between them, a client may go away, a store write   *)
(* may fail and the process may stop.                                      *)
(*                                                                         *)
(* `rows' is the table by its primary key and `older' the order of at_ms   *)
(* on its rows.  `old' stands for at_ms <= now - RETENTION_MS.  The clock  *)
(* read before a store call is taken to be the time of the call.  A kept   *)
(* row is read back as it was written.                                     *)
(***************************************************************************)
EXTENDS Naturals, FiniteSets

CONSTANTS
    Writers,       \* the requests served at one time
    Callers,        \* the credentials requests carry
    Keys,           \* the Idempotency-Keys requests carry
    Bodies,         \* method, path and body: what the fingerprint tells apart
    Secrets,        \* the bodies whose route returns_a_secret
    MaxEntries,     \* MAX_ENTRIES
    MaxFaults,      \* bound: store writes that fail, and restarts
    None

\* What a handler answers: a success, a success that sets a session cookie, a
\* client error, and the answers that are not kept (5xx, a stream or a body
\* past MAX_KEPT_RESPONSE_BYTES).
Outcomes == {"created", "cookie", "refused", "unkept"}

Reply == [caller : Callers, body : Bodies, says : {"created", "refused", "withheld"}]

scope(c, k) == <<c, k>>

Scopes == Callers \X Keys

Row == [body : Bodies, reply : Reply \cup {None}, old : BOOLEAN]

ASSUME KeysConstants ==
    /\ IsFiniteSet(Writers)
    /\ MaxEntries \in Nat
    /\ MaxFaults \in Nat
    /\ None \notin Reply \cup Row

\* A request: where it is, what it asks, and what its handler or the store
\* answered.
NoRequest == [at |-> "idle"]

Asked == [at : {"asking", "running", "wrote"},
          caller : Callers, key : Keys, body : Bodies, says : Outcomes \cup {None}]

Replayed == [at : {"replayed"}, caller : Callers, body : Bodies, reply : Reply]

VARIABLES
    rows,       \* idempotency_keys, by scope
    older,      \* the pairs of rows of which the first has the lesser at_ms
    requests,   \* the keyed POST requests in the server
    owed,       \* history: the scopes of the answers kept, not yet a day old nor evicted
    faults      \* faults met so far

keyVars == <<rows, older, requests, owed, faults>>

\* The scopes that have a row.
Has(rs) == {s \in Scopes : rs[s] # None}

\* The table is as large as MAX_ENTRIES allows, or as the requests at one time
\* and the reservations left behind make it.
TableIsBounded ==
    \/ Cardinality(Has(rows)) <= MaxEntries
    \/ Cardinality(Has(rows)) <= Cardinality(Writers) + faults

KeysTypeOK ==
    /\ rows \in [Scopes -> Row \cup {None}]
    /\ older \in SUBSET (Has(rows) \X Has(rows))
    /\ requests \in [Writers -> {NoRequest} \cup Asked \cup Replayed]
    /\ owed \in SUBSET Scopes
    /\ faults \in 0 .. MaxFaults
    /\ TableIsBounded

KeysInit ==
    /\ rows = [s \in Scopes |-> None]
    /\ older = {}
    /\ requests = [r \in Writers |-> NoRequest]
    /\ owed = {}
    /\ faults = 0

Fault ==
    /\ faults < MaxFaults
    /\ faults' = faults + 1

----------------------------------------------------------------------------
(* The store. *)

IsInFlight(row) == row.reply = None

Scope(q) == scope(q.caller, q.key)

Reservations(rs) == {s \in Has(rs) : IsInFlight(rs[s])}

Finished(rs) == Has(rs) \ Reservations(rs)

\* DELETE: the rows of `gone' are no more.
Without(rs, gone) == [s \in Scopes |-> IF s \in gone THEN None ELSE rs[s]]

\* DELETE ... WHERE at_ms <= now - RETENTION_MS
Expire(rs) == Without(rs, {s \in Has(rs) : rs[s].old})

\* ORDER BY at_ms LIMIT kept - MAX_ENTRIES + 1, of the rows `of': the ones
\* with at most kept - MAX_ENTRIES of those rows before them.
First(rs, of) ==
    {s \in of : MaxEntries + Cardinality({t \in of : <<t, s>> \in older}) <= Cardinality(Has(rs))}

\* The oldest finished answers, as many as leave room for one more row.
Oldest(rs) == First(rs, Finished(rs))

\* Mutant: no answer is evicted.
MutantUnbounded(rs) == rs

\* Mutant: the oldest rows make room, reservations too.
MutantEvictFinished(rs) == Without(rs, First(rs, Has(rs)))

EvictFinished(rs) == Without(rs, Oldest(rs))

Insert(rs, s, b) == [rs EXCEPT ![s] = [body |-> b, reply |-> None, old |-> FALSE]]

\* UPDATE ... SET at_ms, status, headers, body WHERE scope AND status IS NULL
Keep(rs, s, reply) ==
    IF s \in Reservations(rs) THEN [rs EXCEPT ![s].reply = reply, ![s].old = FALSE] ELSE rs

\* Mutant: a kept answer is released like a reservation.
MutantRelease(rs, s) == Without(rs, {s})

\* DELETE ... WHERE scope AND status IS NULL
release(rs, s) == Without(rs, Reservations(rs) \cap {s})

\* The rows become rs, and at_ms is now for the ones in `touched': they are
\* the newest.
Store(rs, touched) ==
    LET rest == Has(rs) \ touched
    IN  /\ rows' = rs
        /\ older' = (older \cap (rest \X rest)) \cup (rest \X touched)

\* Mutant: the fingerprint is not compared.
MutantAnswer(row, b) == IF IsInFlight(row) THEN "in_flight" ELSE "replay"

\* What try_reserve makes of the row its key already has.
Answer(row, b) ==
    IF row.body # b THEN "reused" ELSE IF IsInFlight(row) THEN "in_flight" ELSE "replay"

----------------------------------------------------------------------------
(* The middleware. *)

Goto(r, q) == requests' = [requests EXCEPT ![r] = q]

\* A keyed POST arrives, a first attempt or a retry.
Send(r) ==
    /\ requests[r].at \in {"idle", "replayed"}
    /\ \E c \in Callers, k \in Keys, b \in Bodies :
          Goto(r, [at |-> "asking", caller |-> c, key |-> k, body |-> b, says |-> None])
    /\ UNCHANGED <<rows, older, owed, faults>>

\* The answers of `owed' that a step evicts to make room.
Evict(gone) == owed' = owed \ gone

\* reserve finds the key: the request is answered without its handler, with
\* the kept reply or with a refusal.
ReserveFound(r) ==
    /\ requests[r].at = "asking"
    /\ LET q == requests[r]
           rs == Expire(rows)
       IN  /\ Scope(q) \in Has(rs)
           /\ Store(rs, {})
           /\ Goto(r, IF Answer(rs[Scope(q)], q.body) = "replay"
                      THEN [at |-> "replayed", caller |-> q.caller, body |-> q.body,
                            reply |-> rs[Scope(q)].reply]
                      ELSE NoRequest)
    /\ UNCHANGED <<owed, faults>>

\* reserve inserts the key, and the handler is run.
ReserveNew(r) ==
    /\ requests[r].at = "asking"
    /\ LET q == requests[r]
           rs == Expire(rows)
       IN  /\ Scope(q) \notin Has(rs)
           /\ Store(Insert(EvictFinished(rs), Scope(q), q.body), {Scope(q)})
           /\ Evict(Oldest(rs))
           /\ Goto(r, [q EXCEPT !.at = "running"])
    /\ UNCHANGED faults

\* A statement of try_reserve fails, the ones before it having been applied:
\* Unavailable, and the handler is not run.
ReserveFails(r) ==
    /\ requests[r].at = "asking"
    /\ Fault
    /\ LET rs == Expire(rows)
       IN  \/ UNCHANGED <<rows, older, owed>>
           \/ Store(rs, {}) /\ UNCHANGED owed
           \/ /\ Scope(requests[r]) \notin Has(rs)
              /\ Store(EvictFinished(rs), {})
              /\ Evict(Oldest(rs))
    /\ Goto(r, NoRequest)

\* The handler answers.
Run(r) ==
    /\ requests[r].at = "running"
    /\ \E o \in Outcomes : Goto(r, [requests[r] EXCEPT !.at = "wrote", !.says = o])
    /\ UNCHANGED <<rows, older, owed, faults>>

\* The reply kept for the retries of a write: a success that held a secret is
\* replaced by secret_withheld_reply.
KeptReply(q) ==
    [caller |-> q.caller, body |-> q.body,
     says |-> IF q.says = "refused" THEN "refused"
              ELSE IF q.body \in Secrets \/ q.says = "cookie" THEN "withheld" ELSE "created"]

\* store.keep writes the answer over the reservation; the Reserved dropped on
\* return, with no await in between, releases nothing that is kept.
KeepReply(r) ==
    /\ requests[r].at = "wrote"
    /\ requests[r].says # "unkept"
    /\ LET q == requests[r]
       IN  /\ Store(release(Keep(rows, Scope(q), KeptReply(q)), Scope(q)),
                    Reservations(rows) \cap {Scope(q)})
           /\ owed' = owed \cup {Scope(q)}
    /\ Goto(r, NoRequest)
    /\ UNCHANGED faults

\* The request ends with no answer kept and its Reserved is dropped: the answer
\* is not one to keep, the write of keep failed (its result is ignored), the
\* client went away or the handler panicked, before or after its write.
Drop(r) ==
    /\ requests[r].at \in {"running", "wrote"}
    /\ Store(release(rows, Scope(requests[r])), {})
    /\ Goto(r, NoRequest)
    /\ UNCHANGED <<owed, faults>>

\* The release fails: its result is ignored and the reservation stays.
DropFails(r) ==
    /\ requests[r].at \in {"running", "wrote"}
    /\ Fault
    /\ Goto(r, NoRequest)
    /\ UNCHANGED <<rows, older, owed>>

Holds(r) == requests[r].at \in {"running", "wrote"}

\* The oldest row that is not yet a day old becomes so.  No request lasts a
\* day: a row whose request is still in the server does not age.
Age ==
    \E s \in Has(rows) :
       /\ ~rows[s].old
       /\ \A t \in Has(rows) : <<t, s>> \in older => rows[t].old
       /\ \A r \in Writers : ~(Holds(r) /\ Scope(requests[r]) = s)
       /\ rows' = [rows EXCEPT ![s].old = TRUE]
       /\ owed' = owed \ {s}
       /\ UNCHANGED <<older, requests, faults>>

\* Mutant: reservations survive a restart.
MutantReopened(rs) == rs

\* open: the reservations of the process that is gone are dropped.
Reopened(rs) == Without(rs, Reservations(rs))

\* The process stops and its successor opens the store.
KeysRestart ==
    /\ Fault
    /\ Store(Reopened(rows), {})
    /\ requests' = [r \in Writers |-> NoRequest]
    /\ UNCHANGED owed

KeysNext ==
    \/ \E r \in Writers :
          \/ Send(r) \/ ReserveFound(r) \/ ReserveNew(r) \/ ReserveFails(r)
          \/ Run(r) \/ KeepReply(r) \/ Drop(r) \/ DropFails(r)
    \/ Age
    \/ KeysRestart

KeysSpec == KeysInit /\ [][KeysNext]_keyVars

----------------------------------------------------------------------------
(* Properties. *)

\* The key is held while the write it names may still run: two requests with
\* one caller's key are never in their handlers at once ("a repeat while the
\* first is still running answers 409"), whatever else is expired, evicted,
\* released or restarted meanwhile.
OneRunnerPerKey ==
    \A r, s \in Writers :
       /\ Holds(r)
       /\ Holds(s)
       /\ Scope(requests[r]) = Scope(requests[s])
       => r = s

\* A replayed answer is the caller's own, for the request they repeat, and it
\* is never the secret a first answer showed.
ReplayIsOwn ==
    \A r \in Writers :
       requests[r].at = "replayed" =>
          LET q == requests[r]
          IN  /\ q.reply.caller = q.caller
              /\ q.reply.body = q.body
              /\ q.body \in Secrets => q.reply.says # "created"

\* Once an answer was kept its write is not run again: until it is a day old
\* or evicted from a full table no request with its caller's key gets to its
\* handler, across failures of the store, clients that leave and restarts.
KeptWriteIsNotRepeated ==
    [][\A r \in Writers :
          requests[r].at = "asking" /\ requests'[r].at = "running" =>
             Scope(requests[r]) \notin owed']_keyVars

\* A reservation with no request behind it blocks its key for a day: there is
\* one only where the store failed to write (release and keep ignore that).
StrayReservations ==
    {s \in Reservations(rows) : \A r \in Writers : ~(Holds(r) /\ Scope(requests[r]) = s)}

ReservationIsFreed == Cardinality(StrayReservations) <= faults
=============================================================================
