--------------------------- MODULE ReleaseActions ---------------------------
(***************************************************************************)
(* Release actions (web/release_actions.rs and its store): a person asks   *)
(* for a release step, and a release host that polls the forge claims it,  *)
(* runs it and reports.  The store is in memory; every operation of it     *)
(* first expires what is overdue, under one lock.  The claim handler takes *)
(* the lock three times.                                                   *)
(*                                                                         *)
(* A unit of time is the life of an unclaimed ask, longer than a poller's  *)
(* registration.  Asks are numbered in the order of requested_at; numbers  *)
(* are not used again after a restart, because an id holds the time.       *)
(***************************************************************************)
EXTENDS Naturals, FiniteSets

CONSTANTS
    Steps,          \* an action with its repository and release or head
    ReleaseHosts,   \* release hosts, each a deployer account of its own
    NotBusy,        \* a host that runs nothing
    NoAsk,          \* no ask of that number, no claimant
    PENDING_TTL, CLAIMED_TTL,
    MAX_ACTIONS,
    MaxAsks         \* bound: asks recorded

ASSUME ReleaseConstants ==
    /\ PENDING_TTL \in Nat \ {0} /\ CLAIMED_TTL \in Nat \ {0}
    /\ MAX_ACTIONS \in Nat \ {0}
    /\ MaxAsks \in Nat
    /\ NoAsk \notin ReleaseHosts

VARIABLES
    actions,    \* by number: the ask, or NoAsk
    next,       \* asks recorded so far
    pollers,    \* the hosts whose registration is live
    host,       \* by host: what it is doing
    started     \* the asks some host has begun to run

releaseVars == <<actions, next, pollers, host, started>>

AskIds == 1..MaxAsks

AskStates == {"pending", "claimed", "succeeded", "failed", "expired", "cancelled"}

Asks == [step : Steps, state : AskStates, by : ReleaseHosts \cup {NoAsk},
         age : 0..(PENDING_TTL + CLAIMED_TTL)]

ASSUME AskConstants == NoAsk \notin Asks

HostStates == [stage : {"seen", "checked", "running"}, id : AskIds, step : Steps]

ReleaseInit ==
    /\ actions = [i \in AskIds |-> NoAsk]
    /\ next = 0
    /\ pollers = {}
    /\ host = [h \in ReleaseHosts |-> NotBusy]
    /\ started = {}

Open(a) == a # NoAsk /\ a.state \in {"pending", "claimed"}

Overdue(a) ==
    \/ a.state = "pending" /\ a.age >= PENDING_TTL
    \/ a.state = "claimed" /\ a.age >= CLAIMED_TTL

MutantExpire ==
    [i \in AskIds |->
        IF actions[i] # NoAsk /\ actions[i].state = "pending" /\ Overdue(actions[i])
        THEN [actions[i] EXCEPT !.state = "expired"] ELSE actions[i]]

(* ReleaseActionStore::expire *)
Expire ==
    [i \in AskIds |->
        IF Open(actions[i]) /\ Overdue(actions[i])
        THEN [actions[i] EXCEPT !.state = "expired"] ELSE actions[i]]

StoredAsks(a) == {i \in AskIds : a[i] # NoAsk}

Finished(a) == {i \in StoredAsks(a) : ~Open(a[i])}

(* At the limit the oldest finished ask makes room; an open one never does. *)
Oldest(S) == {i \in S : \A j \in S : i <= j}

Recorded(a, s) ==
    [i \in AskIds |->
        IF i = next + 1 THEN [step |-> s, state |-> "pending", by |-> NoAsk, age |-> 0]
        ELSE IF Cardinality(StoredAsks(a)) >= MAX_ACTIONS /\ i \in Oldest(Finished(a)) THEN NoAsk
        ELSE a[i]]

MutantSameStepOpen(a, s) == \E i \in AskIds : Open(a[i]) /\ a[i].state = "pending" /\ a[i].step = s

SameStepOpen(a, s) == \E i \in AskIds : Open(a[i]) /\ a[i].step = s

(* ReleaseActionStore::record: a new ask, the open one, or a full store.   *)
Request(s) ==
    LET a == Expire IN
    /\ next < MaxAsks
    /\ \/ /\ ~SameStepOpen(a, s)
          /\ Cardinality(StoredAsks(a)) < MAX_ACTIONS \/ Finished(a) # {}
          /\ actions' = Recorded(a, s)
          /\ next' = next + 1
       \/ /\ SameStepOpen(a, s) \/ (Cardinality(StoredAsks(a)) >= MAX_ACTIONS /\ Finished(a) = {})
          /\ actions' = a
          /\ UNCHANGED next
    /\ UNCHANGED <<pollers, host, started>>

MutantCancellable(a) == Open(a)

(* Only a pending ask can be cancelled. *)
Cancellable(a) == a # NoAsk /\ a.state = "pending"

Cancel(i) ==
    LET a == Expire IN
    /\ actions' = IF Cancellable(a[i]) THEN [a EXCEPT ![i].state = "cancelled"] ELSE a
    /\ UNCHANGED <<next, pollers, host, started>>

CheckIn(h) ==
    /\ Cardinality(pollers \cup {h}) <= MAX_ACTIONS
    /\ pollers' = pollers \cup {h}
    /\ UNCHANGED <<actions, next, host, started>>

(***************************************************************************)
(* A host lists the pending asks (which also expires the overdue ones) and *)
(* picks one, or finds none.  The inbox of a person lists them too.        *)
(***************************************************************************)
List(h) ==
    /\ host[h] = NotBusy
    /\ actions' = Expire
    /\ \E i \in AskIds :
          /\ h \in pollers
          /\ Expire[i] # NoAsk /\ Expire[i].state = "pending"
          /\ host' = [host EXCEPT ![h] = [stage |-> "seen", id |-> i, step |-> Expire[i].step]]
    /\ UNCHANGED <<next, pollers, started>>

Inbox ==
    /\ actions' = Expire
    /\ UNCHANGED <<next, pollers, host, started>>

(* claim: the ask is found and its poller is registered ... *)
ClaimCheck(h) ==
    /\ host[h] # NotBusy /\ host[h].stage = "seen"
    /\ host' = [host EXCEPT ![h] =
                   IF actions[host[h].id] # NoAsk /\ h \in pollers
                   THEN [@ EXCEPT !.stage = "checked"] ELSE NotBusy]
    /\ UNCHANGED <<actions, next, pollers, started>>

Takeable(a) == a # NoAsk /\ a.state = "pending"

(* ... and it is taken if it is still pending by then. *)
TakeAsk(h) ==
    LET a == Expire
        i == host[h].id
    IN  /\ host[h] # NotBusy /\ host[h].stage = "checked"
        /\ IF Takeable(a[i])
           THEN /\ actions' = [a EXCEPT ![i] = [@ EXCEPT !.state = "claimed", !.by = h, !.age = 0]]
                /\ host' = [host EXCEPT ![h].stage = "running"]
                /\ started' = started \cup {i}
           ELSE /\ actions' = a
                /\ host' = [host EXCEPT ![h] = NotBusy]
                /\ UNCHANGED started
        /\ UNCHANGED <<next, pollers>>

(* finish: only the claimant of an ask that is still claimed is heard.     *)
Result(h, ok) ==
    LET a == Expire
        i == host[h].id
    IN  /\ host[h] # NotBusy /\ host[h].stage = "running"
        /\ actions' = IF a[i] # NoAsk /\ a[i].state = "claimed" /\ a[i].by = h
                   THEN [a EXCEPT ![i].state = IF ok THEN "succeeded" ELSE "failed"]
                   ELSE a
        /\ host' = [host EXCEPT ![h] = NotBusy]
        /\ UNCHANGED <<next, pollers, started>>

(* The host stops and reports nothing. *)
HostLost(h) ==
    /\ host[h] # NotBusy /\ host[h].stage = "running"
    /\ host' = [host EXCEPT ![h] = NotBusy]
    /\ UNCHANGED <<actions, next, pollers, started>>

(* The forge restarts, as every deploy makes it: the store starts empty. *)
ForgeRestart ==
    /\ actions' = [i \in AskIds |-> NoAsk]
    /\ pollers' = {}
    /\ UNCHANGED <<next, host, started>>

Aged(a) == IF Open(a) /\ ~Overdue(a) THEN [a EXCEPT !.age = @ + 1] ELSE a

TimePassesForAsks ==
    /\ actions' = [i \in AskIds |-> Aged(actions[i])]
    /\ pollers' = {}
    /\ UNCHANGED <<next, host, started>>

ReleaseNext ==
    \/ \E s \in Steps : Request(s)
    \/ \E i \in AskIds : Cancel(i)
    \/ \E h \in ReleaseHosts :
          \/ CheckIn(h) \/ List(h) \/ ClaimCheck(h) \/ TakeAsk(h) \/ HostLost(h)
          \/ \E ok \in BOOLEAN : Result(h, ok)
    \/ Inbox
    \/ ForgeRestart
    \/ TimePassesForAsks

ReleaseSpec == ReleaseInit /\ [][ReleaseNext]_releaseVars

(* Time passes and the inbox is read; nothing is asked of release hosts.   *)
ReleaseFairness == WF_releaseVars(TimePassesForAsks) /\ WF_releaseVars(Inbox)

-----------------------------------------------------------------------------
ReleaseTypeOK ==
    /\ actions \in [AskIds -> Asks \cup {NoAsk}]
    /\ next \in 0..MaxAsks
    /\ pollers \subseteq ReleaseHosts
    /\ host \in [ReleaseHosts -> HostStates \cup {NotBusy}]
    /\ started \subseteq AskIds

(* The claim the forge gave h, while the forge still counts on it. *)
Holds(h) ==
    /\ host[h] # NotBusy /\ host[h].stage = "running"
    /\ LET a == actions[host[h].id] IN a # NoAsk /\ a.state = "claimed" /\ a.by = h

(* "a second claim is refused, so two pollers never run the same step":    *)
(* two hosts run the same step only when the forge has given up on the     *)
(* claim of one of them (it expired, or a restart forgot it).              *)
StepRunsOnce ==
    \A h, k \in ReleaseHosts :
        h # k /\ Holds(h) /\ Holds(k) => host[h].step # host[k].step

(* "Cancelled before the release host claimed it", "Not claimed within 15  *)
(* minutes; no step was run": what the person is told is true, although    *)
(* hosts list, check and claim in separate calls.                          *)
ToldNotRunIsNotRun ==
    \A i \in started :
        LET a == actions[i] IN
        a # NoAsk => a.state # "cancelled" /\ (a.state = "expired" => a.by # NoAsk)

(* A lost host, a lost result or a host that never comes leaves no ask     *)
(* open for ever: a person can ask for the step again.                     *)
AskEnds == \A i \in AskIds : []<>(~Open(actions[i]))
=============================================================================
