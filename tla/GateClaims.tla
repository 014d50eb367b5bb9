----------------------------- MODULE GateClaims -----------------------------
(***************************************************************************)
(* The per-head gate lease (web/gate_claims.rs) and the heartbeats it is   *)
(* matched against (web/control_plane/gate_runners.rs).                    *)
(*                                                                         *)
(* A gate slot asks for the lease on a head.  The handler reads the clock  *)
(* once, tries to renew, and otherwise awaits a git read of the            *)
(* repository's capability policy before it takes the lease, still with    *)
(* the clock value read before the await.  An ask is therefore two steps   *)
(* (Ask, then one of the Finish actions) between which time passes and     *)
(* every other request may run.                                            *)
(*                                                                         *)
(* Time is kept relative to the present, so that the states are finite     *)
(* although time never ends: a lease has `left' = expires_at - now, a beat *)
(* has `age' = now - received_at, and an ask in flight has `age' = now -   *)
(* the clock value the handler captured.  Tick is one unit of time.        *)
(***************************************************************************)
EXTENDS Integers, FiniteSets

CONSTANTS
    Runners,        \* runner_id of the gate slots
    Heads,          \* (repo, head sha) keys
    Hosts,
    Beats,          \* the heartbeats a slot may send: host, gate, caps, offline
    Policies,       \* the capability sets a default branch may declare
    Requests,       \* asks the forge serves at the same time
    Ttl,            \* GATE_CLAIM_TTL_SECS
    Retention,      \* STALE_CLAIM_RETENTION_SECS
    MaxClaims,      \* MAX_CLAIMS
    MaxRunners,     \* MAX_RUNNERS
    ReadFails,      \* whether the git read of a policy may fail
    MaxRead,        \* bound: the git read of an ask takes at most this long
    NoClaim, NoBeat, Idle

Capabilities == UNION Policies

Beat == [host : Hosts, gate : BOOLEAN, caps : SUBSET Capabilities, offline : Nat]

\* No lease is worth more than the TTL from now.
Lefts == {n \in Int : n <= Ttl}

Claim == [runner : Runners, host : Hosts, left : Lefts, required : SUBSET Capabilities]

InFlight == [runner : Runners, head : Heads, host : Hosts, age : 0 .. MaxRead]

ASSUME ConstantsAssumption ==
    /\ Ttl \in Nat \ {0}
    /\ Retention \in Nat
    /\ MaxClaims \in Nat \ {0}
    /\ MaxRunners \in Nat \ {0}
    /\ ReadFails \in BOOLEAN
    /\ MaxRead \in Nat
    /\ IsFiniteSet(Heads)
    /\ Beats \subseteq Beat

ASSUME AbsentAssumption ==
    /\ NoClaim \notin Claim
    /\ NoBeat \notin [beat : Beats, age : Nat]
    /\ Idle \notin InFlight

VARIABLES
    claims,     \* GateClaimStore.claims: the lease of each head, or NoClaim
    beats,      \* GateRunnerStore.runners: the last beat of each slot, or NoBeat
    asks,       \* the asks waiting for their git read, or Idle
    dead        \* slots that stopped for good (the environment's, not the forge's)

vars == <<claims, beats, asks, dead>>

Init ==
    /\ claims = [h \in Heads |-> NoClaim]
    /\ beats = [r \in Runners |-> NoBeat]
    /\ asks = [q \in Requests |-> Idle]
    /\ dead = {}

-----------------------------------------------------------------------------
(* The store.  `a' is how long ago the caller read its clock: 0 for a      *)
(* caller that reads it now, the age of the ask for one that read it       *)
(* before its await.                                                       *)

\* Mutant: a lease never expires.
MutantLive(c, a) == TRUE

Live(c, a) == c.left + a > 0

\* Mutant: an expired record is forgotten at once.
MutantKept(c, a) == Live(c, a)

Kept(c, a) == Live(c, a) \/ -(c.left + a) <= Retention

ForgetOld(cs, a) ==
    [h \in Heads |-> IF cs[h] # NoClaim /\ Kept(cs[h], a) THEN cs[h] ELSE NoClaim]

Stored(cs) == {h \in Heads : cs[h] # NoClaim}

\* Mutant: any record may make room.
MutantExpired(cs, a) == Stored(cs)

Expired(cs, a) == {h \in Stored(cs) : ~Live(cs[h], a)}

OldestExpired(cs, a) ==
    {h \in Expired(cs, a) : \A k \in Expired(cs, a) : cs[h].left <= cs[k].left}

\* Mutant: room is made one record too late.
MutantMakeRoom(cs, a) ==
    IF Cardinality(Stored(cs)) <= MaxClaims
    THEN {cs}
    ELSE {[cs EXCEPT ![h] = NoClaim] : h \in OldestExpired(cs, a)}

\* The stores make_room may leave: one oldest expired record forgotten when
\* the store is full, none when every record of a full store is live.
MakeRoom(cs, a) ==
    IF Cardinality(Stored(cs)) < MaxClaims
    THEN {cs}
    ELSE {[cs EXCEPT ![h] = NoClaim] : h \in OldestExpired(cs, a)}

\* Mutant: the age of the ask is charged to the holder's lease.
HeldByOther(cs, q) ==
    LET c == cs[asks[q].head] IN
    c # NoClaim /\ c.runner # asks[q].runner /\ Live(c, asks[q].age)

HeldByAsker(cs, q) ==
    LET c == cs[asks[q].head] IN
    c # NoClaim /\ c.runner = asks[q].runner /\ Live(c, asks[q].age)

\* expires_at is the captured clock plus the TTL.
Leased(q, required) ==
    [runner   |-> asks[q].runner,
     host     |-> asks[q].host,
     left     |-> Ttl - asks[q].age,
     required |-> required]

IsOnline(b, a) == b.age - a <= b.beat.offline

\* Mutant: what any slot of the host advertises is enough.
MutantCapableClaimant(q, required) ==
    /\ beats[asks[q].runner] # NoBeat
    /\ required \subseteq UNION {beats[r].beat.caps : r \in
          {s \in Runners : beats[s] # NoBeat /\ beats[s].beat.host = asks[q].host}}

CapableClaimant(q, required) ==
    LET b == beats[asks[q].runner] IN
    /\ b # NoBeat
    /\ b.beat.host = asks[q].host
    /\ b.beat.gate
    /\ IsOnline(b, asks[q].age)
    /\ required \subseteq b.beat.caps

-----------------------------------------------------------------------------
(* POST /api/v1/gate-claims, up to the await.                              *)

HostMatches(r, host) == beats[r] # NoBeat => beats[r].beat.host = host

\* The holder of a live lease renews it without reading git.
Renew(r, h, host) ==
    /\ r \notin dead
    /\ HostMatches(r, host)
    /\ claims[h] # NoClaim /\ claims[h].runner = r /\ Live(claims[h], 0)
    /\ claims' = [claims EXCEPT ![h].host = host, ![h].left = Ttl]
    /\ UNCHANGED <<beats, asks, dead>>

Ask(q, r, h, host) ==
    /\ r \notin dead
    /\ HostMatches(r, host)
    /\ ~(claims[h] # NoClaim /\ claims[h].runner = r /\ Live(claims[h], 0))
    /\ asks[q] = Idle
    /\ asks' = [asks EXCEPT ![q] = [runner |-> r, head |-> h, host |-> host, age |-> 0]]
    /\ UNCHANGED <<claims, beats, dead>>

(* The rest of the handler, once git has answered.                         *)

Answered(q) ==
    /\ asks' = [asks EXCEPT ![q] = Idle]
    /\ UNCHANGED <<beats, dead>>

\* invalid_repo_config or capability_missing: the store is not touched.
FinishRefused(q) ==
    /\ asks[q] # Idle
    /\ \/ ReadFails
       \/ \E required \in Policies : required # {} /\ ~CapableClaimant(q, required)
    /\ UNCHANGED claims
    /\ Answered(q)

\* The policy git answered with, when this slot satisfies it.
Admitted(q, required) ==
    asks[q] # Idle /\ (required # {} => CapableClaimant(q, required))

FinishHeld(q) ==
    \E required \in Policies :
        /\ Admitted(q, required)
        /\ LET kept == ForgetOld(claims, asks[q].age) IN
            /\ HeldByOther(kept, q)
            /\ claims' = kept
        /\ Answered(q)

FinishRenewed(q) ==
    \E required \in Policies :
        /\ Admitted(q, required)
        /\ LET kept == ForgetOld(claims, asks[q].age)
               h == asks[q].head IN
            /\ HeldByAsker(kept, q)
            /\ claims' = [kept EXCEPT ![h] = Leased(q, kept[h].required)]
        /\ Answered(q)

\* A record nobody holds any more is overwritten; a new one needs room.
FinishFresh(q) ==
    \E required \in Policies :
        /\ Admitted(q, required)
        /\ LET kept == ForgetOld(claims, asks[q].age)
               h == asks[q].head IN
            /\ ~HeldByOther(kept, q) /\ ~HeldByAsker(kept, q)
            /\ \E cs \in IF kept[h] # NoClaim THEN {kept} ELSE MakeRoom(kept, asks[q].age) :
                  claims' = [cs EXCEPT ![h] = Leased(q, required)]
        /\ Answered(q)

FinishFull(q) ==
    \E required \in Policies :
        /\ Admitted(q, required)
        /\ LET kept == ForgetOld(claims, asks[q].age) IN
            /\ kept[asks[q].head] = NoClaim
            /\ MakeRoom(kept, asks[q].age) = {}
            /\ claims' = kept
        /\ Answered(q)

-----------------------------------------------------------------------------
(* POST /api/v1/gate-claims/release reads its own clock.  A slot that does *)
(* not hold the record changes nothing but what retention forgets.         *)
Release(r, h) ==
    /\ r \notin dead
    /\ LET kept == ForgetOld(claims, 0) IN
        claims' = IF kept[h] # NoClaim /\ kept[h].runner = r
                  THEN [kept EXCEPT ![h] = NoClaim]
                  ELSE kept
    /\ UNCHANGED <<beats, asks, dead>>

\* GateRunnerStore::record.
Heartbeat(r, b) ==
    /\ r \notin dead
    /\ beats[r] = NoBeat => Cardinality({s \in Runners : beats[s] # NoBeat}) < MaxRunners
    /\ beats' = [beats EXCEPT ![r] = [beat |-> b, age |-> 0]]
    /\ UNCHANGED <<claims, asks, dead>>

\* Ages stop counting where no comparison can tell them apart any more.
Tick ==
    /\ \A q \in Requests : asks[q] # Idle => asks[q].age < MaxRead
    /\ claims' = [h \in Heads |->
          IF claims[h] # NoClaim /\ claims[h].left >= -(Retention + MaxRead)
          THEN [claims[h] EXCEPT !.left = @ - 1] ELSE claims[h]]
    /\ beats' = [r \in Runners |->
          IF beats[r] # NoBeat /\ beats[r].age <= beats[r].beat.offline + MaxRead
          THEN [beats[r] EXCEPT !.age = @ + 1] ELSE beats[r]]
    /\ asks' = [q \in Requests |->
          IF asks[q] # Idle THEN [asks[q] EXCEPT !.age = @ + 1] ELSE Idle]
    /\ UNCHANGED dead

\* Leases and beats are in memory; a restart drops them and every request.
Restart ==
    /\ claims' = [h \in Heads |-> NoClaim]
    /\ beats' = [r \in Runners |-> NoBeat]
    /\ asks' = [q \in Requests |-> Idle]
    /\ UNCHANGED dead

\* A slot is killed or its host hangs.  What it already asked is still served.
Die(r) ==
    /\ r \notin dead
    /\ dead' = dead \cup {r}
    /\ UNCHANGED <<claims, beats, asks>>

Finish(q) ==
    \/ FinishRefused(q)
    \/ FinishHeld(q)
    \/ FinishRenewed(q)
    \/ FinishFresh(q)
    \/ FinishFull(q)

Next ==
    \/ \E r \in Runners, h \in Heads, host \in Hosts : Renew(r, h, host)
    \/ \E q \in Requests, r \in Runners, h \in Heads, host \in Hosts : Ask(q, r, h, host)
    \/ \E q \in Requests : Finish(q)
    \/ \E r \in Runners, h \in Heads : Release(r, h)
    \/ \E r \in Runners, b \in Beats : Heartbeat(r, b)
    \/ \E r \in Runners : Die(r)
    \/ Tick
    \/ Restart

Spec == Init /\ [][Next]_vars

(***************************************************************************)
(* Fairness: the clock runs, the runtime finishes every request it serves, *)
(* and a slot that is alive keeps polling for every head (pr-gate-runner   *)
(* asks on each of its ticks).  A slot polls again and again, whether or   *)
(* not a request slot of the model is free at each moment: strong fairness.*)
(***************************************************************************)
Fairness ==
    /\ WF_vars(Tick)
    /\ \A q \in Requests : WF_vars(Finish(q))
    /\ \A r \in Runners, h \in Heads :
          SF_vars(\E q \in Requests, host \in Hosts : Ask(q, r, h, host))

FairSpec == Spec /\ Fairness

-----------------------------------------------------------------------------
LiveNow(h) == claims[h] # NoClaim /\ Live(claims[h], 0)

TypeOK ==
    /\ claims \in [Heads -> Claim \cup {NoClaim}]
    /\ beats \in [Runners -> [beat : Beats, age : Nat] \cup {NoBeat}]
    /\ asks \in [Requests -> InFlight \cup {Idle}]
    /\ dead \subseteq Runners

(* GateClaimStore is bounded: make_room runs before every insertion of a   *)
(* new key, and forgetting one record is always enough.                    *)
StoreIsBounded == Cardinality(Stored(claims)) <= MaxClaims

\* A live lease stays with its holder, under the same requirement.
LeaseStays(h) ==
    LiveNow(h) =>
        IF claims'[h] = NoClaim
        THEN Restart \/ Release(claims[h].runner, h)
        ELSE /\ claims'[h].runner = claims[h].runner
             /\ claims'[h].required = claims[h].required

(* A lease that is live at this moment is never handed to a second slot,   *)
(* nor dropped for room, and keeps the requirement it was granted under:   *)
(* only its own holder's release or a restart ends it.  This has to hold   *)
(* although acquire judges liveness, and forget_old and make_room judge    *)
(* age, by a clock value read before the await.                            *)
RunningGateKeepsItsLease == [][\A h \in Heads : LeaseStays(h)]_vars

(* The record of a gate that stopped halfway is what needs-you reports: a  *)
(* stranger cannot erase it inside the retention window.  Only its own     *)
(* holder's release, the next lease on that head, a new lease on another   *)
(* head when the store is full, or a restart ends it.                      *)
StaleRecordIsKept ==
    [][\A h \in Heads :
          (claims[h] # NoClaim /\ ~LiveNow(h) /\ -claims[h].left <= Retention
              /\ claims'[h] = NoClaim) =>
            \/ Restart
            \/ Release(claims[h].runner, h)
            \/ /\ Cardinality(Stored(claims)) = MaxClaims
               /\ \E k \in Heads : claims[k] = NoClaim /\ claims'[k] # NoClaim]_vars

(* A head whose repository requires a capability is newly leased only to a *)
(* slot whose own beat names the host it asked as and advertises every     *)
(* required capability, and that beat is no older than the offline limit   *)
(* plus the time the policy read took.                                     *)
FreshLeaseIsCapable ==
    [][\A h \in Heads :
          LET c == claims'[h] IN
          (/\ c # NoClaim /\ c.required # {}
           /\ claims[h] = NoClaim \/ claims[h].runner # c.runner) =>
              LET b == beats[c.runner] IN
              /\ b # NoBeat
              /\ b.beat.gate /\ b.beat.host = c.host
              /\ c.required \subseteq b.beat.caps
              /\ b.age <= b.beat.offline + MaxRead]_vars

(* "A lease nobody renews expires, and the head is claimable by any live   *)
(* host": a head whose holder died is free again, or held by a slot that   *)
(* is alive, as long as some slot is.                                      *)
DeadHoldersHeadIsTaken ==
    \A h \in Heads :
        []<>(\/ dead = Runners
             \/ claims[h] = NoClaim
             \/ claims[h].runner \notin dead)
=============================================================================
