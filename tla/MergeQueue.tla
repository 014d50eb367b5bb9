----------------------------- MODULE MergeQueue -----------------------------
(***************************************************************************)
(* The merge queue of one linear-history base (web/merge_queue.rs), its    *)
(* landing path and the direct merge beside it (github/pulls.rs).          *)
(*                                                                         *)
(* Everything the queue does runs under one mutex, except that enqueue     *)
(* reads the pull request before it takes the mutex.  The mutex keeps out  *)
(* other queue operations, and nothing else: while a tick runs, pull       *)
(* requests are pushed to, closed and reviewed, gates report, direct       *)
(* merges move the base, and the process may die.  A tick is therefore     *)
(* split where such a step can matter: Start (still_queued), Restack (one  *)
(* step for each entry that is rebuilt), the decision on the verdicts,     *)
(* Ready (evaluate_merge_readiness of each member), Move (the              *)
(* compare-and-swap of the base), Finalize (the pull request records),     *)
(* Record (the queue entries) and the second restack.                      *)
(***************************************************************************)
EXTENDS Commits, Functions

CONSTANTS
    PRs,            \* pull request numbers
    Contexts,       \* status contexts
    Required,       \* the contexts each pull request requires
    BaseRequired,   \* required_status_checks of the base's protection
    Direct,         \* the pull requests somebody merges directly
    Pushed,         \* the pull requests whose author pushes again
    Closed,         \* the pull requests somebody may close
    Reviewed,       \* the pull requests whose reviews change
    Faults,         \* the kinds of failure the environment may inject
    MaxAttempts,    \* MAX_ATTEMPTS
    MaxVersion,     \* bound: heads pushed for one pull request
    MaxEnqueues,    \* bound: enqueue requests in a behaviour
    MaxFaults,      \* bound: failures in a behaviour
    MaxCrashes,     \* bound: crashes in a behaviour
    None

ASSUME ConstantsAssumption ==
    /\ PRs \subseteq Nat /\ IsFiniteSet(PRs)
    /\ Required \in [PRs -> SUBSET Contexts]
    /\ BaseRequired \subseteq Contexts
    /\ MaxAttempts \in Nat \ {0}
    /\ {MaxVersion, MaxEnqueues, MaxFaults, MaxCrashes} \subseteq Nat
    /\ None \notin PRs /\ None # "gate"
    /\ None \notin Seq([pr : PRs, ver : Nat, stamp : PRs \X Nat])

VARIABLES
    base,       \* the commit refs/heads/<base> points at
    head,       \* the head commit of each pull request
    open,       \* the pull requests that are not closed
    approved,   \* the pull requests whose reviews pass the merge gate
    merged,     \* the commit a pull request is recorded merged at, or None
    reports,    \* what the gates reported: [sha, ctx, ok]
    entries,    \* QueueIndex.entries, by pull request number
    loaded,     \* QueueIndex.loaded
    disk,       \* refs/queue-meta/<base>/*
    unsaved,    \* entries whose last write to disk failed (a history variable)
    builds,     \* how many replays the forge made for each pull request
    clock,      \* enqueue requests so far: enqueued_at
    enq,        \* the head an enqueue request has read and not yet used
    tick,       \* the tick in progress
    dm,         \* the direct merges in progress
    faults,     \* failures the environment has left
    crashes     \* crashes the environment has left

queueVars == <<entries, disk, unsaved, builds>>
pullVars == <<head, open, approved, merged>>
vars == <<base, pullVars, reports, queueVars, loaded, clock, enq, tick, dm, faults, crashes>>

outsideQueue == <<base, pullVars, reports, loaded, clock, enq, dm, crashes>>

Resting == [pc |-> "idle", live |-> <<>>, tip |-> None, members |-> <<>>, failed |-> {}]

NoMerge == [pc |-> "idle", from |-> None, to |-> None, head |-> None]

NoFault == <<"none", None>>

\* At most one thing fails in one step.
MayFail(f) ==
    \/ f = NoFault /\ UNCHANGED faults
    \/ /\ f \in Faults \X PRs
       /\ faults > 0
       /\ faults' = faults - 1

-----------------------------------------------------------------------------
(* Gates.                                                                  *)

Reported(sha) == {r.ctx : r \in {x \in reports : x.sha = sha}}

\* Mutant: silence counts as green.
MutantSilentGateVerdict(sha, required) ==
    IF \E c \in required : [sha |-> sha, ctx |-> c, ok |-> FALSE] \in reports THEN "red" ELSE "green"

\* Mutant: a red report decides nothing.
MutantPatientGateVerdict(sha, required) ==
    LET names == IF required = {} THEN Reported(sha) ELSE required IN
    IF names # {} /\ \A c \in names : [sha |-> sha, ctx |-> c, ok |-> TRUE] \in reports
    THEN "green" ELSE "waiting"

(* gate_verdict: a base that requires nothing still needs one report, and  *)
(* every report green.                                                     *)
GateVerdict(sha, required) ==
    LET names == IF required = {} THEN Reported(sha) ELSE required
        said(ok) == {c \in names : [sha |-> sha, ctx |-> c, ok |-> ok] \in reports}
    IN  IF said(FALSE) # {} THEN "red"
        ELSE IF names # {} /\ said(TRUE) = names THEN "green"
        ELSE "waiting"

\* is_open_pull
IsOpen(p) == p \in open /\ merged[p] = None

(* The merge gate at the pull request's own head (queue_gate, and          *)
(* evaluate_merge_readiness of jeryu-core): reviews and required contexts. *)
PassesGate(p) == p \in approved /\ GateVerdict(head[p], Required[p]) = "green"

\* Mutant: the head the gate saw is not compared.
MutantIsReady(p, h) == IsOpen(p) /\ PassesGate(p)

IsReady(p, h) == IsOpen(p) /\ head[p] = h /\ PassesGate(p)

-----------------------------------------------------------------------------
(* The queue's own state.                                                  *)

IsBuilding(es, p) == es[p] # None /\ es[p].state = "building"

Building(es) == {p \in PRs : IsBuilding(es, p)}

\* stack_order: first queued first.  enqueued_at never repeats here, so
\* there is one order.
StackOrders(es, S) ==
    {s \in [1 .. Cardinality(S) -> S] :
        \A i, j \in DOMAIN s : i < j => es[s[i]].at < es[s[j]].at}

\* Mutant: the end of an entry stays in memory.
MutantSave(new, f) ==
    LET written == {p \in PRs : new[p] # entries[p] /\ f # <<"write", p>>
                                    /\ new[p].state = "building"}
    IN  /\ entries' = new
        /\ disk' = [p \in PRs |-> IF p \in written THEN new[p] ELSE disk[p]]
        /\ unsaved' = unsaved \ written

(* persist every entry that changed.  A write may fail, and nobody is told.*)
Save(new, f) ==
    LET changed == {p \in PRs : new[p] # entries[p]}
        lost == {p \in changed : f = <<"write", p>>}
    IN  /\ entries' = new
        /\ disk' = [p \in PRs |-> IF p \in changed \ lost THEN new[p] ELSE disk[p]]
        /\ unsaved' = (unsaved \ changed) \cup lost

Finished(e, state, reason) == [e EXCEPT !.state = state, !.reason = reason]

(* build_on: replay, point the queue ref at it, open an attempt.  It fails *)
(* when the replay conflicts or git does (a fault) or does not carry the   *)
(* reviewed change.                                                        *)
CanBuild(p, h, parent, f) == f # <<"replay", p>> /\ ~Mismatch(parent, h)

NextBuild(p, h, parent) == IF IsAncestor(parent, h) THEN builds[p] ELSE builds[p] + 1

Built(e, p, parent) ==
    [e EXCEPT !.base = parent,
              !.sha = Replay(parent, e.head, <<p, NextBuild(p, e.head, parent)>>),
              !.last = "open"]

(* Entry p, rewritten as e, is rebuilt on parent as the neighbour of       *)
(* after, or dequeued where it does not replay.                            *)
BuildOrDequeue(e, p, parent, after, f) ==
    IF CanBuild(p, e.head, parent, f)
    THEN /\ Save([entries EXCEPT ![p] = [Built(e, p, parent) EXCEPT !.after = after]], f)
         /\ builds' = [builds EXCEPT ![p] = NextBuild(p, e.head, parent)]
    ELSE /\ Save([entries EXCEPT ![p] = Finished(e, "dequeued", "replay")], f)
         /\ UNCHANGED builds

-----------------------------------------------------------------------------
(* The tick: still_queued for every entry, then restack.                   *)

(* The tick's working set: `live' is the stack it works on, bottom first,  *)
(* and `tip' the base tip restack read when it began (None when it could   *)
(* not be read: restack then leaves the stack as it is).                   *)
Restack(pc, S, es, f) ==
    \E live \in StackOrders(es, S) :
        tick' = [Resting EXCEPT !.pc = pc,
                                !.live = live,
                                !.tip = IF f[1] = "tip" THEN None ELSE base]

\* still_queued, for an entry whose pull request could be read.
Checked(p) ==
    LET e == entries[p] IN
    IF ~IsOpen(p) THEN Finished(e, "dequeued", "closed")
    ELSE IF head[p] # e.head THEN Finished(e, "dequeued", "head_moved")
    ELSE IF ~PassesGate(p) THEN Finished(e, "failed", "merge_gate")
    ELSE e

TickStart(f) ==
    LET seen == {p \in Building(entries) : f # <<"unreadable", p>>}
        new == [p \in PRs |-> IF p \in seen THEN Checked(p) ELSE entries[p]]
    IN  /\ loaded /\ tick.pc = "idle" /\ Building(entries) # {}
        /\ Save(new, f)
        /\ Restack("stack", {p \in seen : IsBuilding(new, p)}, new, f)
        /\ MayFail(f)
        /\ UNCHANGED <<outsideQueue, builds>>

\* Mutant: a replaced attempt counts as a failure.
MutantSupersede(e) == IF e.last = "open" THEN [e EXCEPT !.last = "superseded", !.red = @ + 1] ELSE e

(* An attempt replaced before its gate decided counts against nobody.  Of  *)
(* an entry's attempts the model keeps how many were red and how the last  *)
(* one ended.                                                              *)
Supersede(e) == IF e.last = "open" THEN [e EXCEPT !.last = "superseded"] ELSE e

\* The entries of the stack that are still queued.
Remaining(es) == {p \in Range(tick.live) : IsBuilding(es, p)}

\* What the i-th entry of the stack has to sit on.
ParentOf(i) == IF i = 1 THEN tick.tip ELSE entries[tick.live[i - 1]].sha

AfterOf(i) == IF i = 1 THEN None ELSE tick.live[i - 1]

\* Mutant: only the bottom entry has to sit on its parent.
MutantIsPlaced(i) ==
    LET e == entries[tick.live[i]] IN i = 1 => e.base = ParentOf(i) /\ e.after = AfterOf(i)

IsPlaced(i) ==
    LET e == entries[tick.live[i]] IN e.base = ParentOf(i) /\ e.after = AfterOf(i)

Restacking == tick.pc \in {"stack", "restack"}

\* restack is through: the stack is a chain, or the tip could not be read.
IsRestacked == tick.tip = None \/ \A i \in DOMAIN tick.live : IsPlaced(i)

(* One turn of restack's loop, for the lowest entry that is out of place:  *)
(* an entry whose parent changed is rebuilt, or dequeued when it no longer *)
(* replays; one that only got a new neighbour says so.                     *)
RestackStep(f) ==
    /\ Restacking /\ tick.tip # None
    /\ \E i \in DOMAIN tick.live :
          LET p == tick.live[i] IN
          /\ ~IsPlaced(i)
          /\ \A j \in 1 .. i - 1 : IsPlaced(j)
          /\ IF entries[p].base = ParentOf(i)
             THEN /\ Save([entries EXCEPT ![p].after = AfterOf(i)], f)
                  /\ UNCHANGED builds
             ELSE BuildOrDequeue(Supersede(entries[p]), p, ParentOf(i), AfterOf(i), f)
    /\ \E live \in StackOrders(entries', Remaining(entries')) :
          tick' = [tick EXCEPT !.live = live]
    /\ MayFail(f)
    /\ UNCHANGED outsideQueue

RestackDone ==
    /\ tick.pc = "restack"
    /\ IsRestacked
    /\ tick' = Resting
    /\ UNCHANGED <<outsideQueue, queueVars, faults>>

-----------------------------------------------------------------------------
(* The tick's decision.                                                    *)

Own(p) == GateVerdict(entries[p].sha, Required[p])

\* Mutant: only the entry's own contexts.
MutantCovering(stack, i) == Required[stack[i]]

\* covering_contexts: what the i-th queue commit must pass to land 1..i.
Covering(stack, i) == UNION {Required[stack[j]] : j \in 1 .. i}

Green ==
    {i \in DOMAIN tick.live :
        GateVerdict(entries[tick.live[i]].sha, Covering(tick.live, i)) = "green"}

Member(p) ==
    [pr |-> p, head |-> entries[p].head, base |-> entries[p].base, sha |-> entries[p].sha,
     own |-> Own(p)]

\* The highest green entry lands with everything below it.
TickLand ==
    /\ tick.pc = "stack" /\ IsRestacked
    /\ \E top \in Green :
          /\ \A i \in Green : i <= top
          /\ tick' = [tick EXCEPT !.pc = "ready",
                                  !.tip = None,
                                  !.members = [i \in 1 .. top |-> Member(tick.live[i])]]
    /\ UNCHANGED <<outsideQueue, queueVars, faults>>

BottomIsRed == tick.live # <<>> /\ Own(tick.live[1]) = "red"

(* With nothing green, a red bottom entry is retried once as a fresh       *)
(* commit on the same parent, then failed: retry_or_fail.  A pull request  *)
(* that is its own queue commit has no fresh commit to retry with.         *)
TickRetry(f) ==
    /\ tick.pc = "stack" /\ IsRestacked
    /\ Green = {} /\ BottomIsRed
    /\ LET p == tick.live[1]
           e == entries[p]
           red == [e EXCEPT !.red = @ + 1, !.last = "failure"]
       IN  /\ IF red.red < MaxAttempts /\ e.sha # e.head
              THEN BuildOrDequeue(red, p, e.base, e.after, f)
              ELSE /\ Save([entries EXCEPT ![p] = Finished(red, "failed", "gate")], f)
                   /\ UNCHANGED builds
           /\ Restack("restack", Remaining(entries'), entries', f)
    /\ MayFail(f)
    /\ UNCHANGED outsideQueue

TickWait ==
    /\ tick.pc = "stack" /\ IsRestacked
    /\ Green = {} /\ ~BottomIsRed
    /\ tick' = Resting
    /\ UNCHANGED <<outsideQueue, queueVars, faults>>

-----------------------------------------------------------------------------
(* land_stack and land_queued_batch.                                       *)

Top == Last(tick.members)

\* Whatever landed or failed, the entries above it now sit on what remains.
EndLanding(new, f) ==
    /\ Save(new, f)
    /\ Restack("restack", Remaining(new), new, f)
    /\ UNCHANGED builds

\* The readiness of each member at its own head.
HasProblem(m, f) == f = <<"unreadable", m.pr>> \/ ~IsReady(m.pr, m.head)

LandReady ==
    /\ tick.pc = "ready"
    /\ \A i \in DOMAIN tick.members : ~HasProblem(tick.members[i], NoFault)
    /\ tick' = [tick EXCEPT !.pc = "move"]
    /\ UNCHANGED <<outsideQueue, queueVars, faults>>

Refused(m, f) ==
    IF f = <<"unreadable", m.pr>> THEN entries[m.pr]
    ELSE IF merged[m.pr] # None THEN Finished(entries[m.pr], "dequeued", "merged")
    ELSE Finished(entries[m.pr], "failed", "not_ready")

\* The first member with a problem ends the landing; it concerns no other.
LandRefused(f) ==
    /\ tick.pc = "ready"
    /\ \E i \in DOMAIN tick.members :
          LET m == tick.members[i] IN
          /\ HasProblem(m, f)
          /\ \A j \in 1 .. i - 1 : ~HasProblem(tick.members[j], f)
          /\ EndLanding([entries EXCEPT ![m.pr] = Refused(m, f)], f)
    /\ MayFail(f)
    /\ UNCHANGED outsideQueue

BaseAsExpected == base = tick.members[1].base /\ IsAncestor(base, Top.sha)

BelowTop(m) == IsAncestor(m.sha, Top.sha)

(* The base moves once, by compare-and-swap from the commit the bottom     *)
(* entry was built on, and only forward.                                   *)
LandMove ==
    /\ tick.pc = "move"
    /\ BaseAsExpected
    /\ \A i \in DOMAIN tick.members : BelowTop(tick.members[i])
    /\ base' = Top.sha
    /\ tick' = [tick EXCEPT !.pc = "finalize"]
    /\ UNCHANGED <<pullVars, reports, queueVars, loaded, clock, enq, dm, faults, crashes>>

(* BaseMoved, or Blocked (git failed, the ref lock was lost): nothing      *)
(* happened, and the stack is rebuilt on the tip there is now.             *)
LandBlocked(f) ==
    /\ tick.pc = "move"
    /\ ~BaseAsExpected \/ f = <<"git", Top.pr>>
    /\ EndLanding(entries, f)
    /\ MayFail(f)
    /\ UNCHANGED outsideQueue

(* A member git cannot show to be below the top is not ready: it fails,    *)
(* and nothing moves.                                                      *)
LandNotBelow(f) ==
    /\ tick.pc = "move"
    /\ BaseAsExpected /\ f # <<"git", Top.pr>>
    /\ LET IsAstray(i) == ~BelowTop(tick.members[i]) \/ f = <<"git", tick.members[i].pr>> IN
       \E i \in DOMAIN tick.members :
          LET p == tick.members[i].pr IN
          /\ IsAstray(i)
          /\ \A j \in 1 .. i - 1 : ~IsAstray(j)
          /\ EndLanding([entries EXCEPT ![p] = Finished(@, "failed", "not_ready")], f)
    /\ MayFail(f)
    /\ UNCHANGED outsideQueue

(* finalize_merge of every member at its own queue commit.  The base has   *)
(* moved, so a record that cannot be written is reported, not undone.      *)
(* Whether core answers a second finalize of a merged pull request with    *)
(* its record or with an error is core's: both are allowed.                *)
LandFinalize(f) ==
    /\ tick.pc = "finalize"
    /\ LET ms == Range(tick.members)
           done == {m \in ms : f # <<"record", m.pr>> /\ IsReady(m.pr, m.head)}
           before == {m \in ms : merged[m.pr] # None}
       IN  /\ merged' = [p \in PRs |->
                  IF \E m \in done : m.pr = p
                  THEN (CHOOSE m \in done : m.pr = p).sha
                  ELSE merged[p]]
           /\ \E again \in SUBSET before :
                tick' = [tick EXCEPT !.pc = "record",
                                     !.failed = {m.pr : m \in ms \ (done \cup again)}]
    /\ MayFail(f)
    /\ UNCHANGED <<base, head, open, approved, reports, queueVars, loaded, clock, enq, dm, crashes>>

(* landed, or the entry of a merge the forge could not record.             *)
Recorded(m) ==
    LET e == entries[m.pr]
        conclusion == IF m.pr = Top.pr \/ m.own = "green" THEN "success"
                      ELSE IF m.own = "red" THEN "failure, covered" ELSE "covered"
    IN  IF m.pr \in tick.failed
        THEN Finished(e, "failed", "unrecorded")
        ELSE [Finished(e, "landed", "landed") EXCEPT
                  !.landed = m.sha,
                  !.last = conclusion]

LandRecord(f) ==
    /\ tick.pc = "record"
    /\ EndLanding([p \in PRs |->
            IF \E i \in DOMAIN tick.members : tick.members[i].pr = p
            THEN Recorded(CHOOSE m \in Range(tick.members) : m.pr = p)
            ELSE entries[p]], f)
    /\ MayFail(f)
    /\ UNCHANGED outsideQueue

-----------------------------------------------------------------------------
(* Requests.                                                               *)

(* ensure_loaded: the index is rebuilt from the refs on first use after a  *)
(* start, by whichever request or tick comes first.                        *)
Load ==
    /\ ~loaded
    /\ loaded' = TRUE
    /\ entries' = disk
    /\ unsaved' = {}
    /\ UNCHANGED <<base, pullVars, reports, disk, builds, clock, enq, tick, dm, faults, crashes>>

\* enqueue, up to the mutex: the pull request and its merge gate are read.
EnqueueRead(p) ==
    /\ enq[p] = None
    /\ clock + Cardinality({r \in PRs : enq[r] # None}) < MaxEnqueues
    /\ IsOpen(p) /\ PassesGate(p)
    /\ enq' = [enq EXCEPT ![p] = head[p]]
    /\ UNCHANGED <<base, pullVars, reports, queueVars, loaded, clock, tick, dm, faults, crashes>>

NewEntry(p) ==
    [head |-> enq[p], base |-> None, sha |-> None, state |-> "building", at |-> clock,
     red |-> 0, last |-> None, after |-> None, reason |-> None, landed |-> None]

\* The last entry queued on this base, if any: the new one joins on top.
StackTails(p) ==
    LET others == Building(entries) \ {p} IN
    IF others = {} THEN {None}
    ELSE {r \in others : \A o \in others : entries[o].at <= entries[r].at}

EnqueueGuard(p) == enq[p] # None /\ loaded /\ tick.pc = "idle"

EnqueueDone(p) ==
    /\ enq' = [enq EXCEPT ![p] = None]
    /\ clock' = clock + 1
    /\ UNCHANGED <<base, pullVars, reports, loaded, tick, dm, crashes>>

AlreadyQueued(p) == IsBuilding(entries, p) /\ entries[p].head = enq[p]

\* Mutant: the refused entry does not say which base refused it.
MutantRefusedEntry(e) == [e EXCEPT !.state = "dequeued", !.reason = "refused"]

(* A refused enqueue is stored: the replay failed against this base.       *)
RefusedEntry(e) == [e EXCEPT !.base = base, !.state = "dequeued", !.reason = "refused"]

Enqueue(p, f) ==
    /\ EnqueueGuard(p)
    /\ \/ AlreadyQueued(p) /\ UNCHANGED queueVars
       \/ /\ ~AlreadyQueued(p)
          /\ \E last \in StackTails(p) :
               LET e == [NewEntry(p) EXCEPT !.after = last]
                   parent == IF last = None THEN base ELSE entries[last].sha
               IN  IF CanBuild(p, e.head, parent, f)
                   THEN /\ Save([entries EXCEPT ![p] = Built(e, p, parent)], f)
                        /\ builds' = [builds EXCEPT ![p] = NextBuild(p, e.head, parent)]
                   ELSE /\ Save([entries EXCEPT ![p] = RefusedEntry(e)], f)
                        /\ UNCHANGED builds
    /\ MayFail(f)
    /\ EnqueueDone(p)

Dequeue(p, f) ==
    /\ loaded /\ tick.pc = "idle"
    /\ IsBuilding(entries, p)
    /\ Save([entries EXCEPT ![p] = Finished(@, "dequeued", "request")], f)
    /\ MayFail(f)
    /\ UNCHANGED <<outsideQueue, builds, tick>>

-----------------------------------------------------------------------------
(* merge_pull: a direct merge onto the linear-history base.                *)

(* Gate first, on the recorded head; the refs are read after it.           *)
DirectGate(p) ==
    /\ p \in Direct
    /\ dm[p] = NoMerge
    /\ IsReady(p, head[p])
    /\ dm' = [dm EXCEPT ![p] = [pc |-> "gated", from |-> None, to |-> None, head |-> head[p]]]
    /\ UNCHANGED <<base, pullVars, reports, queueVars, loaded, clock, enq, tick, faults, crashes>>

\* The live head is in the live base already: only the record is missing.
DirectAlreadyIn(p) ==
    /\ dm[p].pc = "gated"
    /\ IsAncestor(head[p], base)
    /\ dm' = [dm EXCEPT ![p] = [pc |-> "finalize", from |-> base, to |-> base, head |-> dm[p].head]]
    /\ UNCHANGED <<base, pullVars, reports, queueVars, loaded, clock, enq, tick, faults, crashes>>

(* A replay is a commit no gate saw for this pull request: it needs the    *)
(* base's required contexts of its own, replay_gate_blocker.               *)
ReplayIsGated(p, to) ==
    to = head[p] \/ BaseRequired = {} \/ GateVerdict(to, BaseRequired) = "green"

DirectBuild(p) == IF IsAncestor(base, head[p]) THEN builds[p] ELSE builds[p] + 1

DirectReplay(p) == Replay(base, head[p], <<p, DirectBuild(p)>>)

(* The live base and head, the queue's records on disk, the replay and the *)
(* gate of the replayed commit.                                            *)
DirectAllowed(p) ==
    /\ Building(disk) = {}
    /\ ~Mismatch(base, head[p])
    /\ ReplayIsGated(p, DirectReplay(p))

DirectRead(p) ==
    /\ dm[p].pc = "gated"
    /\ ~IsAncestor(head[p], base)
    /\ DirectAllowed(p)
    /\ builds' = [builds EXCEPT ![p] = DirectBuild(p)]
    /\ dm' = [dm EXCEPT ![p] =
          [pc |-> "move", from |-> base, to |-> DirectReplay(p), head |-> dm[p].head]]
    /\ UNCHANGED <<base, pullVars, reports, entries, disk, unsaved, loaded, clock, enq, tick,
                   faults, crashes>>

DirectRefused(p) ==
    /\ dm[p].pc = "gated"
    /\ ~IsAncestor(head[p], base)
    /\ ~DirectAllowed(p)
    /\ dm' = [dm EXCEPT ![p] = NoMerge]
    /\ UNCHANGED <<base, pullVars, reports, queueVars, loaded, clock, enq, tick, faults, crashes>>

\* The compare-and-swap; a base that moved refuses it.
DirectMove(p) ==
    /\ dm[p].pc = "move"
    /\ IF base = dm[p].from
       THEN /\ base' = dm[p].to
            /\ dm' = [dm EXCEPT ![p].pc = "finalize"]
       ELSE /\ dm' = [dm EXCEPT ![p] = NoMerge]
            /\ UNCHANGED base
    /\ UNCHANGED <<pullVars, reports, queueVars, loaded, clock, enq, tick, faults, crashes>>

(* finalize_merge, with the head the request named, if it named one; the   *)
(* base is not rolled back when it fails.                                  *)
DirectFinalize(p, f) ==
    /\ dm[p].pc = "finalize"
    /\ dm' = [dm EXCEPT ![p] = NoMerge]
    /\ \E asked \in {dm[p].head, head[p]} :
          merged' = IF f # <<"record", p>> /\ IsReady(p, asked)
                    THEN [merged EXCEPT ![p] = dm[p].to] ELSE merged
    /\ MayFail(f)
    /\ UNCHANGED <<base, head, open, approved, reports, queueVars, loaded, clock, enq, tick, crashes>>

-----------------------------------------------------------------------------
(* The environment: authors, reviewers, gate runners, the process.         *)

pullsOnly == <<base, reports, merged, queueVars, loaded, clock, enq, tick, dm, faults, crashes>>

\* A new head, rebased onto the base there is; its reviews start over.
Push(p) ==
    /\ p \in Pushed
    /\ IsOpen(p)
    /\ Last(head[p]).ver < MaxVersion
    /\ head' = [head EXCEPT ![p] =
          Append(base, [pr |-> p, ver |-> Last(head[p]).ver + 1, stamp |-> <<p, 0>>])]
    /\ approved' = approved \ {p}
    /\ UNCHANGED <<pullsOnly, open>>

Close(p) ==
    /\ p \in Closed
    /\ IsOpen(p)
    /\ open' = open \ {p}
    /\ UNCHANGED <<pullsOnly, head, approved>>

Review(p) ==
    /\ p \in Reviewed
    /\ IsOpen(p)
    /\ approved' = IF p \in approved THEN approved \ {p} ELSE approved \cup {p}
    /\ UNCHANGED <<pullsOnly, head, open>>

\* A gate reports once for a commit and a context.
Report(sha, c) ==
    /\ c \notin Reported(sha)
    /\ \E ok \in BOOLEAN : reports' = reports \cup {[sha |-> sha, ctx |-> c, ok |-> ok]}
    /\ UNCHANGED <<base, pullVars, queueVars, loaded, clock, enq, tick, dm, faults, crashes>>

ReportHead(p, c) == IsOpen(p) /\ Report(head[p], c)

\* The gate runner gates the queue commit of every building entry.
ReportQueued(p, c) == IsBuilding(entries, p) /\ Report(entries[p].sha, c)

Crash ==
    /\ crashes > 0
    /\ crashes' = crashes - 1
    /\ loaded' = FALSE
    /\ entries' = [p \in PRs |-> None]
    /\ unsaved' = {}
    /\ enq' = [p \in PRs |-> None]
    /\ tick' = Resting
    /\ dm' = [p \in PRs |-> NoMerge]
    /\ UNCHANGED <<base, pullVars, reports, disk, builds, clock, faults>>

Authored(p) == <<[pr |-> p, ver |-> 1, stamp |-> <<p, 0>>]>>

\* Every pull request is open, approved and gated green at its own head.
Init ==
    /\ base = <<>>
    /\ head = [p \in PRs |-> Authored(p)]
    /\ open = PRs
    /\ approved = PRs
    /\ merged = [p \in PRs |-> None]
    /\ reports = {[sha |-> Authored(p), ctx |-> c, ok |-> TRUE] : p \in PRs, c \in Contexts}
    /\ entries = [p \in PRs |-> None]
    /\ loaded = TRUE
    /\ disk = entries
    /\ unsaved = {}
    /\ builds = [p \in PRs |-> 0]
    /\ clock = 0
    /\ enq = [p \in PRs |-> None]
    /\ tick = Resting
    /\ dm = [p \in PRs |-> NoMerge]
    /\ faults = MaxFaults
    /\ crashes = MaxCrashes

SomeFault(kinds) == {NoFault} \cup ((kinds \cap Faults) \X PRs)

\* A tick whose restack may fail to read the tip, or to write.
Rewriting == {"write", "tip"}

TickStep ==
    \/ \E f \in SomeFault(Rewriting \cup {"unreadable"}) : TickStart(f) \/ LandRefused(f)
    \/ \E f \in SomeFault({"write", "replay"}) : RestackStep(f)
    \/ RestackDone
    \/ TickLand
    \/ \E f \in SomeFault(Rewriting \cup {"replay"}) : TickRetry(f)
    \/ TickWait
    \/ LandReady
    \/ LandMove
    \/ \E f \in SomeFault(Rewriting \cup {"git"}) : LandBlocked(f) \/ LandNotBelow(f)
    \/ \E f \in SomeFault({"record"}) : LandFinalize(f)
    \/ \E f \in SomeFault(Rewriting) : LandRecord(f)

Next ==
    \/ TickStep
    \/ Load
    \/ Crash
    \/ \E p \in PRs :
          \/ EnqueueRead(p)
          \/ \E f \in SomeFault({"replay", "write"}) : Enqueue(p, f)
          \/ \E f \in SomeFault({"write"}) : Dequeue(p, f)
          \/ DirectGate(p) \/ DirectAlreadyIn(p) \/ DirectRead(p) \/ DirectRefused(p) \/ DirectMove(p)
          \/ \E f \in SomeFault({"record"}) : DirectFinalize(p, f)
          \/ Push(p) \/ Close(p) \/ Review(p)
          \/ \E c \in Contexts : ReportHead(p, c) \/ ReportQueued(p, c)

Spec == Init /\ [][Next]_vars

(***************************************************************************)
(* Fairness: spawn_worker ticks every ten seconds and a tick runs to its   *)
(* end, the index is loaded by the first tick after a start, and the gate  *)
(* runner reports every context on the queue commit of every building      *)
(* entry.  Nothing is asked of authors, reviewers or direct merges.        *)
(***************************************************************************)
Fairness ==
    /\ WF_vars(TickStep)
    /\ WF_vars(Load)
    /\ \A p \in PRs, c \in Contexts : WF_vars(ReportQueued(p, c))

FairSpec == Spec /\ Fairness

-----------------------------------------------------------------------------
Stamp == PRs \X Nat

Patch == [pr : PRs, ver : Nat, stamp : Stamp]

Commit == Seq(Patch)

Conclusion == {None, "open", "superseded", "failure", "success", "covered", "failure, covered"}

Reason ==
    {None, "closed", "head_moved", "merge_gate", "replay", "gate", "merged", "not_ready",
     "landed", "unrecorded", "refused", "request"}

Entry ==
    [head : Commit, base : Commit, sha : Commit \cup {None},
     state : {"building", "landed", "failed", "dequeued"},
     at : Nat, red : Nat, last : Conclusion, after : PRs \cup {None},
     reason : Reason, landed : Commit \cup {None}]

LandingMember ==
    [pr : PRs, head : Commit, base : Commit, sha : Commit, own : {"red", "green", "waiting"}]

Tick ==
    [pc : {"idle", "stack", "restack", "ready", "move", "finalize", "record"},
     live : Seq(PRs), tip : Commit \cup {None}, members : Seq(LandingMember), failed : SUBSET PRs]

Merge ==
    [pc : {"idle", "gated", "move", "finalize"}, from : Commit \cup {None}, to : Commit \cup {None},
     head : Commit \cup {None}]

TypeOK ==
    /\ base \in Commit
    /\ head \in [PRs -> Commit]
    /\ open \subseteq PRs /\ approved \subseteq PRs
    /\ merged \in [PRs -> Commit \cup {None}]
    /\ reports \subseteq [sha : Commit, ctx : Contexts, ok : BOOLEAN]
    /\ entries \in [PRs -> Entry \cup {None}]
    /\ disk \in [PRs -> Entry \cup {None}]
    /\ unsaved \subseteq PRs
    /\ builds \in [PRs -> Nat]
    /\ clock \in Nat
    /\ enq \in [PRs -> Commit \cup {None}]
    /\ tick \in Tick
    /\ dm \in [PRs -> Merge]

(* A queue landing brings exactly the members' changes to the base: what   *)
(* was dequeued, closed or failed below the top is not carried along.      *)
OnlyQueuedChangesLand ==
    [][LandMove =>
          Changes(base') \ Changes(base) =
              (UNION {{[pr |-> Last(m.head).pr, ver |-> Last(m.head).ver]} : m \in Range(tick.members)})
                  \ Changes(base)]_vars

(* No change is on the base twice, although a crash between the ref move   *)
(* and the records leaves a landed pull request queued: replaying it again *)
(* is refused by ensure_same_change.                                       *)
NoDoubleLanding ==
    \A i, j \in DOMAIN base : SameChange(base[i], base[j]) => i = j

(* A pull request is recorded merged only at a commit that carries the     *)
(* head it has: a push that arrives between the gate and finalize_merge is *)
(* never marked merged by the landing of the older head.                   *)
MergedCarriesHead ==
    \A p \in PRs : merged[p] # None =>
        [pr |-> p, ver |-> Last(head[p]).ver] \in Changes(merged[p])

(* Only an entry's own red gates spend its retry: it is failed for its     *)
(* gate after MAX_ATTEMPTS failures, sooner only when its commit is the    *)
(* pull request's own, and never has more; rebuilds spend nothing, and     *)
(* each failure had a red commit of its own (unless the head is in the     *)
(* base already: its replay is the base tip, so a retry is the same        *)
(* commit).                                                                *)
RetryIsSpentOnRedGates ==
    \A p \in PRs : entries[p] # None =>
        LET e == entries[p]
            red == e.red
        IN  /\ red <= MaxAttempts
            /\ e.state = "building" => red < MaxAttempts
            /\ e.reason = "gate" => red = MaxAttempts \/ (red > 0 /\ e.sha = e.head)
            /\ e.state = "building" /\ ~IsAncestor(e.head, e.base) =>
                  red <= Cardinality({r.sha : r \in {x \in reports : ~x.ok /\ Last(x.sha).pr = p}})

(* A restart resumes the queue: what the index holds is what the refs hold *)
(* except for entries whose last write failed, whatever step the process   *)
(* dies in.                                                                *)
RestartResumesQueue ==
    loaded => \A p \in PRs \ unsaved : entries[p] = disk[p]

(* Every queued entry lands, fails or is dequeued.                         *)
EveryEntryLeaves ==
    \A p \in PRs : IsBuilding(entries, p) ~> ~IsBuilding(entries, p)
=============================================================================
