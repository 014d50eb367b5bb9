----------------------------- MODULE AuditQueue -----------------------------
(***************************************************************************)
(* The jankurai audits of one repository: the in-process ticket queue      *)
(* (ci_bridge/audit_queue.rs), the planning of an audit by a push, a       *)
(* re-gate, a merge-queue tick or a restore after a start (ci_bridge.rs),  *)
(* the claim of tickets and the ingest of a report by gate runners         *)
(* (web/jankurai/audits.rs, web/repositories.rs, record_queue_score of     *)
(* web/merge_queue.rs).                                                    *)
(*                                                                         *)
(* The queue is one mutex: an operation on it is one step.  Everything     *)
(* around it (the score rows, the check runs, the receipts of the merge    *)
(* queue) is read and written outside that mutex, in steps of its own.     *)
(*                                                                         *)
(* A head is on one branch.  `late' stands for "claimed more than          *)
(* CLAIM_LEASE_SECONDS ago", and `stamp' for enqueued_at and claimed_at:   *)
(* two tickets made or claimed at different moments differ in it.          *)
(***************************************************************************)
EXTENDS Naturals, Sequences, FiniteSetsExt

CONSTANTS
    Heads,          \* commits that may be audited
    Branches,
    Branch,         \* the branch each head is pushed to
    QueueBranches,  \* the branches that are refs/queue/<base>/<n>
    Bases,          \* merge bases, numbered along the protected branch
    NoBase,         \* NO_COMMIT_BASE_OID: the head is audited whole
    FirstBase,      \* the merge base of each head when it is pushed
    Narrowing,      \* heads whose merge base moves when what is below lands
    Runners,
    Gates,          \* runners that also report the audit of <repo>/required
    Barred,         \* Barred[h][b]: who wrote a change of the diff b..h
    Pullers,        \* request threads that plan the head of a pull request
    Capacity,       \* AUDIT_QUEUE_CAPACITY
    Batch,          \* MAX_CLAIM_BATCH
    Verdicts,       \* what an audit may say: "pass", "fail", "none" (no score)
    MaxFaults,      \* bound: crashes, lost writes, lost runners, backfills
    None

Base == Bases \cup {NoBase}

ASSUME Constants ==
    /\ Branch \in [Heads -> Branches]
    /\ QueueBranches \subseteq Branches
    /\ Bases \subseteq Nat /\ NoBase \notin Bases
    /\ FirstBase \in [Heads -> Base]
    /\ Narrowing \subseteq Heads /\ \A h \in Narrowing : FirstBase[h] \in Bases
    /\ IsFiniteSet(Runners) /\ Gates \subseteq Runners
    /\ Barred \in [Heads -> [Base -> SUBSET Runners]]
    /\ {"pass"} \subseteq Verdicts /\ Verdicts \subseteq {"pass", "fail", "none"}
    /\ None \notin Base /\ None \notin Runners /\ None \notin Heads
    /\ Capacity \in Nat \ {0} /\ Batch \in Nat \ {0} /\ MaxFaults \in Nat

IsQueue(h) == Branch[h] \in QueueBranches

Planners == Pullers \cup {"tick", "restore"}

Ticket == [head : Heads, base : Base, by : Runners \cup {None}, late : BOOLEAN, stamp : Nat]

Modes == {"diff", "full"}

Row == [base : Base \cup {None}, audited : Base \cup {None}, mode : Modes,
        by : Runners \cup {None}, verdict : Verdicts]

Idle == [step |-> "idle"]

\* What a planner knows of the head it plans.
PlanState ==
    {Idle} \cup [step : {"publish"}, head : Heads]
        \cup [step : {"decide", "enqueue", "republish", "retire"}, head : Heads, base : Base,
              row : Row \cup {None}]

AuditJob == [step : {"audit"}, head : Heads, base : Base, mode : Modes, stamp : Nat]

\* What a runner, or the request that carries its report, has in hand.
SubState ==
    {Idle} \cup AuditJob \cup [step : {"consume"}, ticket : Ticket, job : AuditJob]
        \cup [step : {"record"}, head : Heads, base : Base, audited : Base, mode : Modes]
        \cup [step : {"post", "receipt"}, head : Heads, row : Row]

VARIABLES
    tickets,    \* AuditQueue.tickets, oldest first
    tip,        \* the head each branch points to, or None
    mergeBase,  \* merge-base of each head with its protected branch
    score,      \* the score row of each head, or None
    trusted,    \* the queue entry's receipt names that row
    proof,      \* the newest jankurai/proof of each head
    plan,       \* where each planner is
    sub,        \* where each runner's audit and submission is
    restore,    \* pull heads restore_pending_audits has not visited, or None
    faults      \* faults so far

vars == <<tickets, tip, mergeBase, score, trusted, proof, plan, sub, restore, faults>>

Init ==
    /\ tickets = <<>>
    /\ tip = [b \in Branches |-> None]
    /\ mergeBase = FirstBase
    /\ score = [h \in Heads |-> None]
    /\ trusted = [h \in Heads |-> FALSE]
    /\ proof = [h \in Heads |-> "absent"]
    /\ plan = [w \in Planners |-> Idle]
    /\ sub = [r \in Runners |-> Idle]
    /\ restore = {}
    /\ faults = 0

-----------------------------------------------------------------------------
(* The ticket queue, under its mutex.                                      *)

\* The elements of a sequence at the positions P, in their order.
Subsequence(s, P) ==
    [k \in 1 .. Cardinality(P) |-> s[CHOOSE i \in P : Cardinality({j \in P : j <= i}) = k]]

Without(ts, i) == Subsequence(ts, DOMAIN ts \ {i})

\* A moment no ticket, and no copy of a ticket, was made at.
Stamps ==
    {t.stamp : t \in Range(tickets)}
        \cup {sub[r].ticket.stamp : r \in {s \in Runners : sub[s].step = "consume"}}
        \cup {sub[r].stamp : r \in {s \in Runners : sub[s].step = "audit"}}

Now == CHOOSE n \in 0..Cardinality(Stamps) : n \notin Stamps

NewTicket(h, b) == [head |-> h, base |-> b, by |-> None, late |-> FALSE, stamp |-> Now]

IsWaiting(t) == t.by = None

ExpireStaleClaims(ts) ==
    [i \in DOMAIN ts |-> IF ts[i].late THEN [ts[i] EXCEPT !.by = None, !.late = FALSE] ELSE ts[i]]

Positions(ts, h) == {i \in DOMAIN ts : ts[i].head = h}

\* A newer head of the branch makes the waiting ticket of an older one moot.
IsSuperseded(t, h) == IsWaiting(t) /\ Branch[t.head] = Branch[h]

IsReplaced(held, h, b) == IsQueue(h) /\ held.base # b

\* Mutant: a ticket being audited may make room too.
MutantVictims(ts) == DOMAIN ts

\* The tickets that may be evicted: the unclaimed ones.
Victims(ts) == {i \in DOMAIN ts : IsWaiting(ts[i])}

IsFull(ts) == Len(ts) >= Capacity /\ Victims(ts) = {}

MakeRoom(ts) == IF Len(ts) < Capacity THEN ts ELSE Without(ts, Min(Victims(ts)))

\* The outcome of enqueue, and the tickets it leaves.
Enqueued(h, b) ==
    LET live == ExpireStaleClaims(tickets)
        at == Positions(live, h)
        kept == Subsequence(live, {i \in DOMAIN live : ~IsSuperseded(live[i], h)})
    IN  IF at # {}
        THEN LET i == Min(at) IN
             IF IsReplaced(live[i], h, b)
             THEN [outcome |-> "queued", tickets |-> [live EXCEPT ![i] = NewTicket(h, b)]]
             ELSE [outcome |-> "already", tickets |-> live]
        ELSE IF IsFull(kept)
             THEN [outcome |-> "full", tickets |-> kept]
             ELSE [outcome |-> "queued", tickets |-> Append(MakeRoom(kept), NewTicket(h, b))]

\* The positions claim hands out: the oldest waiting ones, n at most.
Claimed(ts, n) ==
    {i \in DOMAIN ts : IsWaiting(ts[i]) /\ Cardinality({j \in 1..i : IsWaiting(ts[j])}) <= n}

\* Mutant: the ticket of the head, not the one that was validated.
MutantOpen(t) == \E s \in Range(tickets) : s.head = t.head

\* queue.tickets().contains(ticket): the whole ticket, its claim included.
Open(t) == \E s \in Range(tickets) : s = [t EXCEPT !.late = s.late]

Take(h) == Without(tickets, Min(Positions(tickets, h)))

-----------------------------------------------------------------------------
(* Planning: queue_head_audit and plan_push_audit.                         *)

Goto(w, s) == plan' = [plan EXCEPT ![w] = s]

Fault == faults < MaxFaults /\ faults' = faults + 1

MayPlan(w, h) == IF IsQueue(h) THEN w = "tick" ELSE w \in Pullers

\* trusted_queue_scores filters the rows of a queue head.
ReadableRow(h) == IF IsQueue(h) /\ ~trusted[h] THEN None ELSE score[h]

\* The audit base and the score row a planner starts from.
Reading(h) == [step |-> "decide", head |-> h, base |-> mergeBase[h], row |-> ReadableRow(h)]

\* A push or a queue build moves the branch to a new head and plans its audit.
Move(w, h) ==
    /\ plan[w] = Idle /\ MayPlan(w, h)
    /\ tip[Branch[h]] = None \/ (~IsQueue(h) /\ tip[Branch[h]] # h)
    /\ tip' = [tip EXCEPT ![Branch[h]] = h]
    /\ Goto(w, Reading(h))
    /\ UNCHANGED <<tickets, mergeBase, score, trusted, proof, sub, restore, faults>>

\* schedule_audit on a merge-queue tick, or restore_head_audit on a re-gate.
Replan(w, h) ==
    /\ plan[w] = Idle /\ MayPlan(w, h)
    /\ tip[Branch[h]] = h
    /\ Goto(w, Reading(h))
    /\ UNCHANGED <<tickets, tip, mergeBase, score, trusted, proof, sub, restore, faults>>

\* What lies below the head lands: the diff to audit is narrower.
Narrow(h) ==
    /\ h \in Narrowing /\ mergeBase[h] + 1 \in Bases
    /\ plan["tick"] = Idle
    /\ mergeBase' = [mergeBase EXCEPT ![h] = @ + 1]
    /\ UNCHANGED <<tickets, tip, score, trusted, proof, plan, sub, restore, faults>>

Covered(p) == p.row # None /\ (IsQueue(p.head) => p.row.base = p.base)

IsPublished(h) == proof[h] \in {"pass", "fail"}

\* Mutant: the row of an admin backfill is recovered too.
MutantRecoverable(p) == p.row # None /\ p.row.verdict # "none"

\* recorded_for_recovery: a governed verdict for the base asked for.
Recoverable(p) == p.row # None /\ p.row.base = p.base /\ p.row.verdict # "none"

\* Mutant: a score is enough, published or not.
MutantDecided(p) == IF Covered(p) THEN "idle" ELSE "enqueue"

\* The order of plan_push_audit's early returns.
Decided(p) ==
    LET published == IsQueue(p.head) => IsPublished(p.head) IN
    IF Covered(p) /\ published
    THEN IF IsQueue(p.head) /\ Recoverable(p) THEN "retire" ELSE "idle"
    ELSE IF ~published /\ Recoverable(p) THEN "republish" ELSE "enqueue"

Decide(w) ==
    /\ plan[w].step = "decide"
    /\ Goto(w, IF Decided(plan[w]) = "idle" THEN Idle
               ELSE [plan[w] EXCEPT !.step = Decided(plan[w])])
    /\ UNCHANGED <<tickets, tip, mergeBase, score, trusted, proof, sub, restore, faults>>

Enqueue(w) ==
    /\ plan[w].step = "enqueue"
    /\ LET done == Enqueued(plan[w].head, plan[w].base) IN
        /\ tickets' = done.tickets
        /\ Goto(w, IF done.outcome = "already" THEN Idle
                   ELSE [step |-> "publish", head |-> plan[w].head])
    /\ UNCHANGED <<tip, mergeBase, score, trusted, proof, sub, restore, faults>>

\* The pending check run; its failure is ignored.
PublishPending(w) ==
    /\ plan[w].step = "publish"
    /\ \/ proof' = [proof EXCEPT ![plan[w].head] = "pending"] /\ UNCHANGED faults
       \/ Fault /\ UNCHANGED proof
    /\ Goto(w, Idle)
    /\ UNCHANGED <<tickets, tip, mergeBase, score, trusted, sub, restore>>

Conclusion(row) == IF row.verdict = "pass" THEN "pass" ELSE "fail"

Republish(w) ==
    /\ plan[w].step = "republish"
    /\ \/ /\ proof' = [proof EXCEPT ![plan[w].head] = Conclusion(plan[w].row)]
          /\ Goto(w, [plan[w] EXCEPT !.step = "retire"])
          /\ UNCHANGED faults
       \/ /\ proof[plan[w].head] # Conclusion(plan[w].row)
          /\ Fault /\ Goto(w, Idle) /\ UNCHANGED proof
    /\ UNCHANGED <<tickets, tip, mergeBase, score, trusted, sub, restore>>

RetireTicket(w) ==
    /\ plan[w].step = "retire"
    /\ LET h == plan[w].head IN
        tickets' = IF \E t \in Range(tickets) : t.head = h /\ t.base = plan[w].row.base
                   THEN Take(h) ELSE tickets
    /\ Goto(w, Idle)
    /\ UNCHANGED <<tip, mergeBase, score, trusted, proof, sub, restore, faults>>

-----------------------------------------------------------------------------
(* restore_tickets_once: the first claim after a start.                    *)

BeginRestore ==
    /\ restore = None
    /\ restore' = {h \in Heads : ~IsQueue(h) /\ tip[Branch[h]] = h}
    /\ UNCHANGED <<tickets, tip, mergeBase, score, trusted, proof, plan, sub, faults>>

\* Mutant: only a head without any proof counts as unaudited.
MutantNeedsRestore(h) == proof[h] = "absent"

NeedsRestore(h) == proof[h] = "pending"

RestoreHead(h) ==
    /\ restore # None /\ h \in restore /\ plan["restore"] = Idle
    /\ restore' = restore \ {h}
    /\ IF NeedsRestore(h) THEN Goto("restore", Reading(h)) ELSE UNCHANGED plan
    /\ UNCHANGED <<tickets, tip, mergeBase, score, trusted, proof, sub, faults>>

-----------------------------------------------------------------------------
(* Runners.                                                                *)

Job(t, mode) == [step |-> "audit", head |-> t.head, base |-> t.base, mode |-> mode,
                 stamp |-> t.stamp]

\* The audit a ticket asks for; a full one is as good where a diff is asked.
AuditMode(t) == IF t.base = NoBase THEN "full" ELSE "diff"

Claimable(ts) == ExpireStaleClaims(ts)

\* POST /api/v1/jankurai-audits/claim.  The runner audits one ticket of its
\* batch; the others stay claimed until it reports them (StartGate) or their
\* lease runs out.  A runner that ignores the audit mode is a fault.
Claim(r, n) ==
    /\ sub[r] = Idle
    /\ restore = {} /\ plan["restore"] = Idle
    /\ LET live == Claimable(tickets)
           mine == Claimed(live, n)
           held == [i \in DOMAIN live |-> IF i \in mine
                       THEN [live[i] EXCEPT !.by = r, !.stamp = Now] ELSE live[i]]
       IN /\ tickets' = held
          /\ \E i \in mine :
                \/ sub' = [sub EXCEPT ![r] = Job(held[i], AuditMode(held[i]))] /\ UNCHANGED faults
                \/ Fault /\ sub' = [sub EXCEPT ![r] = Job(held[i], "diff")]
    /\ UNCHANGED <<tip, mergeBase, score, trusted, proof, plan, restore>>

\* <repo>/required reports its own audit against a ticket it read in the list.
StartGate(r, i) ==
    /\ r \in Gates /\ sub[r] = Idle
    /\ i \in DOMAIN tickets
    /\ sub' = [sub EXCEPT ![r] = Job(tickets[i], "full")]
    /\ UNCHANGED <<tickets, tip, mergeBase, score, trusted, proof, plan, restore, faults>>

\* A runner dies with its audit, or the report never arrives.
LoseRunner(r) ==
    /\ sub[r].step = "audit"
    /\ Fault
    /\ sub' = [sub EXCEPT ![r] = Idle]
    /\ UNCHANGED <<tickets, tip, mergeBase, score, trusted, proof, plan, restore>>

IsAuditing(t) ==
    LET s == sub[t.by] IN
    \/ s.step = "audit" /\ s.head = t.head /\ s.stamp = t.stamp
    \/ s.step = "consume" /\ s.ticket.head = t.head /\ s.ticket.stamp = t.stamp

\* The lease of a claim runs out; that of a runner still at work is a fault.
LeaseRunsOut(i) ==
    /\ i \in DOMAIN tickets /\ ~IsWaiting(tickets[i]) /\ ~tickets[i].late
    /\ tickets' = [tickets EXCEPT ![i].late = TRUE]
    /\ IF IsAuditing(tickets[i]) THEN Fault ELSE UNCHANGED faults
    /\ UNCHANGED <<tip, mergeBase, score, trusted, proof, plan, sub, restore>>

-----------------------------------------------------------------------------
(* Ingest: runner_audit_ingest.                                            *)

Matches(t, job) ==
    /\ t.head = job.head
    /\ t.base = NoBase => job.mode = "full"
    /\ t.base = job.base

Refuse(r) == sub' = [sub EXCEPT ![r] = Idle]

\* authorize_runner_submission copies the ticket; nothing is consumed.
Authorize(r) ==
    /\ sub[r].step = "audit"
    /\ IF \E t \in Range(tickets) : Matches(t, sub[r])
       THEN \E t \in Range(tickets) :
               /\ Matches(t, sub[r])
               /\ sub' = [sub EXCEPT ![r] = [step |-> "consume", ticket |-> t, job |-> sub[r]]]
       ELSE Refuse(r)
    /\ UNCHANGED <<tickets, tip, mergeBase, score, trusted, proof, plan, restore, faults>>

\* author_produced_submission judges the submitted diff.
IsAuthor(r, job) == r \in Barred[job.head][job.base]

\* The author check, then consume_runner_submission under the queue's mutex.
Consume(r) ==
    /\ sub[r].step = "consume"
    /\ LET t == sub[r].ticket IN
        IF ~IsAuthor(r, sub[r].job) /\ Open(t)
        THEN LET taken == tickets[Min(Positions(tickets, t.head))] IN
             /\ tickets' = Take(t.head)
             /\ sub' = [sub EXCEPT ![r] = [step |-> "record", head |-> t.head,
                           base |-> taken.base, audited |-> sub[r].job.base,
                           mode |-> sub[r].job.mode]]
        ELSE Refuse(r) /\ UNCHANGED tickets
    /\ UNCHANGED <<tip, mergeBase, score, trusted, proof, plan, restore, faults>>

\* A row replaces the row of its head; whether it keeps that row's id is
\* the core's affair.
Stored(h, row) ==
    /\ score' = [score EXCEPT ![h] = row]
    /\ \E same \in BOOLEAN : trusted' = [trusted EXCEPT ![h] = @ /\ same]

Record(r, verdict) ==
    /\ sub[r].step = "record"
    /\ LET h == sub[r].head
           row == [base |-> sub[r].base, audited |-> sub[r].audited, mode |-> sub[r].mode,
                   by |-> r, verdict |-> verdict]
       IN \/ /\ Stored(h, row)
             /\ sub' = [sub EXCEPT ![r] = [step |-> "post", head |-> h, row |-> row]]
             /\ UNCHANGED faults
          \/ Fault /\ Refuse(r) /\ UNCHANGED <<score, trusted>>
    /\ UNCHANGED <<tickets, tip, mergeBase, proof, plan, restore>>

\* The completed check run; its failure is ignored.
Post(r) ==
    /\ sub[r].step = "post"
    /\ LET h == sub[r].head IN
        /\ \/ proof' = [proof EXCEPT ![h] = Conclusion(sub[r].row)] /\ UNCHANGED faults
           \/ proof[h] # Conclusion(sub[r].row) /\ Fault /\ UNCHANGED proof
        /\ sub' = [sub EXCEPT ![r] = IF IsQueue(h) THEN [@ EXCEPT !.step = "receipt"] ELSE Idle]
    /\ UNCHANGED <<tickets, tip, mergeBase, score, trusted, plan, restore>>

\* record_queue_score, under the merge queue's mutex, which a tick holds.
Receipt(r) ==
    /\ sub[r].step = "receipt" /\ plan["tick"] = Idle
    /\ LET h == sub[r].head IN
        \/ /\ \E same \in BOOLEAN :
                /\ score[h] = sub[r].row => same
                /\ trusted' = [trusted EXCEPT ![h] = same]
           /\ UNCHANGED faults
        \/ Fault /\ UNCHANGED trusted
    /\ Refuse(r)
    /\ UNCHANGED <<tickets, tip, mergeBase, score, proof, plan, restore>>

\* admin_score_ingest: a row without provenance, and no check.
Backfill(h) ==
    /\ tip[Branch[h]] = h
    /\ Fault
    /\ Stored(h, [base |-> None, audited |-> None, mode |-> "full", by |-> None, verdict |-> "pass"])
    /\ UNCHANGED <<tickets, tip, mergeBase, proof, plan, sub, restore>>

\* The forge restarts: tickets and requests are gone, the rest is durable.
Crash ==
    /\ Fault
    /\ tickets' = <<>>
    /\ plan' = [w \in Planners |-> Idle]
    /\ sub' = [r \in Runners |-> IF sub[r].step = "audit" THEN sub[r] ELSE Idle]
    /\ restore' = None
    /\ UNCHANGED <<tip, mergeBase, score, trusted, proof>>

-----------------------------------------------------------------------------
Plan(w) ==
    \/ Decide(w)
    \/ Enqueue(w)
    \/ PublishPending(w)
    \/ Republish(w)
    \/ RetireTicket(w)

Ingest(r) ==
    \/ Authorize(r)
    \/ Consume(r)
    \/ \E v \in Verdicts : Record(r, v)
    \/ Post(r)
    \/ Receipt(r)

Restoring == BeginRestore \/ \E h \in Heads : RestoreHead(h)

Claims(r) == \E n \in 1..Batch : Claim(r, n)

Next ==
    \/ \E w \in Planners, h \in Heads : Move(w, h) \/ Replan(w, h)
    \/ \E h \in Heads : Narrow(h) \/ Backfill(h)
    \/ \E w \in Planners : Plan(w)
    \/ Restoring
    \/ \E r \in Runners : Claims(r) \/ LoseRunner(r) \/ Ingest(r)
    \/ \E r \in Runners, i \in 1..Capacity : StartGate(r, i)
    \/ \E i \in 1..Capacity : LeaseRunsOut(i)
    \/ Crash

Spec == Init /\ [][Next]_vars

(***************************************************************************)
(* Fairness: the runtime finishes every request; the merge queue ticks for *)
(* ever; leases run out; and every runner keeps polling for work, whether  *)
(* or not it finds some each time (strong).                                *)
(***************************************************************************)
Fairness ==
    /\ \A w \in Planners : WF_vars(Plan(w))
    /\ \A h \in Heads : IsQueue(h) => SF_vars(Replan("tick", h))
    /\ WF_vars(Restoring)
    /\ \A r \in Runners : SF_vars(Ingest(r)) /\ SF_vars(Claims(r))
    /\ \A i \in 1..Capacity : WF_vars(LeaseRunsOut(i))

FairSpec == Spec /\ Fairness

-----------------------------------------------------------------------------
TypeOK ==
    /\ tickets \in Seq(Ticket) /\ Len(tickets) <= Capacity
    /\ \A i, j \in DOMAIN tickets : tickets[i].head = tickets[j].head => i = j
    /\ tip \in [Branches -> Heads \cup {None}]
    /\ mergeBase \in [Heads -> Base]
    /\ score \in [Heads -> Row \cup {None}]
    /\ trusted \in [Heads -> BOOLEAN]
    /\ proof \in [Heads -> {"absent", "pending", "pass", "fail"}]
    /\ plan \in [Planners -> PlanState]
    /\ sub \in [Runners -> SubState]
    /\ restore = None \/ restore \subseteq Heads

(* What a governed row says was audited is what its runner audited: the    *)
(* recorded base is the base of the report ("never relabel the previous    *)
(* report"), the report of a head without a base is a full one, and nobody *)
(* with a change in that diff submitted it.  The ticket is validated, the  *)
(* authors are read and the ticket is consumed in three steps, while ticks *)
(* replace the ticket's base and leases run out.                           *)
RowsAreHonest ==
    \A h \in Heads : score[h] # None /\ score[h].by # None =>
        /\ score[h].base = score[h].audited
        /\ score[h].base = NoBase => score[h].mode = "full"
        /\ score[h].by \notin Barred[h][score[h].audited]

(* "Scheduling cannot invent a successful verdict": a proof turns green    *)
(* only by a governed report of that head that passed, posted by its       *)
(* ingest or recovered from its row by a tick, never from a backfilled row *)
(* or from a report against another base than the one asked for.           *)
EarnedBy(h, x) ==
    x.step \in {"post", "republish"} /\ x.head = h
        /\ x.row.by # None /\ x.row.verdict = "pass" /\ x.row.base = x.row.audited

IsEarned(h) ==
    \/ \E r \in Runners : EarnedBy(h, sub[r])
    \/ \E w \in Planners : EarnedBy(h, plan[w]) /\ plan[w].row.base = plan[w].base

ProofIsEarned ==
    [][\A h \in Heads : proof'[h] = "pass" /\ proof[h] # "pass" => IsEarned(h)]_vars

(* "A claimed one is already running, so leave it": a ticket whose claim   *)
(* is inside its lease is neither evicted, superseded nor handed to a      *)
(* second runner.  It goes with a report of its head, with a queue commit  *)
(* whose diff changed or whose verdict was recovered, or in a restart.     *)
IsRunning(t) == ~IsWaiting(t) /\ ~t.late

StaysOrIsAnswered(t) ==
    \/ \E s \in Range(tickets') : s = [t EXCEPT !.late = s.late]
    \/ \E r \in Runners : sub'[r].step = "record" /\ sub[r].step = "consume"
                              /\ sub'[r].head = t.head
    \/ IsQueue(t.head) /\ \E s \in Range(tickets') : s.head = t.head /\ s.base # t.base
    \/ plan["tick"].step = "retire" /\ plan["tick"].head = t.head
          /\ plan["tick"].row.base = t.base
    \/ restore' = None

RunningAuditKeepsItsTicket ==
    [][\A t \in Range(tickets) : IsRunning(t) => StaysOrIsAnswered(t)]_vars

(* A queue commit whose proof is pending gets a verdict, whatever was lost *)
(* on the way: the ticket (a restart, an eviction), the report after its   *)
(* ticket was consumed, the row's publication, its receipt, or the runner. *)
QueueProofCompletes ==
    \A h \in Heads : IsQueue(h) => (proof[h] = "pending" ~> IsPublished(h))

(* "The tickets did not survive it": after a restart the head of an open   *)
(* pull request whose proof is pending and that nothing has scored is      *)
(* ticketed again, by the first claim.                                     *)
PendingHeadIsRestored ==
    \A h \in Heads :
        (restore = None /\ ~IsQueue(h) /\ tip[Branch[h]] = h /\ proof[h] = "pending" /\ score[h] = None)
            ~> (Positions(tickets, h) # {} \/ score[h] # None \/ tip[Branch[h]] # h)

(* "No second audit is authorized, so the first report stays the one that  *)
(* counts": the governed verdict of a head is not replaced by another      *)
(* report against the same base.                                           *)
FirstReportCounts ==
    [][\A h \in Heads :
          (/\ score[h] # None /\ score[h].by # None /\ score[h].verdict # "none"
           /\ score'[h] # score[h] /\ score'[h].by # None) =>
              score'[h].base # score[h].base]_vars
=============================================================================
