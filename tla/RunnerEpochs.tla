---------------------------- MODULE RunnerEpochs ----------------------------
(***************************************************************************)
(* The runner lifetimes that fence work-cell claims: the registry of       *)
(* epochs (web/runner_epochs.rs) and the routes that admit and drop a      *)
(* runner and that claim a cell (web/workcells.rs).                        *)
(*                                                                         *)
(* Two mutexes are involved, the ledger's (`door') and the registry's.  A  *)
(* claim holds the first while it copies the registry into the fence and   *)
(* while it takes a cell; an admission holds it while it counts cells and  *)
(* while it issues.  A drop takes the registry's alone, so it may come     *)
(* between the halves of both.                                             *)
(*                                                                         *)
(* The ledger itself is jeryu-runnerd's WorkcellManager, which is external *)
(* and modelled by what the routes rely on: a claim gets a cell if and     *)
(* only if the fence has its epoch.  A claim may be in flight for as long  *)
(* as its epoch exists.                                                    *)
(***************************************************************************)
EXTENDS Integers, FiniteSets

CONSTANTS
    Machines,       \* runner ids
    MaxAdmitted,    \* MAX_ADMITTED_RUNNERS
    MaxLives,       \* bound: lifetimes issued, restarts included
    MaxWall,        \* bound: how far the wall clock is run by itself
    NoLife

Lifetime == [epoch : Nat, life : Nat, settled : BOOLEAN]

ASSUME EpochConstants ==
    /\ MaxAdmitted \in Nat \ {0} /\ MaxLives \in Nat /\ MaxWall \in Nat
    /\ NoLife \notin Lifetime

VARIABLES
    issued,     \* RunnerEpochRegistry::issued; `settled': past EVICTION_GRACE
    next_epoch,
    wall,       \* clock_epoch()
    fence,      \* the ledger's table of admitted epochs
    cells,      \* who holds a live cell: runner and lifetime
    door,       \* what the holder of the ledger's mutex is about
    given,      \* the epochs each runner was given, by lifetime
    newest,     \* history: the last lifetime issued to each runner
    lives       \* history: how many lifetimes were issued

epochVars == <<issued, next_epoch, wall, fence, cells, door, given, newest, lives>>

Free == [by |-> "nobody"]

Claiming == [by : {"claim"}, runner : Machines, epoch : Nat, life : Nat, dropped : BOOLEAN]

Admitting == [by : {"admit"}, runner : Machines, busy : SUBSET Machines]

EpochsTypeOK ==
    /\ issued \in [Machines -> Lifetime \cup {NoLife}]
    /\ next_epoch \in Nat \ {0} /\ wall \in Nat \ {0}
    /\ fence \in [Machines -> Nat]
    /\ cells \subseteq Machines \X Nat
    /\ door \in {Free} \cup Claiming \cup Admitting
    /\ given \in [Machines -> SUBSET [epoch : Nat, life : Nat]]
    /\ newest \in [Machines -> Nat] /\ lives \in Nat

\* A registry that admits nobody; 0 is no epoch.
Nobody == [m \in Machines |-> NoLife]

NoFence == [m \in Machines |-> 0]

EpochsInit ==
    /\ issued = Nobody
    /\ wall = 1 /\ next_epoch = 2
    /\ fence = NoFence /\ cells = {} /\ door = Free
    /\ given = [m \in Machines |-> {}]
    /\ newest = [m \in Machines |-> 0] /\ lives = 0

----------------------------------------------------------------------------
(* The registry. *)

AdmittedRunners == {m \in Machines : issued[m] # NoLife}

\* The lifetimes issue may evict: idle ones past their grace.
Evictable(busy) == {m \in AdmittedRunners : issued[m].settled /\ m \notin busy}

OldestOf(S) == {m \in S : \A n \in S : issued[m].epoch <= issued[n].epoch}

\* Whom issue drops for m: nobody, the oldest idle runner, or there is no room.
Evicted(m, busy) ==
    IF issued[m] # NoLife \/ Cardinality(AdmittedRunners) < MaxAdmitted
    THEN {{}} ELSE {{n} : n \in OldestOf(Evictable(busy))}

NewEpoch == IF next_epoch > wall THEN next_epoch ELSE wall

----------------------------------------------------------------------------
(* The routes. *)

\* admit_runner takes the ledger and counts live cells.
AdmitCount(m) ==
    /\ door = Free
    /\ lives < MaxLives
    /\ door' = [by |-> "admit", runner |-> m, busy |-> {n \in Machines : \E c \in cells : c[1] = n}]
    /\ UNCHANGED <<issued, next_epoch, wall, fence, cells, given, newest, lives>>

\* issue: a new lifetime, above every epoch of this process and not below the
\* clock, in the place of an idle one if the registry is full.
AdmitIssue ==
    /\ door.by = "admit"
    /\ LET m == door.runner
           life == lives + 1
       IN  \E gone \in Evicted(m, door.busy) :
              /\ issued' = [n \in Machines |->
                              IF n = m THEN [epoch |-> NewEpoch, life |-> life, settled |-> FALSE]
                              ELSE IF n \in gone THEN NoLife ELSE issued[n]]
              /\ next_epoch' = NewEpoch + 1
              /\ given' = [given EXCEPT ![m] = @ \cup {[epoch |-> NewEpoch, life |-> life]}]
              /\ newest' = [newest EXCEPT ![m] = life] /\ lives' = life
    /\ door' = Free
    /\ UNCHANGED <<wall, fence, cells>>

\* workcell_runner_fleet_full: every lifetime is busy or too young.
AdmitRefused ==
    /\ door.by = "admit"
    /\ Evicted(door.runner, door.busy) = {}
    /\ door' = Free
    /\ UNCHANGED <<issued, next_epoch, wall, fence, cells, given, newest, lives>>

\* retire_runner, by an operator.
Retire(m) ==
    /\ issued[m] # NoLife
    /\ issued' = [issued EXCEPT ![m] = NoLife]
    /\ door' = IF door.by = "claim" /\ door.runner = m
               THEN [door EXCEPT !.dropped = TRUE] ELSE door
    /\ UNCHANGED <<next_epoch, wall, fence, cells, given, newest, lives>>

\* Mutant: what the registry no longer admits stays in the fence.
MutantFence == [m \in Machines |-> IF issued[m] = NoLife THEN fence[m] ELSE issued[m].epoch]

\* sync_runner_epochs: the fence is replaced by what the registry admits.
SyncedFence == [m \in Machines |-> IF issued[m] = NoLife THEN 0 ELSE issued[m].epoch]

\* claim, and repair_live, which takes its cell in the same way: the ledger is
\* locked and its fence synced.
ClaimSync(m, l) ==
    /\ door = Free
    /\ fence' = SyncedFence
    /\ door' = [by |-> "claim", runner |-> m, epoch |-> l.epoch, life |-> l.life, dropped |-> FALSE]
    /\ UNCHANGED <<issued, next_epoch, wall, cells, given, newest, lives>>

\* The ledger gives a cell, or fences the claim.
ClaimTake ==
    /\ door.by = "claim"
    /\ cells' = IF fence[door.runner] = door.epoch
                THEN cells \cup {<<door.runner, door.life>>} ELSE cells
    /\ door' = Free
    /\ UNCHANGED <<issued, next_epoch, wall, fence, given, newest, lives>>

\* A cell is released under its own epoch.
ReleaseCell(c) ==
    /\ door = Free
    /\ cells' = cells \ {c}
    /\ UNCHANGED <<issued, next_epoch, wall, fence, door, given, newest, lives>>

----------------------------------------------------------------------------
(* Time, and restarts of the forge. *)

\* A lifetime is EVICTION_GRACE old.
Settle(m) ==
    /\ issued[m] # NoLife
    /\ ~issued[m].settled
    /\ issued' = [issued EXCEPT ![m].settled = TRUE]
    /\ UNCHANGED <<next_epoch, wall, fence, cells, door, given, newest, lives>>

WallTick ==
    /\ wall < MaxWall
    /\ wall' = wall + 1
    /\ UNCHANGED <<issued, next_epoch, fence, cells, door, given, newest, lives>>

\* Registry and ledger are in memory.  A restart outlasts the milliseconds by
\* which issuing ran ahead of the clock, and the clock does not step back.
ForgeRestarts ==
    /\ issued # Nobody
    /\ wall' = NewEpoch /\ next_epoch' = NewEpoch + 1
    /\ issued' = Nobody /\ fence' = NoFence /\ cells' = {} /\ door' = Free
    /\ UNCHANGED <<given, newest, lives>>

EpochsNext ==
    \/ \E m \in Machines :
          \/ AdmitCount(m) \/ Retire(m) \/ Settle(m)
          \/ \E l \in given[m] : ClaimSync(m, l)
    \/ AdmitIssue \/ AdmitRefused \/ ClaimTake
    \/ \E c \in cells : ReleaseCell(c)
    \/ WallTick \/ ForgeRestarts

EpochsSpec == EpochsInit /\ [][EpochsNext]_epochVars

----------------------------------------------------------------------------
(* Properties. *)

\* "a claim still in flight from the runner's previous lifetime is fenced
\* instead of taking a cell", and "no claim can land on a lifetime between
\* counting its cells and evicting it": a cell is given to the last lifetime
\* issued to its runner, in this process or an earlier one, and while the
\* registry has that lifetime, unless an operator drops it during the claim.
CellIsOfALiveLifetime ==
    [][\A c \in cells' \ cells :
          /\ newest[c[1]] = c[2]
          /\ door.dropped \/ (issued[c[1]] # NoLife /\ issued[c[1]].life = c[2])]_epochVars
=============================================================================
