---------------------------- MODULE HeadCleanup ----------------------------
(***************************************************************************)
(* Deleting the head branch of a merged pull request                       *)
(* (github/head_cleanup.rs).                                               *)
(*                                                                         *)
(* One branch of one repository, and the pull requests that have it as     *)
(* their head or as their base.  A merge is recorded, and the cleanup that *)
(* follows reads the pull requests, pins the merged head at                *)
(* refs/pull/<n>/head and deletes the branch by compare-and-swap.  Nothing *)
(* is locked meanwhile: people push, open and close, and another pull      *)
(* request of the branch may merge.                                        *)
(*                                                                         *)
(* A tip is the sequence of the commits pushed to it, oldest first; the    *)
(* empty sequence is a ref that does not exist.  The base is left out: a   *)
(* landing may put a replay on it, so it keeps no commit of the branch     *)
(* reachable.                                                              *)
(***************************************************************************)
EXTENDS Naturals, Sequences, Functions

CONSTANTS
    Proposals,      \* pull requests that have the branch as their head
    Stacked,        \* pull requests that have it as their base
    MaxPushes       \* bound: commits pushed

ASSUME CleanupConstants == MaxPushes \in Nat /\ Proposals \cap Stacked = {}

VARIABLES
    branch,     \* refs/heads/<branch>
    pins,       \* refs/pull/<n>/head
    opened,     \* the state of each pull request
    cleaning,   \* the cleanup of each merged pull request
    pushes      \* commits pushed so far

cleanupVars == <<branch, pins, opened, cleaning, pushes>>

Tip == Seq(1 .. MaxPushes)

Cleanup == [at : {"idle", "based", "open", "pin", "write", "delete"},
            head : Tip, current : Tip, dependents : SUBSET (Proposals \cup Stacked)]

CleanupTypeOK ==
    /\ branch \in Tip
    /\ pins \in [Proposals -> Tip]
    /\ opened \in [Proposals \cup Stacked -> {"none", "open", "closed", "merged"}]
    /\ cleaning \in [Proposals -> Cleanup]
    /\ pushes \in 0 .. MaxPushes

NoCleanup == [at |-> "idle", head |-> << >>, current |-> << >>, dependents |-> {}]

CleanupInit ==
    /\ branch = << >>
    /\ pins = [n \in Proposals |-> << >>]
    /\ opened = [p \in Proposals \cup Stacked |-> "none"]
    /\ cleaning = [n \in Proposals |-> NoCleanup]
    /\ pushes = 0

----------------------------------------------------------------------------
(* delete_merged_head. *)

OpenPulls == {p \in DOMAIN opened : opened[p] = "open"}

\* A pull request merges at the head the branch has, and its cleanup begins.
\* `dependents' is history: the other pull requests open since then.
RecordMerge(n) ==
    /\ opened[n] = "open"
    /\ branch # << >>
    /\ opened' = [opened EXCEPT ![n] = "merged"]
    /\ cleaning' = [m \in Proposals |->
                       IF m = n THEN [at |-> "based", head |-> branch, current |-> << >>,
                                      dependents |-> OpenPulls \ {n}]
                       ELSE [cleaning[m] EXCEPT !.dependents = @ \ {n}]]
    /\ UNCHANGED <<branch, pins, pushes>>

KeepBranch(n) == cleaning' = [cleaning EXCEPT ![n] = NoCleanup]

Proceed(n, at) == cleaning' = [cleaning EXCEPT ![n].at = at]

\* The branch is kept for a reason of its own (a fork, the setting, the default
\* branch, protection, a bot's reach), or because a write of a pin, an audit
\* row or the ref failed.
KeptAnyhow(n) ==
    /\ cleaning[n].at # "idle"
    /\ KeepBranch(n)
    /\ UNCHANGED <<branch, pins, opened, pushes>>

\* pull_based_on: a pull request of any state has the branch as its base.
ScanBased(n) ==
    /\ cleaning[n].at = "based"
    /\ IF \E p \in Stacked : opened[p] # "none" THEN KeepBranch(n) ELSE Proceed(n, "open")
    /\ UNCHANGED <<branch, pins, opened, pushes>>

\* open_pull_using: another open pull request has it as its head.
InUse(n) == \E p \in Proposals \ {n} : opened[p] = "open"

ScanOpen(n) ==
    /\ cleaning[n].at = "open"
    /\ IF InUse(n) THEN KeepBranch(n) ELSE Proceed(n, "pin")
    /\ UNCHANGED <<branch, pins, opened, pushes>>

\* pin_pull_head reads the pin, and has nothing to do if it is there.
PinRead(n) ==
    /\ cleaning[n].at = "pin"
    /\ cleaning' = [cleaning EXCEPT ![n].current = pins[n],
                                    ![n].at = IF pins[n] = cleaning[n].head THEN "delete" ELSE "write"]
    /\ UNCHANGED <<branch, pins, opened, pushes>>

\* It moves the pin by compare-and-swap.
PinWrite(n) ==
    /\ cleaning[n].at = "write"
    /\ IF pins[n] = cleaning[n].current
       THEN pins' = [pins EXCEPT ![n] = cleaning[n].head] /\ Proceed(n, "delete")
       ELSE KeepBranch(n) /\ UNCHANGED pins
    /\ UNCHANGED <<branch, opened, pushes>>

\* Mutant: the branch is deleted wherever it is.
MutantDeleteBranch(n) ==
    /\ cleaning[n].at = "delete"
    /\ branch' = << >>
    /\ KeepBranch(n)
    /\ UNCHANGED <<pins, opened, pushes>>

\* The branch goes if it is still at the merged head.
DeleteBranch(n) ==
    /\ cleaning[n].at = "delete"
    /\ branch' = IF branch = cleaning[n].head THEN << >> ELSE branch
    /\ KeepBranch(n)
    /\ UNCHANGED <<pins, opened, pushes>>

----------------------------------------------------------------------------
(* People. *)

\* A commit is pushed on top of the branch, or in its place.
PushHead ==
    /\ pushes < MaxPushes
    /\ pushes' = pushes + 1
    /\ branch' \in {Append(branch, pushes'), <<pushes'>>}
    /\ UNCHANGED <<pins, opened, cleaning>>

OpenPull(p) ==
    /\ opened[p] \in {"none", "closed"}
    /\ branch # << >>
    /\ opened' = [opened EXCEPT ![p] = "open"]
    /\ UNCHANGED <<branch, pins, cleaning, pushes>>

ClosePull(p) ==
    /\ opened[p] = "open"
    /\ opened' = [opened EXCEPT ![p] = "closed"]
    /\ cleaning' = [n \in Proposals |-> [cleaning[n] EXCEPT !.dependents = @ \ {p}]]
    /\ UNCHANGED <<branch, pins, pushes>>

CleanupNext ==
    \/ \E n \in Proposals :
          \/ RecordMerge(n) \/ KeptAnyhow(n) \/ ScanBased(n) \/ ScanOpen(n)
          \/ PinRead(n) \/ PinWrite(n) \/ DeleteBranch(n)
    \/ PushHead
    \/ \E p \in Proposals \cup Stacked : OpenPull(p) \/ ClosePull(p)

CleanupSpec == CleanupInit /\ [][CleanupNext]_cleanupVars

----------------------------------------------------------------------------
(* Properties. *)

\* "without the pin, deleting the branch would leave the commit the checks ran
\* on, and the pull request's diff, unreachable", and "a push that landed after
\* the merge is never thrown away": whoever pushes, opens, closes or merges
\* between the steps of a cleanup, every commit of a branch it deletes stays
\* reachable from a pin, and no pull request that has been open since the merge
\* loses its head or its base.
CleanupLosesNothing ==
    [][branch # << >> /\ branch' = << >> =>
          /\ Range(branch) \subseteq UNION {Range(pins'[n]) : n \in Proposals}
          /\ \A n \in Proposals :
                cleaning[n].at = "delete" /\ cleaning'[n].at = "idle" =>
                   cleaning[n].dependents = {}]_cleanupVars
=============================================================================
