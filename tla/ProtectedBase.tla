---------------------------- MODULE ProtectedBase ----------------------------
(***************************************************************************)
(* What the merge queue and the direct merge promise together, without     *)
(* saying how: the invariants of docs/merge-queue.md.  The base only moves *)
(* forward, only to a commit that is itself green on every context that    *)
(* any pull request landing with it requires, and a pull request is        *)
(* recorded merged once, at a commit of the base that carries it.          *)
(***************************************************************************)
EXTENDS Commits

CONSTANTS PRs, Required, None

VARIABLES base, merged, reports

vars == <<base, merged, reports>>

Green(sha, c) == [sha |-> sha, ctx |-> c, ok |-> TRUE] \in reports

\* Every change `to' adds to `from' has its own requirements met by `to'.
Gated(from, to) ==
    \A i \in Len(from) + 1 .. Len(to) : \A c \in Required[to[i].pr] : Green(to, c)

Init ==
    /\ base = <<>>
    /\ merged = [p \in PRs |-> None]

Advance ==
    /\ IsAncestor(base, base')
    /\ Gated(base, base')
    /\ UNCHANGED <<merged, reports>>

\* Several pull requests may be recorded in one step.
Record ==
    /\ \A p \in PRs : merged'[p] # merged[p] =>
          /\ merged[p] = None
          /\ IsAncestor(merged'[p], base)
          /\ \E i \in DOMAIN merged'[p] : merged'[p][i].pr = p
    /\ UNCHANGED <<base, reports>>

\* What a gate said is never unsaid.
Report ==
    /\ reports \subseteq reports'
    /\ UNCHANGED <<base, merged>>

Next == Advance \/ Record \/ Report

Spec == Init /\ [][Next]_vars
=============================================================================
