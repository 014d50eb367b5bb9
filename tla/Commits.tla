------------------------------- MODULE Commits -------------------------------
(***************************************************************************)
(* Commits of a linear-history repository, and the replay of a pull        *)
(* request onto a new parent (web/merge_queue/replay.rs).                  *)
(*                                                                         *)
(* A commit stands for its whole history: the sequence of patches from the *)
(* root.  A patch says which change it carries (version `ver' of pull      *)
(* request `pr') and who stamped it: <<p, 0>> is the commit the author of  *)
(* p pushed, <<p, n>> the n-th replay the forge made for p.  Two replays   *)
(* of one change onto one parent are different commits (their committer    *)
(* times differ) that carry the same change.                               *)
(***************************************************************************)
EXTENDS Naturals, Sequences, FiniteSetsExt

\* git merge-base --is-ancestor: a commit is its own ancestor.
IsAncestor(a, d) ==
    /\ Len(a) <= Len(d)
    /\ \A i \in 1 .. Len(a) : a[i] = d[i]

\* The patch a commit adds to its parent.
Last(c) == c[Len(c)]

\* How much history two commits share: git merge-base.
Shared(a, b) ==
    Max({n \in 0 .. Min({Len(a), Len(b)}) : \A i \in 1 .. n : a[i] = b[i]})

\* rev-list merge_base..pr_head
Picks(parent, head) == SubSeq(head, Shared(parent, head) + 1, Len(head))

SameChange(x, y) == x.pr = y.pr /\ x.ver = y.ver

\* Mutant: the replay is not compared with what was reviewed.
MutantMismatch(parent, head) == FALSE

(* ensure_same_change refuses a replay whose diff is not the reviewed one. *)
(* Picking a change the parent already carries gives an empty diff.        *)
Mismatch(parent, head) ==
    \E i \in DOMAIN Picks(parent, head), j \in DOMAIN parent :
        j > Shared(parent, head) /\ SameChange(Picks(parent, head)[i], parent[j])

\* A picked commit keeps its change and gets the forge as its committer.
Restamped(picks, stamp) == [i \in DOMAIN picks |-> [picks[i] EXCEPT !.stamp = stamp]]

(* Git::replay.  A head that already sits on the parent is its own queue   *)
(* commit; otherwise every commit of the range is picked onto the parent.  *)
Replay(parent, head, stamp) ==
    IF IsAncestor(parent, head)
    THEN head
    ELSE parent \o Restamped(Picks(parent, head), stamp)

\* The changes a commit carries.
Changes(c) == {[pr |-> c[i].pr, ver |-> c[i].ver] : i \in DOMAIN c}
=============================================================================
