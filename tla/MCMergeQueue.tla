---------------------------- MODULE MCMergeQueue ----------------------------
(* Instances of MergeQueue for TLC. *)
EXTENDS MergeQueueRefinement, TLC

CONSTANTS ci, proof

\* The first pull request requires more than the base does.
MoreThanBase == [p \in PRs |-> IF p = 1 THEN {ci, proof} ELSE {ci}]

OnlyCi == [p \in PRs |-> {ci}]
=============================================================================
