---------------------------- MODULE MCAuditQueue ----------------------------
(* Instances of AuditQueue for TLC. *)
EXTENDS AuditQueue

\* p1 is the head of a pull request, q is a queue commit.
CONSTANTS p1, q, pull, entry, w1, lower, other

BranchOf == [h \in Heads |-> IF h = q THEN entry ELSE pull]

\* The pull request has no commit base; the queue commit starts two changes
\* above the protected branch.
Unrelated == [h \in Heads |-> IF h = q THEN 0 ELSE NoBase]

\* The author of the lower change may audit q once that change has landed.
LowerAuthor == [h \in Heads |-> [b \in Base |-> IF h = q /\ b = 0 THEN {lower} \cap Runners ELSE {}]]
=============================================================================
