----------------------- MODULE MergeQueueRefinement -------------------------
(***************************************************************************)
(* What the merge queue promises of its base, as an abstract               *)
(* specification.                                                          *)
(***************************************************************************)
EXTENDS MergeQueue

Protected == INSTANCE ProtectedBase

(* land_queued_batch and merge_pull implement the promise of               *)
(* docs/merge-queue.md: a fast-forward-only base whose every commit passed *)
(* the gate of everything that landed with it, under direct merges, gate   *)
(* reports, pushes and crashes between the steps of a tick.                *)
BaseIsProtected == Protected!Spec
=============================================================================
