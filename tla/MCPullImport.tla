---------------------------- MODULE MCPullImport ----------------------------
(***************************************************************************)
(* One contribution and the poll alone, for TLC: GitHub answers every      *)
(* call, and the process does not stop.                                    *)
(***************************************************************************)
EXTENDS PullImport

(* The poll ticks and its passes end. *)
PollSpec == SyncSpec /\ PollFairness
=============================================================================
