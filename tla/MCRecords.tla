----------------------------- MODULE MCRecords -----------------------------
(***************************************************************************)
(* Instances, for TLC, of the parts of the forge that keep records for     *)
(* others: gate leases, idempotency keys, runner lifetimes, replacement    *)
(* links and the head branches of merged pull requests.  They share no     *)
(* state, so one run checks them one after the other: `part' says which of *)
(* them acts, and the others stay in their initial states.                 *)
(***************************************************************************)
EXTENDS GateClaims, Idempotency, RunnerEpochs, HeadCleanup, PullReplacements

CONSTANTS r1, r2, h1, h2, h3, hostA, hostB, q1, hostCi

VARIABLE part

----------------------------------------------------------------------------
(* Leases. *)

TwoHosts == {hostA, hostB}

HostCiPolicies == {{}, {hostCi}}

\* A capable gate slot, a gate slot without the capability, and a timer of
\* the same contract that advertises it but holds no gate slot.
SomeBeats ==
    {[host |-> hostA, gate |-> TRUE, caps |-> {hostCi}, offline |-> 1],
     [host |-> hostB, gate |-> TRUE, caps |-> {}, offline |-> 1],
     [host |-> hostB, gate |-> FALSE, caps |-> {hostCi}, offline |-> 1]}

----------------------------------------------------------------------------
(***************************************************************************)
(* Replacements: two pull requests are closed by two calls, and a third    *)
(* stays open: it is named by calls, and its own text names the first.     *)
(***************************************************************************)
ThirdReplacesFirst == {<<3, 1>>}

ReplacedPart ==
    /\ ReplacedNext
    /\ pulls'[2] # "merged" /\ pulls'[3] = "open"
    /\ \A c \in Closers : closers'[c] # NoCloser => closers'[c].replaced # 3

----------------------------------------------------------------------------
(* The sum. *)

recordVars == <<part, vars, epochVars, cleanupVars, replacedVars, keyVars>>

RecordsInit ==
    /\ part \in {"leases", "keys", "lifetimes", "cleanup", "replaced"}
    /\ Init /\ KeysInit /\ EpochsInit /\ CleanupInit /\ ReplacedInit

RecordsNext ==
    \/ part = "leases" /\ Next
       /\ UNCHANGED <<part, epochVars, cleanupVars, replacedVars, keyVars>>
    \/ part = "keys" /\ KeysNext
       /\ UNCHANGED <<part, vars, epochVars, cleanupVars, replacedVars>>
    \/ part = "lifetimes" /\ EpochsNext
       /\ UNCHANGED <<part, vars, cleanupVars, replacedVars, keyVars>>
    \/ part = "cleanup" /\ CleanupNext
       /\ UNCHANGED <<part, vars, epochVars, replacedVars, keyVars>>
    \/ part = "replaced" /\ ReplacedPart
       /\ UNCHANGED <<part, vars, epochVars, cleanupVars, keyVars>>

RecordsSpec == RecordsInit /\ [][RecordsNext]_recordVars

\* The parts share the model values r1, r2 and h1, h2.
Symmetry == Permutations({r1, r2}) \cup Permutations({h1, h2})

----------------------------------------------------------------------------
(* Properties. *)

\* Every variable keeps its type; no lease is worth more than its time to
\* live, and the table of keys is as large as MAX_ENTRIES allows.
RecordsTypeOK ==
    /\ TypeOK /\ KeysTypeOK
    /\ EpochsTypeOK /\ CleanupTypeOK /\ ReplacedTypeOK
=============================================================================
