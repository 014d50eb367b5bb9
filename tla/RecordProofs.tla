---------------------------- MODULE RecordProofs ----------------------------
(***************************************************************************)
(* Proofs about the records the forge keeps for others: runner lifetimes,  *)
(* the cleanup of merged heads, idempotency keys and gate leases.  They    *)
(* share no state; each has its own specification and invariant.           *)
(***************************************************************************)
EXTENDS RunnerEpochs, HeadCleanup, Idempotency, GateClaims, FiniteSetTheorems, TLAPS

-----------------------------------------------------------------------------
(***************************************************************************)
(* Runner lifetimes.  The inductive invariant says that the registry holds *)
(* the last lifetime issued to a runner, that an epoch was given for one   *)
(* lifetime only, because every epoch is below the next one even across    *)
(* restarts, and that a claim the synced fence lets through is of the      *)
(* lifetime the registry had then: the claim holds the ledger's mutex, so  *)
(* nothing but a drop can have come between.                               *)
(***************************************************************************)
RegistryHasTheNewest ==
    \A m \in Machines :
        issued[m] # NoLife =>
            /\ [epoch |-> issued[m].epoch, life |-> issued[m].life] \in given[m]
            /\ newest[m] = issued[m].life

EpochNamesOneLife ==
    \A m \in Machines : \A k, l \in given[m] : k.epoch = l.epoch => k = l

EpochsArePast == \A m \in Machines : \A l \in given[m] : 0 < l.epoch /\ l.epoch < next_epoch

ClaimIsLive(m, life) ==
    /\ newest[m] = life
    /\ door.dropped \/ (issued[m] # NoLife /\ issued[m].life = life)

AdmittedClaimIsLive ==
    door \in Claiming /\ fence[door.runner] = door.epoch => ClaimIsLive(door.runner, door.life)

EpochsInv ==
    /\ EpochsTypeOK
    /\ RegistryHasTheNewest /\ EpochNamesOneLife /\ EpochsArePast /\ AdmittedClaimIsLive

(* At the start no lifetime is issued and no claim is under way. *)
LEMMA EpochsStart == EpochsInit => EpochsInv
BY EpochConstants
   DEF EpochsInit, EpochsInv, EpochsTypeOK, RegistryHasTheNewest, EpochNamesOneLife, EpochsArePast,
       AdmittedClaimIsLive, ClaimIsLive, Claiming, Free, Nobody, NoFence

(* What the holder of the ledger's mutex is about, by the tag it carries. *)
LEMMA DoorKinds ==
    ASSUME EpochsTypeOK
    PROVE  /\ door.by = "claim" => door \in Claiming
           /\ door.by = "admit" => door \in Admitting
BY DEF EpochsTypeOK, Free, Claiming, Admitting

(* One step of the registry, the routes, the clock or the forge keeps it. *)
LEMMA EpochsStep == EpochsInv /\ [EpochsNext]_epochVars => EpochsInv'
<1> SUFFICES ASSUME EpochsInv, [EpochsNext]_epochVars
             PROVE  EpochsInv'
  OBVIOUS
<1> USE DEF EpochsInv
<1>1. ASSUME NEW m \in Machines, AdmitCount(m)
      PROVE  EpochsInv'
  <2>1. door' \in Admitting /\ door' \notin Claiming
    BY <1>1, Zenon DEF AdmitCount, Admitting, Claiming
  <2> QED
    BY <1>1, <2>1, ZenonT(30) DEF AdmitCount, EpochsTypeOK, RegistryHasTheNewest, EpochNamesOneLife,
                      EpochsArePast, AdmittedClaimIsLive
<1>2. CASE AdmitIssue
  <2> DEFINE m == door.runner
             put == [epoch |-> NewEpoch, life |-> lives + 1, settled |-> FALSE]
             gave == [epoch |-> NewEpoch, life |-> lives + 1]
  <2>1. m \in Machines /\ lives + 1 \in Nat
    BY <1>2, DoorKinds DEF AdmitIssue, Admitting, EpochsTypeOK
  <2>2. NewEpoch \in Nat /\ NewEpoch >= next_epoch /\ next_epoch \in Nat /\ next_epoch > 0
    BY DEF NewEpoch, EpochsTypeOK
  <2>3. put \in Lifetime /\ gave \in [epoch : Nat, life : Nat]
    BY <2>1, <2>2 DEF Lifetime
  <2>4. PICK gone \in Evicted(m, door.busy) :
           /\ issued' = [n \in Machines |->
                           IF n = m THEN put ELSE IF n \in gone THEN NoLife ELSE issued[n]]
           /\ next_epoch' = NewEpoch + 1
           /\ given' = [given EXCEPT ![m] = @ \cup {gave}]
           /\ newest' = [newest EXCEPT ![m] = lives + 1]
           /\ lives' = lives + 1
    BY <1>2, ZenonT(30) DEF AdmitIssue
  <2>5. door' = Free /\ UNCHANGED <<wall, fence, cells>>
    BY <1>2 DEF AdmitIssue
  <2> HIDE DEF m
  <2>6. EpochsTypeOK'
    <3>1. given' \in [Machines -> SUBSET [epoch : Nat, life : Nat]]
      BY <2>1, <2>3, <2>4, ZenonT(30) DEF EpochsTypeOK
    <3>2. issued' \in [Machines -> Lifetime \cup {NoLife}]
      BY <2>1, <2>3, <2>4, ZenonT(30) DEF EpochsTypeOK
    <3>3. newest' \in [Machines -> Nat] /\ lives' \in Nat
      BY <2>1, <2>4, ZenonT(30) DEF EpochsTypeOK
    <3>4. next_epoch' \in Nat \ {0}
      BY <2>2, <2>4
    <3> QED
      BY <2>5, <3>1, <3>2, <3>3, <3>4 DEF EpochsTypeOK
  <2>7. RegistryHasTheNewest'
    BY <2>1, <2>4, ZenonT(30) DEF EpochsTypeOK, RegistryHasTheNewest
  <2>8. EpochNamesOneLife'
    BY <2>1, <2>2, <2>3, <2>4 DEF EpochsTypeOK, EpochNamesOneLife, EpochsArePast
  <2>9. EpochsArePast'
    BY <2>1, <2>2, <2>3, <2>4 DEF EpochsTypeOK, EpochsArePast
  <2>10. AdmittedClaimIsLive'
    BY <2>5 DEF AdmittedClaimIsLive, Claiming, Free
  <2> QED
    BY <2>6, <2>7, <2>8, <2>9, <2>10
<1>3. CASE AdmitRefused
  BY <1>3, Zenon DEF AdmitRefused, EpochsTypeOK, RegistryHasTheNewest, EpochNamesOneLife, EpochsArePast,
              AdmittedClaimIsLive, Claiming, Free
<1>4. ASSUME NEW m \in Machines, Retire(m)
      PROVE  EpochsInv'
  <2>1. issued' \in [Machines -> Lifetime \cup {NoLife}] /\ RegistryHasTheNewest'
    BY <1>4 DEF Retire, EpochsTypeOK, RegistryHasTheNewest
  <2>2. CASE door.by = "claim" /\ door.runner = m
    <3>1. door \in Claiming /\ door' = [door EXCEPT !.dropped = TRUE]
      BY <1>4, <2>2, DoorKinds DEF Retire
    <3>2. /\ door' \in Claiming /\ door'.dropped /\ door'.runner = door.runner
          /\ door'.epoch = door.epoch /\ door'.life = door.life
      BY <3>1, Zenon DEF Claiming
    <3> QED
      BY <1>4, <2>1, <3>1, <3>2 DEF Retire, EpochsTypeOK, EpochNamesOneLife, EpochsArePast,
                                AdmittedClaimIsLive, ClaimIsLive
  <2>3. CASE ~(door.by = "claim" /\ door.runner = m)
    <3>1. door' = door
      BY <1>4, <2>3 DEF Retire
    <3>2. door \in Claiming => door.runner \in Machines /\ door.runner # m
      BY <2>3 DEF Claiming
    <3> QED
      BY <1>4, <2>1, <3>1, <3>2, Zenon DEF Retire, EpochsTypeOK, EpochNamesOneLife, EpochsArePast,
                                AdmittedClaimIsLive, ClaimIsLive
  <2> QED
    BY <2>2, <2>3
<1>5. ASSUME NEW m \in Machines, NEW l \in given[m], ClaimSync(m, l)
      PROVE  EpochsInv'
  <2>1. l \in [epoch : Nat, life : Nat] /\ 0 < l.epoch
    BY DEF EpochsTypeOK, EpochsArePast
  <2>2. /\ door' \in Claiming /\ door'.runner = m
        /\ door'.epoch = l.epoch /\ door'.life = l.life
    BY <1>5, <2>1, ZenonT(30) DEF ClaimSync, Claiming
  <2>3. fence' \in [Machines -> Nat]
    BY <1>5 DEF ClaimSync, SyncedFence, EpochsTypeOK, Lifetime
  <2>4. ASSUME fence'[m] = l.epoch
        PROVE  newest[m] = l.life /\ issued[m] # NoLife /\ issued[m].life = l.life
    <3>1. issued[m] # NoLife /\ issued[m].epoch = l.epoch
      BY <1>5, <2>1, <2>4 DEF ClaimSync, SyncedFence
    <3>2. [epoch |-> issued[m].epoch, life |-> issued[m].life] = l
      BY <3>1, Zenon DEF RegistryHasTheNewest, EpochNamesOneLife
    <3> QED
      BY <3>1, <3>2 DEF RegistryHasTheNewest
  <2> QED
    BY <1>5, <2>2, <2>3, <2>4, Zenon DEF ClaimSync, EpochsTypeOK, RegistryHasTheNewest, EpochNamesOneLife,
                                  EpochsArePast, AdmittedClaimIsLive, ClaimIsLive
<1>6. CASE ClaimTake
  <2>1. door.runner \in Machines /\ door.life \in Nat
    BY <1>6, DoorKinds DEF ClaimTake, Claiming
  <2> QED
    BY <1>6, <2>1 DEF ClaimTake, EpochsTypeOK, RegistryHasTheNewest, EpochNamesOneLife,
                      EpochsArePast, AdmittedClaimIsLive, Claiming, Free
<1>7. ASSUME NEW c \in cells, ReleaseCell(c)
      PROVE  EpochsInv'
  BY <1>7, Zenon DEF ReleaseCell, EpochsTypeOK, RegistryHasTheNewest, EpochNamesOneLife, EpochsArePast,
              AdmittedClaimIsLive, ClaimIsLive
<1>8. ASSUME NEW m \in Machines, Settle(m)
      PROVE  EpochsInv'
  <2> DEFINE put == [issued[m] EXCEPT !.settled = TRUE]
  <2>1. put \in Lifetime /\ put.epoch = issued[m].epoch /\ put.life = issued[m].life
    BY <1>8, Zenon DEF Settle, EpochsTypeOK, Lifetime
  <2>2. issued' = [issued EXCEPT ![m] = put]
    BY <1>8 DEF Settle
  <2>3. issued[m] # NoLife /\ put # NoLife
    BY <1>8, <2>1, EpochConstants, Zenon DEF Settle
  <2> HIDE DEF put
  <2>4. issued' \in [Machines -> Lifetime \cup {NoLife}]
    BY <2>1, <2>2 DEF EpochsTypeOK
  <2>5. \A n \in Machines : /\ issued'[n] # NoLife <=> issued[n] # NoLife
                            /\ issued'[n].life = issued[n].life /\ issued'[n].epoch = issued[n].epoch
    BY <2>1, <2>2, <2>3 DEF EpochsTypeOK
  <2>6. door \in Claiming => door.runner \in Machines
    BY DEF Claiming
  <2>7. UNCHANGED <<next_epoch, wall, fence, cells, door, given, newest, lives>>
    BY <1>8, ZenonT(30) DEF Settle
  <2> QED
    BY <2>4, <2>5, <2>6, <2>7, Zenon DEF EpochsTypeOK, RegistryHasTheNewest, EpochNamesOneLife,
                                  EpochsArePast, AdmittedClaimIsLive, ClaimIsLive
<1>9. CASE WallTick
  BY <1>9 DEF WallTick, EpochsTypeOK, RegistryHasTheNewest, EpochNamesOneLife, EpochsArePast,
              AdmittedClaimIsLive, ClaimIsLive
<1>10. CASE ForgeRestarts
  <2>1. NewEpoch \in Nat \ {0} /\ NewEpoch >= next_epoch /\ next_epoch \in Nat
    BY DEF NewEpoch, EpochsTypeOK
  <2> QED
    BY <1>10, <2>1 DEF ForgeRestarts, EpochsTypeOK, RegistryHasTheNewest, EpochNamesOneLife,
                       EpochsArePast, AdmittedClaimIsLive, Claiming, Free, Nobody, NoFence
<1>11. CASE UNCHANGED epochVars
  BY <1>11, Zenon DEF epochVars, EpochsTypeOK, RegistryHasTheNewest, EpochNamesOneLife, EpochsArePast,
               AdmittedClaimIsLive, ClaimIsLive
<1> QED
  BY <1>1, <1>2, <1>3, <1>4, <1>5, <1>6, <1>7, <1>8, <1>9, <1>10, <1>11, ZenonT(30) DEF EpochsNext

(* For any number of runners, lifetimes, restarts and claims in flight, a  *)
(* cell goes to the last lifetime issued to its runner, while the registry *)
(* has it, unless an operator drops it during the claim.                   *)
THEOREM CellIsAlwaysOfALiveLifetime == EpochsSpec => CellIsOfALiveLifetime
<1>1. EpochsInv /\ [EpochsNext]_epochVars =>
        [\A c \in cells' \ cells :
            /\ newest[c[1]] = c[2]
            /\ door.dropped \/ (issued[c[1]] # NoLife /\ issued[c[1]].life = c[2])]_epochVars
  <2> SUFFICES ASSUME EpochsInv, EpochsNext, NEW c \in cells' \ cells
               PROVE  ClaimIsLive(c[1], c[2])
    BY Zenon DEF ClaimIsLive
  <2>1. CASE ClaimTake
    <3>1. door \in Claiming /\ fence[door.runner] = door.epoch /\ c = <<door.runner, door.life>>
      BY <2>1, DoorKinds DEF ClaimTake, EpochsInv
    <3> QED
      BY <3>1 DEF EpochsInv, AdmittedClaimIsLive
  <2>2. CASE ~ClaimTake
    <3>1. cells' \subseteq cells
      BY <2>2 DEF EpochsNext, AdmitCount, AdmitIssue, AdmitRefused, Retire, Settle, ClaimSync,
                  ReleaseCell, WallTick, ForgeRestarts
    <3> QED
      BY <3>1, ZenonT(30)
  <2> QED
    BY <2>1, <2>2
<1>2. EpochsInv /\ [EpochsNext]_epochVars => EpochsInv'
  BY EpochsStep, ZenonT(30)
<1> QED
  BY <1>1, <1>2, EpochsStart, PTL DEF EpochsSpec, CellIsOfALiveLifetime

-----------------------------------------------------------------------------
(***************************************************************************)
(* Head cleanup.  The inductive invariant says how far each cleanup has    *)
(* got: past the first scan nothing open since the merge is based on the   *)
(* branch, past the second nothing open since then has it as its head, and *)
(* a cleanup about to delete has its pin at the merged head.               *)
(***************************************************************************)
DependentsAreOpen ==
    \A n \in Proposals : \A p \in cleaning[n].dependents : p # n /\ opened[p] = "open"

NoneIsBasedOnIt ==
    \A n \in Proposals :
        cleaning[n].at # "based" => cleaning[n].dependents \cap Stacked = {}

NoneHasItAsHead ==
    \A n \in Proposals :
        cleaning[n].at \in {"pin", "write", "delete"} => cleaning[n].dependents \cap Proposals = {}

DeletesWhatIsPinned ==
    \A n \in Proposals : cleaning[n].at = "delete" => pins[n] = cleaning[n].head

CleanupInv ==
    /\ CleanupTypeOK
    /\ DependentsAreOpen /\ NoneIsBasedOnIt /\ NoneHasItAsHead /\ DeletesWhatIsPinned

(* At the start no cleanup is under way. *)
LEMMA CleanupStart == CleanupInit => CleanupInv
BY CleanupConstants
   DEF CleanupInit, CleanupInv, CleanupTypeOK, DependentsAreOpen, NoneIsBasedOnIt, NoneHasItAsHead,
       DeletesWhatIsPinned, NoCleanup, Cleanup, Tip

(* A cleanup that ends leaves the rest of the invariant to the others. *)
LEMMA EndedCleanup ==
    ASSUME CleanupInv, NEW n \in Proposals, KeepBranch(n), UNCHANGED <<pins, opened, pushes>>,
           branch' \in Tip
    PROVE  CleanupInv'
<1>1. NoCleanup \in Cleanup /\ NoCleanup.dependents = {} /\ NoCleanup.at = "idle"
  BY DEF NoCleanup, Cleanup, Tip
<1>2. cleaning' = [cleaning EXCEPT ![n] = NoCleanup]
  BY DEF KeepBranch
<1> QED
  BY <1>1, <1>2, ZenonT(30) DEF CleanupInv, CleanupTypeOK, DependentsAreOpen, NoneIsBasedOnIt, NoneHasItAsHead,
                    DeletesWhatIsPinned

(* What a cleanup keeps while it goes on to its next step. *)
LEMMA OneCleanup ==
    ASSUME CleanupTypeOK, NEW n \in Proposals, NEW put \in Cleanup,
           cleaning' = [cleaning EXCEPT ![n] = put]
    PROVE  /\ cleaning' \in [Proposals -> Cleanup]
           /\ cleaning'[n] = put
           /\ \A m \in Proposals : m # n => cleaning'[m] = cleaning[m]
BY DEF CleanupTypeOK

(* A cleanup that goes on to its next step, having seen what that step needs. *)
LEMMA ProceedingCleanup ==
    ASSUME CleanupInv, NEW n \in Proposals, NEW at \in {"open", "pin", "write", "delete"},
           Proceed(n, at), UNCHANGED <<branch, opened, pushes>>,
           pins' \in [Proposals -> Tip],
           \A m \in Proposals : m # n => pins'[m] = pins[m],
           at = "open" => \A p \in Stacked : opened[p] = "none",
           at = "pin" => cleaning[n].at = "open" /\ ~InUse(n),
           at = "write" => cleaning[n].at = "pin",
           at = "delete" => cleaning[n].at \in {"pin", "write"} /\ pins'[n] = cleaning[n].head
    PROVE  CleanupInv'
<1> DEFINE put == [cleaning[n] EXCEPT !.at = at]
<1>1. /\ put \in Cleanup /\ put.at = at
      /\ put.head = cleaning[n].head /\ put.dependents = cleaning[n].dependents
  BY DEF CleanupInv, CleanupTypeOK, Cleanup
<1>2. cleaning' = [cleaning EXCEPT ![n] = put]
  BY DEF Proceed
<1> HIDE DEF put
<1>3. /\ cleaning' \in [Proposals -> Cleanup] /\ cleaning'[n] = put
      /\ \A m \in Proposals : m # n => cleaning'[m] = cleaning[m]
  BY <1>1, <1>2, OneCleanup, Zenon DEF CleanupInv
<1>4. DependentsAreOpen'
  BY <1>1, <1>3 DEF CleanupInv, DependentsAreOpen
<1>5. NoneIsBasedOnIt'
  BY <1>1, <1>3 DEF CleanupInv, NoneIsBasedOnIt, DependentsAreOpen
<1>6. NoneHasItAsHead'
  BY <1>1, <1>3 DEF CleanupInv, NoneHasItAsHead, DependentsAreOpen, InUse
<1>7. DeletesWhatIsPinned'
  BY <1>1, <1>3, Zenon DEF CleanupInv, DeletesWhatIsPinned
<1> QED
  BY <1>3, <1>4, <1>5, <1>6, <1>7 DEF CleanupInv, CleanupTypeOK

(* One step of a cleanup, or of the people around it, keeps the invariant. *)
LEMMA CleanupStep == CleanupInv /\ [CleanupNext]_cleanupVars => CleanupInv'
<1> SUFFICES ASSUME CleanupInv, [CleanupNext]_cleanupVars
             PROVE  CleanupInv'
  OBVIOUS
<1>1. CleanupTypeOK
  BY DEF CleanupInv
<1>2. ASSUME NEW n \in Proposals, RecordMerge(n)
      PROVE  CleanupInv'
  <2> DEFINE put == [at |-> "based", head |-> branch, current |-> << >>,
                     dependents |-> OpenPulls \ {n}]
             less(m) == [cleaning[m] EXCEPT !.dependents = @ \ {n}]
  <2>1. cleaning' = [m \in Proposals |-> IF m = n THEN put ELSE less(m)]
    BY <1>2, ZenonT(30) DEF RecordMerge
  <2>2. /\ put \in Cleanup /\ put.at = "based"
        /\ \A p \in put.dependents : p \in DOMAIN opened /\ p # n /\ opened[p] = "open"
    BY <1>1 DEF CleanupTypeOK, Cleanup, Tip, OpenPulls
  <2>3. ASSUME NEW m \in Proposals
        PROVE  /\ less(m) \in Cleanup /\ less(m).at = cleaning[m].at
               /\ less(m).head = cleaning[m].head
               /\ less(m).dependents = cleaning[m].dependents \ {n}
    BY <1>1 DEF CleanupTypeOK, Cleanup
  <2>4. /\ opened' = [opened EXCEPT ![n] = "merged"] /\ UNCHANGED <<branch, pins, pushes>>
        /\ opened \in [Proposals \cup Stacked -> {"none", "open", "closed", "merged"}]
    BY <1>1, <1>2, ZenonT(30) DEF RecordMerge, CleanupTypeOK
  <2> HIDE DEF put, less
  <2>5. cleaning' \in [Proposals -> Cleanup]
    BY <2>1, <2>2, <2>3
  <2>6. cleaning'[n] = put /\ \A m \in Proposals : m # n => cleaning'[m] = less(m)
    BY <2>1
  <2>7. CleanupTypeOK'
    BY <1>1, <2>4, <2>5 DEF CleanupTypeOK
  <2>8. \A p : p # n => opened'[p] = opened[p] \/ p \notin Proposals \cup Stacked
    BY <2>4
  <2>9. \A m \in Proposals : cleaning[m].dependents \subseteq Proposals \cup Stacked
    BY <1>1, ZenonT(30) DEF CleanupTypeOK, Cleanup
  <2>10. DependentsAreOpen'
    BY <2>2, <2>3, <2>4, <2>6, <2>8, <2>9 DEF CleanupInv, DependentsAreOpen
  <2>11. NoneIsBasedOnIt' /\ NoneHasItAsHead'
    BY <2>2, <2>3, <2>6, ZenonT(30) DEF CleanupInv, NoneIsBasedOnIt, NoneHasItAsHead
  <2>12. DeletesWhatIsPinned'
    BY <2>2, <2>3, <2>4, <2>6 DEF CleanupInv, DeletesWhatIsPinned
  <2> QED
    BY <2>7, <2>10, <2>11, <2>12 DEF CleanupInv
<1>3. ASSUME NEW n \in Proposals, KeptAnyhow(n)
      PROVE  CleanupInv'
  BY <1>1, <1>3, EndedCleanup DEF KeptAnyhow, CleanupTypeOK
<1>4. ASSUME NEW n \in Proposals, ScanBased(n)
      PROVE  CleanupInv'
  BY <1>1, <1>4, EndedCleanup, ProceedingCleanup DEF ScanBased, CleanupTypeOK
<1>5. ASSUME NEW n \in Proposals, ScanOpen(n)
      PROVE  CleanupInv'
  BY <1>1, <1>5, EndedCleanup, ProceedingCleanup DEF ScanOpen, CleanupTypeOK
<1>6. ASSUME NEW n \in Proposals, PinRead(n)
      PROVE  CleanupInv'
  <2> DEFINE put == [cleaning[n] EXCEPT !.current = pins[n],
                       !.at = IF pins[n] = cleaning[n].head THEN "delete" ELSE "write"]
  <2>1. /\ put \in Cleanup /\ put.head = cleaning[n].head
        /\ put.dependents = cleaning[n].dependents
        /\ put.at \in {"write", "delete"} /\ (put.at = "delete" => pins[n] = put.head)
    BY <1>1, Zenon DEF CleanupTypeOK, Cleanup
  <2>2. cleaning' = [cleaning EXCEPT ![n] = put] /\ cleaning[n].at = "pin"
    BY <1>6, Zenon DEF PinRead
  <2>3. UNCHANGED <<branch, pins, opened, pushes>>
    BY <1>6 DEF PinRead
  <2> HIDE DEF put
  <2>4. /\ cleaning' \in [Proposals -> Cleanup] /\ cleaning'[n] = put
        /\ \A m \in Proposals : m # n => cleaning'[m] = cleaning[m]
    BY <1>1, <2>1, <2>2, OneCleanup, Zenon
  <2> QED
    BY <2>1, <2>2, <2>3, <2>4, ZenonT(30) DEF CleanupInv, CleanupTypeOK, DependentsAreOpen, NoneIsBasedOnIt,
                                  NoneHasItAsHead, DeletesWhatIsPinned
<1>7. ASSUME NEW n \in Proposals, PinWrite(n)
      PROVE  CleanupInv'
  <2>1. CASE pins[n] = cleaning[n].current
    <3>1. pins' = [pins EXCEPT ![n] = cleaning[n].head] /\ cleaning[n].head \in Tip
      BY <1>1, <1>7, <2>1, ZenonT(30) DEF PinWrite, CleanupTypeOK, Cleanup
    <3>2. /\ pins' \in [Proposals -> Tip] /\ pins'[n] = cleaning[n].head
          /\ \A m \in Proposals : m # n => pins'[m] = pins[m]
      BY <1>1, <3>1 DEF CleanupTypeOK
    <3> QED
      BY <1>7, <2>1, <3>2, ProceedingCleanup, ZenonT(30) DEF PinWrite
  <2>2. CASE pins[n] # cleaning[n].current
    BY <1>1, <1>7, <2>2, EndedCleanup, ZenonT(30) DEF PinWrite, CleanupTypeOK
  <2> QED
    BY <2>1, <2>2
<1>8. ASSUME NEW n \in Proposals, DeleteBranch(n)
      PROVE  CleanupInv'
  <2>1. branch' \in Tip
    <3>1. << >> \in Tip /\ branch \in Tip
      BY <1>1 DEF CleanupTypeOK, Tip
    <3> QED
      BY <1>8, <3>1 DEF DeleteBranch
  <2> QED
    BY <1>8, <2>1, EndedCleanup DEF DeleteBranch
<1>9. CASE PushHead
  <2>1. pushes' \in 1 .. MaxPushes /\ UNCHANGED <<pins, opened, cleaning>>
    BY <1>1, <1>9, CleanupConstants DEF PushHead, CleanupTypeOK
  <2>2. branch' \in Tip
    <3>1. Append(branch, pushes') \in Tip /\ <<pushes'>> \in Tip
      BY <1>1, <2>1 DEF CleanupTypeOK, Tip
    <3> QED
      BY <1>9, <3>1, Zenon DEF PushHead
  <2> QED
    BY <1>1, <2>1, <2>2 DEF CleanupInv, CleanupTypeOK, DependentsAreOpen, NoneIsBasedOnIt,
                            NoneHasItAsHead, DeletesWhatIsPinned
<1>10. ASSUME NEW p \in Proposals \cup Stacked, OpenPull(p)
       PROVE  CleanupInv'
  <2>1. \A n \in Proposals : p \notin cleaning[n].dependents
    BY <1>10 DEF OpenPull, CleanupInv, DependentsAreOpen
  <2>2. /\ opened' = [opened EXCEPT ![p] = "open"]
        /\ UNCHANGED <<branch, pins, cleaning, pushes>>
    BY <1>10 DEF OpenPull
  <2>3. \A m \in Proposals : cleaning[m].dependents \subseteq Proposals \cup Stacked
    BY <1>1 DEF CleanupTypeOK, Cleanup
  <2> QED
    BY <1>1, <2>1, <2>2, <2>3, ZenonT(30) DEF CleanupInv, CleanupTypeOK, DependentsAreOpen, NoneIsBasedOnIt,
                                  NoneHasItAsHead, DeletesWhatIsPinned
<1>11. ASSUME NEW p \in Proposals \cup Stacked, ClosePull(p)
       PROVE  CleanupInv'
  <2> DEFINE less(m) == [cleaning[m] EXCEPT !.dependents = @ \ {p}]
  <2>1. cleaning' = [m \in Proposals |-> less(m)]
    BY <1>11 DEF ClosePull
  <2>2. ASSUME NEW m \in Proposals
        PROVE  /\ less(m) \in Cleanup /\ less(m).at = cleaning[m].at
               /\ less(m).head = cleaning[m].head
               /\ less(m).dependents = cleaning[m].dependents \ {p}
    BY <1>1 DEF CleanupTypeOK, Cleanup
  <2>3. opened' = [opened EXCEPT ![p] = "closed"] /\ UNCHANGED <<branch, pins, pushes>>
    BY <1>11 DEF ClosePull
  <2> HIDE DEF less
  <2>4. cleaning' \in [Proposals -> Cleanup] /\ \A m \in Proposals : cleaning'[m] = less(m)
    BY <2>1, <2>2
  <2>5. \A m \in Proposals : cleaning[m].dependents \subseteq Proposals \cup Stacked
    BY <1>1 DEF CleanupTypeOK, Cleanup
  <2>6. DependentsAreOpen'
    BY <1>1, <2>2, <2>3, <2>4, <2>5, ZenonT(30) DEF CleanupInv, CleanupTypeOK, DependentsAreOpen
  <2>7. NoneIsBasedOnIt' /\ NoneHasItAsHead' /\ DeletesWhatIsPinned'
    BY <2>2, <2>3, <2>4, ZenonT(30) DEF CleanupInv, NoneIsBasedOnIt, NoneHasItAsHead, DeletesWhatIsPinned
  <2>8. CleanupTypeOK'
    BY <1>1, <2>3, <2>4 DEF CleanupTypeOK
  <2> QED
    BY <2>6, <2>7, <2>8 DEF CleanupInv
<1>12. CASE UNCHANGED cleanupVars
  BY <1>12, ZenonT(30) DEF cleanupVars, CleanupInv, CleanupTypeOK, DependentsAreOpen, NoneIsBasedOnIt,
               NoneHasItAsHead, DeletesWhatIsPinned
<1> QED
  BY <1>2, <1>3, <1>4, <1>5, <1>6, <1>7, <1>8, <1>9, <1>10, <1>11, <1>12 DEF CleanupNext

(* However many pull requests share the branch and whoever pushes, opens,  *)
(* closes or merges meanwhile, a cleanup deletes no commit that is not     *)
(* pinned, and no branch that a pull request open since the merge needs.   *)
THEOREM CleanupNeverLosesAnything == CleanupSpec => CleanupLosesNothing
<1>1. CleanupInv /\ [CleanupNext]_cleanupVars =>
        [branch # << >> /\ branch' = << >> =>
           /\ Range(branch) \subseteq UNION {Range(pins'[n]) : n \in Proposals}
           /\ \A n \in Proposals :
                 cleaning[n].at = "delete" /\ cleaning'[n].at = "idle" =>
                    cleaning[n].dependents = {}]_cleanupVars
  <2> SUFFICES ASSUME CleanupInv, CleanupNext, branch # << >>, branch' = << >>
               PROVE  /\ Range(branch) \subseteq UNION {Range(pins'[n]) : n \in Proposals}
                      /\ \A n \in Proposals :
                            cleaning[n].at = "delete" => cleaning[n].dependents = {}
    OBVIOUS
  <2>1. ~PushHead
    <3>1. \A x : <<x>> # << >>
      OBVIOUS
    <3>2. pushes' \in 1 .. MaxPushes => Append(branch, pushes') # << >>
      BY DEF CleanupInv, CleanupTypeOK, Tip
    <3> QED
      BY <3>1, <3>2, CleanupConstants DEF PushHead, CleanupInv, CleanupTypeOK
  <2>2. PICK n \in Proposals : DeleteBranch(n)
    BY <2>1, Zenon DEF CleanupNext, RecordMerge, KeptAnyhow, ScanBased, ScanOpen, PinRead, PinWrite,
                OpenPull, ClosePull
  <2>3. branch = pins'[n]
    BY <2>2, ZenonT(30) DEF DeleteBranch, CleanupInv, DeletesWhatIsPinned
  <2>4. \A m \in Proposals : cleaning[m].dependents \subseteq Proposals \cup Stacked
    BY DEF CleanupInv, CleanupTypeOK, Cleanup
  <2>5. \A m \in Proposals : cleaning[m].at = "delete" => cleaning[m].dependents = {}
    BY <2>4 DEF CleanupInv, NoneIsBasedOnIt, NoneHasItAsHead
  <2> QED
    BY <2>3, <2>5
<1>2. CleanupInv /\ [CleanupNext]_cleanupVars => CleanupInv'
  BY CleanupStep
<1> QED
  BY <1>1, <1>2, CleanupStart, PTL DEF CleanupSpec, CleanupLosesNothing

-----------------------------------------------------------------------------
(***************************************************************************)
(* Gate leases, for every set of slots, heads, hosts and policies, every   *)
(* TTL, retention and capacity.                                            *)
(***************************************************************************)

LeaseStore == [Heads -> Claim \cup {NoClaim}]

\* forget_old and make_room leave a store a store.
LEMMA ForgetOldType ==
    ASSUME NEW cs \in LeaseStore, NEW a
    PROVE  ForgetOld(cs, a) \in LeaseStore
BY DEF ForgetOld, LeaseStore

\* make_room leaves a well-formed store.
LEMMA MakeRoomType ==
    ASSUME NEW cs \in LeaseStore, NEW a, NEW ds \in MakeRoom(cs, a)
    PROVE  ds \in LeaseStore
BY ZenonT(30) DEF MakeRoom, LeaseStore, OldestExpired, Expired, Stored

\* The lease acquire grants is well formed.
LEMMA LeasedType ==
    ASSUME TypeOK, NEW q \in Requests, asks[q] # Idle, NEW required \in SUBSET Capabilities
    PROVE  Leased(q, required) \in Claim
<1>1. asks[q] \in InFlight
  BY ZenonT(30) DEF TypeOK
<1>2. Ttl - asks[q].age \in Lefts
  BY ConstantsAssumption, <1>1 DEF ConstantsAssumption, InFlight, Lefts
<1> QED
  BY <1>1, <1>2, Zenon DEF Leased, Claim, InFlight

(* Every request, the clock, a restart and a death keep the stores well    *)
(* formed, and no lease is ever worth more than the TTL.                   *)
THEOREM TypeCorrect == Spec => []TypeOK
<1>1. Init => TypeOK
  BY DEF Init, TypeOK
<1>2. TypeOK /\ [Next]_vars => TypeOK'
  <2> SUFFICES ASSUME TypeOK, [Next]_vars PROVE TypeOK'
    OBVIOUS
  <2>0. claims \in LeaseStore
    BY DEF TypeOK, LeaseStore
  <2>1. ASSUME NEW r \in Runners, NEW h \in Heads, NEW host \in Hosts, Renew(r, h, host)
        PROVE  TypeOK'
    <3>1. claims[h] \in Claim
      BY <2>1 DEF Renew, TypeOK
    <3>2. [claims[h] EXCEPT !.host = host, !.left = Ttl] \in Claim
      <4>1. Ttl \in Lefts
        BY ConstantsAssumption DEF ConstantsAssumption, Lefts
      <4>2. ASSUME NEW c \in Claim PROVE [c EXCEPT !.host = host] \in Claim
        BY DEF Claim
      <4>3. ASSUME NEW c \in Claim PROVE [c EXCEPT !.left = Ttl] \in Claim
        BY <4>1, ZenonT(30) DEF Claim
      <4> QED
        BY <3>1, <4>2, <4>3, Zenon
    <3> QED
      BY <2>1, <3>1, <3>2 DEF Renew, TypeOK, Claim, Lefts
  <2>2. ASSUME NEW q \in Requests, NEW r \in Runners, NEW h \in Heads, NEW host \in Hosts,
               Ask(q, r, h, host)
        PROVE  TypeOK'
    BY ConstantsAssumption, <2>2 DEF ConstantsAssumption, Ask, TypeOK, InFlight
  <2>3. ASSUME NEW q \in Requests, Finish(q) PROVE TypeOK'
    <3>1. ASSUME claims' \in LeaseStore, Answered(q) PROVE TypeOK'
      BY <3>1 DEF Answered, TypeOK, LeaseStore
    <3>2. CASE FinishRefused(q)
      BY <2>0, <3>1, <3>2 DEF FinishRefused
    <3>3. CASE FinishHeld(q)
      BY <2>0, <3>1, <3>3, ForgetOldType DEF FinishHeld
    <3>4. CASE FinishRenewed(q)
      <4>1. PICK required \in Policies :
                /\ Admitted(q, required)
                /\ HeldByAsker(ForgetOld(claims, asks[q].age), q)
                /\ claims' = [ForgetOld(claims, asks[q].age) EXCEPT ![asks[q].head] =
                                  Leased(q, ForgetOld(claims, asks[q].age)[asks[q].head].required)]
                /\ Answered(q)
        BY <3>4 DEF FinishRenewed
      <4> DEFINE kept == ForgetOld(claims, asks[q].age)
      <4>2. kept \in LeaseStore
        BY <2>0, ForgetOldType, ZenonT(30)
      <4>3. asks[q] # Idle /\ asks[q].head \in Heads
        BY <4>1 DEF Admitted, TypeOK, InFlight
      <4>4. kept[asks[q].head].required \in SUBSET Capabilities
        BY <4>1, <4>2, <4>3, ZenonT(30) DEF HeldByAsker, LeaseStore, Claim
      <4>5. Leased(q, kept[asks[q].head].required) \in Claim
        BY <4>3, <4>4, LeasedType, ZenonT(30)
      <4> QED
        BY <3>1, <4>1, <4>2, <4>5, ZenonT(30) DEF LeaseStore
    <3>5. CASE FinishFresh(q)
      <4>1. PICK required \in Policies :
                /\ Admitted(q, required)
                /\ \E cs \in IF ForgetOld(claims, asks[q].age)[asks[q].head] # NoClaim
                             THEN {ForgetOld(claims, asks[q].age)}
                             ELSE MakeRoom(ForgetOld(claims, asks[q].age), asks[q].age) :
                      claims' = [cs EXCEPT ![asks[q].head] = Leased(q, required)]
                /\ Answered(q)
        BY <3>5, Zenon DEF FinishFresh
      <4>2. PICK cs \in LeaseStore : claims' = [cs EXCEPT ![asks[q].head] = Leased(q, required)]
        BY <2>0, <4>1, ForgetOldType, MakeRoomType, ZenonT(30)
      <4>3. Leased(q, required) \in Claim
        BY <4>1, LeasedType DEF Admitted, Capabilities
      <4> QED
        BY <3>1, <4>1, <4>2, <4>3, ZenonT(30) DEF LeaseStore
    <3>6. CASE FinishFull(q)
      BY <2>0, <3>1, <3>6, ForgetOldType, ZenonT(30) DEF FinishFull
    <3> QED
      BY <2>3, <3>2, <3>3, <3>4, <3>5, <3>6 DEF Finish
  <2>4. ASSUME NEW r \in Runners, NEW h \in Heads, Release(r, h) PROVE TypeOK'
    <3>1. ForgetOld(claims, 0) \in LeaseStore
      BY <2>0, ForgetOldType, ZenonT(30)
    <3> QED
      BY <2>4, <3>1 DEF Release, TypeOK, LeaseStore
  <2>5. ASSUME NEW r \in Runners, NEW b \in Beats, Heartbeat(r, b) PROVE TypeOK'
    BY <2>5 DEF Heartbeat, TypeOK
  <2>6. ASSUME NEW r \in Runners, Die(r) PROVE TypeOK'
    BY <2>6 DEF Die, TypeOK
  <2>7. CASE Tick
    <3>1. claims' \in [Heads -> Claim \cup {NoClaim}]
      <4>1. ASSUME NEW c \in Claim PROVE [c EXCEPT !.left = @ - 1] \in Claim
        BY ConstantsAssumption DEF ConstantsAssumption, Claim, Lefts
      <4> QED
        BY <2>7, <4>1 DEF Tick, TypeOK
    <3>2. beats' \in [Runners -> [beat : Beats, age : Nat] \cup {NoBeat}]
      BY <2>7 DEF Tick, TypeOK
    <3>3. asks' \in [Requests -> InFlight \cup {Idle}]
      <4>1. ASSUME NEW x \in InFlight, x.age < MaxRead
            PROVE  [x EXCEPT !.age = @ + 1] \in InFlight
        BY ConstantsAssumption, <4>1 DEF ConstantsAssumption, InFlight
      <4> QED
        BY <2>7, <4>1 DEF Tick, TypeOK
    <3> QED
      BY <2>7, <3>1, <3>2, <3>3 DEF Tick, TypeOK
  <2>8. CASE Restart
    BY <2>8 DEF Restart, TypeOK
  <2>9. CASE UNCHANGED vars
    BY <2>9 DEF vars, TypeOK
  <2> QED
    BY <2>1, <2>2, <2>3, <2>4, <2>5, <2>6, <2>7, <2>8, <2>9 DEF Next
<1> QED
  BY <1>1, <1>2, PTL DEF Spec

-----------------------------------------------------------------------------
\* What is live now is live by every earlier clock, so forget_old keeps it
\* and make_room does not pick it.
LEMMA LiveSurvivesForgetOld ==
    ASSUME NEW cs \in LeaseStore, NEW a \in Nat, NEW h \in Heads, cs[h] # NoClaim, Live(cs[h], 0)
    PROVE  ForgetOld(cs, a)[h] = cs[h]
BY DEF ForgetOld, LeaseStore, Kept, Live, Claim, Lefts

\* make_room never forgets a live lease.
LEMMA LiveSurvivesMakeRoom ==
    ASSUME NEW cs \in LeaseStore, NEW a \in Nat, NEW h \in Heads, cs[h] # NoClaim, Live(cs[h], 0),
           NEW ds \in MakeRoom(cs, a)
    PROVE  ds[h] = cs[h]
<1>1. h \notin Expired(cs, a)
  BY DEF Expired, Stored, Live, LeaseStore, Claim, Lefts
<1> QED
  BY <1>1, Zenon DEF MakeRoom, OldestExpired, LeaseStore

(* No interleaving of asks, renewals, releases and time takes a live lease *)
(* from its holder or lets another slot in, for any number of slots and    *)
(* heads and however long the policy read of an ask takes.                 *)
THEOREM LeaseIsExclusive == Spec => RunningGateKeepsItsLease
<1>1. TypeOK /\ [Next]_vars => [\A h \in Heads : LeaseStays(h)]_vars
  <2> SUFFICES ASSUME TypeOK, Next, NEW h \in Heads, LiveNow(h)
               PROVE  IF claims'[h] = NoClaim
                      THEN Restart \/ Release(claims[h].runner, h)
                      ELSE /\ claims'[h].runner = claims[h].runner
                           /\ claims'[h].required = claims[h].required
    BY Zenon DEF LeaseStays
  <2>0. claims \in LeaseStore /\ claims[h] \in Claim /\ Live(claims[h], 0)
    BY DEF TypeOK, LeaseStore, LiveNow
  <2>a. ASSUME claims'[h] = claims[h]
        PROVE  /\ claims'[h] # NoClaim
               /\ claims'[h].runner = claims[h].runner
               /\ claims'[h].required = claims[h].required
    BY AbsentAssumption, <2>0, <2>a, ZenonT(30) DEF AbsentAssumption
  <2>1. ASSUME NEW r \in Runners, NEW k \in Heads, NEW host \in Hosts, Renew(r, k, host)
        PROVE  /\ claims'[h] # NoClaim
               /\ claims'[h].runner = claims[h].runner
               /\ claims'[h].required = claims[h].required
    <3>1. CASE k # h
      BY <2>a, <2>1, <3>1 DEF Renew, TypeOK
    <3>2. CASE k = h
      <4>1. claims'[h] = [claims[h] EXCEPT !.host = host, !.left = Ttl]
        BY <2>0, <2>1, <3>2 DEF Renew, LeaseStore, Claim
      <4>2. claims'[h].runner = claims[h].runner /\ claims'[h].required = claims[h].required
        BY <2>0, <4>1 DEF Claim
      <4>3. claims'[h] \in Claim
        <5>1. Ttl \in Lefts
          BY ConstantsAssumption DEF ConstantsAssumption, Lefts
        <5>2. ASSUME NEW c \in Claim PROVE [c EXCEPT !.host = host] \in Claim
          BY DEF Claim
        <5>3. ASSUME NEW c \in Claim PROVE [c EXCEPT !.left = Ttl] \in Claim
          BY <5>1 DEF Claim
        <5> QED
          BY <2>0, <4>1, <5>2, <5>3, ZenonT(30)
      <4> QED
        BY AbsentAssumption, <4>2, <4>3, Zenon DEF AbsentAssumption
    <3> QED
      BY <3>1, <3>2, Zenon
  <2>2. ASSUME NEW q \in Requests, Finish(q)
        PROVE  /\ claims'[h] # NoClaim
               /\ claims'[h].runner = claims[h].runner
               /\ claims'[h].required = claims[h].required
    <3> DEFINE kept == ForgetOld(claims, asks[q].age)
    <3>1. asks[q] # Idle => asks[q] \in InFlight /\ asks[q].age \in Nat /\ asks[q].head \in Heads
      BY DEF TypeOK, InFlight
    <3>2. asks[q] # Idle => kept \in LeaseStore /\ kept[h] = claims[h]
      BY AbsentAssumption, <2>0, <3>1, ForgetOldType, LiveSurvivesForgetOld, ZenonT(30) DEF AbsentAssumption
    <3>3. asks[q] # Idle => Live(claims[h], asks[q].age)
      BY <2>0, <3>1 DEF Live, Claim, Lefts
    <3>4. CASE FinishRefused(q)
      BY <2>a, <3>4 DEF FinishRefused
    <3>5. CASE FinishHeld(q)
      BY <2>a, <3>2, <3>5, ZenonT(30) DEF FinishHeld, Admitted
    <3>6. CASE FinishRenewed(q)
      <4>1. /\ asks[q] # Idle
            /\ HeldByAsker(kept, q)
            /\ claims' = [kept EXCEPT ![asks[q].head] = Leased(q, kept[asks[q].head].required)]
        BY <3>6, ZenonT(30) DEF FinishRenewed, Admitted
      <4>2. CASE asks[q].head # h
        BY <2>a, <3>2, <4>1, <4>2, ZenonT(30) DEF LeaseStore
      <4>3. CASE asks[q].head = h
        <5>1. claims'[h] = Leased(q, claims[h].required)
          BY <3>2, <4>1, <4>3, Zenon DEF LeaseStore
        <5>2. claims[h].runner = asks[q].runner
          BY <3>2, <4>1, <4>3, ZenonT(30) DEF HeldByAsker
        <5>3. Leased(q, claims[h].required) \in Claim
          BY <2>0, <4>1, LeasedType, ZenonT(30) DEF Claim
        <5> QED
          BY AbsentAssumption, <5>1, <5>2, <5>3 DEF AbsentAssumption, Leased
      <4> QED
        BY <4>2, <4>3, ZenonT(30)
    <3>7. CASE FinishFresh(q)
      <4>1. PICK required \in Policies :
              /\ asks[q] # Idle
              /\ ~HeldByOther(kept, q) /\ ~HeldByAsker(kept, q)
              /\ \E cs \in IF kept[asks[q].head] # NoClaim THEN {kept}
                           ELSE MakeRoom(kept, asks[q].age) :
                    claims' = [cs EXCEPT ![asks[q].head] = Leased(q, required)]
        BY <3>7, ZenonT(30) DEF FinishFresh, Admitted
      <4>2. asks[q].head # h
        BY AbsentAssumption, <2>0, <3>2, <3>3, <4>1, ZenonT(30) DEF AbsentAssumption, HeldByOther, HeldByAsker
      <4>3. PICK cs \in LeaseStore : /\ cs[h] = claims[h]
                                /\ claims' = [cs EXCEPT ![asks[q].head] = Leased(q, required)]
        <5>1. PICK cs \in IF kept[asks[q].head] # NoClaim THEN {kept}
                           ELSE MakeRoom(kept, asks[q].age) :
                    claims' = [cs EXCEPT ![asks[q].head] = Leased(q, required)]
          BY <4>1, ZenonT(30)
        <5>2. CASE kept[asks[q].head] # NoClaim
          BY <3>2, <4>1, <5>1, <5>2, ZenonT(30)
        <5>3. CASE kept[asks[q].head] = NoClaim
          <6>1. cs \in MakeRoom(kept, asks[q].age)
            BY <5>1, <5>3
          <6>2. kept[h] # NoClaim /\ Live(kept[h], 0)
            BY AbsentAssumption, <2>0, <3>2, <4>1, ZenonT(30) DEF AbsentAssumption
          <6>3. cs[h] = kept[h] /\ cs \in LeaseStore
            BY <3>1, <3>2, <4>1, <6>1, <6>2, LiveSurvivesMakeRoom, MakeRoomType, Zenon
          <6> QED
            BY <3>2, <4>1, <5>1, <6>3, ZenonT(30)
        <5> QED
          BY <5>2, <5>3, ZenonT(30)
      <4> QED
        BY <2>a, <4>2, <4>3, ZenonT(30) DEF LeaseStore
    <3>8. CASE FinishFull(q)
      BY <2>a, <3>2, <3>8, Zenon DEF FinishFull, Admitted
    <3> QED
      BY <2>2, <3>4, <3>5, <3>6, <3>7, <3>8, Zenon DEF Finish
  <2>3. ASSUME NEW r \in Runners, NEW k \in Heads, Release(r, k)
        PROVE  claims'[h] = claims[h] \/ Release(claims[h].runner, h)
    <3>1. ForgetOld(claims, 0) \in LeaseStore /\ ForgetOld(claims, 0)[h] = claims[h]
      BY AbsentAssumption, <2>0, ForgetOldType, LiveSurvivesForgetOld, ZenonT(30) DEF AbsentAssumption
    <3>2. CASE k = h /\ r = claims[h].runner
      BY <2>3, <3>2, Zenon
    <3>3. CASE ~(k = h /\ r = claims[h].runner)
      BY <2>3, <3>1, <3>3, Zenon DEF Release, LeaseStore
    <3> QED
      BY <3>2, <3>3, ZenonT(30)
  <2>4. CASE Tick
    <3>1. ASSUME claims'[h] = [claims[h] EXCEPT !.left = @ - 1]
          PROVE  /\ claims'[h] # NoClaim
                 /\ claims'[h].runner = claims[h].runner
                 /\ claims'[h].required = claims[h].required
      <4>1. [claims[h] EXCEPT !.left = @ - 1] \in Claim
        BY ConstantsAssumption, <2>0 DEF ConstantsAssumption, Claim, Lefts
      <4> QED
        BY AbsentAssumption, <2>0, <3>1, <4>1 DEF AbsentAssumption, Claim
    <3>2. claims'[h] = [claims[h] EXCEPT !.left = @ - 1] \/ claims'[h] = claims[h]
      BY <2>4 DEF Tick
    <3> QED
      BY <2>a, <3>1, <3>2
  <2>5. CASE Restart
    BY <2>5, Zenon DEF Restart
  <2>6. ASSUME claims' = claims PROVE claims'[h] = claims[h]
    BY <2>6
  <2>7. ASSUME NEW r \in Runners, NEW k \in Heads, Release(r, k)
        PROVE  IF claims'[h] = NoClaim
               THEN Restart \/ Release(claims[h].runner, h)
               ELSE /\ claims'[h].runner = claims[h].runner
                    /\ claims'[h].required = claims[h].required
    <3>1. CASE claims'[h] = claims[h]
      BY <2>a, <3>1, ZenonT(30)
    <3>2. CASE claims'[h] # claims[h]
      <4>1. Release(claims[h].runner, h)
        BY <2>3, <2>7, <3>2, ZenonT(30)
      <4>2. claims'[h] = NoClaim
        BY AbsentAssumption, <2>0, <4>1, <3>2, ForgetOldType, LiveSurvivesForgetOld DEF AbsentAssumption, Release, LeaseStore
      <4> QED
        BY <4>1, <4>2, ZenonT(30)
    <3> QED
      BY <3>1, <3>2, ZenonT(30)
  <2> QED
    BY <2>a, <2>1, <2>2, <2>4, <2>5, <2>6, <2>7, ZenonT(30) DEF Next, Ask, Heartbeat, Die
<1> QED
  BY <1>1, TypeCorrect, PTL DEF Spec, RunningGateKeepsItsLease

-----------------------------------------------------------------------------
\* A smaller set of records is a smaller store.
LEMMA FewerStored ==
    ASSUME NEW cs, NEW ds, Stored(ds) \subseteq Stored(cs)
    PROVE  /\ IsFiniteSet(Stored(cs)) /\ Cardinality(Stored(cs)) \in Nat
           /\ Cardinality(Stored(ds)) <= Cardinality(Stored(cs))
<1>1. IsFiniteSet(Stored(cs))
  BY ConstantsAssumption, FS_Subset DEF ConstantsAssumption, Stored
<1> QED
  BY <1>1, FS_Subset, FS_CardinalityType, ZenonT(30)

\* forget_old only removes records.
LEMMA ForgetOldFrees ==
    ASSUME NEW cs \in LeaseStore, NEW a
    PROVE  Stored(ForgetOld(cs, a)) \subseteq Stored(cs)
BY DEF Stored, ForgetOld

\* make_room leaves space for one more record.
LEMMA RoomIsMade ==
    ASSUME NEW cs \in LeaseStore, NEW a, Cardinality(Stored(cs)) <= MaxClaims, NEW ds \in MakeRoom(cs, a)
    PROVE  Cardinality(Stored(ds)) < MaxClaims
<1>1. IsFiniteSet(Stored(cs)) /\ Cardinality(Stored(cs)) \in Nat
  BY FewerStored
<1>2. CASE Cardinality(Stored(cs)) < MaxClaims
  BY <1>2, ZenonT(30) DEF MakeRoom
<1>3. CASE ~(Cardinality(Stored(cs)) < MaxClaims)
  <2>1. PICK h \in Stored(cs) : ds = [cs EXCEPT ![h] = NoClaim]
    BY <1>3 DEF MakeRoom, OldestExpired, Expired
  <2>2. Stored(ds) = Stored(cs) \ {h}
    BY <2>1 DEF Stored, LeaseStore
  <2>3. Cardinality(Stored(cs) \ {h}) = Cardinality(Stored(cs)) - 1
    BY <1>1, FS_RemoveElement, Zenon
  <2> QED
    BY ConstantsAssumption, <1>1, <2>2, <2>3 DEF ConstantsAssumption
<1> QED
  BY <1>2, <1>3

\* Writing a record adds at most one, and none where there was one.
LEMMA OneRecordMore ==
    ASSUME NEW cs \in LeaseStore, NEW h \in Heads, NEW c \in Claim
    PROVE  /\ cs[h] # NoClaim => Stored([cs EXCEPT ![h] = c]) = Stored(cs)
           /\ cs[h] = NoClaim =>
                Cardinality(Stored([cs EXCEPT ![h] = c])) = Cardinality(Stored(cs)) + 1
<1>1. Stored([cs EXCEPT ![h] = c]) = Stored(cs) \cup {h}
  BY AbsentAssumption, ZenonT(30) DEF AbsentAssumption, Stored, LeaseStore
<1>2. IsFiniteSet(Stored(cs))
  BY FewerStored
<1>3. cs[h] # NoClaim => h \in Stored(cs)
  BY DEF Stored
<1>4. cs[h] = NoClaim => h \notin Stored(cs)
  BY DEF Stored
<1>5. h \notin Stored(cs) => Cardinality(Stored(cs) \cup {h}) = Cardinality(Stored(cs)) + 1
  BY <1>2, FS_AddElement, ZenonT(30)
<1> QED
  BY <1>1, <1>3, <1>4, <1>5, Zenon

\* make_room touches no head that has no record.
LEMMA RoomElsewhere ==
    ASSUME NEW cs \in LeaseStore, NEW a, NEW h \in Heads, cs[h] = NoClaim, NEW ds \in MakeRoom(cs, a)
    PROVE  ds[h] = NoClaim
BY Zenon DEF MakeRoom, OldestExpired, Expired, Stored, LeaseStore

(* GateClaimStore never holds more than MAX_CLAIMS records: every          *)
(* insertion runs forget_old and make_room first, and they free enough     *)
(* although they judge age by the clock of before the await.               *)
THEOREM CapacityHolds == Spec => []StoreIsBounded
<1>1. Init => StoreIsBounded
  <2> SUFFICES ASSUME Init PROVE StoreIsBounded
    OBVIOUS
  <2>1. Stored(claims) = {}
    BY DEF Init, Stored
  <2> QED
    BY ConstantsAssumption, <2>1, FS_EmptySet DEF ConstantsAssumption, StoreIsBounded
<1>2. TypeOK /\ TypeOK' /\ StoreIsBounded /\ [Next]_vars => StoreIsBounded'
  <2> SUFFICES ASSUME TypeOK, TypeOK', StoreIsBounded, [Next]_vars PROVE StoreIsBounded'
    BY Zenon
  <2>0. claims \in LeaseStore
    BY DEF TypeOK, LeaseStore
  <2>a. Stored(claims)' = Stored(claims')
    BY DEF Stored
  <2>b. ASSUME Stored(claims') \subseteq Stored(claims) PROVE StoreIsBounded'
    <3>1. /\ Cardinality(Stored(claims)) \in Nat
          /\ Cardinality(Stored(claims')) <= Cardinality(Stored(claims))
      BY <2>b, FewerStored
    <3>2. Cardinality(Stored(claims')) \in Nat
      BY FewerStored
    <3> QED
      BY ConstantsAssumption, <2>a, <3>1, <3>2 DEF ConstantsAssumption, StoreIsBounded
  <2>1. ASSUME NEW r \in Runners, NEW h \in Heads, NEW host \in Hosts, Renew(r, h, host)
        PROVE  StoreIsBounded'
    <3>1. Stored(claims') \subseteq Stored(claims)
      BY <2>0, <2>1 DEF Renew, Stored, LeaseStore
    <3> QED
      BY <2>b, <3>1
  <2>2. ASSUME NEW q \in Requests, Finish(q) PROVE StoreIsBounded'
    <3> DEFINE kept == ForgetOld(claims, asks[q].age)
    <3>1. kept \in LeaseStore /\ Stored(kept) \subseteq Stored(claims)
      BY <2>0, ForgetOldType, ForgetOldFrees, ZenonT(30)
    <3>2. Cardinality(Stored(kept)) \in Nat /\ Cardinality(Stored(kept)) <= MaxClaims
      <4>1. /\ Cardinality(Stored(claims)) \in Nat
            /\ Cardinality(Stored(kept)) <= Cardinality(Stored(claims))
        BY <3>1, FewerStored
      <4>2. Cardinality(Stored(kept)) \in Nat
        BY FewerStored
      <4> QED
        BY ConstantsAssumption, <4>1, <4>2 DEF ConstantsAssumption, StoreIsBounded
    <3>3. CASE FinishRefused(q)
      BY <2>b, <3>3 DEF FinishRefused
    <3>4. CASE FinishHeld(q) \/ FinishFull(q)
      BY <2>b, <3>1, <3>4, ZenonT(30) DEF FinishHeld, FinishFull
    <3>5. CASE FinishRenewed(q)
      <4>1. /\ asks[q] # Idle
            /\ HeldByAsker(kept, q)
            /\ claims' = [kept EXCEPT ![asks[q].head] = Leased(q, kept[asks[q].head].required)]
        BY <3>5 DEF FinishRenewed, Admitted
      <4>2. asks[q].head \in Heads /\ kept[asks[q].head] # NoClaim
        BY <4>1, ZenonT(30) DEF HeldByAsker, TypeOK, InFlight
      <4>3. Leased(q, kept[asks[q].head].required) \in Claim
        BY <3>1, <4>1, <4>2, LeasedType, ZenonT(30) DEF LeaseStore, Claim
      <4>4. Stored(claims') = Stored(kept)
        BY <3>1, <4>1, <4>2, <4>3, OneRecordMore, ZenonT(30)
      <4> QED
        BY <2>b, <3>1, <4>4, ZenonT(30)
    <3>6. CASE FinishFresh(q)
      <4>1. PICK required \in Policies :
              /\ asks[q] # Idle
              /\ \E cs \in IF kept[asks[q].head] # NoClaim THEN {kept}
                           ELSE MakeRoom(kept, asks[q].age) :
                    claims' = [cs EXCEPT ![asks[q].head] = Leased(q, required)]
        BY <3>6, ZenonT(30) DEF FinishFresh, Admitted
      <4>2. asks[q].head \in Heads
        BY <4>1, ZenonT(30) DEF TypeOK, InFlight
      <4>3. Leased(q, required) \in Claim
        BY <4>1, LeasedType DEF Capabilities
      <4>4. PICK cs \in IF kept[asks[q].head] # NoClaim THEN {kept}
                        ELSE MakeRoom(kept, asks[q].age) :
                 claims' = [cs EXCEPT ![asks[q].head] = Leased(q, required)]
        BY <4>1, Zenon
      <4>5. CASE kept[asks[q].head] # NoClaim
        BY <2>b, <3>1, <4>2, <4>3, <4>4, <4>5, OneRecordMore
      <4>6. CASE kept[asks[q].head] = NoClaim
        <5>1. cs \in MakeRoom(kept, asks[q].age)
          BY <4>4, <4>6, Zenon
        <5>2. cs \in LeaseStore /\ cs[asks[q].head] = NoClaim
          BY <3>1, <4>2, <4>6, <5>1, MakeRoomType, RoomElsewhere
        <5>3. Cardinality(Stored(cs)) < MaxClaims
          BY <3>1, <3>2, <5>1, RoomIsMade, Zenon
        <5>4. Cardinality(Stored(claims')) = Cardinality(Stored(cs)) + 1
          BY <4>2, <4>3, <4>4, <5>2, OneRecordMore, Zenon
        <5>5. Cardinality(Stored(cs)) \in Nat
          BY FewerStored, ZenonT(30)
        <5> QED
          BY ConstantsAssumption, <2>a, <5>3, <5>4, <5>5 DEF ConstantsAssumption, StoreIsBounded
      <4> QED
        BY <4>5, <4>6, ZenonT(30)
    <3> QED
      BY <2>2, <3>3, <3>4, <3>5, <3>6 DEF Finish
  <2>3. ASSUME NEW r \in Runners, NEW h \in Heads, Release(r, h) PROVE StoreIsBounded'
    <3>1. ForgetOld(claims, 0) \in LeaseStore /\ Stored(ForgetOld(claims, 0)) \subseteq Stored(claims)
      BY <2>0, ForgetOldType, ForgetOldFrees, ZenonT(30)
    <3>2. Stored(claims') \subseteq Stored(ForgetOld(claims, 0))
      BY <2>3, <3>1, Zenon DEF Release, Stored, LeaseStore
    <3> QED
      BY <2>b, <3>1, <3>2
  <2>4. CASE Tick
    <3>1. Stored(claims') \subseteq Stored(claims)
      BY <2>4 DEF Tick, Stored
    <3> QED
      BY <2>b, <3>1
  <2>5. CASE Restart
    <3>1. Stored(claims') \subseteq Stored(claims)
      BY <2>5 DEF Restart, Stored
    <3> QED
      BY <2>b, <3>1
  <2>6. CASE claims' = claims
    BY <2>b, <2>6
  <2> QED
    BY <2>1, <2>2, <2>3, <2>4, <2>5, <2>6, Zenon DEF Next, Ask, Heartbeat, Die, vars
<1> QED
  BY <1>1, <1>2, TypeCorrect, PTL DEF Spec

-----------------------------------------------------------------------------
\* forget_old keeps what is inside the retention window, whatever the age of
\* the clock it goes by: an old clock only makes a record look younger.
LEMMA RetainedSurvivesForgetOld ==
    ASSUME NEW cs \in LeaseStore, NEW a \in Nat, NEW h \in Heads, cs[h] # NoClaim, -cs[h].left <= Retention
    PROVE  ForgetOld(cs, a)[h] = cs[h]
<1>1. cs[h].left \in Int
  BY ZenonT(30) DEF LeaseStore, Claim, Lefts
<1>2. Kept(cs[h], a)
  BY <1>1, ConstantsAssumption DEF Kept, Live
<1> QED
  BY <1>2, Zenon DEF ForgetOld

\* make_room forgets a record of a full store only.
LEMMA RoomIsForced ==
    ASSUME NEW cs \in LeaseStore, NEW a, NEW ds \in MakeRoom(cs, a), NEW h \in Heads, ds[h] # cs[h]
    PROVE  ~(Cardinality(Stored(cs)) < MaxClaims)
BY DEF MakeRoom

(* The record of a gate that stopped halfway is erased inside the          *)
(* retention window by its holder, by a restart, or by make_room of a full *)
(* store for a lease on a head that had no record; never by a stranger's   *)
(* release or by an ask judged on an old clock.                            *)
THEOREM StaleRecordIsAlwaysKept == Spec => StaleRecordIsKept
<1>1. TypeOK /\ StoreIsBounded /\ [Next]_vars =>
        [\A h \in Heads :
          (claims[h] # NoClaim /\ ~LiveNow(h) /\ -claims[h].left <= Retention
              /\ claims'[h] = NoClaim) =>
            \/ Restart
            \/ Release(claims[h].runner, h)
            \/ /\ Cardinality(Stored(claims)) = MaxClaims
               /\ \E k \in Heads : claims[k] = NoClaim /\ claims'[k] # NoClaim]_vars
  <2> SUFFICES ASSUME TypeOK, StoreIsBounded, Next, NEW h \in Heads, claims[h] # NoClaim,
                      -claims[h].left <= Retention, claims'[h] = NoClaim
               PROVE  \/ Restart
                      \/ Release(claims[h].runner, h)
                      \/ /\ Cardinality(Stored(claims)) = MaxClaims
                         /\ \E k \in Heads : claims[k] = NoClaim /\ claims'[k] # NoClaim
    OBVIOUS
  <2>0. claims \in LeaseStore /\ claims[h] \in Claim
    BY ZenonT(30) DEF TypeOK, LeaseStore
  <2>1. ASSUME NEW r \in Runners, NEW k \in Heads, NEW host \in Hosts, Renew(r, k, host)
        PROVE  FALSE
    <3> DEFINE new == [claims[k] EXCEPT !.host = host, !.left = Ttl]
    <3>1. claims' = [claims EXCEPT ![k] = new] /\ claims[k] \in Claim
      BY <2>0, <2>1, Zenon DEF Renew, LeaseStore
    <3>2. new \in Claim
      <4>1. Ttl \in Lefts
        BY ConstantsAssumption DEF Lefts
      <4> QED
        BY <3>1, <4>1, Zenon DEF Claim
    <3> HIDE DEF new
    <3>3. claims'[h] = new \/ claims'[h] = claims[h]
      BY <2>0, <3>1 DEF LeaseStore
    <3> QED
      BY <3>2, <3>3, AbsentAssumption, Zenon
  <2>2. ASSUME NEW q \in Requests, Finish(q)
        PROVE  /\ Cardinality(Stored(claims)) = MaxClaims
               /\ \E k \in Heads : claims[k] = NoClaim /\ claims'[k] # NoClaim
    <3> DEFINE kept == ForgetOld(claims, asks[q].age)
               k == asks[q].head
    <3>1. asks[q] # Idle /\ asks[q] \in InFlight /\ k \in Heads /\ asks[q].age \in Nat
      <4>1. asks[q] # Idle
        BY <2>2, Zenon DEF Finish, FinishRefused, FinishHeld, FinishRenewed, FinishFresh, FinishFull,
                           Admitted
      <4>2. asks[q] \in InFlight
        BY <4>1, Zenon DEF TypeOK
      <4> QED
        BY <4>1, <4>2 DEF InFlight
    <3>2. /\ kept \in LeaseStore /\ Stored(kept) \subseteq Stored(claims)
          /\ kept[h] = claims[h]
      BY <2>0, <3>1, ForgetOldType, ForgetOldFrees, RetainedSurvivesForgetOld, Zenon
    <3> HIDE DEF kept
    <3>3. FinishFresh(q)
      <4>1. ~FinishRefused(q) /\ ~FinishHeld(q) /\ ~FinishFull(q)
        BY <3>2, ZenonT(30) DEF FinishRefused, FinishHeld, FinishFull, kept
      <4>2. ~FinishRenewed(q)
        <5> SUFFICES ASSUME FinishRenewed(q) PROVE FALSE
          BY Zenon
        <5>1. claims' = [kept EXCEPT ![k] = Leased(q, kept[k].required)] /\ kept[k] # NoClaim
          BY ZenonT(30) DEF FinishRenewed, HeldByAsker, kept
        <5>2. Leased(q, kept[k].required) \in Claim
          BY <3>1, <3>2, <5>1, LeasedType, ZenonT(30) DEF LeaseStore, Claim
        <5> QED
          BY <3>1, <3>2, <5>1, <5>2, AbsentAssumption, ZenonT(30) DEF LeaseStore
      <4> QED
        BY <2>2, <4>1, <4>2, ZenonT(30) DEF Finish
    <3>4. PICK required \in Policies,
               cs \in IF kept[k] # NoClaim THEN {kept} ELSE MakeRoom(kept, asks[q].age) :
                 claims' = [cs EXCEPT ![k] = Leased(q, required)]
      BY <3>3, ZenonT(30) DEF FinishFresh, kept
    <3>5. Leased(q, required) \in Claim
      BY <3>1, LeasedType, ZenonT(30) DEF Capabilities
    <3>6. cs \in LeaseStore
      BY <3>2, <3>4, MakeRoomType, ZenonT(30)
    <3>7. k # h /\ claims'[k] # NoClaim /\ cs[h] = NoClaim
      BY <3>1, <3>4, <3>5, <3>6, AbsentAssumption, ZenonT(30) DEF LeaseStore
    <3>8. kept[k] = NoClaim /\ cs \in MakeRoom(kept, asks[q].age)
      BY <3>2, <3>4, <3>7, ZenonT(30)
    <3>9. ~(Cardinality(Stored(kept)) < MaxClaims)
      BY <3>2, <3>7, <3>8, RoomIsForced, ZenonT(30)
    <3>10. /\ IsFiniteSet(Stored(claims)) /\ Cardinality(Stored(claims)) \in Nat
           /\ Cardinality(Stored(kept)) \in Nat
           /\ Cardinality(Stored(kept)) <= Cardinality(Stored(claims))
      BY <3>2, FewerStored, ZenonT(30)
    <3>11. Cardinality(Stored(claims)) = MaxClaims /\ Cardinality(Stored(kept)) = MaxClaims
      BY <3>9, <3>10, ConstantsAssumption DEF StoreIsBounded
    <3>12. Stored(kept) = Stored(claims)
      BY <3>2, <3>10, <3>11, FS_Subset, Zenon
    <3>13. claims[k] = NoClaim
      BY <3>1, <3>8, <3>12, ZenonT(30) DEF Stored
    <3> QED
      BY <3>1, <3>7, <3>11, <3>13, Zenon
  <2>3. ASSUME NEW r \in Runners, NEW k \in Heads, Release(r, k)
        PROVE  Release(claims[h].runner, h)
    <3> DEFINE kept == ForgetOld(claims, 0)
    <3>1. kept \in LeaseStore /\ kept[h] = claims[h]
      BY <2>0, ForgetOldType, RetainedSurvivesForgetOld, ZenonT(30)
    <3> HIDE DEF kept
    <3>2. k = h /\ kept[k].runner = r
      BY <2>3, <3>1, Zenon DEF Release, LeaseStore, kept
    <3> QED
      BY <2>3, <3>1, <3>2, Zenon
  <2>4. ~Tick
    <3> SUFFICES ASSUME Tick PROVE FALSE
      OBVIOUS
    <3>1. claims'[h] = [claims[h] EXCEPT !.left = @ - 1] \/ claims'[h] = claims[h]
      BY DEF Tick
    <3>2. [claims[h] EXCEPT !.left = @ - 1] \in Claim
      BY ConstantsAssumption, <2>0 DEF ConstantsAssumption, Claim, Lefts
    <3> QED
      BY <3>1, <3>2, AbsentAssumption
  <2>5. claims' # claims
    OBVIOUS
  <2> QED
    BY <2>1, <2>2, <2>3, <2>4, <2>5, ZenonT(30) DEF Next, Ask, Heartbeat, Die
<1> QED
  BY <1>1, TypeCorrect, CapacityHolds, PTL DEF Spec, StaleRecordIsKept

-----------------------------------------------------------------------------
\* forget_old and make_room change no record they keep.
LEMMA OnlyForgets ==
    ASSUME NEW cs \in LeaseStore, NEW a, NEW h \in Heads
    PROVE  /\ ForgetOld(cs, a)[h] \in {cs[h], NoClaim}
           /\ \A ds \in MakeRoom(cs, a) : ds[h] \in {cs[h], NoClaim}
BY ZenonT(30) DEF ForgetOld, MakeRoom, OldestExpired, Expired, Stored, LeaseStore

\* The capability check goes by a beat that was young enough when the ask
\* read its clock, and the ask waited at most MaxRead since.
LEMMA CapableBeat ==
    ASSUME TypeOK, NEW q \in Requests, asks[q] # Idle, NEW required, CapableClaimant(q, required)
    PROVE  LET b == beats[asks[q].runner] IN
           /\ b # NoBeat
           /\ b.beat.gate /\ b.beat.host = asks[q].host
           /\ required \subseteq b.beat.caps
           /\ b.age <= b.beat.offline + MaxRead
<1> DEFINE b == beats[asks[q].runner]
<1>1. asks[q] \in InFlight
  BY DEF TypeOK
<1>2. asks[q].runner \in Runners /\ asks[q].age \in 0..MaxRead
  BY <1>1, ZenonT(30) DEF InFlight
<1>3. b # NoBeat /\ b.age - asks[q].age <= b.beat.offline
  BY Zenon DEF CapableClaimant, IsOnline
<1>4. b.beat \in Beats /\ b.age \in Nat
  BY <1>2, <1>3 DEF TypeOK
<1>5. b.beat.offline \in Nat
  BY ConstantsAssumption, <1>4, ZenonT(30) DEF ConstantsAssumption, Beat
<1>6. b.age <= b.beat.offline + MaxRead
  BY ConstantsAssumption, <1>2, <1>3, <1>4, <1>5 DEF ConstantsAssumption
<1> QED
  BY <1>3, <1>6, Zenon DEF CapableClaimant

(* A head whose repository requires a capability is newly leased only to a *)
(* slot that advertised it, for any number of slots and heads and whatever *)
(* beats arrive while the ask waits for its policy read.                   *)
THEOREM FreshLeaseIsAlwaysCapable == Spec => FreshLeaseIsCapable
<1>1. TypeOK /\ [Next]_vars =>
        [\A h \in Heads :
          LET c == claims'[h] IN
          (/\ c # NoClaim /\ c.required # {}
           /\ claims[h] = NoClaim \/ claims[h].runner # c.runner) =>
              LET b == beats[c.runner] IN
              /\ b # NoBeat
              /\ b.beat.gate /\ b.beat.host = c.host
              /\ c.required \subseteq b.beat.caps
              /\ b.age <= b.beat.offline + MaxRead]_vars
  <2> SUFFICES ASSUME TypeOK, Next, NEW h \in Heads,
                      claims'[h] # NoClaim, claims'[h].required # {},
                      claims[h] = NoClaim \/ claims[h].runner # claims'[h].runner
               PROVE  LET c == claims'[h]
                          b == beats[c.runner] IN
                      /\ b # NoBeat
                      /\ b.beat.gate /\ b.beat.host = c.host
                      /\ c.required \subseteq b.beat.caps
                      /\ b.age <= b.beat.offline + MaxRead
    OBVIOUS
  <2>0. claims \in LeaseStore
    BY Zenon DEF TypeOK, LeaseStore
  <2>1. claims'[h] # claims[h]
    BY Zenon
  <2>2. ASSUME NEW r \in Runners, NEW k \in Heads, NEW host \in Hosts, Renew(r, k, host)
        PROVE  FALSE
    <3>1. claims[k] # NoClaim /\ claims[k] \in Claim
      BY <2>2 DEF Renew, TypeOK
    <3>2. k = h
      BY <2>1, <2>2 DEF Renew, TypeOK
    <3>3. claims'[h].runner = claims[h].runner
      BY <2>0, <2>2, <3>1, <3>2 DEF Renew, LeaseStore, Claim
    <3> QED
      BY <3>1, <3>2, <3>3
  <2>3. ASSUME NEW q \in Requests, Finish(q)
        PROVE  LET c == claims'[h]
                   b == beats[c.runner] IN
               /\ b # NoBeat
               /\ b.beat.gate /\ b.beat.host = c.host
               /\ c.required \subseteq b.beat.caps
               /\ b.age <= b.beat.offline + MaxRead
    <3> DEFINE kept == ForgetOld(claims, asks[q].age)
               k == asks[q].head
    <3>1. kept \in LeaseStore /\ kept[h] \in {claims[h], NoClaim}
      BY <2>0, ForgetOldType, OnlyForgets, ZenonT(30)
    <3>2. asks[q] # Idle /\ k \in Heads
      BY <2>3, ZenonT(30) DEF Finish, FinishRefused, FinishHeld, FinishRenewed, FinishFresh, FinishFull,
                  Admitted, TypeOK, InFlight
    <3>3. ~FinishRefused(q) /\ ~FinishHeld(q) /\ ~FinishFull(q)
      BY <2>1, <3>1, ZenonT(30) DEF FinishRefused, FinishHeld, FinishFull
    <3>4. ~FinishRenewed(q)
      <4> SUFFICES ASSUME FinishRenewed(q) PROVE FALSE
        OBVIOUS
      <4>1. /\ claims' = [kept EXCEPT ![k] = Leased(q, kept[k].required)]
            /\ kept[k] # NoClaim /\ kept[k].runner = asks[q].runner
        BY ZenonT(30) DEF FinishRenewed, HeldByAsker
      <4> HIDE DEF kept
      <4>2. k = h
        BY <2>1, <3>1, <4>1, ZenonT(30) DEF LeaseStore
      <4>3. claims'[h].runner = asks[q].runner
        BY <3>1, <3>2, <4>1, <4>2 DEF LeaseStore, Leased
      <4> QED
        BY <3>1, <4>1, <4>2, <4>3, ZenonT(30)
    <3>5. PICK required \in Policies,
               cs \in IF kept[k] # NoClaim THEN {kept} ELSE MakeRoom(kept, asks[q].age) :
                 /\ Admitted(q, required)
                 /\ claims' = [cs EXCEPT ![k] = Leased(q, required)]
      BY <2>3, <3>3, <3>4, ZenonT(30) DEF Finish, FinishFresh
    <3> HIDE DEF kept
    <3>6. cs \in LeaseStore /\ cs[h] \in {claims[h], NoClaim}
      BY <3>1, <3>5, MakeRoomType, OnlyForgets
    <3>7. k = h
      BY <2>1, <3>5, <3>6, Zenon DEF LeaseStore
    <3>8. claims'[h] = Leased(q, required)
      BY <3>2, <3>5, <3>6, <3>7, ZenonT(30) DEF LeaseStore
    <3>9. /\ claims'[h].runner = asks[q].runner /\ claims'[h].host = asks[q].host
          /\ claims'[h].required = required
      BY <3>8 DEF Leased
    <3>10. CapableClaimant(q, required)
      BY <3>5, <3>9, Zenon DEF Admitted
    <3> QED
      BY <3>2, <3>9, <3>10, CapableBeat, ZenonT(30)
  <2>4. ASSUME NEW r \in Runners, NEW k \in Heads, Release(r, k) PROVE FALSE
    <3> DEFINE kept == ForgetOld(claims, 0)
    <3>1. kept \in LeaseStore /\ kept[h] \in {claims[h], NoClaim}
      BY <2>0, ForgetOldType, OnlyForgets, ZenonT(30)
    <3> HIDE DEF kept
    <3>2. claims' = kept \/ claims' = [kept EXCEPT ![k] = NoClaim]
      BY <2>4 DEF Release, kept
    <3> QED
      BY <2>1, <3>1, <3>2 DEF LeaseStore
  <2>5. ~Tick
    <3> SUFFICES ASSUME Tick PROVE FALSE
      OBVIOUS
    <3>1. /\ claims[h] \in Claim
          /\ claims'[h] = [claims[h] EXCEPT !.left = @ - 1]
      BY <2>1 DEF Tick, TypeOK
    <3>2. claims'[h].runner = claims[h].runner
      BY <3>1, ZenonT(30) DEF Claim
    <3> QED
      BY AbsentAssumption, <3>1, <3>2, ZenonT(30) DEF AbsentAssumption
  <2>6. ~Restart
    BY DEF Restart
  <2> QED
    BY <2>1, <2>2, <2>3, <2>4, <2>5, <2>6, Zenon DEF Next, Ask, Heartbeat, Die
<1> QED
  BY <1>1, TypeCorrect, PTL DEF Spec, FreshLeaseIsCapable

-----------------------------------------------------------------------------
(***************************************************************************)
(* Idempotency keys.  The inductive invariant says that the key of a write *)
(* that may still run has its reservation, which is of that write and not  *)
(* old, so nothing but the write itself removes it; that a kept reply is of*)
(* its row's caller and body, and is not a secret; and that an answer still*)
(* owed is in the table.  That the table stays bounded also needs that     *)
(* at_ms orders the rows.                                                  *)
(***************************************************************************)
HeldKeyIsReserved ==
    \A r \in Writers :
        Holds(r) =>
            /\ Scope(requests[r]) \in Reservations(rows)
            /\ rows[Scope(requests[r])].body = requests[r].body
            /\ ~rows[Scope(requests[r])].old

OwnReply(s, row) ==
    /\ row.reply.caller = s[1]
    /\ row.reply.body = row.body
    /\ row.body \in Secrets => row.reply.says # "created"

KeptIsOwn == \A s \in Finished(rows) : OwnReply(s, rows[s])

OwedIsKept == \A s \in owed : s \in Finished(rows) /\ ~rows[s].old

OlderIsAnOrder ==
    /\ \A s \in Scopes : <<s, s>> \notin older
    /\ \A s, t, u \in Scopes : <<s, t>> \in older /\ <<t, u>> \in older => <<s, u>> \in older

KeysInv ==
    /\ KeysTypeOK /\ IsFiniteSet(Has(rows))
    /\ HeldKeyIsReserved /\ OneRunnerPerKey
    /\ KeptIsOwn /\ ReplayIsOwn
    /\ OwedIsKept /\ ReservationIsFreed /\ OlderIsAnOrder

Table == [Scopes -> Row \cup {None}]

(* The faults so far are a number. *)
LEMMA FaultsAreCounted == ASSUME KeysInv PROVE faults \in Nat
BY KeysConstants DEF KeysInv, KeysTypeOK

(* What a DELETE leaves: the other rows, as they were. *)
LEMMA Deleted ==
    ASSUME NEW rs \in Table, NEW gone
    PROVE  /\ Without(rs, gone) \in Table
           /\ Has(Without(rs, gone)) = Has(rs) \ gone
           /\ Reservations(Without(rs, gone)) = Reservations(rs) \ gone
           /\ Finished(Without(rs, gone)) = Finished(rs) \ gone
           /\ \A s \in Scopes \ gone : Without(rs, gone)[s] = rs[s]
BY DEF Table, Without, Has, Reservations, Finished

(* Two deletions are one. *)
LEMMA DeletedTwice ==
    ASSUME NEW rs, NEW a, NEW b
    PROVE  Without(Without(rs, a), b) = Without(rs, a \cup b)
BY ZenonT(30) DEF Without

(* The order of at_ms stays an order on the rows there are. *)
LEMMA StoredOrder ==
    ASSUME KeysInv, NEW rs \in Table, NEW touched \in SUBSET Scopes, Store(rs, touched),
           touched \subseteq Has(rs), Has(rs) \ touched \subseteq Has(rows)
    PROVE  /\ older' \in SUBSET (Has(rows)' \X Has(rows)')
           /\ OlderIsAnOrder'
<1>1. older' \in SUBSET (Has(rows)' \X Has(rows)')
  BY DEF Store, Has
<1>2. \A s \in Scopes : <<s, s>> \notin older'
  BY Zenon DEF Store, KeysInv, OlderIsAnOrder
<1>3. \A s, t, u \in Scopes : <<s, t>> \in older' /\ <<t, u>> \in older' => <<s, u>> \in older'
  BY ZenonT(30) DEF Store, KeysInv, OlderIsAnOrder
<1>4. QED
  BY <1>1, <1>2, <1>3, ZenonT(30) DEF OlderIsAnOrder

(* Either every finished answer is among the oldest or enough are. *)
LEMMA EnoughAreOldest ==
    ASSUME NEW rs \in Table, IsFiniteSet(Has(rs)), OlderIsAnOrder, Oldest(rs) # Finished(rs)
    PROVE  Cardinality(Has(rs)) < MaxEntries + Cardinality(Oldest(rs))
<1> DEFINE F == Finished(rs)
           Before(s) == {t \in F : <<t, s>> \in older}
           Befores == {Before(s) : s \in F \ Oldest(rs)}
<1>1. F \in SUBSET Has(rs) /\ F \subseteq Scopes /\ Oldest(rs) \in SUBSET F
  BY ZenonT(30) DEF Finished, Has, Oldest, First
<1>2. IsFiniteSet(F) /\ IsFiniteSet(Oldest(rs))
  BY <1>1, FS_Subset
<1>3. Befores \subseteq FiniteSubsetsOf(F) /\ Befores # {}
  <2>1. \A s : Before(s) \in SUBSET F /\ IsFiniteSet(Before(s))
    BY <1>2, FS_Subset, Zenon
  <2>2. QED
    BY <1>1, <2>1, Zenon DEF FiniteSubsetsOf
<1>4. PICK s \in F \ Oldest(rs) : \A B \in Befores : <<B, Before(s)>> \notin StrictSubsetOrdering(F)
  <2> HIDE DEF Befores
  <2>1. \E B \in Befores : \A C \in Befores : <<C, B>> \notin StrictSubsetOrdering(F)
    BY <1>3, FS_StrictSubsetOrderingWellFounded, WFMin, ZenonT(30)
  <2>2. QED
    BY <2>1, Zenon DEF Befores
<1>5. Before(s) \subseteq Oldest(rs)
  <2> SUFFICES ASSUME NEW t \in F, <<t, s>> \in older, t \notin Oldest(rs)
               PROVE  FALSE
    BY Zenon
  <2>1. Before(t) \subseteq Before(s) /\ Before(t) # Before(s)
    <3>1. t \notin Before(t) /\ t \in Before(s)
      BY <1>1, ZenonT(30) DEF OlderIsAnOrder
    <3>2. Before(t) \subseteq Before(s)
      BY <1>1 DEF OlderIsAnOrder
    <3>3. QED
      BY <3>1, <3>2, ZenonT(30)
  <2>2. Before(t) \in Befores /\ <<Before(t), Before(s)>> \in StrictSubsetOrdering(F)
    BY <2>1, Zenon DEF StrictSubsetOrdering
  <2>3. QED
    BY <1>4, <2>2
<1>6. Cardinality(Before(s)) <= Cardinality(Oldest(rs))
  BY <1>2, <1>5, FS_Subset, Zenon
<1>7. ~(MaxEntries + Cardinality(Before(s)) <= Cardinality(Has(rs)))
  BY <1>4 DEF Oldest, First
<1>8. /\ Cardinality(Before(s)) \in Nat /\ Cardinality(Has(rs)) \in Nat
      /\ Cardinality(Oldest(rs)) \in Nat /\ MaxEntries \in Nat
  BY <1>2, <1>5, FS_Subset, FS_CardinalityType, KeysConstants, Zenon
<1>9. QED
  <2> HIDE DEF Before
  <2> QED BY <1>6, <1>7, <1>8

(* An empty table and idle requests satisfy the invariant. *)
LEMMA KeysStart == KeysInit => KeysInv
<1> SUFFICES ASSUME KeysInit
             PROVE  KeysInv
  OBVIOUS
<1>1. rows \in Table /\ Has(rows) = {} /\ Reservations(rows) = {} /\ Finished(rows) = {}
  BY ZenonT(30) DEF KeysInit, Table, Has, Reservations, Finished
<1>2. StrayReservations = {} /\ Cardinality({}) = 0 /\ IsFiniteSet({})
  BY <1>1, FS_EmptySet, ZenonT(30) DEF StrayReservations
<1>3. KeysTypeOK
  BY <1>1, <1>2, KeysConstants DEF KeysInit, KeysTypeOK, Table, TableIsBounded, NoRequest
<1>4. HeldKeyIsReserved /\ OneRunnerPerKey /\ ReplayIsOwn
  BY ZenonT(30) DEF KeysInit, HeldKeyIsReserved, OneRunnerPerKey, ReplayIsOwn, Holds, NoRequest
<1>5. KeptIsOwn /\ OwedIsKept /\ OlderIsAnOrder /\ ReservationIsFreed
  BY <1>1, <1>2 DEF KeysInit, KeptIsOwn, OwedIsKept, OlderIsAnOrder, ReservationIsFreed
<1>6. QED
  BY <1>1, <1>2, <1>3, <1>4, <1>5 DEF KeysInv

(* The steps that only delete rows keep what is said of the table alone. *)
LEMMA DeleteStep ==
    ASSUME KeysInv, NEW gone, Store(Without(rows, gone), {})
    PROVE  /\ rows' \in Table
           /\ Has(rows)' = Has(rows) \ gone
           /\ Reservations(rows)' = Reservations(rows) \ gone
           /\ Finished(rows)' = Finished(rows) \ gone
           /\ \A s \in Scopes \ gone : rows'[s] = rows[s]
           /\ older' \in SUBSET (Has(rows)' \X Has(rows)')
           /\ OlderIsAnOrder'
           /\ IsFiniteSet(Has(rows))'
           /\ KeptIsOwn'
<1>1. rows \in Table
  BY DEF KeysInv, KeysTypeOK, Table
<1>2. rows' = Without(rows, gone)
  BY ZenonT(30) DEF Store
<1>3. /\ rows' \in Table
      /\ Has(rows') = Has(rows) \ gone
      /\ Reservations(rows') = Reservations(rows) \ gone
      /\ Finished(rows') = Finished(rows) \ gone
      /\ \A s \in Scopes \ gone : rows'[s] = rows[s]
  BY <1>1, <1>2, Deleted, ZenonT(30)
<1>4. older' \in SUBSET (Has(rows)' \X Has(rows)') /\ OlderIsAnOrder'
  BY <1>2, <1>3, StoredOrder
<1>5. IsFiniteSet(Has(rows'))
  BY <1>3, FS_Subset, ZenonT(30) DEF KeysInv
<1>6. KeptIsOwn'
  BY <1>3, ZenonT(30) DEF KeysInv, KeptIsOwn, Finished, Has, OwnReply
<1>7. QED
  BY <1>3, <1>4, <1>5, <1>6

(* A table that does not grow stays bounded. *)
LEMMA StillBounded ==
    ASSUME KeysInv, Has(rows)' \in SUBSET Has(rows), faults' \in Nat, faults <= faults'
    PROVE  TableIsBounded'
<1>1. Cardinality(Has(rows)') <= Cardinality(Has(rows)) /\ Cardinality(Has(rows)') \in Nat
  BY FS_Subset, FS_CardinalityType, ZenonT(30) DEF KeysInv
<1>2. Cardinality(Has(rows)) \in Nat /\ Cardinality(Writers) \in Nat /\ MaxEntries \in Nat /\ faults \in Nat
  BY FS_CardinalityType, KeysConstants DEF KeysInv, KeysTypeOK
<1>3. TableIsBounded
  BY DEF KeysInv, KeysTypeOK
<1>4. QED
  BY <1>1, <1>2, <1>3 DEF TableIsBounded

(* A step that leaves no reservation behind. *)
LEMMA StillFreed ==
    ASSUME KeysInv, StrayReservations' \in SUBSET StrayReservations, faults' \in Nat, faults <= faults'
    PROVE  ReservationIsFreed'
<1>1. IsFiniteSet(StrayReservations)
  <2>1. StrayReservations \in SUBSET Has(rows)
    BY ZenonT(30) DEF StrayReservations, Reservations
  <2>2. QED
    BY <2>1, FS_Subset, ZenonT(30) DEF KeysInv
<1>2. /\ Cardinality(StrayReservations') <= Cardinality(StrayReservations)
      /\ Cardinality(StrayReservations') \in Nat /\ Cardinality(StrayReservations) \in Nat
  BY <1>1, FS_Subset, FS_CardinalityType
<1>3. faults \in Nat
  BY FaultsAreCounted, Zenon
<1>4. QED
  BY <1>2, <1>3 DEF KeysInv, ReservationIsFreed

AnyRequest == {NoRequest} \cup Asked \cup Replayed

OwnAnswer(q) ==
    q.at = "replayed" =>
        /\ q.reply.caller = q.caller
        /\ q.reply.body = q.body
        /\ q.body \in Secrets => q.reply.says # "created"

(* A step of one request leaves the others alone, and keeps replays own when its answer is. *)
LEMMA GotoStep ==
    ASSUME KeysInv, NEW r \in Writers, NEW q \in AnyRequest, Goto(r, q)
    PROVE  /\ requests' \in [Writers -> AnyRequest]
           /\ requests'[r] = q
           /\ \A w \in Writers \ {r} : requests'[w] = requests[w]
           /\ OwnAnswer(q) => ReplayIsOwn'
<1>1. requests \in [Writers -> AnyRequest]
  BY DEF KeysInv, KeysTypeOK, AnyRequest
<1>2. /\ requests' \in [Writers -> AnyRequest]
      /\ requests'[r] = q
      /\ \A w \in Writers \ {r} : requests'[w] = requests[w]
  BY <1>1 DEF Goto
<1>3. ASSUME OwnAnswer(q), NEW w \in Writers, requests'[w].at = "replayed"
      PROVE  OwnAnswer(requests'[w])
  <2>1. CASE w = r
    BY <1>2, <1>3, <2>1, ZenonT(30)
  <2>2. CASE w # r
    BY <1>2, <1>3, <2>2, Zenon DEF OwnAnswer, KeysInv, ReplayIsOwn
  <2>3. QED
    BY <2>1, <2>2, ZenonT(30)
<1>4. QED
  BY <1>2, <1>3, ZenonT(30) DEF OwnAnswer, ReplayIsOwn

(* A request comes to or leaves the middleware without a reservation. *)
LEMMA FreeStep ==
    ASSUME KeysInv, NEW r \in Writers, NEW q \in AnyRequest, Goto(r, q),
           q.at \notin {"running", "wrote"}, OwnAnswer(q),
           NEW gone, Store(Without(rows, gone), {}),
           \A w \in Writers \ {r} : Holds(w) => Scope(requests[w]) \notin gone,
           Holds(r) => Scope(requests[r]) \in gone,
           owed' \subseteq owed \ gone,
           faults' \in 0 .. MaxFaults, faults <= faults'
    PROVE  KeysInv'
<1>1. /\ requests' \in [Writers -> AnyRequest]
      /\ requests'[r] = q
      /\ \A w \in Writers \ {r} : requests'[w] = requests[w]
      /\ ReplayIsOwn'
  BY GotoStep, Zenon
<1>2. ~Holds(r)' /\ \A w \in Writers \ {r} : Holds(w)' <=> Holds(w)
  BY <1>1, Zenon DEF Holds
<1>3. /\ rows' \in Table
      /\ Has(rows)' = Has(rows) \ gone
      /\ Reservations(rows)' = Reservations(rows) \ gone
      /\ Finished(rows)' = Finished(rows) \ gone
      /\ \A s \in Scopes \ gone : rows'[s] = rows[s]
      /\ older' \in SUBSET (Has(rows)' \X Has(rows)')
      /\ OlderIsAnOrder'
      /\ IsFiniteSet(Has(rows))'
      /\ KeptIsOwn'
  BY DeleteStep, ZenonT(30)
<1>4. faults \in Nat /\ faults' \in Nat
  BY KeysConstants DEF KeysInv, KeysTypeOK
<1>5. TableIsBounded'
  BY <1>3, <1>4, StillBounded, ZenonT(30)
<1>6. KeysTypeOK'
  BY <1>1, <1>3, <1>5 DEF KeysInv, KeysTypeOK, AnyRequest, Table
<1>7. HeldKeyIsReserved'
  <2> SUFFICES ASSUME NEW w \in Writers, Holds(w)'
               PROVE  /\ Scope(requests'[w]) \in Reservations(rows)'
                      /\ rows'[Scope(requests'[w])].body = requests'[w].body
                      /\ ~rows'[Scope(requests'[w])].old
    BY ZenonT(30) DEF HeldKeyIsReserved
  <2>1. w # r /\ Holds(w) /\ requests'[w] = requests[w]
    BY <1>1, <1>2, ZenonT(30)
  <2>2. Scope(requests[w]) \in Reservations(rows) /\ Scope(requests[w]) \notin gone
    BY <2>1, Zenon DEF KeysInv, HeldKeyIsReserved
  <2>3. rows'[Scope(requests[w])] = rows[Scope(requests[w])]
    BY <1>3, <2>2 DEF Reservations, Has
  <2>4. QED
    BY <1>3, <2>1, <2>2, <2>3, ZenonT(30) DEF KeysInv, HeldKeyIsReserved
<1>8. OneRunnerPerKey'
  BY <1>1, <1>2, ZenonT(30) DEF KeysInv, OneRunnerPerKey
<1>9. OwedIsKept'
  BY <1>3, Zenon DEF KeysInv, OwedIsKept, Finished, Has
<1>10. ReservationIsFreed'
  <2>1. StrayReservations' \subseteq StrayReservations
    <3> SUFFICES ASSUME NEW s \in StrayReservations'
                 PROVE  s \in StrayReservations
      OBVIOUS
    <3>1. s \in Reservations(rows) /\ s \notin gone
      BY <1>3, Zenon DEF StrayReservations
    <3>2. ASSUME NEW w \in Writers, Holds(w)
          PROVE  Scope(requests[w]) # s
      <4>1. CASE w = r
        BY <3>1, <3>2, <4>1
      <4>2. CASE w # r
        BY <1>1, <1>2, <3>2, <4>2, Zenon DEF StrayReservations
      <4>3. QED
        BY <4>1, <4>2, ZenonT(30)
    <3>3. QED
      BY <3>1, <3>2, Zenon DEF StrayReservations
  <2>2. QED
    BY <1>4, <2>1, StillFreed
<1>11. QED
  BY <1>1, <1>3, <1>6, <1>7, <1>8, <1>9, <1>10, ZenonT(30) DEF KeysInv

(* What expiry and eviction remove: old rows, and finished answers. *)
LEMMA Swept ==
    ASSUME KeysInv
    PROVE  LET rs == Expire(rows)
               old == {s \in Has(rows) : rows[s].old}
           IN  /\ rs = Without(rows, old)
               /\ EvictFinished(rs) = Without(rows, old \cup Oldest(rs))
               /\ \A w \in Writers : Holds(w) => Scope(requests[w]) \notin old \cup Oldest(rs)
               /\ owed \cap old = {}
<1> DEFINE old == {s \in Has(rows) : rows[s].old}
           rs == Expire(rows)
<1>1. rs = Without(rows, old) /\ rows \in Table
  BY ZenonT(30) DEF Expire, KeysInv, KeysTypeOK, Table
<1>2. EvictFinished(rs) = Without(rows, old \cup Oldest(rs))
  <2> HIDE DEF old
  <2> QED BY <1>1, DeletedTwice DEF EvictFinished
<1>3. Oldest(rs) \cap Reservations(rows) = {}
  <2>1. Oldest(rs) \subseteq Finished(rs) /\ Finished(rs) = Finished(rows) \ old
    <3> HIDE DEF old
    <3> QED BY <1>1, Deleted, ZenonT(30) DEF Oldest, First
  <2>2. QED
    BY <2>1 DEF Finished
<1>4. \A w \in Writers : Holds(w) => Scope(requests[w]) \notin old \cup Oldest(rs)
  BY <1>3 DEF KeysInv, HeldKeyIsReserved
<1>5. owed \cap old = {}
  BY ZenonT(30) DEF KeysInv, OwedIsKept
<1>6. QED
  BY <1>1, <1>2, <1>4, <1>5, ZenonT(30)

(* A request that is not in its handler, in the state it is in. *)
LEMMA AskedRequest ==
    ASSUME KeysInv, NEW r \in Writers, requests[r].at \in {"asking", "running", "wrote"}
    PROVE  requests[r] \in Asked /\ Scope(requests[r]) \in Scopes
BY DEF KeysInv, KeysTypeOK, NoRequest, Asked, Replayed, Scope, scope, Scopes

(* A step that leaves the table alone stores nothing. *)
LEMMA NothingStored ==
    ASSUME KeysInv, UNCHANGED <<rows, older>>
    PROVE  Store(Without(rows, {}), {})
<1>1. rows = Without(rows, {})
  BY ZenonT(30) DEF KeysInv, KeysTypeOK, Without
<1>2. older = older \cap (Has(rows) \X Has(rows))
  BY ZenonT(30) DEF KeysInv, KeysTypeOK
<1>3. QED
  BY <1>1, <1>2, ZenonT(30) DEF Store

(* Faults are counted up to their bound. *)
LEMMA FaultStep ==
    ASSUME KeysInv, Fault \/ UNCHANGED faults
    PROVE  faults' \in 0 .. MaxFaults /\ faults <= faults'
BY KeysConstants DEF KeysInv, KeysTypeOK, Fault

(* A finished request has no answer in hand. *)
LEMMA IdleRequest == NoRequest \in AnyRequest /\ NoRequest.at = "idle" /\ OwnAnswer(NoRequest)
BY ZenonT(30) DEF AnyRequest, NoRequest, OwnAnswer

(* A request arrives. *)
LEMMA SendKeepsKeys ==
    ASSUME KeysInv, NEW r \in Writers, Send(r)
    PROVE  KeysInv'
<1>1. PICK c \in Callers, k \in Keys, b \in Bodies :
          Goto(r, [at |-> "asking", caller |-> c, key |-> k, body |-> b, says |-> None])
  BY ZenonT(30) DEF Send
<1> DEFINE q == [at |-> "asking", caller |-> c, key |-> k, body |-> b, says |-> None]
<1>2. q \in AnyRequest /\ q.at = "asking" /\ OwnAnswer(q)
  BY ZenonT(30) DEF AnyRequest, Asked, OwnAnswer
<1>3. ~Holds(r)
  BY Zenon DEF Send, Holds
<1>4. Store(Without(rows, {}), {})
  BY NothingStored, ZenonT(30) DEF Send
<1>5. faults' \in 0 .. MaxFaults /\ faults <= faults' /\ owed' = owed
  BY FaultStep, Zenon DEF Send
<1>6. QED
  <2> HIDE DEF q
  <2> QED BY <1>1, <1>2, <1>3, <1>4, <1>5, FreeStep DEF q

(* try_reserve finds a row of the key and answers from it. *)
LEMMA ReserveFoundKeepsKeys ==
    ASSUME KeysInv, NEW r \in Writers, ReserveFound(r)
    PROVE  KeysInv'
<1> DEFINE q == requests[r]
           s == Scope(q)
           rs == Expire(rows)
           old == {t \in Has(rows) : rows[t].old}
<1>1. /\ q.at = "asking" /\ s \in Has(rs) /\ Store(rs, {}) /\ UNCHANGED <<owed, faults>>
      /\ Goto(r, IF Answer(rs[s], q.body) = "replay"
                 THEN [at |-> "replayed", caller |-> q.caller, body |-> q.body, reply |-> rs[s].reply]
                 ELSE NoRequest)
  BY Zenon DEF ReserveFound
<1>2. q \in Asked /\ s \in Scopes /\ s[1] = q.caller
  BY <1>1, AskedRequest, ZenonT(30) DEF Scope, scope
<1>3. Store(Without(rows, old), {}) /\ owed' \subseteq owed \ old
  BY <1>1, Swept, Zenon
<1>4. rs = Without(rows, old) /\ rows \in Table
  BY Swept, ZenonT(30) DEF KeysInv, KeysTypeOK, Table
<1>5. s \in Has(rows) /\ rs[s] = rows[s] /\ rows[s] \in Row
  <2>1. s \in Has(rows) /\ rs[s] = rows[s]
    <3> HIDE DEF old, rs, s, q
    <3>1. Has(rs) = Has(rows) \ old /\ \A t \in Scopes \ old : rs[t] = rows[t]
      BY <1>4, Deleted, Zenon
    <3>2. s \in Has(rs)
      BY <1>1, Zenon
    <3> QED BY <1>2, <3>1, <3>2, Zenon
  <2>2. QED
    BY <2>1, <1>4 DEF Has, Table
<1>6. \A w \in Writers : Holds(w) => Scope(requests[w]) \notin old
  BY Swept
<1>7. ~Holds(r)
  BY <1>1, Zenon DEF Holds
<1>8. faults' \in 0 .. MaxFaults /\ faults <= faults'
  BY <1>1, FaultStep, Zenon
<1>9. CASE Answer(rs[s], q.body) = "replay"
  <2> DEFINE a == [at |-> "replayed", caller |-> q.caller, body |-> q.body, reply |-> rows[s].reply]
  <2>1. rows[s].body = q.body /\ rows[s].reply # None
    BY <1>5, <1>9, ZenonT(30) DEF Answer, IsInFlight
  <2>2. s \in Finished(rows) /\ rows[s].reply \in Reply
    BY <1>5, <2>1, Zenon DEF Finished, Reservations, IsInFlight, Row
  <2>3. OwnReply(s, rows[s])
    BY <2>2 DEF KeysInv, KeptIsOwn
  <2>4. a \in AnyRequest /\ a.at = "replayed" /\ OwnAnswer(a)
    BY <1>2, <2>1, <2>2, <2>3, ZenonT(30) DEF AnyRequest, Replayed, Asked, OwnAnswer, OwnReply
  <2>5. Goto(r, a)
    BY <1>1, <1>5, <1>9, Zenon
  <2>6. QED
    <3> HIDE DEF a, old
    <3> QED BY <1>3, <1>6, <1>7, <1>8, <2>4, <2>5, FreeStep
<1>10. CASE Answer(rs[s], q.body) # "replay"
  <2>1. Goto(r, NoRequest)
    BY <1>1, <1>10, ZenonT(30)
  <2>2. QED
    <3> HIDE DEF old
    <3> QED BY <1>3, <1>6, <1>7, <1>8, <2>1, IdleRequest, FreeStep
<1>11. QED
  BY <1>9, <1>10

(* The store cannot be asked: the request is refused. *)
LEMMA ReserveFailsKeepsKeys ==
    ASSUME KeysInv, NEW r \in Writers, ReserveFails(r)
    PROVE  KeysInv'
<1> DEFINE rs == Expire(rows)
           old == {t \in Has(rows) : rows[t].old}
<1>1. requests[r].at = "asking" /\ Fault /\ Goto(r, NoRequest) /\ ~Holds(r)
  BY Zenon DEF ReserveFails, Holds
<1>2. faults' \in 0 .. MaxFaults /\ faults <= faults'
  BY <1>1, FaultStep, ZenonT(30)
<1>3. /\ rs = Without(rows, old)
      /\ EvictFinished(rs) = Without(rows, old \cup Oldest(rs))
      /\ \A w \in Writers : Holds(w) => Scope(requests[w]) \notin old \cup Oldest(rs)
      /\ owed \cap old = {}
  BY Swept
<1>4. \E gone : /\ Store(Without(rows, gone), {})
                /\ owed' \subseteq owed \ gone
                /\ \A w \in Writers : Holds(w) => Scope(requests[w]) \notin gone
  <2>1. CASE UNCHANGED <<rows, older, owed>>
    BY <2>1, NothingStored
  <2>2. CASE Store(rs, {}) /\ UNCHANGED owed
    BY <1>3, <2>2, ZenonT(30)
  <2>3. CASE Store(EvictFinished(rs), {}) /\ Evict(Oldest(rs))
    BY <1>3, <2>3, ZenonT(30) DEF Evict
  <2>4. QED
    BY <2>1, <2>2, <2>3, Zenon DEF ReserveFails
<1>5. QED
  BY <1>1, <1>2, <1>4, IdleRequest, FreeStep, ZenonT(30)

(* The reservation of a request that gives up is released. *)
LEMMA DropKeepsKeys ==
    ASSUME KeysInv, NEW r \in Writers, Drop(r)
    PROVE  KeysInv'
<1> DEFINE s == Scope(requests[r])
           gone == Reservations(rows) \cap {s}
<1>1. Holds(r) /\ Store(Without(rows, gone), {}) /\ Goto(r, NoRequest) /\ UNCHANGED <<owed, faults>>
  BY Zenon DEF Drop, Holds, release
<1>2. \A w \in Writers \ {r} : Holds(w) => Scope(requests[w]) \notin gone
  BY <1>1 DEF KeysInv, OneRunnerPerKey
<1>3. s \in gone
  BY <1>1, ZenonT(30) DEF KeysInv, HeldKeyIsReserved
<1>4. owed' \subseteq owed \ gone
  BY <1>1, Zenon DEF KeysInv, OwedIsKept, Finished
<1>5. faults' \in 0 .. MaxFaults /\ faults <= faults'
  BY <1>1, FaultStep, ZenonT(30)
<1>6. QED
  <2> HIDE DEF gone
  <2> QED BY <1>1, <1>2, <1>3, <1>4, <1>5, IdleRequest, FreeStep

(* A reservation is of a request in its handler, or was left behind. *)
LEMMA FewReservations ==
    ASSUME KeysInv, NEW r \in Writers, ~Holds(r)
    PROVE  /\ IsFiniteSet(Reservations(rows))
           /\ Cardinality(Reservations(rows)) < Cardinality(Writers) + faults
<1> DEFINE H == {w \in Writers : Holds(w)}
           T == {Scope(requests[w]) : w \in H}
           f == [w \in H |-> Scope(requests[w])]
<1>1. /\ IsFiniteSet(Writers \ {r}) /\ Cardinality(Writers \ {r}) = Cardinality(Writers) - 1
      /\ Cardinality(Writers) \in Nat
  BY FS_RemoveElement, FS_CardinalityType, KeysConstants, ZenonT(30)
<1>2. /\ IsFiniteSet(H) /\ Cardinality(H) <= Cardinality(Writers) - 1 /\ Cardinality(H) \in Nat
  <2>1. H \in SUBSET (Writers \ {r})
    BY Zenon
  <2>2. QED
    BY <1>1, <2>1, FS_Subset, FS_CardinalityType
<1>3. IsFiniteSet(T) /\ Cardinality(T) <= Cardinality(H) /\ Cardinality(T) \in Nat
  <2>1. f \in Surjection(H, T)
    BY ZenonT(30) DEF Surjection
  <2> HIDE DEF f, H, T
  <2>2. QED
    BY <1>2, <2>1, FS_Surjection, FS_CardinalityType, ZenonT(30)
<1>4. IsFiniteSet(StrayReservations) /\ Cardinality(StrayReservations) \in Nat
  <2>1. StrayReservations \in SUBSET Has(rows)
    BY ZenonT(30) DEF StrayReservations, Reservations
  <2>2. QED
    BY <2>1, FS_Subset, FS_CardinalityType DEF KeysInv
<1>5. IsFiniteSet(StrayReservations \cup T)
      /\ Cardinality(StrayReservations \cup T) <= Cardinality(StrayReservations) + Cardinality(T)
      /\ Cardinality(StrayReservations \cup T) \in Nat
  <2> HIDE DEF T
  <2>1. IsFiniteSet(StrayReservations \cap T) /\ Cardinality(StrayReservations \cap T) \in Nat
    BY <1>3, FS_Intersection, FS_CardinalityType, Zenon
  <2>2. /\ IsFiniteSet(StrayReservations \cup T)
        /\ Cardinality(StrayReservations \cup T)
              = Cardinality(StrayReservations) + Cardinality(T) - Cardinality(StrayReservations \cap T)
    BY <1>3, <1>4, FS_Union, ZenonT(30)
  <2>3. Cardinality(StrayReservations \cup T) \in Nat
    BY <2>2, FS_CardinalityType, ZenonT(30)
  <2>4. QED
    BY <1>3, <1>4, <2>1, <2>2, <2>3
<1>6. Reservations(rows) \in SUBSET (StrayReservations \cup T)
  BY ZenonT(30) DEF StrayReservations
<1>7. /\ IsFiniteSet(Reservations(rows)) /\ Cardinality(Reservations(rows)) \in Nat
      /\ Cardinality(Reservations(rows)) <= Cardinality(StrayReservations \cup T)
  <2> HIDE DEF T
  <2> QED BY <1>5, <1>6, FS_Subset, FS_CardinalityType
<1>8. faults \in Nat /\ Cardinality(StrayReservations) <= faults
  BY FaultsAreCounted, Zenon DEF KeysInv, ReservationIsFreed
<1>9. QED
  <2> HIDE DEF T, H
  <2> QED BY <1>1, <1>2, <1>3, <1>4, <1>5, <1>7, <1>8

(* The room that eviction makes: there is place for one more row. *)
LEMMA RoomForOne ==
    ASSUME KeysInv, NEW r \in Writers, ~Holds(r), NEW s
    PROVE  LET left == (Has(Expire(rows)) \ Oldest(Expire(rows))) \cup {s}
           IN  /\ IsFiniteSet(left)
               /\ \/ Cardinality(left) <= MaxEntries
                  \/ Cardinality(left) <= Cardinality(Writers) + faults
<1> DEFINE rs == Expire(rows)
           old == {t \in Has(rows) : rows[t].old}
           rest == Has(rs) \ Oldest(rs)
<1>1. /\ rs \in Table
      /\ Has(rs) \in SUBSET Has(rows)
      /\ Reservations(rs) \in SUBSET Reservations(rows)
  <2>1. rs = Without(rows, old) /\ rows \in Table
    BY Swept, ZenonT(30) DEF KeysInv, KeysTypeOK, Table
  <2> HIDE DEF old, rs
  <2>2. QED
    BY <2>1, Deleted
<1>2. Oldest(rs) \in SUBSET Finished(rs) /\ Finished(rs) \in SUBSET Has(rs)
  BY ZenonT(30) DEF Oldest, First, Finished
<1> HIDE DEF rs
<1>3. IsFiniteSet(Has(rs)) /\ IsFiniteSet(rest)
  BY <1>1, FS_Subset, ZenonT(30) DEF KeysInv
<1>4. /\ Cardinality(rest) \in Nat /\ Cardinality(Has(rs)) \in Nat /\ Cardinality(Oldest(rs)) \in Nat
      /\ Cardinality(Writers) \in Nat /\ MaxEntries \in Nat /\ faults \in Nat
  <2>1. IsFiniteSet(Oldest(rs))
    BY <1>2, <1>3, FS_Subset, ZenonT(30)
  <2>2. QED
    BY <1>3, <2>1, FS_CardinalityType, KeysConstants DEF KeysInv, KeysTypeOK
<1>5. IsFiniteSet(rest \cup {s}) /\ Cardinality(rest \cup {s}) <= Cardinality(rest) + 1
      /\ Cardinality(rest \cup {s}) \in Nat
  <2> HIDE DEF rest
  <2>1. /\ IsFiniteSet(rest \cup {s})
        /\ Cardinality(rest \cup {s}) = IF s \in rest THEN Cardinality(rest) ELSE Cardinality(rest) + 1
    BY <1>3, FS_AddElement
  <2>2. Cardinality(rest \cup {s}) \in Nat
    BY <2>1, FS_CardinalityType, ZenonT(30)
  <2>3. QED
    BY <1>4, <2>1, <2>2
<1>6. CASE Oldest(rs) # Finished(rs)
  <2>1. Cardinality(Has(rs)) < MaxEntries + Cardinality(Oldest(rs))
    BY <1>1, <1>3, <1>6, EnoughAreOldest DEF KeysInv
  <2>2. Cardinality(rest) = Cardinality(Has(rs)) - Cardinality(Oldest(rs))
    <3>1. Has(rs) \cap Oldest(rs) = Oldest(rs)
      BY <1>2, ZenonT(30)
    <3>2. QED
      BY <1>3, <3>1, FS_Difference, Zenon
  <2>3. Cardinality(rest \cup {s}) <= MaxEntries
    <3> HIDE DEF rest
    <3> QED BY <1>4, <1>5, <2>1, <2>2
  <2>4. QED
    BY <1>5, <2>3, ZenonT(30) DEF rs
<1>7. CASE Oldest(rs) = Finished(rs)
  <2>1. rest \in SUBSET Reservations(rows)
    BY <1>1, <1>7, ZenonT(30) DEF Finished
  <2>2. /\ IsFiniteSet(Reservations(rows))
        /\ Cardinality(Reservations(rows)) < Cardinality(Writers) + faults
    BY FewReservations
  <2>3. Cardinality(rest) <= Cardinality(Reservations(rows)) /\ Cardinality(Reservations(rows)) \in Nat
    BY <2>1, <2>2, FS_Subset, FS_CardinalityType, ZenonT(30)
  <2>4. Cardinality(rest \cup {s}) <= Cardinality(Writers) + faults
    <3> HIDE DEF rest
    <3> QED BY <1>4, <1>5, <2>2, <2>3
  <2>5. QED
    BY <1>5, <2>4, ZenonT(30) DEF rs
<1>8. QED
  BY <1>6, <1>7, ZenonT(30)

(* try_reserve makes room and inserts a reservation. *)
LEMMA ReserveNewKeepsKeys ==
    ASSUME KeysInv, NEW r \in Writers, ReserveNew(r)
    PROVE  KeysInv'
<1> DEFINE q == requests[r]
           s == Scope(q)
           rs == Expire(rows)
           old == {t \in Has(rows) : rows[t].old}
           gone == old \cup Oldest(rs)
           kept == Without(rows, gone)
           new == [body |-> q.body, reply |-> None, old |-> FALSE]
<1>1. /\ q.at = "asking" /\ s \notin Has(rs) /\ Evict(Oldest(rs)) /\ UNCHANGED faults
      /\ Store(Insert(EvictFinished(rs), s, q.body), {s})
      /\ Goto(r, [q EXCEPT !.at = "running"])
  BY DEF ReserveNew
<1>2. q \in Asked /\ s \in Scopes /\ ~Holds(r)
  BY <1>1, AskedRequest, ZenonT(30) DEF Holds
<1>3. /\ rs = Without(rows, old) /\ EvictFinished(rs) = kept
      /\ \A w \in Writers : Holds(w) => Scope(requests[w]) \notin gone
      /\ owed \cap old = {} /\ rows \in Table
  BY Swept, ZenonT(30) DEF KeysInv, KeysTypeOK, Table
<1>4. /\ kept \in Table
      /\ Has(kept) = Has(rows) \ gone
      /\ Reservations(kept) = Reservations(rows) \ gone
      /\ Finished(kept) = Finished(rows) \ gone
      /\ \A t \in Scopes \ gone : kept[t] = rows[t]
  <2> HIDE DEF gone
  <2> QED BY <1>3, Deleted, ZenonT(30)
<1>5. Has(rs) = Has(rows) \ old
  <2> HIDE DEF old
  <2> QED BY <1>3, Deleted
<1>6. s \notin Has(kept) /\ Has(kept) = Has(rs) \ Oldest(rs)
  BY <1>1, <1>4, <1>5
<1>7. new \in Row /\ rows' = [kept EXCEPT ![s] = new]
  BY <1>1, <1>2, <1>3, Zenon DEF Store, Insert, Row, Asked
<1> HIDE DEF kept, gone, old, rs
<1>8. /\ rows' \in Table /\ rows'[s] = new
      /\ \A t \in Scopes \ {s} : rows'[t] = kept[t]
  BY <1>2, <1>4, <1>7, ZenonT(30) DEF Table
<1>9. /\ Has(rows)' = Has(kept) \cup {s}
      /\ Reservations(rows)' = Reservations(kept) \cup {s}
      /\ Finished(rows)' = Finished(kept)
  <2>1. new # None /\ IsInFlight(new)
    BY <1>7, KeysConstants, ZenonT(30) DEF IsInFlight
  <2>2. Has(rows)' = Has(kept) \cup {s}
    BY <1>2, <1>8, <2>1, ZenonT(30) DEF Has
  <2>3. Reservations(rows)' = Reservations(kept) \cup {s}
    BY <1>2, <1>6, <1>8, <2>1, <2>2 DEF Reservations, Has
  <2>4. QED
    BY <1>6, <2>2, <2>3 DEF Finished
<1>10. older' \in SUBSET (Has(rows)' \X Has(rows)') /\ OlderIsAnOrder'
  <2>1. Store(rows', {s}) /\ {s} \subseteq Has(rows') /\ Has(rows') \ {s} \subseteq Has(rows)
    BY <1>1, <1>3, <1>4, <1>9 DEF Store
  <2>2. QED
    BY <1>2, <1>8, <2>1, StoredOrder, Zenon
<1>11. IsFiniteSet(Has(rows))' /\ TableIsBounded'
  BY <1>1, <1>2, <1>6, <1>9, RoomForOne, ZenonT(30) DEF TableIsBounded, rs
<1> DEFINE p == [q EXCEPT !.at = "running"]
<1>12. p \in AnyRequest /\ p.at = "running" /\ Scope(p) = s /\ p.body = q.body /\ OwnAnswer(p)
  BY <1>2 DEF AnyRequest, Asked, Scope, OwnAnswer
<1>13. /\ requests' \in [Writers -> AnyRequest]
       /\ requests'[r] = p
       /\ \A w \in Writers \ {r} : requests'[w] = requests[w]
       /\ ReplayIsOwn'
  <2> HIDE DEF p
  <2> QED BY <1>1, <1>12, GotoStep DEF p
<1> HIDE DEF p
<1>14. /\ Holds(r)' /\ Scope(requests'[r]) = s
       /\ \A w \in Writers \ {r} : Holds(w)' <=> Holds(w)
  BY <1>12, <1>13, Zenon DEF Holds
<1>15. ASSUME NEW w \in Writers \ {r}, Holds(w)
       PROVE  /\ Scope(requests[w]) \in Reservations(kept) /\ Scope(requests[w]) # s
              /\ rows'[Scope(requests[w])] = rows[Scope(requests[w])]
  <2>1. Scope(requests[w]) \in Reservations(rows) /\ Scope(requests[w]) \notin gone
    BY <1>3, <1>15, Zenon DEF KeysInv, HeldKeyIsReserved
  <2>2. QED
    BY <1>4, <1>6, <1>8, <2>1, ZenonT(30) DEF Reservations, Has
<1>16. KeysTypeOK'
  BY <1>1, <1>8, <1>10, <1>11, <1>13 DEF KeysInv, KeysTypeOK, AnyRequest, Table, Evict
<1>17. HeldKeyIsReserved'
  <2> SUFFICES ASSUME NEW w \in Writers, Holds(w)'
               PROVE  /\ Scope(requests'[w]) \in Reservations(rows)'
                      /\ rows'[Scope(requests'[w])].body = requests'[w].body
                      /\ ~rows'[Scope(requests'[w])].old
    BY DEF HeldKeyIsReserved
  <2>1. CASE w = r
    <3>1. new.body = q.body /\ ~new.old
      OBVIOUS
    <3> HIDE DEF new, s, q
    <3>2. s \in Reservations(rows)' /\ rows'[s] = new
      BY <1>8, <1>9, Zenon
    <3>3. requests'[r].body = q.body
      BY <1>12, <1>13, Zenon
    <3> QED BY <1>14, <2>1, <3>1, <3>2, <3>3, Zenon
  <2>2. CASE w # r
    BY <1>9, <1>13, <1>14, <1>15, <2>2, ZenonT(30) DEF KeysInv, HeldKeyIsReserved
  <2>3. QED
    BY <2>1, <2>2, ZenonT(30)
<1>18. OneRunnerPerKey'
  BY <1>13, <1>14, <1>15, ZenonT(30) DEF KeysInv, OneRunnerPerKey
<1>19. KeptIsOwn' /\ OwedIsKept'
  <2>1. \A t \in Finished(rows)' : t \in Finished(rows) /\ t \notin gone /\ rows'[t] = rows[t]
    BY <1>4, <1>6, <1>8, <1>9, Zenon DEF Finished, Has
  <2>2. owed' \subseteq owed \ gone
    BY <1>1, <1>3, ZenonT(30) DEF Evict, gone
  <2>3. \A t \in owed' : t \in Finished(rows)'
    BY <1>4, <1>9, <2>2 DEF KeysInv, OwedIsKept
  <2>4. QED
    BY <2>1, <2>2, <2>3, ZenonT(30) DEF KeysInv, KeptIsOwn, OwedIsKept, OwnReply
<1>20. ReservationIsFreed'
  <2>1. StrayReservations' \subseteq StrayReservations
    <3> SUFFICES ASSUME NEW t \in StrayReservations'
                 PROVE  t \in StrayReservations
      OBVIOUS
    <3>1. t \in Reservations(rows)
      BY <1>4, <1>9, <1>14, Zenon DEF StrayReservations
    <3>2. \A w \in Writers : ~(Holds(w) /\ Scope(requests[w]) = t)
      BY <1>2, <1>13, <1>14, ZenonT(30) DEF StrayReservations
    <3>3. QED
      BY <3>1, <3>2, Zenon DEF StrayReservations
  <2>2. QED
    BY <1>1, <2>1, KeysConstants, StillFreed DEF KeysInv, KeysTypeOK
<1>21. QED
  BY <1>10, <1>11, <1>13, <1>16, <1>17, <1>18, <1>19, <1>20 DEF KeysInv

(* The handler answers. *)
LEMMA RunKeepsKeys ==
    ASSUME KeysInv, NEW r \in Writers, Run(r)
    PROVE  KeysInv'
<1>1. PICK o \in Outcomes : Goto(r, [requests[r] EXCEPT !.at = "wrote", !.says = o])
  BY Zenon DEF Run
<1> DEFINE q == requests[r]
           p == [q EXCEPT !.at = "wrote", !.says = o]
<1>2. q \in Asked /\ Holds(r) /\ UNCHANGED <<rows, older, owed, faults>>
  BY AskedRequest DEF Run, Holds
<1>3. p \in AnyRequest /\ p.at = "wrote" /\ Scope(p) = Scope(q) /\ p.body = q.body /\ OwnAnswer(p)
  BY <1>2, Zenon DEF AnyRequest, Asked, Scope, OwnAnswer
<1>4. /\ requests' \in [Writers -> AnyRequest]
      /\ requests'[r] = p
      /\ \A w \in Writers \ {r} : requests'[w] = requests[w]
      /\ ReplayIsOwn'
  <2> HIDE DEF p
  <2> QED BY <1>1, <1>3, GotoStep DEF p
<1> HIDE DEF p
<1>5. \A w \in Writers : /\ Holds(w)' <=> Holds(w)
                         /\ Holds(w) => /\ Scope(requests'[w]) = Scope(requests[w])
                                        /\ requests'[w].body = requests[w].body
  BY <1>2, <1>3, <1>4, Zenon DEF Holds
<1>6. KeysTypeOK' /\ KeptIsOwn' /\ OwedIsKept' /\ OlderIsAnOrder' /\ IsFiniteSet(Has(rows))'
  <2>1. Has(rows)' = Has(rows) /\ Finished(rows)' = Finished(rows)
    BY <1>2, ZenonT(30)
  <2>2. KeysTypeOK'
    BY <1>2, <1>4, <2>1 DEF KeysInv, KeysTypeOK, AnyRequest, TableIsBounded
  <2>3. KeptIsOwn' /\ OwedIsKept'
    BY <1>2, <2>1, ZenonT(30) DEF KeysInv, KeptIsOwn, OwedIsKept, OwnReply
  <2>4. QED
    BY <1>2, <2>1, <2>2, <2>3 DEF KeysInv, OlderIsAnOrder
<1>7. HeldKeyIsReserved' /\ OneRunnerPerKey'
  BY <1>2, <1>5, Zenon DEF KeysInv, HeldKeyIsReserved, OneRunnerPerKey, Reservations, Has
<1>8. ReservationIsFreed'
  <2>1. StrayReservations' = StrayReservations
    BY <1>2, <1>5, Zenon DEF StrayReservations, Reservations, Has
  <2>2. QED
    BY <1>2, <2>1 DEF KeysInv, ReservationIsFreed
<1>9. QED
  BY <1>4, <1>6, <1>7, <1>8 DEF KeysInv

(* The reply that is kept is of the request, and holds no secret. *)
LEMMA KeptReplyIsOwn ==
    ASSUME NEW q \in Asked
    PROVE  /\ KeptReply(q) \in Reply
           /\ KeptReply(q).caller = q.caller /\ KeptReply(q).body = q.body
           /\ q.body \in Secrets => KeptReply(q).says # "created"
BY ZenonT(30) DEF KeptReply, Reply, Asked

(* keep stores the answer, or its reservation is released. *)
LEMMA KeepReplyKeepsKeys ==
    ASSUME KeysInv, NEW r \in Writers, KeepReply(r)
    PROVE  KeysInv'
<1> DEFINE q == requests[r]
           s == Scope(q)
           row == [rows[s] EXCEPT !.reply = KeptReply(q), !.old = FALSE]
<1>1. /\ q.at = "wrote" /\ Goto(r, NoRequest) /\ owed' = owed \cup {s} /\ UNCHANGED faults
      /\ Store(release(Keep(rows, s, KeptReply(q)), s), Reservations(rows) \cap {s})
  BY ZenonT(30) DEF KeepReply
<1>2. Holds(r) /\ q \in Asked /\ s \in Scopes /\ s[1] = q.caller
  BY <1>1, AskedRequest, ZenonT(30) DEF Holds, Scope, scope
<1>3. s \in Reservations(rows) /\ rows[s].body = q.body /\ rows \in Table
  BY <1>2, ZenonT(30) DEF KeysInv, HeldKeyIsReserved, KeysTypeOK, Table
<1>4. s \in Has(rows) /\ rows[s] \in Row
  BY <1>2, <1>3, ZenonT(30) DEF Reservations, Has, Table
<1>5. KeptReply(q) \in Reply /\ KeptReply(q) # None
  BY <1>2, KeptReplyIsOwn, KeysConstants, Zenon
<1>6. /\ row \in Row /\ row.reply = KeptReply(q) /\ ~row.old /\ row.body = q.body
      /\ row # None /\ ~IsInFlight(row)
  <2>1. row \in Row /\ row.reply = KeptReply(q) /\ ~row.old /\ row.body = q.body
    BY <1>3, <1>4, <1>5, Zenon DEF Row
  <2>2. QED
    BY <1>5, <2>1, KeysConstants DEF IsInFlight
<1> DEFINE rs == Keep(rows, s, KeptReply(q))
<1>7. rs = [rows EXCEPT ![s] = row]
  BY <1>3, <1>4, Zenon DEF Keep
<1> HIDE DEF row
<1>8. /\ rs \in Table /\ rs[s] = row /\ \A t \in Scopes \ {s} : rs[t] = rows[t]
  BY <1>2, <1>3, <1>6, <1>7, ZenonT(30) DEF Table
<1> HIDE DEF rs
<1>9. /\ Has(rs) = Has(rows)
      /\ Reservations(rs) = Reservations(rows) \ {s}
      /\ Finished(rs) = Finished(rows) \cup {s}
  <2>1. Has(rs) = Has(rows)
    BY <1>2, <1>4, <1>6, <1>8, ZenonT(30) DEF Has
  <2>2. Reservations(rs) = Reservations(rows) \ {s}
    BY <1>2, <1>6, <1>8, <2>1, Zenon DEF Reservations, Has
  <2>3. QED
    BY <1>4, <2>1, <2>2, Zenon DEF Finished
<1>10. release(rs, s) = rs
  BY <1>8, <1>9 DEF release, Without, Table
<1>11. rows' = rs /\ Store(rs, {s})
  <2>1. Reservations(rows) \cap {s} = {s}
    BY <1>3
  <2>2. QED
    BY <1>1, <1>10, <2>1, ZenonT(30) DEF Store, rs
<1>12. older' \in SUBSET (Has(rows)' \X Has(rows)') /\ OlderIsAnOrder'
  BY <1>2, <1>4, <1>8, <1>9, <1>11, StoredOrder, ZenonT(30)
<1>13. /\ requests' \in [Writers -> AnyRequest]
       /\ requests'[r] = NoRequest
       /\ \A w \in Writers \ {r} : requests'[w] = requests[w]
       /\ ReplayIsOwn'
  BY <1>1, IdleRequest, GotoStep, ZenonT(30)
<1>14. ~Holds(r)' /\ \A w \in Writers \ {r} : Holds(w)' <=> Holds(w)
  BY <1>13, IdleRequest, ZenonT(30) DEF Holds
<1>15. \A w \in Writers \ {r} : Holds(w) => Scope(requests[w]) # s
  BY <1>2, ZenonT(30) DEF KeysInv, OneRunnerPerKey
<1>16. faults \in Nat /\ faults' = faults
  BY <1>1, KeysConstants DEF KeysInv, KeysTypeOK
<1>17. KeysTypeOK' /\ IsFiniteSet(Has(rows))'
  <2>1. TableIsBounded'
    BY <1>9, <1>11, <1>16, StillBounded
  <2>2. QED
    BY <1>1, <1>2, <1>8, <1>9, <1>11, <1>12, <1>13, <2>1, ZenonT(30) DEF KeysInv, KeysTypeOK, AnyRequest, Table
<1>18. HeldKeyIsReserved' /\ OneRunnerPerKey'
  <2>1. ASSUME NEW w \in Writers, Holds(w)'
        PROVE  /\ w # r /\ Holds(w) /\ requests'[w] = requests[w] /\ Scope(requests[w]) # s
               /\ Scope(requests[w]) \in Reservations(rows)
               /\ rows'[Scope(requests[w])] = rows[Scope(requests[w])]
    <3>1. w # r /\ Holds(w) /\ requests'[w] = requests[w] /\ Scope(requests[w]) # s
      BY <1>13, <1>14, <1>15, <2>1
    <3>2. Scope(requests[w]) \in Reservations(rows)
      BY <3>1, ZenonT(30) DEF KeysInv, HeldKeyIsReserved
    <3>3. QED
      BY <1>8, <1>11, <3>1, <3>2, Zenon DEF Reservations, Has
  <2>2. HeldKeyIsReserved'
    BY <1>9, <1>11, <2>1, Zenon DEF KeysInv, HeldKeyIsReserved
  <2>3. QED
    BY <2>1, <2>2, ZenonT(30) DEF KeysInv, OneRunnerPerKey
<1>19. KeptIsOwn' /\ OwedIsKept'
  <2>1. OwnReply(s, row)
    BY <1>2, <1>6, KeptReplyIsOwn, ZenonT(30) DEF OwnReply
  <2>2. \A t \in Finished(rows)' : t = s \/ (t \in Finished(rows) /\ rows'[t] = rows[t])
    BY <1>8, <1>9, <1>11, ZenonT(30) DEF Finished, Has
  <2>3. KeptIsOwn'
    BY <1>8, <1>11, <2>1, <2>2, ZenonT(30) DEF KeysInv, KeptIsOwn
  <2>4. OwedIsKept'
    BY <1>1, <1>6, <1>8, <1>9, <1>11, <2>2, Zenon DEF KeysInv, OwedIsKept
  <2>5. QED
    BY <2>3, <2>4
<1>20. ReservationIsFreed'
  <2>1. StrayReservations' \subseteq StrayReservations
    <3> SUFFICES ASSUME NEW t \in StrayReservations'
                 PROVE  t \in StrayReservations
      OBVIOUS
    <3>1. t \in Reservations(rows) /\ t # s
      BY <1>9, <1>11, Zenon DEF StrayReservations
    <3>2. \A w \in Writers : ~(Holds(w) /\ Scope(requests[w]) = t)
      BY <1>13, <1>14, <3>1, ZenonT(30) DEF StrayReservations
    <3>3. QED
      BY <3>1, <3>2, ZenonT(30) DEF StrayReservations
  <2>2. QED
    BY <1>16, <2>1, StillFreed
<1>21. QED
  BY <1>12, <1>13, <1>17, <1>18, <1>19, <1>20 DEF KeysInv

(* The one step that leaves a reservation behind spends a fault on it. *)
LEMMA DropFailsKeepsKeys ==
    ASSUME KeysInv, NEW r \in Writers, DropFails(r)
    PROVE  KeysInv'
<1> DEFINE s == Scope(requests[r])
<1>1. Holds(r) /\ Fault /\ Goto(r, NoRequest) /\ UNCHANGED <<rows, older, owed>>
  BY DEF DropFails, Holds
<1>2. /\ requests' \in [Writers -> AnyRequest]
      /\ requests'[r] = NoRequest
      /\ \A w \in Writers \ {r} : requests'[w] = requests[w]
      /\ ReplayIsOwn'
  BY <1>1, IdleRequest, GotoStep, ZenonT(30)
<1>3. ~Holds(r)' /\ \A w \in Writers \ {r} : Holds(w)' <=> Holds(w)
  BY <1>2, IdleRequest, ZenonT(30) DEF Holds
<1>4. faults \in Nat /\ faults' = faults + 1 /\ faults' \in 0 .. MaxFaults
  BY <1>1, KeysConstants DEF KeysInv, KeysTypeOK, Fault
<1>5. /\ Has(rows)' = Has(rows) /\ Finished(rows)' = Finished(rows)
      /\ Reservations(rows)' = Reservations(rows)
  BY <1>1, ZenonT(30)
<1>6. KeysTypeOK' /\ IsFiniteSet(Has(rows))' /\ KeptIsOwn' /\ OwedIsKept' /\ OlderIsAnOrder'
  <2>1. TableIsBounded'
    BY <1>4, <1>5, StillBounded
  <2>2. KeysTypeOK'
    BY <1>1, <1>2, <1>4, <1>5, <2>1 DEF KeysInv, KeysTypeOK, AnyRequest
  <2>3. KeptIsOwn' /\ OwedIsKept'
    BY <1>1, <1>5, ZenonT(30) DEF KeysInv, KeptIsOwn, OwedIsKept, OwnReply
  <2>4. QED
    BY <1>1, <1>5, <2>2, <2>3, ZenonT(30) DEF KeysInv, OlderIsAnOrder
<1>7. HeldKeyIsReserved' /\ OneRunnerPerKey'
  BY <1>1, <1>2, <1>3, <1>5, Zenon DEF KeysInv, HeldKeyIsReserved, OneRunnerPerKey
<1>8. ReservationIsFreed'
  <2>1. StrayReservations' \in SUBSET (StrayReservations \cup {s})
    BY <1>2, <1>3, <1>5, ZenonT(30) DEF StrayReservations
  <2>2. IsFiniteSet(StrayReservations) /\ Cardinality(StrayReservations) \in Nat
    <3>1. StrayReservations \in SUBSET Has(rows)
      BY ZenonT(30) DEF StrayReservations, Reservations
    <3>2. QED
      BY <3>1, FS_Subset, FS_CardinalityType DEF KeysInv
  <2>3. /\ IsFiniteSet(StrayReservations \cup {s})
        /\ Cardinality(StrayReservations \cup {s}) <= Cardinality(StrayReservations) + 1
        /\ Cardinality(StrayReservations \cup {s}) \in Nat
    <3>1. /\ IsFiniteSet(StrayReservations \cup {s})
          /\ Cardinality(StrayReservations \cup {s})
                = IF s \in StrayReservations THEN Cardinality(StrayReservations)
                                             ELSE Cardinality(StrayReservations) + 1
      BY <2>2, FS_AddElement, ZenonT(30)
    <3>2. QED
      BY <2>2, <3>1
  <2>4. /\ Cardinality(StrayReservations') <= Cardinality(StrayReservations \cup {s})
        /\ Cardinality(StrayReservations') \in Nat
    BY <2>1, <2>3, FS_Subset, FS_CardinalityType
  <2>5. Cardinality(StrayReservations) <= faults
    BY ZenonT(30) DEF KeysInv, ReservationIsFreed
  <2>6. Cardinality(StrayReservations') <= faults'
    BY <1>4, <2>2, <2>3, <2>4, <2>5
  <2>7. QED
    BY <2>6, ZenonT(30) DEF ReservationIsFreed
<1>9. QED
  BY <1>2, <1>6, <1>7, <1>8, ZenonT(30) DEF KeysInv

(* A row passes its retention. *)
LEMMA AgeKeepsKeys ==
    ASSUME KeysInv, Age
    PROVE  KeysInv'
<1>1. PICK s \in Has(rows) :
          /\ \A w \in Writers : ~(Holds(w) /\ Scope(requests[w]) = s)
          /\ rows' = [rows EXCEPT ![s].old = TRUE]
          /\ owed' = owed \ {s}
          /\ UNCHANGED <<older, requests, faults>>
  BY Zenon DEF Age
<1> DEFINE row == [rows[s] EXCEPT !.old = TRUE]
<1>2. rows \in Table /\ s \in Scopes /\ rows[s] \in Row
  BY DEF KeysInv, KeysTypeOK, Table, Has
<1>3. /\ row \in Row /\ row.body = rows[s].body /\ row.reply = rows[s].reply
      /\ row # None /\ (IsInFlight(row) <=> IsInFlight(rows[s]))
  <2>1. row \in Row /\ row.body = rows[s].body /\ row.reply = rows[s].reply
    BY <1>2, Zenon DEF Row
  <2>2. QED
    BY <2>1, KeysConstants, Zenon DEF IsInFlight
<1>4. rows' = [rows EXCEPT ![s] = row]
  BY <1>1, ZenonT(30)
<1> HIDE DEF row
<1>5. rows' \in Table /\ rows'[s] = row /\ \A t \in Scopes \ {s} : rows'[t] = rows[t]
  BY <1>2, <1>3, <1>4, ZenonT(30) DEF Table
<1>6. /\ Has(rows)' = Has(rows)
      /\ Reservations(rows)' = Reservations(rows)
      /\ Finished(rows)' = Finished(rows)
  <2>1. Has(rows)' = Has(rows)
    BY <1>1, <1>3, <1>5, Zenon DEF Has
  <2>2. Reservations(rows)' = Reservations(rows)
    BY <1>2, <1>3, <1>5, <2>1 DEF Reservations, Has
  <2>3. QED
    BY <2>1, <2>2 DEF Finished
<1>7. KeysTypeOK' /\ IsFiniteSet(Has(rows))' /\ OlderIsAnOrder'
  <2>1. TableIsBounded'
    BY <1>1, <1>6 DEF KeysInv, KeysTypeOK, TableIsBounded
  <2>2. QED
    BY <1>1, <1>5, <1>6, <2>1 DEF KeysInv, KeysTypeOK, Table, OlderIsAnOrder
<1>8. \A w \in Writers : Holds(w)' <=> Holds(w)
  BY <1>1 DEF Holds
<1>9. HeldKeyIsReserved' /\ OneRunnerPerKey' /\ ReplayIsOwn'
  <2>1. \A w \in Writers : Holds(w) => Scope(requests[w]) \in Scopes \ {s}
    BY <1>1 DEF KeysInv, HeldKeyIsReserved, Reservations, Has
  <2>2. HeldKeyIsReserved'
    BY <1>1, <1>5, <1>6, <1>8, <2>1 DEF KeysInv, HeldKeyIsReserved
  <2>3. QED
    BY <1>1, <1>8, <2>2 DEF KeysInv, OneRunnerPerKey, ReplayIsOwn
<1>10. KeptIsOwn' /\ OwedIsKept'
  <2>1. \A t \in Finished(rows) : t \in Scopes
    BY DEF Finished, Has
  <2>2. KeptIsOwn'
    BY <1>3, <1>5, <1>6, <2>1, ZenonT(30) DEF KeysInv, KeptIsOwn, OwnReply
  <2>3. OwedIsKept'
    BY <1>1, <1>5, <1>6, <2>1 DEF KeysInv, OwedIsKept
  <2>4. QED
    BY <2>2, <2>3
<1>11. ReservationIsFreed'
  <2>1. StrayReservations' = StrayReservations
    BY <1>1, <1>6, <1>8 DEF StrayReservations
  <2>2. QED
    BY <1>1, <2>1 DEF KeysInv, ReservationIsFreed
<1>12. QED
  BY <1>7, <1>9, <1>10, <1>11 DEF KeysInv

(* A restart ends the requests and open frees what they had reserved. *)
LEMMA RestartKeepsKeys ==
    ASSUME KeysInv, KeysRestart
    PROVE  KeysInv'
<1> DEFINE gone == Reservations(rows)
<1>1. /\ Fault /\ Store(Without(rows, gone), {}) /\ UNCHANGED owed
      /\ requests' = [w \in Writers |-> NoRequest]
  BY ZenonT(30) DEF KeysRestart, Reopened
<1>2. /\ rows' \in Table
      /\ Has(rows)' = Has(rows) \ gone
      /\ Reservations(rows)' = Reservations(rows) \ gone
      /\ Finished(rows)' = Finished(rows) \ gone
      /\ \A s \in Scopes \ gone : rows'[s] = rows[s]
      /\ older' \in SUBSET (Has(rows)' \X Has(rows)')
      /\ OlderIsAnOrder'
      /\ IsFiniteSet(Has(rows))'
      /\ KeptIsOwn'
  <2> HIDE DEF gone
  <2> QED BY <1>1, DeleteStep, ZenonT(30)
<1>3. faults \in Nat /\ faults' \in 0 .. MaxFaults /\ faults <= faults'
  BY <1>1, FaultStep, FaultsAreCounted, Zenon
<1>4. KeysTypeOK'
  <2>1. TableIsBounded'
    BY <1>2, <1>3, StillBounded
  <2>2. QED
    BY <1>1, <1>2, <1>3, <2>1, ZenonT(30) DEF KeysInv, KeysTypeOK, Table
<1>5. \A w \in Writers : requests'[w] = NoRequest /\ ~Holds(w)'
  BY <1>1, IdleRequest DEF Holds
<1>6. HeldKeyIsReserved' /\ OneRunnerPerKey' /\ ReplayIsOwn'
  BY <1>5, IdleRequest, ZenonT(30) DEF HeldKeyIsReserved, OneRunnerPerKey, ReplayIsOwn
<1>7. OwedIsKept'
  BY <1>1, <1>2, Zenon DEF KeysInv, OwedIsKept, Finished, Has
<1>8. ReservationIsFreed'
  <2>1. StrayReservations' \in SUBSET StrayReservations
    BY <1>2, Zenon DEF StrayReservations
  <2>2. QED
    BY <1>3, <2>1, StillFreed
<1>9. QED
  BY <1>2, <1>4, <1>6, <1>7, <1>8 DEF KeysInv

(* Every step keeps the invariant. *)
LEMMA KeysStep == KeysInv /\ [KeysNext]_keyVars => KeysInv'
<1> SUFFICES ASSUME KeysInv, [KeysNext]_keyVars
             PROVE  KeysInv'
  OBVIOUS
<1>1. CASE UNCHANGED keyVars
  <2>1. /\ Has(rows)' = Has(rows) /\ Reservations(rows)' = Reservations(rows)
        /\ Finished(rows)' = Finished(rows) /\ StrayReservations' = StrayReservations
        /\ \A w \in Writers : Holds(w)' <=> Holds(w)
    BY <1>1, ZenonT(30) DEF keyVars, StrayReservations, Holds
  <2>2. QED
    BY <1>1, <2>1, ZenonT(30)
       DEF keyVars, KeysInv, KeysTypeOK, TableIsBounded, HeldKeyIsReserved, OneRunnerPerKey,
           KeptIsOwn, OwnReply, ReplayIsOwn, OwedIsKept, ReservationIsFreed, OlderIsAnOrder
<1>2. QED
  BY <1>1, SendKeepsKeys, ReserveFoundKeepsKeys, ReserveNewKeepsKeys, ReserveFailsKeepsKeys,
     RunKeepsKeys, KeepReplyKeepsKeys, DropKeepsKeys, DropFailsKeepsKeys, AgeKeepsKeys,
     RestartKeepsKeys
     DEF KeysNext

(* A reservation is taken only where no answer is owed. *)
LEMMA NoOwedWriteRuns ==
    ASSUME KeysInv, [KeysNext]_keyVars, NEW r \in Writers,
           requests[r].at = "asking", requests'[r].at = "running"
    PROVE  Scope(requests[r]) \notin owed'
<1>1. requests \in [Writers -> AnyRequest]
  BY Zenon DEF KeysInv, KeysTypeOK, AnyRequest
<1>2. ASSUME NEW w \in Writers, NEW q, Goto(w, q), q.at # "running" \/ requests[w].at # "asking"
      PROVE  FALSE
  BY <1>1, <1>2 DEF Goto
<1>3. CASE ReserveNew(r)
  <2> DEFINE rs == Expire(rows)
             old == {t \in Has(rows) : rows[t].old}
  <2>1. Scope(requests[r]) \notin Has(rs) /\ owed' \subseteq owed /\ Scope(requests[r]) \in Scopes
    BY <1>3, AskedRequest, ZenonT(30) DEF ReserveNew, Evict
  <2>2. Has(rs) = Has(rows) \ old
    <3>1. rs = Without(rows, old) /\ rows \in Table
      BY Swept, Zenon DEF KeysInv, KeysTypeOK, Table
    <3> HIDE DEF old, rs
    <3>2. QED
      BY <3>1, Deleted
  <2>3. QED
    BY <2>1, <2>2, Zenon DEF KeysInv, OwedIsKept, Finished
<1>4. QED
  <2>1. ASSUME NEW w \in Writers,
               Send(w) \/ ReserveFound(w) \/ ReserveFails(w) \/ Run(w) \/ KeepReply(w) \/ Drop(w) \/ DropFails(w)
        PROVE  FALSE
    BY <1>2, <2>1, IdleRequest, Zenon DEF Send, ReserveFound, ReserveFails, Run, KeepReply, Drop, DropFails
  <2>2. ASSUME NEW w \in Writers, ReserveNew(w), w # r
        PROVE  FALSE
    BY <1>1, <2>2 DEF ReserveNew, Goto
  <2>3. ASSUME Age \/ KeysRestart \/ UNCHANGED keyVars
        PROVE  FALSE
    BY <2>3, IdleRequest DEF Age, KeysRestart, keyVars
  <2>4. QED
    BY <1>3, <2>1, <2>2, <2>3, ZenonT(30) DEF KeysNext

(* The invariant holds throughout. *)
LEMMA KeysInvariant == KeysSpec => []KeysInv
BY KeysStart, KeysStep, PTL DEF KeysSpec

(* Two requests with one caller's key are never in their handlers at once. *)
THEOREM KeyHasOneRunner == KeysSpec => []OneRunnerPerKey
<1>1. KeysInv => OneRunnerPerKey
  BY DEF KeysInv
<1>2. QED
  BY <1>1, KeysInvariant, PTL

(* A replayed answer is the caller's own and holds no secret.              *)
THEOREM ReplayIsAlwaysOwn == KeysSpec => []ReplayIsOwn
<1>1. KeysInv => ReplayIsOwn
  BY DEF KeysInv
<1>2. QED
  BY <1>1, KeysInvariant, PTL

(* Only a store write that failed leaves a reservation behind.             *)
THEOREM ReservationIsAlwaysFreed == KeysSpec => []ReservationIsFreed
<1>1. KeysInv => ReservationIsFreed
  BY DEF KeysInv
<1>2. QED
  BY <1>1, KeysInvariant, PTL

(* The table holds at most MAX_ENTRIES rows, or one for each request in    *)
(* the server and for each fault: eviction makes room for every insertion. *)
THEOREM KeysTypeCorrect == KeysSpec => []KeysTypeOK
<1>1. KeysInv => KeysTypeOK
  BY DEF KeysInv
<1>2. QED
  BY <1>1, KeysInvariant, PTL

(* A write whose answer was kept does not run again while it is owed.      *)
THEOREM KeptWriteIsNeverRepeated == KeysSpec => KeptWriteIsNotRepeated
<1>1. KeysInv /\ [KeysNext]_keyVars =>
         [\A r \in Writers :
             requests[r].at = "asking" /\ requests'[r].at = "running" =>
                Scope(requests[r]) \notin owed']_keyVars
  BY NoOwedWriteRuns, Zenon
<1>2. QED
  BY <1>1, KeysInvariant, PTL DEF KeysSpec, KeptWriteIsNotRepeated
=============================================================================
