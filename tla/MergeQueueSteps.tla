-------------------------- MODULE MergeQueueSteps ---------------------------
(***************************************************************************)
(* Every step of MergeQueue keeps the inductive invariant.                 *)
(***************************************************************************)
EXTENDS MergeQueueInvariant

-----------------------------------------------------------------------------
(* A first head, writing the entries and taking up the stack again.        *)

\* The first head of a pull request is one commit of it cut from the base.
LEMMA AuthoredHead ==
    ASSUME NEW p \in PRs PROVE Authored(p) \in Commit /\ HeadOf(Authored(p), p, <<>>)
<1> DEFINE x == [pr |-> p, ver |-> 1, stamp |-> <<p, 0>>]
<1>1. x \in Patch /\ x.pr = p /\ x.stamp = <<p, 0>>
  BY DEF Patch, Stamp
<1> HIDE DEF x
<1>2. Authored(p) = <<x>>
  BY DEF Authored, x
<1>3. <<x>> \in Seq(Patch) /\ <<x>> # <<>> /\ Len(<<x>>) = 1 /\ <<x>>[1] = x
  BY <1>1
<1> QED
  BY <1>1, <1>2, <1>3, CommitIsPatches DEF HeadOf, CutFrom

\* What contains a commit has its last patch.
LEMMA AncestorsLast ==
    ASSUME NEW a \in Seq(Patch), NEW b \in Seq(Patch), a # <<>>, IsAncestor(a, b)
    PROVE  Len(a) \in DOMAIN b /\ b[Len(a)] = a[Len(a)]
BY DEF IsAncestor

\* What a merge and a tick are at rest.
LEMMA AtRest ==
    NoMerge \in Merge /\ NoMerge.pc = "idle" /\ Resting \in Tick /\ Resting.pc = "idle"
BY DEF NoMerge, Merge, Resting, Tick

\* persist keeps the refs well formed, whether or not the write fails.
LEMMA SaveKeeps ==
    ASSUME TypeOK, StoresOK, NEW new \in Store, AllStored(new, base), NEW f, Save(new, f),
           UNCHANGED base
    PROVE  entries' = new /\ entries' \in Store /\ disk' \in Store /\ unsaved' \subseteq PRs
           /\ StoresOK'
<1>1. entries' = new
  BY DEF Save
<1>2. \A p \in PRs : disk'[p] = new[p] \/ disk'[p] = disk[p]
  BY DEF Save
<1>3. disk' \in Store
  BY DEF Save, TypeOK, Store
<1>4. unsaved' \subseteq PRs
  BY DEF Save, TypeOK
<1>5. \A p \in PRs : Stored(disk'[p], p, base)
  BY <1>2 DEF AllStored, StoresOK
<1> QED
  BY <1>1, <1>3, <1>4, <1>5 DEF AllStored, StoresOK

\* Writing one well-formed entry keeps the index well formed.
LEMMA OneEntry ==
    ASSUME TypeOK, StoresOK, NEW p \in PRs, NEW e \in Entry, Stored(e, p, base)
    PROVE  [entries EXCEPT ![p] = e] \in Store /\ AllStored([entries EXCEPT ![p] = e], base)
BY DEF TypeOK, StoresOK, Store, AllStored

(* A step that writes entries and takes up the stack of those that still   *)
(* build keeps the invariant.                                              *)
LEMMA RestackKeeps ==
    ASSUME IInv, loaded, NEW new \in Store, AllStored(new, base), NEW f \in AnyFault,
           Save(new, f), NEW S \in SUBSET PRs, \A p \in S : IsBuilding(new, p),
           NEW pc \in {"stack", "restack"}, Restack(pc, S, new, f),
           builds' \in [PRs -> Nat], UNCHANGED outsideQueue
    PROVE  IInv'
<1> USE DEF IInv
<1>0. /\ UNCHANGED <<base, head, open, approved, merged, reports, loaded, clock, enq, dm>>
      /\ base \in Commit
  BY DEF outsideQueue, pullVars, TypeOK
<1>1. entries' = new /\ entries' \in Store /\ disk' \in Store /\ unsaved' \subseteq PRs /\ StoresOK'
  BY <1>0, SaveKeeps
<1>2. /\ tick' \in Tick
      /\ tick'.pc = pc /\ tick'.members = <<>>
      /\ \A i \in DOMAIN tick'.live : tick'.live[i] \in S
      /\ tick'.tip \in {base, None}
      /\ "tip" \notin Faults => tick'.tip = base
  BY <1>0, RestackFacts, ZenonT(30)
<1>3. TypeOK'
  BY <1>0, <1>1, <1>2, ZenonT(30) DEF TypeOK, Store
<1>4. HeadsOK' /\ MergesOK'
  BY <1>0, ZenonT(30) DEF HeadsOK, MergesOK
<1>5. LiveOK'
  <2>1. ASSUME NEW i \in DOMAIN tick'.live
        PROVE  IsBuilding(entries', tick'.live[i]) /\ CutFrom(entries'[tick'.live[i]].head, base)
    <3>1. tick'.live[i] \in S /\ tick'.live[i] \in PRs
      BY <1>2
    <3>2. IsBuilding(new, tick'.live[i])
      BY <3>1
    <3> QED
      BY <1>1, <3>1, <3>2 DEF IsBuilding, AllStored, Stored, HeadOf
  <2>2. base # None
    BY <1>0, NoneIsNoCommit, ZenonT(30)
  <2> QED
    BY <1>2, <2>1, <2>2, ZenonT(30) DEF LiveOK
<1>6. MembersOK'
  BY <1>2 DEF MembersOK
<1> QED
  BY <1>0, <1>1, <1>3, <1>4, <1>5, <1>6

\* still_queued keeps or finishes an entry.
LEMMA CheckedEntry ==
    ASSUME TypeOK, StoresOK, NEW p \in Building(entries)
    PROVE  Checked(p) \in Entry /\ Stored(Checked(p), p, base)
<1>1. p \in PRs /\ entries[p] # None /\ entries[p] \in Entry /\ Stored(entries[p], p, base)
  BY ZenonT(30) DEF Building, IsBuilding, TypeOK, StoresOK
<1>2. \/ Checked(p) = entries[p]
      \/ \E st \in Ends, r \in Reason : Checked(p) = Finished(entries[p], st, r)
  BY DEF Checked, Ends, Reason
<1>3. ASSUME NEW st \in Ends, NEW r \in Reason
      PROVE  Finished(entries[p], st, r) \in Entry /\ Stored(Finished(entries[p], st, r), p, base)
  BY <1>1, FinishedEntry DEF Stored, Ends
<1> QED
  BY <1>1, <1>2, <1>3

\* The start of a tick, still_queued on every entry, keeps IInv.
LEMMA TickStartKeeps ==
    ASSUME IInv, NEW f \in AnyFault, TickStart(f) PROVE IInv'
<1> DEFINE seen == {p \in Building(entries) : f # <<"unreadable", p>>}
           new == [p \in PRs |-> IF p \in seen THEN Checked(p) ELSE entries[p]]
           S == {p \in seen : IsBuilding(new, p)}
<1>1. /\ loaded /\ Save(new, f) /\ Restack("stack", S, new, f)
      /\ UNCHANGED <<outsideQueue, builds>>
  BY DEF TickStart
<1>2. TypeOK /\ StoresOK /\ seen \subseteq Building(entries) /\ Building(entries) \subseteq PRs
  BY DEF IInv, Building
<1>3. new \in Store /\ AllStored(new, base)
  BY <1>2, CheckedEntry DEF Store, AllStored, TypeOK, StoresOK
<1>4. S \in SUBSET PRs /\ \A p \in S : IsBuilding(new, p)
  BY <1>2
<1>5. builds' \in [PRs -> Nat] /\ UNCHANGED outsideQueue
  BY <1>1, <1>2 DEF TypeOK
<1> HIDE DEF new, S
<1> QED
  BY <1>1, <1>3, <1>4, <1>5, RestackKeeps

\* Entry p is written, with the head it had.
Rewritten(p, h, f) ==
    \E d \in Entry : /\ d.head = h /\ Stored(d, p, base)
                     /\ Save([entries EXCEPT ![p] = d], f)

\* build_on: the entry is rebuilt, or dequeued.
LEMMA BuildOrDequeueFacts ==
    ASSUME TypeOK, StoresOK, NEW p \in PRs, NEW e \in Entry, HeadOf(e.head, p, base),
           NEW parent \in Commit, NEW after \in PRs \cup {None}, NEW f,
           BuildOrDequeue(e, p, parent, after, f)
    PROVE  /\ builds' \in [PRs -> Nat]
           /\ Rewritten(p, e.head, f)
<1>0. builds \in [PRs -> Nat] /\ e.head # <<>> /\ e \in Draft
  BY EntryIsDraft DEF TypeOK, HeadOf
<1>1. CASE CanBuild(p, e.head, parent, f)
  <2> DEFINE d == [Built(e, p, parent) EXCEPT !.after = after]
  <2>1. Save([entries EXCEPT ![p] = d], f)
        /\ builds' = [builds EXCEPT ![p] = NextBuild(p, e.head, parent)]
    BY <1>1 DEF BuildOrDequeue
  <2>2. /\ Built(e, p, parent) \in Entry
        /\ Built(e, p, parent).head = e.head
        /\ IsReplay(Built(e, p, parent))
    BY <1>0, BuiltEntry, Zenon
  <2>3. d \in Entry /\ d.head = e.head /\ IsReplay(d)
    BY <2>2, AfterEntry
  <2>4. Stored(d, p, base)
    BY <2>3 DEF Stored
  <2>5. builds' \in [PRs -> Nat]
    BY <1>0, <2>1, NextBuildType, Zenon
  <2> HIDE DEF d
  <2> QED
    BY <2>1, <2>3, <2>4, <2>5, Zenon DEF Rewritten
<1>2. CASE ~CanBuild(p, e.head, parent, f)
  <2> DEFINE d == Finished(e, "dequeued", "replay")
  <2>1. Save([entries EXCEPT ![p] = d], f) /\ builds' = builds
    BY <1>2 DEF BuildOrDequeue
  <2>2. d \in Entry /\ d.head = e.head /\ d.state = "dequeued"
    BY FinishedEntry DEF Ends, Reason
  <2>3. Stored(d, p, base)
    BY <2>2 DEF Stored
  <2> HIDE DEF d
  <2> QED
    BY <1>0, <2>1, <2>2, <2>3, Zenon DEF Rewritten
<1> QED
  BY <1>1, <1>2

\* A tick with another live stack is otherwise the same tick.
LEMMA TickWithLive ==
    ASSUME NEW t \in Tick, NEW live \in Seq(PRs)
    PROVE  /\ [t EXCEPT !.live = live] \in Tick
           /\ [t EXCEPT !.live = live].pc = t.pc
           /\ [t EXCEPT !.live = live].live = live
           /\ [t EXCEPT !.live = live].tip = t.tip
BY DEF Tick

\* One step of restack keeps IInv.
LEMMA RestackStepKeeps ==
    ASSUME IInv, NEW f \in AnyFault, RestackStep(f) PROVE IInv'
<1>0. /\ Restacking /\ tick.tip # None /\ TypeOK /\ StoresOK
      /\ tick.tip \in Commit /\ UNCHANGED outsideQueue
  BY DEF RestackStep, IInv, TypeOK, Tick
<1>1. PICK i \in DOMAIN tick.live :
         LET p == tick.live[i] IN
         IF entries[p].base = ParentOf(i)
         THEN /\ Save([entries EXCEPT ![p].after = AfterOf(i)], f)
              /\ UNCHANGED builds
         ELSE BuildOrDequeue(Supersede(entries[p]), p, ParentOf(i), AfterOf(i), f)
  BY ZenonT(30) DEF RestackStep
<1> DEFINE p == tick.live[i]
<1>2. /\ p \in PRs /\ entries[p] \in Entry /\ entries[p].state = "building"
      /\ HeadOf(entries[p].head, p, base) /\ IsReplay(entries[p])
  BY <1>0, LiveEntry
<1>3. ParentOf(i) \in Commit /\ AfterOf(i) \in PRs \cup {None}
  <2>1. CASE i = 1
    BY <1>0, <2>1, ZenonT(30) DEF ParentOf, AfterOf
  <2>2. CASE i # 1
    <3>1. i - 1 \in DOMAIN tick.live
      BY <1>0, <2>2 DEF TypeOK, Tick
    <3> QED
      BY <1>0, <2>2, <3>1, LiveEntry DEF ParentOf, AfterOf
  <2> QED
    BY <2>1, <2>2
<1>a. Rewritten(p, entries[p].head, f) /\ builds' \in [PRs -> Nat]
  <2>1. CASE entries[p].base = ParentOf(i)
    <3> DEFINE d == [entries[p] EXCEPT !.after = AfterOf(i)]
    <3>1. Save([entries EXCEPT ![p] = d], f) /\ builds' = builds
      BY <1>1, <2>1
    <3>2. d \in Entry /\ d.head = entries[p].head /\ IsReplay(d)
      BY <1>2, <1>3, AfterEntry, ZenonT(30)
    <3>3. Stored(d, p, base)
      BY <1>2, <3>2 DEF Stored
    <3> HIDE DEF d
    <3>4. Rewritten(p, entries[p].head, f)
      BY <3>1, <3>2, <3>3, Zenon DEF Rewritten
    <3> QED
      BY <1>0, <3>1, <3>4 DEF TypeOK
  <2>2. CASE entries[p].base # ParentOf(i)
    <3> DEFINE e == Supersede(entries[p])
    <3>1. e \in Entry /\ e.head = entries[p].head
      BY <1>2, SupersededEntry
    <3>2. BuildOrDequeue(e, p, ParentOf(i), AfterOf(i), f)
      BY <1>1, <2>2, ZenonT(30)
    <3>3. Rewritten(p, e.head, f) /\ builds' \in [PRs -> Nat]
      <4> HIDE DEF e, p
      <4>1. HeadOf(e.head, p, base)
        BY <1>2, <3>1
      <4> QED
        BY <1>0, <1>2, <1>3, <3>1, <3>2, <4>1, BuildOrDequeueFacts
    <3> QED
      BY <3>1, <3>3, ZenonT(30)
  <2> QED
    BY <2>1, <2>2
<1>4. PICK d \in Entry : /\ d.head = entries[p].head /\ Stored(d, p, base)
                         /\ Save([entries EXCEPT ![p] = d], f)
  BY <1>a DEF Rewritten
<1> DEFINE new == [entries EXCEPT ![p] = d]
<1>5. new \in Store /\ AllStored(new, base)
  BY <1>0, <1>2, <1>4, OneEntry, ZenonT(30)
<1>6. UNCHANGED <<base, head, open, approved, merged, reports, loaded, clock, enq, dm>>
  BY <1>0, ZenonT(30) DEF outsideQueue, pullVars
<1>7. entries' = new /\ entries' \in Store /\ disk' \in Store /\ unsaved' \subseteq PRs /\ StoresOK'
  BY <1>0, <1>4, <1>5, <1>6, SaveKeeps
<1>8. PICK live \in StackOrders(entries', Remaining(entries')) : tick' = [tick EXCEPT !.live = live]
  BY DEF RestackStep
<1>9. live \in Seq(PRs) /\ \A j \in DOMAIN live : live[j] \in Remaining(entries')
  BY <1>0, RemainingBuild, OrderIsSequence
<1>10. tick' \in Tick /\ tick'.pc = tick.pc /\ tick'.live = live /\ tick'.tip = tick.tip
  BY <1>0, <1>8, <1>9, TickWithLive, ZenonT(30) DEF TypeOK
<1>11. TypeOK'
  BY <1>0, <1>a, <1>6, <1>7, <1>10 DEF TypeOK, Store
<1>12. LiveOK'
  <2>1. ASSUME NEW j \in DOMAIN live
        PROVE  IsBuilding(entries', live[j]) /\ CutFrom(entries'[live[j]].head, tick.tip)
    <3>1. IsBuilding(entries', live[j]) /\ live[j] \in Range(tick.live)
      BY <1>9 DEF Remaining
    <3>2. PICK k \in DOMAIN tick.live : live[j] = tick.live[k]
      BY <3>1, ZenonT(30) DEF Range
    <3>3. CutFrom(entries[tick.live[k]].head, tick.tip) /\ tick.live[k] \in PRs
      BY <1>0, LiveEntry, ZenonT(30) DEF IInv, LiveOK, Restacking
    <3>4. entries'[live[j]].head = entries[tick.live[k]].head
      BY <1>0, <1>2, <1>4, <1>7, <3>2, <3>3, ZenonT(30) DEF TypeOK
    <3> QED
      BY <3>1, <3>3, <3>4, ZenonT(30)
  <2> QED
    BY <1>0, <1>10, <2>1, ZenonT(30) DEF LiveOK
<1>13. HeadsOK' /\ MergesOK'
  BY <1>6, ZenonT(30) DEF IInv, HeadsOK, MergesOK
<1>14. MembersOK'
  BY <1>0, <1>10 DEF MembersOK, Restacking
<1>15. loaded'
  BY <1>0, <1>6 DEF IInv, Restacking, Resting
<1> QED
  BY <1>7, <1>11, <1>12, <1>13, <1>14, <1>15 DEF IInv

\* A finished member is a well-formed record.
LEMMA FinishedStored ==
    ASSUME NEW p \in PRs, NEW e \in Entry, HeadOf(e.head, p, base), NEW st \in Ends, NEW r \in Reason
    PROVE  Finished(e, st, r) \in Entry /\ Stored(Finished(e, st, r), p, base)
BY FinishedEntry DEF Stored, Ends

\* The base only moved forward: everything read from it is still in it.
LEMMA BaseAdvances ==
    ASSUME IInv, base' \in Commit, IsAncestor(base, base'),
           UNCHANGED <<head, enq, entries, disk>>
    PROVE  HeadsOK' /\ StoresOK'
<1>1. base \in Commit
  BY DEF IInv, TypeOK
<1>2. HeadsOK'
  BY <1>1, HeadOfLater, Zenon DEF IInv, HeadsOK
<1>3. StoresOK'
  BY <1>1, StoredLater, Zenon DEF IInv, StoresOK
<1> QED
  BY <1>2, <1>3

-----------------------------------------------------------------------------
(* Requests.                                                               *)

\* ensure_loaded keeps IInv, also when a metadata ref is unreadable.
LEMMA LoadKeeps ==
    ASSUME IInv, Load PROVE IInv'
<1>1. /\ loaded' = TRUE /\ entries' = disk /\ unsaved' = {} /\ tick = Resting
      /\ UNCHANGED <<base, head, open, approved, merged, reports, disk, builds, clock, enq, tick, dm>>
  BY DEF Load, IInv, pullVars
<1>2. TypeOK'
  BY <1>1, ZenonT(30) DEF IInv, TypeOK
<1>3. HeadsOK' /\ StoresOK' /\ MergesOK'
  BY <1>1, ZenonT(30) DEF IInv, HeadsOK, StoresOK, MergesOK
<1>4. LiveOK' /\ MembersOK'
  BY <1>1 DEF LiveOK, MembersOK, Resting
<1> QED
  BY <1>1, <1>2, <1>3, <1>4 DEF IInv

\* The reads of enqueue before the mutex keep IInv.
LEMMA EnqueueReadKeeps ==
    ASSUME IInv, NEW p \in PRs, EnqueueRead(p) PROVE IInv'
<1>1. /\ enq' = [enq EXCEPT ![p] = head[p]] /\ enq \in [PRs -> Commit \cup {None}]
      /\ UNCHANGED <<base, head, open, approved, merged, reports, entries, disk, unsaved, builds,
                     loaded, clock, tick, dm>>
  BY ZenonT(30) DEF EnqueueRead, IInv, TypeOK, pullVars, queueVars
<1>2. TypeOK'
  BY <1>1 DEF IInv, TypeOK
<1>3. HeadsOK'
  BY <1>1 DEF IInv, HeadsOK
<1>4. StoresOK' /\ MergesOK'
  BY <1>1, Zenon DEF IInv, StoresOK, MergesOK
<1>5. LiveOK' /\ MembersOK'
  BY <1>1, Zenon DEF IInv, LiveOK, MembersOK
<1> QED
  BY <1>1, <1>2, <1>3, <1>4, <1>5, ZenonT(30) DEF IInv

\* A request that writes entries between ticks.
LEMMA IdleSaveKeeps ==
    ASSUME IInv, tick.pc = "idle", loaded, NEW new \in Store, AllStored(new, base), NEW f,
           Save(new, f), builds' \in [PRs -> Nat], clock' \in Nat, NEW p \in PRs,
           enq' = enq \/ enq' = [enq EXCEPT ![p] = None],
           UNCHANGED <<base, head, open, approved, merged, reports, loaded, tick, dm>>
    PROVE  IInv'
<1>1. entries' = new /\ entries' \in Store /\ disk' \in Store /\ unsaved' \subseteq PRs /\ StoresOK'
  BY SaveKeeps DEF IInv
<1>2. enq' \in [PRs -> Commit \cup {None}] /\ \A q \in PRs : enq'[q] = enq[q] \/ enq'[q] = None
  BY ZenonT(30) DEF IInv, TypeOK
<1>3. TypeOK'
  BY <1>1, <1>2 DEF IInv, TypeOK, Store
<1>4. HeadsOK' /\ MergesOK'
  BY <1>2, ZenonT(30) DEF IInv, HeadsOK, MergesOK
<1>5. LiveOK' /\ MembersOK'
  BY Zenon DEF LiveOK, MembersOK
<1> QED
  BY <1>1, <1>3, <1>4, <1>5 DEF IInv

\* The record of a refused enqueue is well formed.
LEMMA RefusedStored ==
    ASSUME NEW e \in Draft, NEW p \in PRs, base \in Commit, HeadOf(e.head, p, base)
    PROVE  RefusedEntry(e) \in Entry /\ Stored(RefusedEntry(e), p, base)
<1>1. RefusedEntry(e) = [[[e EXCEPT !.base = base] EXCEPT !.state = "dequeued"] EXCEPT !.reason = "refused"]
  BY DEF RefusedEntry
<1>2. RefusedEntry(e) \in Entry /\ RefusedEntry(e).head = e.head /\ RefusedEntry(e).state = "dequeued"
  BY <1>1, Zenon DEF Draft, Entry, Reason
<1> QED
  BY <1>2 DEF Stored

\* enqueue under the mutex keeps IInv, however stale the head it read.
LEMMA EnqueueKeeps ==
    ASSUME IInv, NEW p \in PRs, NEW f \in AnyFault, Enqueue(p, f) PROVE IInv'
<1>1. /\ enq[p] # None /\ loaded /\ tick.pc = "idle"
      /\ enq' = [enq EXCEPT ![p] = None] /\ clock' = clock + 1
      /\ UNCHANGED <<base, head, open, approved, merged, reports, loaded, tick, dm>>
  BY ZenonT(30) DEF Enqueue, EnqueueGuard, EnqueueDone, pullVars
<1>2. clock' \in Nat /\ TypeOK /\ StoresOK /\ builds \in [PRs -> Nat] /\ base \in Commit
  BY <1>1 DEF IInv, TypeOK
<1>3. CASE UNCHANGED queueVars
  <2>1. UNCHANGED <<entries, disk, unsaved, builds>>
    BY <1>3, ZenonT(30) DEF queueVars
  <2>2. Save(entries, f)
    BY <1>2, <2>1, ZenonT(30) DEF Save, TypeOK
  <2>3. entries \in Store /\ AllStored(entries, base)
    BY DEF IInv, TypeOK, Store, AllStored, StoresOK
  <2>4. builds' \in [PRs -> Nat]
    BY <1>2, <2>1
  <2> QED
    BY <1>1, <1>2, <2>2, <2>3, <2>4, IdleSaveKeeps, Zenon
<1>4. CASE ~UNCHANGED queueVars
  <2>1. PICK last \in StackTails(p) :
          LET e == [NewEntry(p) EXCEPT !.after = last]
              parent == IF last = None THEN base ELSE entries[last].sha
          IN  IF CanBuild(p, e.head, parent, f)
              THEN /\ Save([entries EXCEPT ![p] = Built(e, p, parent)], f)
                   /\ builds' = [builds EXCEPT ![p] = NextBuild(p, e.head, parent)]
              ELSE /\ Save([entries EXCEPT ![p] = RefusedEntry(e)], f)
                   /\ UNCHANGED builds
    BY <1>4, Zenon DEF Enqueue
  <2> DEFINE e == [NewEntry(p) EXCEPT !.after = last]
             parent == IF last = None THEN base ELSE entries[last].sha
  <2>2. e \in Draft /\ HeadOf(e.head, p, base) /\ parent \in Commit
    BY <1>1, EnqueuedDraft
  <2>3. \/ /\ Save([entries EXCEPT ![p] = Built(e, p, parent)], f)
           /\ builds' = [builds EXCEPT ![p] = NextBuild(p, e.head, parent)]
        \/ Save([entries EXCEPT ![p] = RefusedEntry(e)], f) /\ builds' = builds
    BY <2>1
  <2> HIDE DEF e, parent
  <2>4. PICK d \in Entry : Stored(d, p, base) /\ Save([entries EXCEPT ![p] = d], f)
                           /\ builds' \in [PRs -> Nat]
    <3>1. CASE Save([entries EXCEPT ![p] = RefusedEntry(e)], f) /\ builds' = builds
      BY <1>2, <2>2, <3>1, RefusedStored, ZenonT(30)
    <3>2. CASE /\ Save([entries EXCEPT ![p] = Built(e, p, parent)], f)
               /\ builds' = [builds EXCEPT ![p] = NextBuild(p, e.head, parent)]
      <4>1. Built(e, p, parent) \in Entry /\ Built(e, p, parent).head = e.head
            /\ IsReplay(Built(e, p, parent))
        BY <1>2, <2>2, BuiltEntry, Zenon DEF HeadOf
      <4>2. Stored(Built(e, p, parent), p, base)
        BY <2>2, <4>1 DEF Stored
      <4>3. NextBuild(p, e.head, parent) \in Nat
        BY <1>2, NextBuildType, Zenon
      <4>4. builds' \in [PRs -> Nat]
        BY <1>2, <3>2, <4>3
      <4> QED
        BY <3>2, <4>1, <4>2, <4>4
    <3> QED
      BY <2>3, <3>1, <3>2, ZenonT(30)
  <2>5. [entries EXCEPT ![p] = d] \in Store /\ AllStored([entries EXCEPT ![p] = d], base)
    BY <1>2, <2>4, OneEntry
  <2> QED
    BY <1>1, <1>2, <2>4, <2>5, IdleSaveKeeps, Zenon
<1> QED
  BY <1>3, <1>4

\* dequeue keeps IInv.
LEMMA DequeueKeeps ==
    ASSUME IInv, NEW p \in PRs, NEW f \in AnyFault, Dequeue(p, f) PROVE IInv'
<1> DEFINE d == Finished(entries[p], "dequeued", "request")
<1>1. /\ loaded /\ tick.pc = "idle" /\ IsBuilding(entries, p)
      /\ Save([entries EXCEPT ![p] = d], f)
      /\ UNCHANGED <<base, head, open, approved, merged, reports, loaded, clock, enq, tick, dm, builds>>
  BY ZenonT(30) DEF Dequeue, outsideQueue, pullVars
<1>2. TypeOK /\ StoresOK /\ clock' \in Nat /\ builds' \in [PRs -> Nat]
  BY <1>1, ZenonT(30) DEF IInv, TypeOK
<1>3. entries[p] \in Entry /\ HeadOf(entries[p].head, p, base)
  BY <1>1, <1>2 DEF TypeOK, StoresOK, Stored, IsBuilding
<1>4. d \in Entry /\ Stored(d, p, base)
  BY <1>3, FinishedStored DEF Ends, Reason
<1> HIDE DEF d
<1>5. [entries EXCEPT ![p] = d] \in Store /\ AllStored([entries EXCEPT ![p] = d], base)
  BY <1>2, <1>4, OneEntry, ZenonT(30)
<1> QED
  BY <1>1, <1>2, <1>5, IdleSaveKeeps

-----------------------------------------------------------------------------
(* The landing.                                                            *)

\* A stack whose entries are all placed is a chain from the base tip to each of them.
LEMMA StackIsChain ==
    ASSUME IInv, Restacking, tick.tip # None, \A i \in DOMAIN tick.live : IsPlaced(i)
    PROVE  \A k \in DOMAIN tick.live : ChainUpTo(k)
<1>1. DOMAIN tick.live = 1 .. Len(tick.live) /\ Len(tick.live) \in 0 .. Len(tick.live)
  BY DEF IInv, TypeOK, Tick
<1> QED
  BY <1>1, ChainBelow, ZenonT(30)

\* The commit that lands is green on the contexts of everything it carries.
LEMMA TopIsGated ==
    ASSUME IInv, Restacking, tick.tip # None, \A i \in DOMAIN tick.live : IsPlaced(i),
           NEW top \in Green
    PROVE  GatedBy(reports, tick.tip, entries[tick.live[top]].sha)
<1> DEFINE c == entries[tick.live[top]].sha
<1>1. top \in DOMAIN tick.live /\ GateVerdict(c, Covering(tick.live, top)) = "green"
  BY DEF Green
<1>2. \A x \in Covering(tick.live, top) : [sha |-> c, ctx |-> x, ok |-> TRUE] \in reports
  BY <1>1, GreenVerdict, ZenonT(30)
<1>3. \A j \in Len(tick.tip) + 1 .. Len(c) : \E m \in 1 .. top : c[j].pr = tick.live[m]
  <2>1. \A j \in Len(tick.tip) + 1 .. Len(c) :
           \E m \in 1 .. top : SameChange(c[j], LastOf(tick.live[m]))
    BY <1>1, StackIsChain, ZenonT(30) DEF ChainUpTo
  <2>2. 1 .. top \subseteq DOMAIN tick.live
    BY <1>1 DEF IInv, TypeOK, Tick
  <2>3. \A m \in 1 .. top : LastOf(tick.live[m]).pr = tick.live[m]
    BY <2>2, LiveEntry, Zenon DEF HeadOf, LastOf
  <2> QED
    BY <2>1, <2>3, ZenonT(30) DEF SameChange
<1> HIDE DEF c
<1>4. \A j \in Len(tick.tip) + 1 .. Len(c) : Required[c[j].pr] \subseteq Covering(tick.live, top)
  BY <1>3 DEF Covering
<1> QED
  BY <1>2, <1>4, Zenon DEF GatedBy, c

\* The steps of a tick that only take stock of it.
LEMMA OnlyTick ==
    ASSUME IInv, UNCHANGED <<outsideQueue, queueVars, faults>>, tick' \in Tick,
           LiveOK', MembersOK', ~loaded => tick' = Resting
    PROVE  IInv'
<1>1. UNCHANGED <<base, head, open, approved, merged, reports, loaded, clock, enq, dm,
                  entries, disk, unsaved, builds>>
  BY ZenonT(30) DEF outsideQueue, queueVars, pullVars
<1>2. TypeOK'
  BY <1>1 DEF IInv, TypeOK
<1>3. HeadsOK' /\ StoresOK' /\ MergesOK'
  BY <1>1, Zenon DEF IInv, HeadsOK, StoresOK, MergesOK
<1> QED
  BY <1>1, <1>2, <1>3 DEF IInv

\* The verdict that lands a stack keeps IInv: every member is gated and carried.
LEMMA TickLandKeeps ==
    ASSUME IInv, TickLand PROVE IInv'
<1>0. Restacking /\ tick.pc = "stack" /\ tick \in Tick /\ UNCHANGED <<outsideQueue, queueVars, faults>>
  BY DEF TickLand, Restacking, IInv, TypeOK
<1>1. PICK top \in Green :
         tick' = [tick EXCEPT !.pc = "ready", !.tip = None,
                              !.members = [i \in 1 .. top |-> Member(tick.live[i])]]
  BY ZenonT(30) DEF TickLand
<1> DEFINE ms == [i \in 1 .. top |-> Member(tick.live[i])]
<1>2. top \in Nat /\ top >= 1 /\ top \in DOMAIN tick.live /\ 1 .. top \subseteq DOMAIN tick.live
  BY <1>0 DEF Green, Tick
<1>3. ms \in Seq(LandingMember) /\ Len(ms) = top /\ DOMAIN ms = 1 .. top
  <2>1. ms \in [1 .. top -> LandingMember]
    BY <1>0, <1>2, MemberFacts, ZenonT(30)
  <2> HIDE DEF ms
  <2> QED
    BY <1>2, <2>1
<1>4. ASSUME NEW i \in 1 .. top
      PROVE  /\ ms[i].pr = tick.live[i] /\ entries[ms[i].pr] # None
             /\ ms[i].base = entries[tick.live[i]].base /\ ms[i].sha = entries[tick.live[i]].sha
             /\ ms[i].head = entries[tick.live[i]].head
             /\ Carries(ms[i].sha, ms[i].pr) /\ CarriesLast(ms[i].sha, ms[i].head)
  BY <1>0, <1>2, MemberFacts, ZenonT(30)
<1> HIDE DEF ms
<1>5. tick' \in Tick /\ tick'.pc = "ready" /\ tick'.members = ms
  <2>1. tick' = [[[tick EXCEPT !.pc = "ready"] EXCEPT !.tip = None] EXCEPT !.members = ms]
    BY <1>1 DEF ms
  <2> QED
    BY <1>0, <1>3, <2>1, Zenon DEF Tick
<1>6. UNCHANGED <<base, reports, entries, loaded>>
  BY <1>0, ZenonT(30) DEF outsideQueue, queueVars
<1>7. LiveOK'
  BY <1>5, ZenonT(30) DEF LiveOK
<1>8. "tip" \notin Faults => /\ GatedBy(reports, ms[1].base, ms[top].sha)
                            /\ BroughtBy(ms, ms[1].base, ms[top].sha)
  <2> SUFFICES ASSUME "tip" \notin Faults
               PROVE  GatedBy(reports, ms[1].base, ms[top].sha) /\ BroughtBy(ms, ms[1].base, ms[top].sha)
    BY Zenon
  <2>1. tick.tip # None
    BY <1>0 DEF IInv, LiveOK
  <2>2. \A i \in DOMAIN tick.live : IsPlaced(i)
    BY <2>1 DEF TickLand, IsRestacked
  <2>3. 1 \in 1 .. top /\ 1 \in DOMAIN tick.live /\ top \in 1 .. top
    BY <1>2
  <2>4. ms[1].base = tick.tip /\ ms[top].sha = entries[tick.live[top]].sha
    BY <1>4, <2>2, <2>3, ZenonT(30) DEF IsPlaced, ParentOf
  <2>5. GatedBy(reports, tick.tip, entries[tick.live[top]].sha)
    BY <1>0, <2>1, <2>2, TopIsGated, ZenonT(30)
  <2>6. \A j \in Len(tick.tip) + 1 .. Len(entries[tick.live[top]].sha) :
           \E m \in 1 .. top : SameChange(entries[tick.live[top]].sha[j], LastOf(tick.live[m]))
    BY <1>0, <1>2, <2>1, <2>2, StackIsChain, ZenonT(30) DEF ChainUpTo
  <2>7. BroughtBy(ms, ms[1].base, ms[top].sha)
    <3>1. \A m \in 1 .. top : ms[m].head[Len(ms[m].head)] = LastOf(tick.live[m])
      BY <1>4, ZenonT(30) DEF LastOf
    <3>2. ASSUME NEW j \in Len(tick.tip) + 1 .. Len(ms[top].sha)
          PROVE  \E i \in DOMAIN ms : SameChange(ms[top].sha[j], ms[i].head[Len(ms[i].head)])
      <4>1. PICK m \in 1 .. top : SameChange(ms[top].sha[j], LastOf(tick.live[m]))
        BY <2>4, <2>6, Zenon
      <4>2. SameChange(ms[top].sha[j], ms[m].head[Len(ms[m].head)])
        BY <3>1, <4>1, Zenon
      <4> QED
        BY <1>3, <4>2, Zenon
    <3> QED
      BY <2>4, <3>2, Zenon DEF BroughtBy
  <2> QED
    BY <2>4, <2>5, <2>7
<1>9. MembersOK'
  <2>1. ms # <<>> /\ Len(ms) = top
    BY <1>2, <1>3
  <2>2. \A i \in DOMAIN ms : /\ entries[ms[i].pr] # None
                            /\ Carries(ms[i].sha, ms[i].pr) /\ CarriesLast(ms[i].sha, ms[i].head)
    BY <1>3, <1>4, ZenonT(30)
  <2> QED
    BY <1>5, <1>6, <1>8, <2>1, <2>2, Zenon DEF MembersOK
<1>10. loaded
  BY <1>0 DEF IInv, Resting
<1> QED
  BY <1>0, <1>5, <1>7, <1>9, <1>10, OnlyTick

\* A tick with nothing to land keeps IInv.
LEMMA TickRestsKeeps ==
    ASSUME IInv, RestackDone \/ TickWait PROVE IInv'
<1>1. tick' = Resting /\ UNCHANGED <<outsideQueue, queueVars, faults>>
  BY ZenonT(30) DEF RestackDone, TickWait
<1>2. tick' \in Tick /\ LiveOK' /\ MembersOK'
  BY <1>1, AtRest, Zenon DEF LiveOK, MembersOK
<1> QED
  BY <1>1, <1>2, OnlyTick

\* retry_or_fail leaves a well-formed entry.
LEMMA RedEntry ==
    ASSUME NEW e \in Entry
    PROVE  /\ [e EXCEPT !.red = @ + 1, !.last = "failure"] \in Entry
           /\ [e EXCEPT !.red = @ + 1, !.last = "failure"].head = e.head
<1>1. ASSUME NEW x \in Entry
      PROVE  [x EXCEPT !.red = @ + 1] \in Entry /\ [x EXCEPT !.red = @ + 1].head = x.head
  BY DEF Entry
<1>2. ASSUME NEW x \in Entry
      PROVE  [x EXCEPT !.last = "failure"] \in Entry /\ [x EXCEPT !.last = "failure"].head = x.head
  BY ZenonT(30) DEF Entry, Conclusion
<1> QED
  BY <1>1, <1>2, Zenon

\* The verdict that retries or fails an entry keeps IInv.
LEMMA TickRetryKeeps ==
    ASSUME IInv, NEW f \in AnyFault, TickRetry(f) PROVE IInv'
<1> DEFINE p == tick.live[1]
           e == entries[p]
           red == [e EXCEPT !.red = @ + 1, !.last = "failure"]
<1>0. /\ Restacking /\ TypeOK /\ StoresOK /\ tick \in Tick /\ 1 \in DOMAIN tick.live
      /\ UNCHANGED outsideQueue
  BY DEF TickRetry, BottomIsRed, Restacking, IInv, TypeOK, Tick
<1>1. /\ p \in PRs /\ e \in Entry /\ HeadOf(e.head, p, base) /\ e.base \in Commit
      /\ e.after \in PRs \cup {None}
  BY <1>0, LiveEntry, Zenon DEF Entry
<1>2. red \in Entry /\ red.head = e.head
  BY <1>1, RedEntry, Zenon
<1>3. /\ \/ BuildOrDequeue(red, p, e.base, e.after, f)
         \/ Save([entries EXCEPT ![p] = Finished(red, "failed", "gate")], f) /\ UNCHANGED builds
      /\ Restack("restack", Remaining(entries'), entries', f)
  BY ZenonT(30) DEF TickRetry
<1> HIDE DEF p, e, red
<1>4. Rewritten(p, red.head, f) /\ builds' \in [PRs -> Nat]
  <2>1. CASE BuildOrDequeue(red, p, e.base, e.after, f)
    BY <1>0, <1>1, <1>2, <2>1, BuildOrDequeueFacts, Zenon
  <2>2. CASE Save([entries EXCEPT ![p] = Finished(red, "failed", "gate")], f) /\ UNCHANGED builds
    <3> DEFINE d == Finished(red, "failed", "gate")
    <3>1. d \in Entry /\ d.head = red.head /\ d.state = "failed"
      BY <1>2, FinishedEntry, ZenonT(30) DEF Ends, Reason
    <3>2. Stored(d, p, base)
      BY <1>1, <1>2, <3>1 DEF Stored
    <3> HIDE DEF d
    <3>3. Save([entries EXCEPT ![p] = d], f) /\ builds' = builds
      BY <2>2 DEF d
    <3> QED
      BY <1>0, <3>1, <3>2, <3>3, Zenon DEF Rewritten, TypeOK
  <2> QED
    BY <1>3, <2>1, <2>2
<1>5. PICK d \in Entry : Stored(d, p, base) /\ Save([entries EXCEPT ![p] = d], f)
  BY <1>4, ZenonT(30) DEF Rewritten
<1> DEFINE new == [entries EXCEPT ![p] = d]
<1>6. new \in Store /\ AllStored(new, base)
  BY <1>0, <1>1, <1>5, OneEntry, ZenonT(30)
<1>7. entries' = new
  BY <1>5, ZenonT(30) DEF Save
<1>8. Remaining(new) \in SUBSET PRs /\ \A q \in Remaining(new) : IsBuilding(new, q)
  BY <1>0, RemainingBuild, ZenonT(30)
<1>9. loaded
  BY <1>0 DEF IInv, Restacking, Resting
<1> HIDE DEF new
<1>10. Save(new, f) /\ Restack("restack", Remaining(new), new, f)
  BY <1>3, <1>5, <1>7, ZenonT(30) DEF new
<1> QED
  BY <1>0, <1>4, <1>6, <1>8, <1>9, <1>10, RestackKeeps, ZenonT(30)

\* The end of a landing keeps IInv.
LEMMA EndLandingKeeps ==
    ASSUME IInv, tick.pc # "idle", NEW f \in AnyFault, NEW new \in Store, AllStored(new, base),
           EndLanding(new, f), UNCHANGED outsideQueue
    PROVE  IInv'
<1>1. Save(new, f) /\ Restack("restack", Remaining(new), new, f) /\ builds' = builds
  BY DEF EndLanding
<1>2. Remaining(new) \in SUBSET PRs /\ \A q \in Remaining(new) : IsBuilding(new, q)
  BY RemainingBuild, ZenonT(30) DEF IInv
<1>3. loaded /\ builds' \in [PRs -> Nat]
  BY <1>1 DEF IInv, Resting, TypeOK
<1> QED
  BY <1>1, <1>2, <1>3, RestackKeeps

\* The readiness check of land_queued_batch keeps IInv.
LEMMA LandReadyKeeps ==
    ASSUME IInv, LandReady PROVE IInv'
<1>1. tick.pc = "ready" /\ tick \in Tick /\ tick' = [tick EXCEPT !.pc = "move"]
      /\ UNCHANGED <<outsideQueue, queueVars, faults>>
  BY DEF LandReady, IInv, TypeOK
<1>2. tick' \in Tick /\ tick'.pc = "move" /\ tick'.members = tick.members
  BY <1>1 DEF Tick
<1>3. UNCHANGED <<base, reports, entries, loaded>>
  BY <1>1 DEF outsideQueue, queueVars
<1>4. LiveOK'
  BY <1>2, Zenon DEF LiveOK
<1>5. MembersOK'
  BY <1>1, <1>2, <1>3 DEF IInv, MembersOK
<1>6. loaded
  BY <1>1 DEF IInv, Resting
<1> QED
  BY <1>1, <1>2, <1>4, <1>5, <1>6, OnlyTick

\* A landing refused by that check keeps IInv.
LEMMA LandRefusedKeeps ==
    ASSUME IInv, NEW f \in AnyFault, LandRefused(f) PROVE IInv'
<1>1. tick.pc = "ready" /\ UNCHANGED outsideQueue
  BY ZenonT(30) DEF LandRefused
<1>2. PICK i \in DOMAIN tick.members :
         EndLanding([entries EXCEPT ![tick.members[i].pr] = Refused(tick.members[i], f)], f)
  BY ZenonT(30) DEF LandRefused
<1> DEFINE p == tick.members[i].pr
           d == Refused(tick.members[i], f)
<1>3. p \in PRs /\ entries[p] \in Entry /\ Stored(entries[p], p, base) /\ HeadOf(entries[p].head, p, base)
  BY <1>1, MemberEntry
<1>4. \/ d = entries[p]
      \/ \E st \in Ends, r \in Reason : d = Finished(entries[p], st, r)
  BY ZenonT(30) DEF Refused, Ends, Reason
<1>5. d \in Entry /\ Stored(d, p, base)
  BY <1>3, <1>4, FinishedStored, Zenon
<1> HIDE DEF p, d
<1>6. [entries EXCEPT ![p] = d] \in Store /\ AllStored([entries EXCEPT ![p] = d], base)
  BY <1>3, <1>5, OneEntry, ZenonT(30) DEF IInv
<1>7. EndLanding([entries EXCEPT ![p] = d], f)
  BY <1>2 DEF p, d
<1> QED
  BY <1>1, <1>6, <1>7, EndLandingKeeps, ZenonT(30)

\* A landing whose base is blocked or not below its members stops and keeps IInv.
LEMMA LandStopsKeeps ==
    ASSUME IInv, NEW f \in AnyFault, LandBlocked(f) \/ LandNotBelow(f) PROVE IInv'
<1>1. tick.pc = "move" /\ UNCHANGED outsideQueue
  BY DEF LandBlocked, LandNotBelow
<1>2. CASE LandBlocked(f)
  <2>1. EndLanding(entries, f)
    BY <1>2, ZenonT(30) DEF LandBlocked
  <2>2. entries \in Store /\ AllStored(entries, base)
    BY ZenonT(30) DEF IInv, TypeOK, Store, AllStored, StoresOK
  <2> QED
    BY <1>1, <2>1, <2>2, EndLandingKeeps
<1>3. CASE LandNotBelow(f)
  <2>1. PICK i \in DOMAIN tick.members :
           EndLanding([entries EXCEPT ![tick.members[i].pr] = Finished(@, "failed", "not_ready")], f)
    BY <1>3, ZenonT(30) DEF LandNotBelow
  <2> DEFINE p == tick.members[i].pr
             d == Finished(entries[p], "failed", "not_ready")
  <2>2. p \in PRs /\ entries[p] \in Entry /\ HeadOf(entries[p].head, p, base)
    BY <1>1, MemberEntry
  <2>3. d \in Entry /\ Stored(d, p, base)
    BY <2>2, FinishedStored, Zenon DEF Ends, Reason
  <2>4. EndLanding([entries EXCEPT ![p] = d], f)
    BY <2>1, ZenonT(30)
  <2> HIDE DEF p, d
  <2>5. [entries EXCEPT ![p] = d] \in Store /\ AllStored([entries EXCEPT ![p] = d], base)
    BY <2>2, <2>3, OneEntry DEF IInv
  <2> QED
    BY <1>1, <2>4, <2>5, EndLandingKeeps
<1> QED
  BY <1>2, <1>3, ZenonT(30)

\* The compare-and-swap of the base keeps IInv.
LEMMA LandMoveKeeps ==
    ASSUME IInv, LandMove PROVE IInv'
<1>1. /\ tick.pc = "move" /\ tick \in Tick /\ tick' = [tick EXCEPT !.pc = "finalize"]
      /\ UNCHANGED <<pullVars, reports, queueVars, loaded, clock, enq, dm, faults, crashes>>
      /\ base \in Commit /\ base' = Top.sha /\ IsAncestor(base, Top.sha)
      /\ \A i \in DOMAIN tick.members : IsAncestor(tick.members[i].sha, Top.sha)
  BY DEF LandMove, IInv, TypeOK, BaseAsExpected, BelowTop
<1>2. base' \in Commit
  BY <1>1, MembersInOrder
<1>3. UNCHANGED <<head, open, approved, merged, reports, entries, disk, unsaved, builds, loaded, clock,
                  enq, dm>>
  BY <1>1 DEF pullVars, queueVars
<1>4. tick' \in Tick /\ tick'.pc = "finalize" /\ tick'.members = tick.members
  BY <1>1, ZenonT(30) DEF Tick
<1>5. HeadsOK' /\ StoresOK'
  BY <1>1, <1>2, <1>3, BaseAdvances
<1>6. TypeOK'
  BY <1>2, <1>3, <1>4, ZenonT(30) DEF IInv, TypeOK
<1>7. LiveOK'
  BY <1>4, ZenonT(30) DEF LiveOK
<1>8. MembersOK'
  BY <1>1, <1>3, <1>4 DEF IInv, MembersOK
<1>9. MergesOK'
  <2>1. ASSUME NEW p \in PRs, dm[p].pc = "finalize" PROVE IsAncestor(dm[p].to, base')
    BY <1>1, <1>2, <2>1, AncestorTrans DEF IInv, MergesOK
  <2> QED
    BY <1>3, <2>1, Zenon DEF IInv, MergesOK
<1>10. loaded'
  BY <1>1, <1>3 DEF IInv, Resting
<1> QED
  BY <1>5, <1>6, <1>7, <1>8, <1>9, <1>10 DEF IInv

\* Recording a member's merge keeps IInv.
LEMMA LandFinalizeKeeps ==
    ASSUME IInv, NEW f \in AnyFault, LandFinalize(f) PROVE IInv'
<1> DEFINE ms == Range(tick.members)
           done == {m \in ms : f # <<"record", m.pr>> /\ IsReady(m.pr, m.head)}
           before == {m \in ms : merged[m.pr] # None}
<1>1. /\ tick.pc = "finalize" /\ tick \in Tick /\ merged \in [PRs -> Commit \cup {None}]
      /\ merged' = [p \in PRs |->
                  IF \E m \in done : m.pr = p
                  THEN (CHOOSE m \in done : m.pr = p).sha
                  ELSE merged[p]]
      /\ UNCHANGED <<base, head, open, approved, reports, queueVars, loaded, clock, enq, dm, crashes>>
  BY DEF LandFinalize, IInv, TypeOK
<1>2. PICK again \in SUBSET before :
         tick' = [tick EXCEPT !.pc = "record", !.failed = {m.pr : m \in ms \ (done \cup again)}]
  BY Zenon DEF LandFinalize
<1>3. \A m \in ms : m \in LandingMember
  BY <1>1, MemberEntry, ZenonT(30) DEF Range
<1>4. merged' \in [PRs -> Commit \cup {None}]
  <2>1. \A p \in PRs : (\E m \in done : m.pr = p) => (CHOOSE m \in done : m.pr = p) \in ms
    BY Zenon
  <2>2. \A m \in ms : m.sha \in Commit
    BY <1>3 DEF LandingMember
  <2> HIDE DEF ms, done
  <2> QED
    BY <1>1, <2>1, <2>2, ZenonT(30)
<1>5. tick' \in Tick /\ tick'.pc = "record" /\ tick'.members = tick.members
  <2> DEFINE failed == {m.pr : m \in ms \ (done \cup again)}
  <2>1. failed \in SUBSET PRs
    BY <1>3 DEF LandingMember
  <2>2. tick' = [[tick EXCEPT !.pc = "record"] EXCEPT !.failed = failed]
    BY <1>2
  <2> HIDE DEF failed
  <2> QED
    BY <1>1, <2>1, <2>2, ZenonT(30) DEF Tick
<1>6. UNCHANGED <<base, head, open, approved, reports, entries, disk, unsaved, builds, loaded, clock,
                  enq, dm>>
  BY <1>1, ZenonT(30) DEF queueVars
<1>7. TypeOK'
  BY <1>4, <1>5, <1>6, ZenonT(30) DEF IInv, TypeOK
<1>8. HeadsOK' /\ StoresOK' /\ MergesOK'
  BY <1>6, ZenonT(30) DEF IInv, HeadsOK, StoresOK, MergesOK
<1>9. LiveOK'
  BY <1>5, ZenonT(30) DEF LiveOK
<1>10. MembersOK'
  BY <1>1, <1>5, <1>6, Zenon DEF IInv, MembersOK
<1>11. loaded'
  BY <1>1, <1>6 DEF IInv, Resting
<1> QED
  BY <1>7, <1>8, <1>9, <1>10, <1>11, Zenon DEF IInv

\* The record of a landed member is well formed.
LEMMA RecordedEntry ==
    ASSUME IInv, tick.pc = "record", NEW i \in DOMAIN tick.members
    PROVE  /\ Recorded(tick.members[i]) \in Entry
           /\ Stored(Recorded(tick.members[i]), tick.members[i].pr, base)
<1> DEFINE m == tick.members[i]
           p == m.pr
           e == entries[p]
<1>1. m \in LandingMember /\ p \in PRs /\ e \in Entry /\ HeadOf(e.head, p, base)
  BY MemberEntry, ZenonT(30)
<1>2. CASE p \in tick.failed
  <2>1. Recorded(m) = Finished(e, "failed", "unrecorded")
    BY <1>2 DEF Recorded
  <2> HIDE DEF m, p, e
  <2> QED
    BY <1>1, <2>1, FinishedStored DEF Ends, Reason, m, p
<1>3. CASE p \notin tick.failed
  <2>1. PICK conclusion \in Conclusion :
           Recorded(m) = [Finished(e, "landed", "landed") EXCEPT !.landed = m.sha, !.last = conclusion]
    BY <1>3, Zenon DEF Recorded, Conclusion
  <2> DEFINE d == Finished(e, "landed", "landed")
  <2>2. d \in Entry /\ d.head = e.head /\ d.state = "landed"
    <3>1. "landed" \in Ends /\ "landed" \in Reason
      BY ZenonT(30) DEF Ends, Reason
    <3> HIDE DEF m, p, e
    <3> QED BY <1>1, <3>1, FinishedEntry, Zenon
  <2>3. m.sha \in Commit
    BY <1>1 DEF LandingMember
  <2>4. Recorded(m) = [[d EXCEPT !.landed = m.sha] EXCEPT !.last = conclusion]
    BY <2>1
  <2> HIDE DEF d, m, p, e
  <2>5. Recorded(m) \in Entry /\ Recorded(m).head = e.head /\ Recorded(m).state = "landed"
    BY <2>2, <2>3, <2>4, ZenonT(30) DEF Entry
  <2> QED
    BY <1>1, <2>5, Zenon DEF Stored, m, p, e
<1> QED
  BY <1>2, <1>3, Zenon

\* Saving the landed records keeps IInv.
LEMMA LandRecordKeeps ==
    ASSUME IInv, NEW f \in AnyFault, LandRecord(f) PROVE IInv'
<1> DEFINE new == [p \in PRs |->
            IF \E i \in DOMAIN tick.members : tick.members[i].pr = p
            THEN Recorded(CHOOSE m \in Range(tick.members) : m.pr = p)
            ELSE entries[p]]
<1>1. tick.pc = "record" /\ EndLanding(new, f) /\ UNCHANGED outsideQueue
  BY DEF LandRecord
<1>2. ASSUME NEW p \in PRs PROVE new[p] \in Entry \cup {None} /\ Stored(new[p], p, base)
  <2>1. CASE \E i \in DOMAIN tick.members : tick.members[i].pr = p
    <3> DEFINE m == CHOOSE m \in Range(tick.members) : m.pr = p
    <3>1. m \in Range(tick.members) /\ m.pr = p
      BY <2>1 DEF Range
    <3>2. PICK i \in DOMAIN tick.members : m = tick.members[i]
      BY <3>1, ZenonT(30) DEF Range
    <3>3. Recorded(m) \in Entry /\ Stored(Recorded(m), p, base)
      BY <1>1, <3>1, <3>2, RecordedEntry, ZenonT(30)
    <3> QED
      BY <2>1, <3>3, ZenonT(30)
  <2>2. CASE ~\E i \in DOMAIN tick.members : tick.members[i].pr = p
    BY <2>2 DEF IInv, TypeOK, StoresOK
  <2> QED
    BY <2>1, <2>2, Zenon
<1>3. new \in Store /\ AllStored(new, base)
  BY <1>2, Zenon DEF Store, AllStored
<1> HIDE DEF new
<1> QED
  BY <1>1, <1>3, EndLandingKeeps, ZenonT(30)

-----------------------------------------------------------------------------
(* The direct merge.                                                       *)

\* A step that only records merges.
LEMMA OnlyMerged ==
    ASSUME IInv, merged' \in [PRs -> Commit \cup {None}], dm' \in [PRs -> Merge], MergesOK',
           UNCHANGED <<base, head, open, approved, reports, entries, disk, unsaved, builds, loaded,
                       clock, enq, tick>>
    PROVE  IInv'
<1>1. TypeOK'
  BY DEF IInv, TypeOK
<1>2. HeadsOK' /\ StoresOK' /\ LiveOK' /\ MembersOK'
  BY ZenonT(30) DEF IInv, HeadsOK, StoresOK, LiveOK, MembersOK
<1> QED
  BY <1>1, <1>2, ZenonT(30) DEF IInv

\* A green verdict on the required contexts of p is a green report on each.
LEMMA ReadyIsGreen ==
    ASSUME NEW p \in PRs, IsReady(p, head[p]) PROVE HeadIsGreen(reports, head[p], p)
BY GreenVerdict, Zenon DEF IsReady, PassesGate, HeadIsGreen

\* The gate of a direct merge keeps IInv.
LEMMA DirectGateKeeps ==
    ASSUME IInv, NEW p \in PRs, DirectGate(p) PROVE IInv'
<1> DEFINE d == [pc |-> "gated", from |-> None, to |-> None, head |-> head[p]]
<1>1. /\ p \in Direct /\ IsReady(p, head[p]) /\ dm' = [dm EXCEPT ![p] = d]
      /\ UNCHANGED <<base, head, open, approved, merged, reports, entries, disk, unsaved, builds,
                     loaded, clock, enq, tick>>
  BY ZenonT(30) DEF DirectGate, pullVars, queueVars
<1>2. d \in Merge /\ d.pc = "gated" /\ d.head = head[p] /\ head[p] \in Commit
  BY ZenonT(30) DEF IInv, TypeOK, Merge
<1> HIDE DEF d
<1>3. /\ dm' \in [PRs -> Merge] /\ merged' \in [PRs -> Commit \cup {None}]
      /\ dm'[p] = d /\ \A q \in PRs : q # p => dm'[q] = dm[q]
  BY <1>1, <1>2 DEF IInv, TypeOK
<1>4. MergesOK'
  BY <1>1, <1>2, <1>3, ReadyIsGreen, ZenonT(30) DEF IInv, MergesOK
<1> QED
  BY <1>1, <1>3, <1>4, OnlyMerged, ZenonT(30)

\* Finding the head in the base already keeps IInv.
LEMMA DirectAlreadyInKeeps ==
    ASSUME IInv, NEW p \in PRs, DirectAlreadyIn(p) PROVE IInv'
<1> DEFINE d == [pc |-> "finalize", from |-> base, to |-> base, head |-> dm[p].head]
<1>1. /\ dm[p].pc = "gated" /\ IsAncestor(head[p], base) /\ dm' = [dm EXCEPT ![p] = d]
      /\ UNCHANGED <<base, head, open, approved, merged, reports, entries, disk, unsaved, builds,
                     loaded, clock, enq, tick>>
  BY ZenonT(30) DEF DirectAlreadyIn, pullVars, queueVars
<1>2. base \in Commit /\ dm[p].head \in Commit
  BY <1>1 DEF IInv, TypeOK, MergesOK
<1>3. d \in Merge /\ d.pc = "finalize" /\ d.to = base
  BY <1>2, ZenonT(30) DEF Merge
<1> HIDE DEF d
<1>4. /\ dm' \in [PRs -> Merge] /\ merged' \in [PRs -> Commit \cup {None}]
      /\ dm'[p] = d /\ \A q \in PRs : q # p => dm'[q] = dm[q]
  BY <1>1, <1>3, ZenonT(30) DEF IInv, TypeOK
<1>5. Carries(base, p) /\ CarriesLast(base, head[p])
  <2>1. head[p] \in Seq(Patch) /\ head[p] # <<>> /\ head[p][Len(head[p])].pr = p
    BY CommitIsPatches, Zenon DEF IInv, HeadsOK, HeadOf
  <2>2. base \in Seq(Patch)
    BY <1>2, CommitIsPatches
  <2>3. Len(head[p]) \in DOMAIN base /\ base[Len(head[p])] = head[p][Len(head[p])]
    BY <1>1, <2>1, <2>2, AncestorsLast, Zenon
  <2> QED
    BY <2>1, <2>3 DEF Carries, CarriesLast, SameChange
<1>6. IsAncestor(base, base)
  BY <1>2, CommitIsPatches, AncestorReflexive
<1>7. MergesOK'
  BY <1>1, <1>2, <1>3, <1>4, <1>5, <1>6, Zenon DEF IInv, MergesOK
<1> QED
  BY <1>1, <1>4, <1>7, OnlyMerged, ZenonT(30)

\* Refusing a direct merge keeps IInv.
LEMMA DirectRefusedKeeps ==
    ASSUME IInv, NEW p \in PRs, DirectRefused(p) PROVE IInv'
<1>1. /\ dm' = [dm EXCEPT ![p] = NoMerge]
      /\ UNCHANGED <<base, head, open, approved, merged, reports, entries, disk, unsaved, builds,
                     loaded, clock, enq, tick>>
  BY DEF DirectRefused, pullVars, queueVars
<1>2. NoMerge \in Merge /\ NoMerge.pc = "idle"
  BY ZenonT(30) DEF NoMerge, Merge
<1>3. dm' \in [PRs -> Merge] /\ merged' \in [PRs -> Commit \cup {None}]
  BY <1>1, <1>2, ZenonT(30) DEF IInv, TypeOK
<1>4. MergesOK'
  BY <1>1, <1>2, Zenon DEF IInv, TypeOK, MergesOK
<1> QED
  BY <1>1, <1>3, <1>4, OnlyMerged, ZenonT(30)

\* Recording a direct merge keeps IInv.
LEMMA DirectFinalizeKeeps ==
    ASSUME IInv, NEW p \in PRs, NEW f \in AnyFault, DirectFinalize(p, f) PROVE IInv'
<1>1. /\ dm[p].pc = "finalize" /\ dm' = [dm EXCEPT ![p] = NoMerge]
      /\ merged' = merged \/ merged' = [merged EXCEPT ![p] = dm[p].to]
      /\ UNCHANGED <<base, head, open, approved, reports, entries, disk, unsaved, builds, loaded,
                     clock, enq, tick>>
  BY ZenonT(30) DEF DirectFinalize, queueVars
<1>2. dm[p].to \in Commit /\ NoMerge \in Merge /\ NoMerge.pc = "idle"
  BY <1>1, Zenon DEF IInv, MergesOK, NoMerge, Merge
<1>3. merged' \in [PRs -> Commit \cup {None}] /\ dm' \in [PRs -> Merge]
  BY <1>1, <1>2 DEF IInv, TypeOK
<1>4. MergesOK'
  BY <1>1, <1>2, <1>3, ZenonT(30) DEF IInv, TypeOK, MergesOK
<1> QED
  BY <1>1, <1>3, <1>4, OnlyMerged

\* What a direct merge puts on the base: only p, and gated for it.
LEMMA DirectReplayFacts ==
    ASSUME IInv, NEW p \in Direct, p \in PRs, NEW n \in Nat, NEW to,
           to = Replay(base, head[p], <<p, n>>), ReplayIsGated(p, to)
    PROVE  /\ to \in Commit /\ IsAncestor(base, to) /\ Carries(to, p) /\ CarriesLast(to, head[p])
           /\ DirectlyGated(p) /\ HeadIsGreen(reports, head[p], p) => GatedBy(reports, base, to)
<1>1. base \in Commit /\ head[p] \in Commit /\ head[p] # <<>> /\ head[p][Len(head[p])].pr = p
      /\ CutFrom(head[p], base) /\ <<p, n>> \in Stamp
  BY ZenonT(30) DEF IInv, TypeOK, HeadsOK, HeadOf, Stamp
<1>2. to \in Commit /\ IsAncestor(base, to) /\ Carries(to, p) /\ CarriesLast(to, head[p])
  BY <1>1, ReplayFacts, ZenonT(30)
<1>3. \A i \in Len(base) + 1 .. Len(to) : to[i].pr = p
  BY <1>1, ReplayAddsOwn, Zenon DEF SameChange
<1>4. ASSUME DirectlyGated(p), HeadIsGreen(reports, head[p], p), NEW c \in Required[p]
      PROVE  [sha |-> to, ctx |-> c, ok |-> TRUE] \in reports
  <2>1. CASE to = head[p]
    BY <1>4, <2>1, ZenonT(30) DEF HeadIsGreen
  <2>2. CASE to # head[p]
    BY <1>4, <2>2, GreenVerdict, ZenonT(30) DEF DirectlyGated, ReplayIsGated
  <2> QED
    BY <2>1, <2>2, ZenonT(30)
<1> QED
  BY <1>2, <1>3, <1>4, ZenonT(30) DEF GatedBy

\* Reading the refs and replaying for a direct merge keeps IInv.
LEMMA DirectReadKeeps ==
    ASSUME IInv, NEW p \in PRs, DirectRead(p) PROVE IInv'
<1> DEFINE n == DirectBuild(p)
           to == DirectReplay(p)
<1>1. /\ dm[p].pc = "gated" /\ ReplayIsGated(p, to)
      /\ builds' = [builds EXCEPT ![p] = n]
      /\ dm' = [dm EXCEPT ![p] = [pc |-> "move", from |-> base, to |-> to, head |-> dm[p].head]]
      /\ UNCHANGED <<base, head, open, approved, merged, reports, entries, disk, unsaved, loaded,
                     clock, enq, tick>>
  BY ZenonT(30) DEF DirectRead, DirectAllowed, pullVars
<1>2. /\ n \in Nat /\ base \in Commit /\ dm[p].head \in Commit /\ dm \in [PRs -> Merge]
      /\ builds \in [PRs -> Nat] /\ p \in Direct
      /\ DirectlyGated(p) => HeadIsGreen(reports, head[p], p)
  BY <1>1 DEF IInv, TypeOK, MergesOK, DirectBuild
<1>3. to = Replay(base, head[p], <<p, n>>)
  BY ZenonT(30) DEF DirectReplay
<1> HIDE DEF n
<1> HIDE DEF to
<1>4. /\ to \in Commit /\ IsAncestor(base, to) /\ Carries(to, p) /\ CarriesLast(to, head[p])
      /\ DirectlyGated(p) => GatedBy(reports, base, to)
  BY <1>1, <1>2, <1>3, DirectReplayFacts, ZenonT(30)
<1> DEFINE d == [pc |-> "move", from |-> base, to |-> to, head |-> dm[p].head]
<1>5. d \in Merge /\ d.pc = "move" /\ d.from = base /\ d.to = to
  BY <1>2, <1>4, ZenonT(30) DEF Merge
<1>6. dm' = [dm EXCEPT ![p] = d]
  BY <1>1, ZenonT(30)
<1> HIDE DEF d
<1>7. dm' \in [PRs -> Merge] /\ builds' \in [PRs -> Nat]
      /\ dm'[p] = d /\ \A q \in PRs : q # p => dm'[q] = dm[q]
  BY <1>1, <1>2, <1>5, <1>6
<1>8. TypeOK'
  BY <1>1, <1>7, ZenonT(30) DEF IInv, TypeOK
<1>9. HeadsOK' /\ StoresOK' /\ LiveOK' /\ MembersOK'
  BY <1>1, ZenonT(30) DEF IInv, HeadsOK, StoresOK, LiveOK, MembersOK
<1>10. MergesOK'
  BY <1>1, <1>2, <1>4, <1>5, <1>7, Zenon DEF IInv, MergesOK
<1> QED
  BY <1>1, <1>8, <1>9, <1>10, ZenonT(30) DEF IInv

\* The compare-and-swap of a direct merge keeps IInv.
LEMMA DirectMoveKeeps ==
    ASSUME IInv, NEW p \in PRs, DirectMove(p) PROVE IInv'
<1>1. /\ dm[p].pc = "move" /\ dm \in [PRs -> Merge] /\ base \in Commit
      /\ UNCHANGED <<head, open, approved, merged, reports, entries, disk, unsaved, builds, loaded,
                     clock, enq, tick>>
  BY ZenonT(30) DEF DirectMove, IInv, TypeOK, pullVars, queueVars
<1>2. CASE base = dm[p].from
  <2>1. base' = dm[p].to /\ dm' = [dm EXCEPT ![p].pc = "finalize"]
    BY <1>2, ZenonT(30) DEF DirectMove
  <2>2. /\ base' \in Commit /\ IsAncestor(base, base') /\ Carries(base', p)
        /\ p \notin Pushed => CarriesLast(base', head[p])
    BY <1>1, <1>2, <2>1, ZenonT(30) DEF IInv, MergesOK
  <2>3. HeadsOK' /\ StoresOK'
    BY <1>1, <2>2, BaseAdvances
  <2>4. /\ dm' \in [PRs -> Merge]
        /\ dm'[p].pc = "finalize" /\ dm'[p].to = base'
        /\ \A q \in PRs : q # p => dm'[q] = dm[q]
    <3>1. ASSUME NEW d \in Merge
          PROVE  [d EXCEPT !.pc = "finalize"] \in Merge /\ [d EXCEPT !.pc = "finalize"].pc = "finalize"
                 /\ [d EXCEPT !.pc = "finalize"].to = d.to
      BY DEF Merge
    <3>2. dm' = [dm EXCEPT ![p] = [dm[p] EXCEPT !.pc = "finalize"]]
      BY <2>1, ZenonT(30)
    <3> QED
      BY <1>1, <2>1, <3>1, <3>2
  <2>5. TypeOK'
    BY <1>1, <2>2, <2>4, ZenonT(30) DEF IInv, TypeOK
  <2>6. LiveOK'
    BY <1>1 DEF IInv, LiveOK
  <2>7. MembersOK'
    <3>1. ASSUME tick.pc = "finalize", NEW i \in DOMAIN tick.members
          PROVE  IsAncestor(tick.members[i].sha, base')
      <4>1. tick.members[i].sha \in Commit /\ IsAncestor(tick.members[i].sha, base)
        BY <3>1, MemberEntry, ZenonT(30) DEF IInv, MembersOK, LandingMember
      <4> QED
        BY <1>1, <2>2, <4>1, AncestorTrans
    <3> QED
      BY <1>1, <3>1, Zenon DEF IInv, MembersOK
  <2>8. MergesOK'
    <3>1. ASSUME NEW q \in PRs, q # p, dm[q].pc = "finalize" PROVE IsAncestor(dm[q].to, base')
      BY <1>1, <2>2, <3>1, AncestorTrans, Zenon DEF IInv, MergesOK
    <3>2. IsAncestor(base', base')
      BY <2>2, CommitIsPatches, AncestorReflexive
    <3>3. ASSUME NEW q \in PRs, q # p
          PROVE  /\ dm'[q].pc = "gated" =>
                       /\ q \in Direct /\ dm'[q].head \in Commit
                       /\ DirectlyGated(q) => HeadIsGreen(reports', head'[q], q)
                 /\ dm'[q].pc = "move" =>
                       /\ dm'[q].from \in Commit /\ dm'[q].to \in Commit
                       /\ IsAncestor(dm'[q].from, dm'[q].to) /\ Carries(dm'[q].to, q)
                       /\ q \notin Pushed => CarriesLast(dm'[q].to, head'[q])
                       /\ DirectlyGated(q) => GatedBy(reports', dm'[q].from, dm'[q].to)
                 /\ dm'[q].pc = "finalize" =>
                       /\ dm'[q].to \in Commit /\ IsAncestor(dm'[q].to, base')
                       /\ Carries(dm'[q].to, q)
                       /\ q \notin Pushed => CarriesLast(dm'[q].to, head'[q])
      BY <1>1, <2>4, <3>1, <3>3, ZenonT(30) DEF IInv, MergesOK
    <3> QED
      BY <1>1, <2>2, <2>4, <3>2, <3>3, ZenonT(30) DEF MergesOK
  <2> QED
    BY <1>1, <2>3, <2>5, <2>6, <2>7, <2>8 DEF IInv
<1>3. CASE base # dm[p].from
  <2>1. dm' = [dm EXCEPT ![p] = NoMerge] /\ base' = base
    BY <1>3, ZenonT(30) DEF DirectMove
  <2>2. NoMerge \in Merge /\ NoMerge.pc = "idle"
    BY ZenonT(30) DEF NoMerge, Merge
  <2>3. dm' \in [PRs -> Merge] /\ MergesOK'
    BY <1>1, <2>1, <2>2, Zenon DEF IInv, MergesOK
  <2>4. merged' \in [PRs -> Commit \cup {None}]
    BY <1>1, ZenonT(30) DEF IInv, TypeOK
  <2> QED
    BY <1>1, <2>1, <2>3, <2>4, OnlyMerged
<1> QED
  BY <1>2, <1>3

-----------------------------------------------------------------------------
(* The environment.                                                        *)

\* A new head is one commit of p on the base there is.
LEMMA PushedHead ==
    ASSUME base \in Commit, NEW p \in PRs, NEW v \in Nat
    PROVE  HeadOf(Append(base, [pr |-> p, ver |-> v, stamp |-> <<p, 0>>]), p, base)
<1> DEFINE x == [pr |-> p, ver |-> v, stamp |-> <<p, 0>>]
           h == Append(base, x)
<1>1. x \in Patch /\ x.pr = p /\ x.stamp = <<p, 0>>
  BY DEF Patch, Stamp
<1> HIDE DEF x
<1>2. base \in Seq(Patch)
  BY CommitIsPatches, ZenonT(30)
<1>3. h \in Seq(Patch) /\ Len(h) = Len(base) + 1 /\ h[Len(h)] = x
      /\ \A i \in 1 .. Len(base) : h[i] = base[i]
  BY <1>1, <1>2
<1>4. h # <<>> /\ Len(base) \in Nat
  BY <1>2, <1>3
<1> HIDE DEF h
<1>5. HeadOf(h, p, base)
  BY <1>1, <1>3, <1>4, CommitIsPatches DEF HeadOf, CutFrom
<1> QED
  BY <1>5, ZenonT(30) DEF h, x

\* A push, a close and a review keep IInv.
LEMMA PullsKeep ==
    ASSUME IInv, NEW p \in PRs, Push(p) \/ Close(p) \/ Review(p) PROVE IInv'
<1>1. UNCHANGED <<base, reports, merged, entries, disk, unsaved, builds, loaded, clock, enq, tick, dm>>
  BY ZenonT(30) DEF Push, Close, Review, pullsOnly, queueVars
<1>2. open' \subseteq PRs /\ approved' \subseteq PRs
  BY ZenonT(30) DEF Push, Close, Review, IInv, TypeOK
<1>3. head' \in [PRs -> Commit] /\ \A q \in PRs : HeadOf(head'[q], q, base)
  <2>1. CASE Push(p)
    <3> DEFINE h == Append(base, [pr |-> p, ver |-> Last(head[p]).ver + 1, stamp |-> <<p, 0>>])
    <3>1. head' = [head EXCEPT ![p] = h]
      BY <2>1 DEF Push
    <3>2. head[p] \in Seq(Patch) /\ head[p] # <<>>
      BY CommitIsPatches, Zenon DEF IInv, HeadsOK, HeadOf
    <3>3. Last(head[p]) \in Patch
      BY <3>2, LastType
    <3>4. Last(head[p]).ver + 1 \in Nat
      <4>1. \A n \in Nat : n + 1 \in Nat
        OBVIOUS
      <4>2. Last(head[p]).ver \in Nat
        BY <3>3, Zenon DEF Patch
      <4> QED BY <4>1, <4>2, Zenon
    <3>5. HeadOf(h, p, base)
      BY <3>4, PushedHead, ZenonT(30) DEF IInv, TypeOK
    <3> HIDE DEF h
    <3> QED
      BY <3>1, <3>5, Zenon DEF IInv, TypeOK, HeadsOK, HeadOf
  <2>2. CASE ~Push(p)
    BY <2>2, ZenonT(30) DEF Close, Review, IInv, TypeOK, HeadsOK
  <2> QED
    BY <2>1, <2>2
<1>4. TypeOK'
  BY <1>1, <1>2, <1>3 DEF IInv, TypeOK
<1>5. HeadsOK'
  BY <1>1, <1>3, ZenonT(30) DEF IInv, HeadsOK
<1>6. StoresOK' /\ LiveOK' /\ MembersOK'
  BY <1>1, Zenon DEF IInv, StoresOK, LiveOK, MembersOK
<1>7. ASSUME NEW q \in PRs, q \notin Pushed PROVE head'[q] = head[q]
  BY <1>7 DEF Push, Close, Review, IInv, TypeOK
<1>8. MergesOK'
  <2>1. \A q \in Direct : DirectlyGated(q) => q \notin Pushed
    BY ZenonT(30) DEF DirectlyGated
  <2> QED
    BY <1>1, <1>7, <2>1, Zenon DEF IInv, MergesOK
<1> QED
  BY <1>1, <1>4, <1>5, <1>6, <1>8, ZenonT(30) DEF IInv

\* A gated commit stays gated as reports are added.
LEMMA GatedLater ==
    ASSUME NEW from, NEW to, GatedBy(reports, from, to), reports \subseteq reports'
    PROVE  GatedBy(reports', from, to)
BY Zenon DEF GatedBy

\* A status report keeps IInv.
LEMMA ReportKeeps ==
    ASSUME IInv, NEW sha \in Commit, NEW c \in Contexts, Report(sha, c) PROVE IInv'
<1>1. UNCHANGED <<base, head, open, approved, merged, entries, disk, unsaved, builds, loaded, clock,
                  enq, tick, dm>>
  BY ZenonT(30) DEF Report, pullVars, queueVars
<1>2. PICK ok \in BOOLEAN : reports' = reports \cup {[sha |-> sha, ctx |-> c, ok |-> ok]}
  BY ZenonT(30) DEF Report
<1>3. reports \subseteq reports' /\ reports' \subseteq [sha : Commit, ctx : Contexts, ok : BOOLEAN]
  BY <1>2 DEF IInv, TypeOK
<1>4. TypeOK'
  BY <1>1, <1>3 DEF IInv, TypeOK
<1>5. HeadsOK' /\ StoresOK' /\ LiveOK'
  BY <1>1, ZenonT(30) DEF IInv, HeadsOK, StoresOK, LiveOK
<1>6. MembersOK'
  BY <1>1, <1>3, GatedLater, ZenonT(30) DEF IInv, MembersOK
<1>7. MergesOK'
  BY <1>1, <1>3, GatedLater, ZenonT(30) DEF IInv, MergesOK, HeadIsGreen
<1> QED
  BY <1>1, <1>4, <1>5, <1>6, <1>7, ZenonT(30) DEF IInv

\* A report on a pull request's head keeps IInv.
LEMMA ReportHeadKeeps ==
    ASSUME IInv, NEW p \in PRs, NEW c \in Contexts, ReportHead(p, c) PROVE IInv'
BY ReportKeeps DEF ReportHead, IInv, TypeOK

\* A report on a queue commit keeps IInv.
LEMMA ReportQueuedKeeps ==
    ASSUME IInv, NEW p \in PRs, NEW c \in Contexts, ReportQueued(p, c) PROVE IInv'
<1>1. entries[p] \in Entry /\ entries[p].state = "building" /\ Stored(entries[p], p, base)
      /\ entries[p] # None
  BY DEF ReportQueued, IsBuilding, IInv, TypeOK, StoresOK
<1>2. HeadOf(entries[p].head, p, base) /\ IsReplay(entries[p]) /\ entries[p].base \in Commit
  BY <1>1, ZenonT(30) DEF Stored, Entry
<1>3. entries[p].sha \in Commit
  BY <1>2, ReplayFacts, Zenon DEF IsReplay, HeadOf
<1> QED
  BY <1>3, ReportKeeps, ZenonT(30) DEF ReportQueued

\* A crash keeps IInv: what is left is on disk.
LEMMA CrashKeeps ==
    ASSUME IInv, Crash PROVE IInv'
<1>1. /\ loaded' = FALSE /\ entries' = [p \in PRs |-> None] /\ unsaved' = {}
      /\ enq' = [p \in PRs |-> None] /\ tick' = Resting /\ dm' = [p \in PRs |-> NoMerge]
      /\ UNCHANGED <<base, head, open, approved, merged, reports, disk, builds, clock>>
  BY ZenonT(30) DEF Crash, pullVars
<1>2. NoMerge \in Merge /\ NoMerge.pc = "idle" /\ Resting \in Tick /\ Resting.pc = "idle"
  BY AtRest, Zenon
<1>3. TypeOK'
  BY <1>1, <1>2 DEF IInv, TypeOK
<1>4. HeadsOK' /\ StoresOK'
  BY <1>1, ZenonT(30) DEF IInv, HeadsOK, StoresOK, Stored
<1>5. LiveOK' /\ MembersOK' /\ MergesOK'
  BY <1>1, <1>2, ZenonT(30) DEF LiveOK, MembersOK, MergesOK
<1> QED
  BY <1>1, <1>3, <1>4, <1>5 DEF IInv

\* IInv holds at first.
LEMMA InitEstablishes ==
    ASSUME Init PROVE IInv
<1>1. NoMerge \in Merge /\ NoMerge.pc = "idle" /\ Resting \in Tick /\ Resting.pc = "idle"
  BY AtRest, Zenon
<1>2. base \in Commit
  BY EmptyIsCommit, Zenon DEF Init
<1>3. reports \subseteq [sha : Commit, ctx : Contexts, ok : BOOLEAN] /\ head \in [PRs -> Commit]
  <2>1. ASSUME NEW r \in reports PROVE r \in [sha : Commit, ctx : Contexts, ok : BOOLEAN]
    <3>1. PICK p \in PRs, c \in Contexts : r = [sha |-> Authored(p), ctx |-> c, ok |-> TRUE]
      BY DEF Init
    <3>2. Authored(p) \in Commit
      BY AuthoredHead, ZenonT(30)
    <3> QED
      BY <3>1, <3>2, ZenonT(30)
  <2>2. head \in [PRs -> Commit]
    BY AuthoredHead DEF Init
  <2> QED
    BY <2>1, <2>2
<1>4. TypeOK
  BY <1>1, <1>2, <1>3, ZenonT(30) DEF Init, TypeOK
<1>5. HeadsOK
  BY AuthoredHead, ZenonT(30) DEF Init, HeadsOK
<1>6. StoresOK /\ LiveOK /\ MembersOK /\ MergesOK
  BY <1>1, Zenon DEF Init, StoresOK, Stored, LiveOK, MembersOK, MergesOK
<1> QED
  BY <1>4, <1>5, <1>6, ZenonT(30) DEF Init, IInv

\* IInv is inductive.
LEMMA StepKeeps ==
    ASSUME IInv, [Next]_vars PROVE IInv'
<1>1. CASE TickStep
  BY <1>1, SomeFaultIsFault, TickStartKeeps, LandRefusedKeeps, RestackStepKeeps, TickRestsKeeps,
     TickLandKeeps, TickRetryKeeps, LandReadyKeeps, LandMoveKeeps, LandStopsKeeps,
     LandFinalizeKeeps, LandRecordKeeps DEF TickStep
<1>2. CASE Load \/ Crash
  BY <1>2, LoadKeeps, CrashKeeps
<1>3. ASSUME NEW p \in PRs, EnqueueRead(p) PROVE IInv'
  BY <1>3, EnqueueReadKeeps
<1>4. ASSUME NEW p \in PRs, NEW f \in SomeFault({"replay", "write"}), Enqueue(p, f) PROVE IInv'
  BY <1>4, SomeFaultIsFault, EnqueueKeeps, ZenonT(30)
<1>5. ASSUME NEW p \in PRs, NEW f \in SomeFault({"write"}), Dequeue(p, f) PROVE IInv'
  BY <1>5, SomeFaultIsFault, DequeueKeeps, ZenonT(30)
<1>6. ASSUME NEW p \in PRs, DirectGate(p) \/ DirectAlreadyIn(p) \/ DirectRead(p) \/ DirectRefused(p)
                              \/ DirectMove(p)
      PROVE  IInv'
  BY <1>6, DirectGateKeeps, DirectAlreadyInKeeps, DirectReadKeeps, DirectRefusedKeeps, DirectMoveKeeps, ZenonT(30)
<1>7. ASSUME NEW p \in PRs, NEW f \in SomeFault({"record"}), DirectFinalize(p, f) PROVE IInv'
  BY <1>7, SomeFaultIsFault, DirectFinalizeKeeps
<1>8. ASSUME NEW p \in PRs, Push(p) \/ Close(p) \/ Review(p) PROVE IInv'
  BY <1>8, PullsKeep, ZenonT(30)
<1>9. ASSUME NEW p \in PRs, NEW c \in Contexts, ReportHead(p, c) \/ ReportQueued(p, c) PROVE IInv'
  BY <1>9, ReportHeadKeeps, ReportQueuedKeeps, ZenonT(30)
<1>10. CASE UNCHANGED vars
  <2>1. UNCHANGED <<base, head, open, approved, merged, reports, entries, disk, unsaved, builds,
                    loaded, clock, enq, tick, dm>>
    BY <1>10 DEF vars, pullVars, queueVars
  <2> QED
    BY <2>1, Zenon DEF IInv, TypeOK, HeadsOK, StoresOK, LiveOK, MembersOK, MergesOK
<1> QED
  BY <1>1, <1>2, <1>3, <1>4, <1>5, <1>6, <1>7, <1>8, <1>9, <1>10 DEF Next
=============================================================================
