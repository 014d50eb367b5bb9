------------------------- MODULE MergeQueueProofs ---------------------------
(***************************************************************************)
(* The theorems about MergeQueue, for every set of pull requests, every    *)
(* gate configuration and every bound: that a landing tick and a direct    *)
(* merge implement ProtectedBase, whatever is pushed, reported, closed or  *)
(* crashes between their steps; that no change lands twice, a landing      *)
(* brings what was queued and nothing else, a merge is recorded for the    *)
(* head the pull request has, a restart finds the queue it left, and an    *)
(* attempt is spent by a red gate only.                                    *)
(***************************************************************************)
EXTENDS MergeQueueSteps, MergeQueueRetry, MergeQueueRefinement

(* The queue's index, the refs it persists to, the tick and the direct     *)
(* merges keep their shapes: a building entry always has a queue commit to *)
(* build on, and a landing always finds its members' entries.              *)
THEOREM TypeCorrect == Spec => []TypeOK
<1>1. IInv => TypeOK
  BY DEF IInv
<1> QED
  BY InitEstablishes, StepKeeps, <1>1, PTL DEF Spec

(* Where no tip read fails, nobody pushes to a pull request that is merged *)
(* directly and the base's protection asks of its replay what its own gate *)
(* asks, every step is one of the promise.                                 *)
GatesAgree == "tip" \notin Faults /\ \A p \in PRs : DirectlyGated(p)

\* The abstract specification means the same ancestry.
LEMMA SameAncestor ==
    ASSUME NEW a, NEW b PROVE Protected!IsAncestor(a, b) <=> IsAncestor(a, b)
BY ZenonT(30) DEF IsAncestor, Protected!IsAncestor

\* A commit green on every context is gated in the abstract sense.
LEMMA GatedIsGated ==
    ASSUME NEW from, NEW to, GatedBy(reports, from, to)
    PROVE  Protected!Gated(from, to)
BY ZenonT(30) DEF GatedBy, Protected!Gated, Protected!Green

\* A landing moves the base as ProtectedBase allows.
LEMMA LandMoveAdvances ==
    ASSUME IInv, GatesAgree, LandMove PROVE Protected!Advance
<1>1. /\ tick.pc = "move" /\ base = tick.members[1].base /\ IsAncestor(base, base')
      /\ base' = Top.sha /\ UNCHANGED <<merged, reports>>
  BY ZenonT(30) DEF LandMove, BaseAsExpected, pullVars
<1>2. Top = tick.members[Len(tick.members)]
  BY <1>1, MembersInOrder, ZenonT(30)
<1>3. GatedBy(reports, base, base')
  BY <1>1, <1>2, ZenonT(30) DEF IInv, MembersOK, GatesAgree
<1> QED
  BY <1>1, <1>3, GatedIsGated, SameAncestor DEF Protected!Advance

\* A direct merge moves the base as ProtectedBase allows.
LEMMA DirectMoveAdvances ==
    ASSUME IInv, GatesAgree, NEW p \in PRs, DirectMove(p), base' # base PROVE Protected!Advance
<1>1. /\ dm[p].pc = "move" /\ base = dm[p].from /\ base' = dm[p].to
      /\ UNCHANGED <<merged, reports>>
  BY ZenonT(30) DEF DirectMove, pullVars
<1>2. IsAncestor(base, base') /\ GatedBy(reports, base, base')
  BY <1>1, ZenonT(30) DEF IInv, MergesOK, GatesAgree
<1> QED
  BY <1>1, <1>2, GatedIsGated, SameAncestor DEF Protected!Advance

\* A landing records a merge as ProtectedBase allows.
LEMMA LandFinalizeRecords ==
    ASSUME IInv, NEW f, LandFinalize(f) PROVE Protected!Record
<1> DEFINE ms == Range(tick.members)
           done == {m \in ms : f # <<"record", m.pr>> /\ IsReady(m.pr, m.head)}
<1>1. /\ tick.pc = "finalize"
      /\ merged' = [p \in PRs |->
                  IF \E m \in done : m.pr = p
                  THEN (CHOOSE m \in done : m.pr = p).sha
                  ELSE merged[p]]
      /\ UNCHANGED <<base, reports>>
  BY ZenonT(30) DEF LandFinalize
<1>2. ASSUME NEW p \in PRs, merged'[p] # merged[p]
      PROVE  merged[p] = None /\ IsAncestor(merged'[p], base)
             /\ \E i \in DOMAIN merged'[p] : merged'[p][i].pr = p
  <2>1. \E m \in done : m.pr = p
    BY <1>1, <1>2
  <2> DEFINE m == CHOOSE m \in done : m.pr = p
  <2>2. m \in done /\ m.pr = p
    BY <2>1, ZenonT(30)
  <2>3. merged'[p] = m.sha
    BY <1>1, <2>1, ZenonT(30)
  <2>4. PICK i \in DOMAIN tick.members : m = tick.members[i]
    BY <2>2, ZenonT(30) DEF Range
  <2>5. merged[p] = None
    BY <2>2, ZenonT(30) DEF IsReady, IsOpen
  <2>6. IsAncestor(tick.members[i].sha, base) /\ Carries(tick.members[i].sha, tick.members[i].pr)
    BY <1>1, ZenonT(30) DEF IInv, MembersOK
  <2> HIDE DEF m
  <2> QED
    BY <2>2, <2>3, <2>4, <2>5, <2>6 DEF Carries
<1> QED
  BY <1>1, <1>2, SameAncestor, ZenonT(30) DEF Protected!Record

\* A direct merge records a merge as ProtectedBase allows.
LEMMA DirectRecords ==
    ASSUME IInv, NEW p \in PRs, NEW f, DirectFinalize(p, f)
    PROVE  Protected!Record
<1>1. merged \in [PRs -> Commit \cup {None}] /\ UNCHANGED <<base, reports>>
  BY ZenonT(30) DEF IInv, TypeOK, DirectFinalize
<1>2. dm[p].pc = "finalize"
      /\ (merged' = merged \/ (merged' = [merged EXCEPT ![p] = dm[p].to] /\ merged[p] = None))
  BY ZenonT(30) DEF DirectFinalize, IsReady, IsOpen
<1>3. IsAncestor(dm[p].to, base) /\ Carries(dm[p].to, p)
  BY <1>2, ZenonT(30) DEF IInv, MergesOK
<1> QED
  BY <1>1, <1>2, <1>3, SameAncestor DEF Protected!Record, Carries

\* Every step of the queue is a step of ProtectedBase or leaves it alone.
LEMMA StepRefines ==
    ASSUME IInv, GatesAgree, [Next]_vars
    PROVE  Protected!Next \/ UNCHANGED Protected!vars
<1> USE DEF Protected!Next, Protected!vars
<1>1. CASE LandMove
  BY <1>1, LandMoveAdvances, ZenonT(30)
<1>2. ASSUME NEW f, LandFinalize(f) PROVE Protected!Record
  BY <1>2, LandFinalizeRecords, ZenonT(30)
<1>3. ASSUME NEW f, TickStart(f) \/ LandRefused(f) \/ RestackStep(f) \/ TickRetry(f) \/ LandBlocked(f)
                       \/ LandNotBelow(f) \/ LandRecord(f)
      PROVE  UNCHANGED <<base, merged, reports>>
  BY <1>3, Zenon DEF TickStart, LandRefused, RestackStep, TickRetry, LandBlocked, LandNotBelow, LandRecord,
              outsideQueue, pullVars
<1>4. ASSUME RestackDone \/ TickLand \/ TickWait \/ LandReady PROVE UNCHANGED <<base, merged, reports>>
  BY <1>4, Zenon DEF RestackDone, TickLand, TickWait, LandReady, outsideQueue, pullVars
<1>5. CASE TickStep
  BY <1>1, <1>2, <1>3, <1>4, <1>5 DEF TickStep
<1>6. CASE Load \/ Crash
  BY <1>6, ZenonT(30) DEF Load, Crash, pullVars
<1>7. ASSUME NEW p \in PRs, NEW f,
             EnqueueRead(p) \/ Enqueue(p, f) \/ Dequeue(p, f)
                \/ DirectGate(p) \/ DirectAlreadyIn(p) \/ DirectRead(p) \/ DirectRefused(p)
      PROVE  UNCHANGED <<base, merged, reports>>
  BY <1>7, ZenonT(30) DEF EnqueueRead, Enqueue, EnqueueDone, Dequeue, DirectGate, DirectAlreadyIn, DirectRead,
              DirectRefused, outsideQueue, pullVars
<1>8. ASSUME NEW p \in PRs, Push(p) \/ Close(p) \/ Review(p) PROVE UNCHANGED <<base, merged, reports>>
  BY <1>8, ZenonT(30) DEF Push, Close, Review, pullsOnly
<1>9. ASSUME NEW p \in PRs, DirectMove(p) PROVE Protected!Advance \/ UNCHANGED <<base, merged, reports>>
  <2>1. UNCHANGED <<merged, reports>>
    BY <1>9, ZenonT(30) DEF DirectMove, pullVars
  <2> QED
    BY <1>9, <2>1, DirectMoveAdvances, ZenonT(30)
<1>10. ASSUME NEW p \in PRs, NEW f, DirectFinalize(p, f) PROVE Protected!Record
  BY <1>10, DirectRecords, ZenonT(30)
<1>11. ASSUME NEW p \in PRs, NEW c \in Contexts, ReportHead(p, c) \/ ReportQueued(p, c)
       PROVE  Protected!Report
  BY <1>11, ZenonT(30) DEF ReportHead, ReportQueued, Report, Protected!Report, pullVars
<1>12. CASE UNCHANGED vars
  BY <1>12, ZenonT(30) DEF vars, pullVars
<1> QED
  BY <1>5, <1>6, <1>7, <1>8, <1>9, <1>10, <1>11, <1>12 DEF Next

(* land_queued_batch and merge_pull implement the promise of               *)
(* docs/merge-queue.md for any number of pull requests, pushes, faults and *)
(* crashes: the base only fast-forwards, to a commit green on the contexts *)
(* of everything that lands with it, and a merge is recorded once, at a    *)
(* commit of the base that carries it.                                     *)
THEOREM QueueProtectsBase ==
    ASSUME GatesAgree PROVE Spec => BaseIsProtected
<1>1. Init => Protected!Init
  BY DEF Init, Protected!Init
<1>2. IInv /\ [Next]_vars => [Protected!Next]_(Protected!vars)
  BY StepRefines, ZenonT(30)
<1> QED
  BY InitEstablishes, StepKeeps, <1>1, <1>2, PTL DEF Spec, BaseIsProtected, Protected!Spec

(* For any number of pull requests, pushes, faults and crashes no change   *)
(* is on the base twice: a replay of what landed before a crash cut its    *)
(* record short is always refused by ensure_same_change.                   *)
THEOREM NothingLandsTwice == Spec => []NoDoubleLanding
<1>1. IInv /\ HistoryOK => NoDoubleLanding
  <2> SUFFICES ASSUME IInv, HistoryOK PROVE NoDoubleLanding
    BY Zenon
  <2>1. base \in Held /\ base # None
    BY InHand, NoneIsNoCommit, ZenonT(30) DEF IInv, TypeOK
  <2> QED
    BY <2>1, ZenonT(30) DEF HistoryOK, Sound, Unique, NoDoubleLanding
<1>2. IInv /\ HistoryOK /\ [Next]_vars => HistoryOK'
  BY HistoryStep, ZenonT(30)
<1> QED
  BY InitEstablishes, StepKeeps, InitHistory, <1>1, <1>2, PTL DEF Spec

-----------------------------------------------------------------------------
(* What a restart finds.                                                   *)

\* A save that is not lost reaches the refs.
LEMMA SaveResumes ==
    ASSUME RestartResumesQueue, NEW new, NEW f, Save(new, f), loaded' = loaded
    PROVE  RestartResumesQueue'
<1>1. ASSUME loaded, NEW p \in PRs, p \notin unsaved' PROVE entries'[p] = disk'[p]
  <2>1. CASE new[p] = entries[p]
    BY <1>1, <2>1, ZenonT(30) DEF RestartResumesQueue, Save
  <2>2. CASE new[p] # entries[p]
    BY <1>1, <2>2 DEF Save
  <2> QED
    BY <2>1, <2>2, ZenonT(30)
<1> QED
  BY <1>1, ZenonT(30) DEF RestartResumesQueue

(* Whatever step the process dies in, the refs hold the queue it had: the  *)
(* index and the refs differ only in entries whose last write failed.      *)
THEOREM RestartAlwaysResumes == Spec => []RestartResumesQueue
<1>1. Init => RestartResumesQueue
  BY DEF Init, RestartResumesQueue
<1>2. ASSUME IInv, RestartResumesQueue, [Next]_vars PROVE RestartResumesQueue'
  <2>1. ASSUME UNCHANGED <<entries, disk, unsaved, loaded>> PROVE RestartResumesQueue'
    BY <1>2, <2>1, ZenonT(30) DEF RestartResumesQueue
  <2>2. ASSUME NEW f, TickStart(f) \/ LandRefused(f) \/ LandBlocked(f) \/ LandNotBelow(f)
                         \/ LandRecord(f)
        PROVE  RestartResumesQueue'
    <3>1. loaded' = loaded
      BY <2>2, ZenonT(30) DEF TickStart, LandRefused, LandBlocked, LandNotBelow, LandRecord, outsideQueue
    <3> QED
      BY <1>2, <2>2, <3>1, TickStartWrites, LandStopsWrites, LandRecordWrites, SaveResumes
  <2>3. ASSUME NEW f, RestackStep(f) \/ TickRetry(f) PROVE RestartResumesQueue'
    <3>1. loaded' = loaded
      BY <2>3, ZenonT(30) DEF RestackStep, TickRetry, outsideQueue
    <3>2. \E new : Save(new, f)
      BY <2>3, Zenon DEF RestackStep, TickRetry, BuildOrDequeue
    <3> QED
      BY <1>2, <3>1, <3>2, SaveResumes
  <2>4. ASSUME RestackDone \/ TickLand \/ TickWait \/ LandReady \/ LandMove PROVE RestartResumesQueue'
    BY <2>1, <2>4, ZenonT(30) DEF RestackDone, TickLand, TickWait, LandReady, LandMove, outsideQueue, queueVars
  <2>5. ASSUME NEW f, LandFinalize(f) PROVE RestartResumesQueue'
    BY <2>1, <2>5, ZenonT(30) DEF LandFinalize, queueVars
  <2>6. CASE TickStep
    BY <2>2, <2>3, <2>4, <2>5, <2>6 DEF TickStep
  <2>7. CASE Load \/ Crash
    BY <2>7, ZenonT(30) DEF Load, Crash, RestartResumesQueue
  <2>8. ASSUME NEW p \in PRs, NEW f, Enqueue(p, f) \/ Dequeue(p, f) PROVE RestartResumesQueue'
    <3>1. loaded' = loaded
      BY <2>8, ZenonT(30) DEF Enqueue, EnqueueDone, Dequeue, outsideQueue
    <3>2. UNCHANGED queueVars \/ \E new : Save(new, f)
      BY <2>8, Zenon DEF Enqueue, Dequeue
    <3> QED
      BY <1>2, <2>1, <3>1, <3>2, SaveResumes DEF queueVars
  <2>9. ASSUME NEW p \in PRs, NEW f,
               EnqueueRead(p) \/ DirectGate(p) \/ DirectAlreadyIn(p) \/ DirectRead(p)
                  \/ DirectRefused(p) \/ DirectMove(p) \/ DirectFinalize(p, f)
        PROVE  RestartResumesQueue'
    BY <2>1, <2>9, ZenonT(30) DEF EnqueueRead, DirectGate, DirectAlreadyIn, DirectRead, DirectRefused,
                      DirectMove, DirectFinalize, queueVars
  <2>10. ASSUME NEW p \in PRs, NEW c,
                Push(p) \/ Close(p) \/ Review(p) \/ ReportHead(p, c) \/ ReportQueued(p, c)
         PROVE  RestartResumesQueue'
    BY <2>1, <2>10, ZenonT(30) DEF Push, Close, Review, ReportHead, ReportQueued, Report, pullsOnly, queueVars
  <2>11. CASE UNCHANGED vars
    BY <2>1, <2>11, ZenonT(30) DEF vars, queueVars
  <2> QED
    BY <1>2, <2>6, <2>7, <2>8, <2>9, <2>10, <2>11 DEF Next
<1> QED
  BY InitEstablishes, StepKeeps, <1>1, <1>2, PTL DEF Spec

-----------------------------------------------------------------------------
(* What a record of a merge says, and what a landing brings.               *)

\* Only a pull request that may be merged directly has a direct merge.
DirectOnly == \A p \in PRs : dm[p].pc # "idle" => p \in Direct

\* A commit that carries what a head was pushed for has that change.
LEMMA CarriesChange ==
    ASSUME NEW c \in Commit, NEW h, CarriesLast(c, h)
    PROVE  [pr |-> Last(h).pr, ver |-> Last(h).ver] \in Changes(c)
<1>1. PICK i \in DOMAIN c : c[i].pr = h[Len(h)].pr /\ c[i].ver = h[Len(h)].ver
  BY ZenonT(30) DEF CarriesLast, SameChange
<1> QED
  BY <1>1, ZenonT(30) DEF Changes, Last

\* A landing records a member at a commit that carries the head it has.
LEMMA LandingCarriesHead ==
    ASSUME IInv, MergedCarriesHead, NEW f, LandFinalize(f) PROVE MergedCarriesHead'
<1> DEFINE ms == Range(tick.members)
           done == {m \in ms : f # <<"record", m.pr>> /\ IsReady(m.pr, m.head)}
<1>1. /\ tick.pc = "finalize" /\ head' = head
      /\ merged' = [p \in PRs |->
                  IF \E m \in done : m.pr = p
                  THEN (CHOOSE m \in done : m.pr = p).sha
                  ELSE merged[p]]
  BY ZenonT(30) DEF LandFinalize
<1>2. ASSUME NEW m \in done
      PROVE  /\ head[m.pr] = m.head /\ [pr |-> m.pr, ver |-> Last(head[m.pr]).ver] \in Changes(m.sha)
  <2>1. PICK i \in DOMAIN tick.members : m = tick.members[i]
    BY ZenonT(30) DEF Range
  <2>2. m \in LandingMember /\ m.pr \in PRs
    BY <1>1, <2>1, MemberEntry, ZenonT(30)
  <2>3. m.sha \in Commit /\ head[m.pr] = m.head /\ CarriesLast(m.sha, m.head)
    BY <1>1, <2>1, <2>2 DEF IsReady, LandingMember, IInv, MembersOK
  <2>4. Last(head[m.pr]).pr = m.pr
    BY <2>2, ZenonT(30) DEF IInv, HeadsOK, HeadOf, Last
  <2> QED
    BY <2>3, <2>4, CarriesChange, ZenonT(30)
<1>3. ASSUME NEW p \in PRs, merged'[p] # None
      PROVE  [pr |-> p, ver |-> Last(head[p]).ver] \in Changes(merged'[p])
  <2> HIDE DEF done
  <2>1. CASE \E m \in done : m.pr = p
    <3> DEFINE m == CHOOSE x \in done : x.pr = p
    <3>1. m \in done /\ m.pr = p
      BY <2>1, ZenonT(30)
    <3>2. merged'[p] = m.sha
      BY <1>1, <2>1, ZenonT(30)
    <3> HIDE DEF m
    <3> QED
      BY <1>2, <3>1, <3>2, ZenonT(30)
  <2>2. CASE ~\E m \in done : m.pr = p
    BY <1>1, <1>3, <2>2, ZenonT(30) DEF MergedCarriesHead
  <2> QED
    BY <2>1, <2>2, ZenonT(30)
<1> QED
  BY <1>1, <1>3, ZenonT(30) DEF MergedCarriesHead

\* So does a direct merge nobody pushes to.
LEMMA DirectFinalizeRecords ==
    ASSUME IInv, MergedCarriesHead, DirectOnly, Direct \cap Pushed = {},
           NEW p \in PRs, NEW f, DirectFinalize(p, f)
    PROVE  MergedCarriesHead'
<1>1. /\ dm[p].pc = "finalize" /\ head' = head
      /\ merged' = merged \/ merged' = [merged EXCEPT ![p] = dm[p].to]
  BY ZenonT(30) DEF DirectFinalize
<1>2. p \notin Pushed
  BY <1>1, ZenonT(30) DEF DirectOnly
<1>3. dm[p].to \in Commit /\ CarriesLast(dm[p].to, head[p])
  BY <1>1, <1>2 DEF IInv, MergesOK
<1>4. Last(head[p]).pr = p
  BY ZenonT(30) DEF IInv, HeadsOK, HeadOf, Last
<1>5. [pr |-> p, ver |-> Last(head[p]).ver] \in Changes(dm[p].to)
  BY <1>3, <1>4, CarriesChange, ZenonT(30)
<1>6. merged \in [PRs -> Commit \cup {None}]
  BY ZenonT(30) DEF IInv, TypeOK
<1> QED
  BY <1>1, <1>5, <1>6 DEF MergedCarriesHead

\* A push finds an open pull request, so one that is not merged.
LEMMA PushRecords ==
    ASSUME IInv, MergedCarriesHead, NEW p \in PRs, Push(p) PROVE MergedCarriesHead'
<1>1. merged' = merged /\ merged[p] = None /\ \A q \in PRs : q # p => head'[q] = head[q]
  BY ZenonT(30) DEF Push, IsOpen, pullsOnly, IInv, TypeOK
<1> QED
  BY <1>1, ZenonT(30) DEF MergedCarriesHead

(* Where nobody pushes to a pull request that is merged directly, one is   *)
(* recorded merged only at a commit that carries the head it has, for any  *)
(* number of pull requests, pushes, faults and crashes: finalize_merge     *)
(* compares the head it was given with the one there is.                   *)
THEOREM MergesAlwaysCarryHead ==
    ASSUME Direct \cap Pushed = {} PROVE Spec => []MergedCarriesHead
<1>1. Init => MergedCarriesHead /\ DirectOnly
  <2> SUFFICES ASSUME Init PROVE MergedCarriesHead /\ DirectOnly
    BY Zenon
  <2>1. merged = [p \in PRs |-> None] /\ dm = [p \in PRs |-> NoMerge]
    BY Zenon DEF Init
  <2>2. MergedCarriesHead
    BY <2>1, ZenonT(30) DEF MergedCarriesHead
  <2>3. DirectOnly
    BY <2>1, ZenonT(30) DEF DirectOnly, NoMerge
  <2> QED
    BY <2>2, <2>3
<1>2. ASSUME IInv, DirectOnly, [Next]_vars PROVE DirectOnly'
  <2>1. dm \in [PRs -> Merge]
    BY <1>2, ZenonT(30) DEF IInv, TypeOK
  <2>2. ASSUME UNCHANGED dm PROVE DirectOnly'
    BY <1>2, <2>2, ZenonT(30) DEF DirectOnly
  <2>3. CASE TickStep
    BY <2>2, <2>3, Zenon DEF TickStep, TickStart, LandRefused, RestackStep, RestackDone, TickLand, TickRetry,
              TickWait, LandReady, LandMove, LandBlocked, LandNotBelow, LandFinalize, LandRecord,
              outsideQueue
  <2>4. CASE Load \/ Crash
    BY <1>2, <2>4 DEF Load, Crash, DirectOnly, NoMerge
  <2>5. ASSUME NEW p \in PRs, NEW f, EnqueueRead(p) \/ Enqueue(p, f) \/ Dequeue(p, f) PROVE DirectOnly'
    BY <2>2, <2>5, ZenonT(30) DEF EnqueueRead, Enqueue, EnqueueDone, Dequeue, outsideQueue
  <2>6. ASSUME NEW p \in PRs, NEW f,
               DirectGate(p) \/ DirectAlreadyIn(p) \/ DirectRead(p) \/ DirectRefused(p)
                  \/ DirectMove(p) \/ DirectFinalize(p, f)
        PROVE  DirectOnly'
    <3>1. p \in Direct
      BY <1>2, <2>6, ZenonT(30) DEF DirectOnly, DirectGate, DirectAlreadyIn, DirectRead, DirectRefused,
                        DirectMove, DirectFinalize
    <3>2. \A q \in PRs : q # p => dm'[q] = dm[q]
      BY <2>1, <2>6, ZenonT(30) DEF DirectGate, DirectAlreadyIn, DirectRead, DirectRefused, DirectMove,
                        DirectFinalize
    <3> QED
      BY <1>2, <3>1, <3>2 DEF DirectOnly
  <2>7. ASSUME NEW p \in PRs, NEW c,
               Push(p) \/ Close(p) \/ Review(p) \/ ReportHead(p, c) \/ ReportQueued(p, c)
        PROVE  DirectOnly'
    BY <2>2, <2>7, ZenonT(30) DEF Push, Close, Review, ReportHead, ReportQueued, Report, pullsOnly
  <2>8. CASE UNCHANGED vars
    BY <2>2, <2>8, ZenonT(30) DEF vars
  <2> QED
    BY <1>2, <2>3, <2>4, <2>5, <2>6, <2>7, <2>8 DEF Next
<1>3. ASSUME IInv, DirectOnly, MergedCarriesHead, [Next]_vars PROVE MergedCarriesHead'
  <2>1. ASSUME UNCHANGED <<head, merged>> PROVE MergedCarriesHead'
    BY <1>3, <2>1, ZenonT(30) DEF MergedCarriesHead
  <2>2. ASSUME NEW f, TickStart(f) \/ LandRefused(f) \/ RestackStep(f) \/ RestackDone \/ TickLand
                         \/ TickRetry(f) \/ TickWait \/ LandReady \/ LandMove \/ LandBlocked(f)
                         \/ LandNotBelow(f) \/ LandRecord(f)
        PROVE  MergedCarriesHead'
    BY <2>1, <2>2, ZenonT(30) DEF TickStart, LandRefused, RestackStep, RestackDone, TickLand, TickRetry,
              TickWait, LandReady, LandMove, LandBlocked, LandNotBelow, LandRecord,
              outsideQueue, pullVars
  <2>3. CASE TickStep
    BY <1>3, <2>2, <2>3, LandingCarriesHead DEF TickStep
  <2>4. CASE Load \/ Crash
    BY <2>1, <2>4, ZenonT(30) DEF Load, Crash, pullVars
  <2>5. ASSUME NEW p \in PRs, NEW f,
               EnqueueRead(p) \/ Enqueue(p, f) \/ Dequeue(p, f) \/ DirectGate(p)
                  \/ DirectAlreadyIn(p) \/ DirectRead(p) \/ DirectRefused(p) \/ DirectMove(p)
        PROVE  MergedCarriesHead'
    BY <2>1, <2>5 DEF EnqueueRead, Enqueue, EnqueueDone, Dequeue, DirectGate, DirectAlreadyIn,
              DirectRead, DirectRefused, DirectMove, outsideQueue, pullVars
  <2>6. ASSUME NEW p \in PRs, NEW f, DirectFinalize(p, f) PROVE MergedCarriesHead'
    BY <1>3, <2>6, DirectFinalizeRecords
  <2>7. ASSUME NEW p \in PRs, Push(p) PROVE MergedCarriesHead'
    BY <1>3, <2>7, PushRecords
  <2>8. ASSUME NEW p \in PRs, NEW c, Close(p) \/ Review(p) \/ ReportHead(p, c) \/ ReportQueued(p, c)
        PROVE  MergedCarriesHead'
    BY <2>1, <2>8, ZenonT(30) DEF Close, Review, ReportHead, ReportQueued, Report, pullsOnly, pullVars
  <2>9. CASE UNCHANGED vars
    BY <2>1, <2>9, ZenonT(30) DEF vars, pullVars
  <2> QED
    BY <1>3, <2>3, <2>4, <2>5, <2>6, <2>7, <2>8, <2>9 DEF Next
<1> QED
  BY InitEstablishes, StepKeeps, <1>1, <1>2, <1>3, PTL DEF Spec

(* Where no tip read fails, a landing brings exactly its members' changes  *)
(* to the base, for any number of pull requests: what left the queue below *)
(* the top is never carried along.                                         *)
THEOREM LandingBringsItsMembers ==
    ASSUME "tip" \notin Faults PROVE Spec => OnlyQueuedChangesLand
<1> DEFINE M == UNION {{[pr |-> Last(m.head).pr, ver |-> Last(m.head).ver]} : m \in Range(tick.members)}
<1>1. ASSUME IInv, LandMove PROVE Changes(base') \ Changes(base) = M \ Changes(base)
  <2> DEFINE t == Top.sha
  <2>1. /\ tick.pc = "move" /\ base = tick.members[1].base /\ IsAncestor(base, t) /\ base' = t
        /\ \A i \in DOMAIN tick.members : IsAncestor(tick.members[i].sha, t)
    BY <1>1, ZenonT(30) DEF LandMove, BaseAsExpected, BelowTop
  <2>2. /\ Len(tick.members) \in DOMAIN tick.members /\ Top = tick.members[Len(tick.members)]
        /\ t \in Commit /\ tick.members \in Seq(LandingMember)
    BY <1>1, <2>1, MembersInOrder, ZenonT(30)
  <2>3. BroughtBy(tick.members, base, t)
    BY <1>1, <2>1, <2>2 DEF IInv, MembersOK
  <2>4. t \in Seq(Patch) /\ base \in Seq(Patch)
    BY <1>1, <2>2, CommitIsPatches DEF IInv, TypeOK
  <2> HIDE DEF t
  <2>5. ASSUME NEW x \in Changes(t), x \notin Changes(base) PROVE x \in M
    <3>1. PICK j \in DOMAIN t : x = [pr |-> t[j].pr, ver |-> t[j].ver]
      BY <2>5, ZenonT(30) DEF Changes
    <3>2. j \in Len(base) + 1 .. Len(t)
      <4>1. CASE j <= Len(base)
        <5>1. j \in DOMAIN base /\ t[j] = base[j]
          BY <2>1, <2>4, <4>1 DEF IsAncestor
        <5> QED
          BY <2>5, <3>1, <5>1 DEF Changes
      <4>2. CASE j > Len(base)
        BY <2>4, <4>2
      <4> QED
        BY <2>4, <4>1, <4>2
    <3>3. PICK i \in DOMAIN tick.members :
             SameChange(t[j], tick.members[i].head[Len(tick.members[i].head)])
      BY <2>3, <3>2, ZenonT(30) DEF BroughtBy
    <3>4. x = [pr |-> Last(tick.members[i].head).pr, ver |-> Last(tick.members[i].head).ver]
      BY <3>1, <3>3, ZenonT(30) DEF SameChange, Last
    <3>5. tick.members[i] \in Range(tick.members)
      BY <3>3, ZenonT(30) DEF Range
    <3> QED
      BY <3>4, <3>5, Zenon
  <2>6. ASSUME NEW x \in M PROVE x \in Changes(t)
    <3>1. PICK m \in Range(tick.members) : x = [pr |-> Last(m.head).pr, ver |-> Last(m.head).ver]
      BY Zenon
    <3>2. PICK i \in DOMAIN tick.members : m = tick.members[i]
      BY ZenonT(30) DEF Range
    <3>3. IsAncestor(m.sha, t) /\ CarriesLast(m.sha, m.head) /\ m.sha \in Commit
      <4>1. m \in LandingMember /\ IsAncestor(m.sha, t)
        BY <2>1, <2>2, <3>2
      <4>2. CarriesLast(m.sha, m.head)
        BY <1>1, <2>1, <3>2, ZenonT(30) DEF IInv, MembersOK
      <4> QED
        BY <4>1, <4>2, ZenonT(30) DEF LandingMember
    <3>4. CarriesLast(t, m.head)
      <4>1. PICK k \in DOMAIN m.sha : SameChange(m.sha[k], m.head[Len(m.head)])
        BY <3>3, ZenonT(30) DEF CarriesLast
      <4>2. k \in DOMAIN t /\ t[k] = m.sha[k]
        BY <2>4, <3>3, CommitIsPatches DEF IsAncestor
      <4> QED
        BY <4>1, <4>2, ZenonT(30) DEF CarriesLast
    <3> QED
      BY <2>2, <3>1, <3>4, CarriesChange DEF t
  <2> QED
    BY <2>1, <2>5, <2>6
<1>2. IInv /\ [Next]_vars => [LandMove => Changes(base') \ Changes(base) = M \ Changes(base)]_vars
  BY <1>1
<1> QED
  BY InitEstablishes, StepKeeps, <1>2, PTL DEF Spec, OnlyQueuedChangesLand

-----------------------------------------------------------------------------
(* What an attempt is spent on.                                            *)

(* Where no tip read fails, an entry's attempts are spent by its own red   *)
(* gates only, for any number of pull requests, rebuilds, faults and       *)
(* crashes: retry_or_fail never fails an entry for what happened to        *)
(* another, and never gives one more than MAX_ATTEMPTS.                    *)
THEOREM RetriesAreEarned ==
    ASSUME "tip" \notin Faults PROVE Spec => []RetryIsSpentOnRedGates
<1>1. Init => RetryOK
  <2> SUFFICES ASSUME Init PROVE RetryOK
    BY Zenon
  <2>1. RedReports(reports) = {}
    BY DEF Init, RedReports
  <2>2. IsFiniteSet(RedReports(reports))
    BY <2>1, FS_EmptySet, ZenonT(30)
  <2>3. StackSpent
    BY ZenonT(30) DEF Init, Resting, StackSpent, Restacking
  <2>4. \A p \in PRs : entries[p] = None /\ disk[p] = None
    BY ZenonT(30) DEF Init
  <2> QED
    BY <2>2, <2>3, <2>4, ZenonT(30) DEF RetryOK, Retried
<1>2. IInv /\ IInv' /\ HistoryOK /\ RetryOK /\ [Next]_vars => RetryOK'
  BY RetryStep, ZenonT(30)
<1>3. IInv /\ HistoryOK /\ [Next]_vars => HistoryOK'
  BY HistoryStep, ZenonT(30)
<1>4. IInv /\ RetryOK => RetryIsSpentOnRedGates
  BY RetryInv
<1> QED
  BY InitEstablishes, StepKeeps, InitHistory, <1>1, <1>2, <1>3, <1>4, PTL DEF Spec
=============================================================================
