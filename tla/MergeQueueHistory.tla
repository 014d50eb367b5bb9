------------------------- MODULE MergeQueueHistory --------------------------
(***************************************************************************)
(* Every step of MergeQueue keeps the commits the forge has in hand sound: *)
(* none carries a change twice, a change that is ahead of its pull request,*)
(* or a stamp that was not given.  On the way: which entries an operation  *)
(* settles, and which one it rebuilds.                                     *)
(***************************************************************************)
EXTENDS MergeQueueInvariant

(***************************************************************************)
(* No change twice.  That holds of the base because it holds of every      *)
(* commit the forge has in hand, and a push can keep it only because no    *)
(* commit is ahead of the pull request's head.                             *)
(***************************************************************************)
Unique(c) == \A i, j \in DOMAIN c : SameChange(c[i], c[j]) => i = j

Latest(hs, p) == hs[p][Len(hs[p])].ver

\* No change of c is newer than the head of its pull request.
Known(c, hs) == \A i \in DOMAIN c : c[i].ver <= Latest(hs, c[i].pr)

\* Every stamp of c was given: the forge made no replay in c later than builds says.
Stamped(c, bs) == \A i \in DOMAIN c : c[i].stamp[2] <= bs[c[i].stamp[1]]

Sound(c, hs, bs) == Unique(c) /\ Known(c, hs) /\ Stamped(c, bs)

Parts(e) == IF e = None THEN {} ELSE {e.head, e.base, e.sha}

Kept(es) == UNION {Parts(es[p]) : p \in PRs}

\* The commits in hand.
Held ==
    {base, tick.tip} \cup {head[p] : p \in PRs} \cup {enq[p] : p \in PRs}
        \cup Kept(entries) \cup Kept(disk)
        \cup {tick.members[i].sha : i \in DOMAIN tick.members} \cup {dm[p].to : p \in PRs}

HistoryOK ==
    /\ \A c \in Held : c # None => Sound(c, head, builds)
    /\ \A r \in reports : Stamped(r.sha, builds)

-----------------------------------------------------------------------------
(* A replay onto a commit that does not carry the change.                  *)

\* A commit and the patch on top of it.
LEMMA OnePatchMore ==
    ASSUME NEW b \in Seq(Patch), NEW x \in Patch
    PROVE  LET h == Append(b, x) IN
           /\ h \in Seq(Patch) /\ Len(h) = Len(b) + 1 /\ h[Len(h)] = x
           /\ DOMAIN h = 1 .. Len(b) + 1 /\ \A i \in 1 .. Len(b) : h[i] = b[i]
OBVIOUS

\* Every entry of the stack but the first has one below it.
LEMMA TheOneBelow ==
    ASSUME NEW s \in Seq(PRs), NEW i \in DOMAIN s, i # 1 PROVE i - 1 \in DOMAIN s
OBVIOUS

\* What ensure_same_change lets through carries no change twice.
LEMMA ReplayUnique ==
    ASSUME NEW s \in Stamp, NEW a \in Commit, NEW h \in Commit, Unique(a), Unique(h),
           ~Mismatch(a, h)
    PROVE  Unique(Replay(a, h, s))
<1>0. a \in Seq(Patch) /\ h \in Seq(Patch) /\ Patch = PatchOf(PRs, Stamp)
  BY CommitIsPatches
<1>1. CASE IsAncestor(a, h)
  BY <1>1 DEF Replay
<1>2. CASE ~IsAncestor(a, h)
  <2> DEFINE r == Restamped(Picks(a, h), s)
             k == Shared(a, h)
  <2>1. /\ r \in Seq(Patch) /\ Replay(a, h, s) = a \o r /\ Len(r) = Len(h) - k
        /\ \A i \in 1 .. Len(r) : SameChange(r[i], h[k + i])
    BY <1>0, <1>2, ReplayShape
  <2>2. k \in Nat /\ k <= Len(a) /\ k <= Len(h) /\ \A i \in 1 .. k : a[i] = h[i]
    BY <1>0, SharedHistory
  <2>3. /\ Picks(a, h) \in Seq(Patch) /\ Len(Picks(a, h)) = Len(h) - k
        /\ \A i \in 1 .. Len(Picks(a, h)) : Picks(a, h)[i] = h[k + i]
    BY <1>0, PicksType
  <2>4. \A i \in 1 .. Len(h) - k, j \in 1 .. Len(a) : j > k => ~SameChange(h[k + i], a[j])
    BY <1>0, <2>3 DEF Mismatch
  <2> HIDE DEF r, k
  <2>5. ASSUME NEW i \in 1 .. Len(r), NEW j \in 1 .. Len(a) PROVE ~SameChange(r[i], a[j])
    <3>1. SameChange(r[i], h[k + i]) /\ k + i \in 1 .. Len(h) /\ i \in 1 .. Len(h) - k
      BY <1>0, <2>1, <2>2
    <3>2. CASE j > k
      BY <2>4, <3>1, <3>2 DEF SameChange
    <3>3. CASE j <= k
      <4>1. a[j] = h[j] /\ j \in 1 .. Len(h) /\ j # k + i
        BY <1>0, <2>2, <3>3
      <4>2. ~SameChange(h[k + i], h[j])
        BY <1>0, <3>1, <4>1 DEF Unique
      <4> QED
        BY <3>1, <4>1, <4>2 DEF SameChange
    <3> QED
      BY <2>2, <3>2, <3>3
  <2>6. ASSUME NEW i \in 1 .. Len(r), NEW j \in 1 .. Len(r), SameChange(r[i], r[j]) PROVE i = j
    <3>1. SameChange(r[i], h[k + i]) /\ SameChange(r[j], h[k + j])
          /\ k + i \in 1 .. Len(h) /\ k + j \in 1 .. Len(h)
      BY <1>0, <2>1, <2>2
    <3>2. SameChange(h[k + i], h[k + j])
      BY <2>6, <3>1, Zenon DEF SameChange
    <3>3. k + i = k + j
      BY <1>0, <3>1, <3>2 DEF Unique
    <3> QED
      BY <2>2, <3>3
  <2>7. /\ DOMAIN (a \o r) = 1 .. Len(a) + Len(r)
        /\ \A i \in 1 .. Len(a) : (a \o r)[i] = a[i]
        /\ \A i \in Len(a) + 1 .. Len(a) + Len(r) :
              (a \o r)[i] = r[i - Len(a)] /\ i - Len(a) \in 1 .. Len(r)
    BY <1>0, <2>1
  <2>8. ASSUME NEW i \in DOMAIN (a \o r), NEW j \in DOMAIN (a \o r),
               SameChange((a \o r)[i], (a \o r)[j])
        PROVE  i = j
    <3>1. CASE i <= Len(a) /\ j <= Len(a)
      BY <1>0, <2>1, <2>7, <2>8, <3>1 DEF Unique
    <3>2. CASE i > Len(a) /\ j > Len(a)
      <4>1. i - Len(a) = j - Len(a)
        BY <1>0, <2>1, <2>6, <2>7, <2>8, <3>2
      <4> QED
        BY <1>0, <2>1, <2>7, <4>1
    <3>3. CASE i <= Len(a) /\ j > Len(a)
      <4>1. (a \o r)[i] = a[i] /\ i \in 1 .. Len(a)
        BY <1>0, <2>1, <2>7, <3>3
      <4>2. (a \o r)[j] = r[j - Len(a)] /\ j - Len(a) \in 1 .. Len(r)
        BY <1>0, <2>1, <2>7, <3>3
      <4> QED
        BY <2>5, <2>8, <4>1, <4>2 DEF SameChange
    <3>4. CASE i > Len(a) /\ j <= Len(a)
      <4>1. (a \o r)[j] = a[j] /\ j \in 1 .. Len(a)
        BY <1>0, <2>1, <2>7, <3>4
      <4>2. (a \o r)[i] = r[i - Len(a)] /\ i - Len(a) \in 1 .. Len(r)
        BY <1>0, <2>1, <2>7, <3>4
      <4> QED
        BY <2>5, <2>8, <4>1, <4>2
    <3> QED
      BY <1>0, <2>1, <2>7, <3>1, <3>2, <3>3, <3>4
  <2> QED
    BY <2>1, <2>8 DEF Unique
<1> QED
  BY <1>1, <1>2

\* Every commit of a replay is the parent's or a pick of the head's.
LEMMA ReplayParts ==
    ASSUME NEW s \in Stamp, NEW a \in Commit, NEW h \in Commit,
           NEW j \in DOMAIN Replay(a, h, s)
    PROVE  \/ \E i \in DOMAIN a : Replay(a, h, s)[j] = a[i]
           \/ IsAncestor(a, h) /\ \E i \in DOMAIN h : Replay(a, h, s)[j] = h[i]
           \/ /\ ~IsAncestor(a, h)
              /\ Replay(a, h, s)[j].stamp = s
              /\ \E i \in DOMAIN h : SameChange(Replay(a, h, s)[j], h[i])
<1>0. a \in Seq(Patch) /\ h \in Seq(Patch) /\ Patch = PatchOf(PRs, Stamp)
  BY CommitIsPatches
<1>1. CASE IsAncestor(a, h)
  BY <1>1, ZenonT(30) DEF Replay
<1>2. CASE ~IsAncestor(a, h)
  <2> DEFINE r == Restamped(Picks(a, h), s)
             k == Shared(a, h)
  <2>1. /\ r \in Seq(Patch) /\ Replay(a, h, s) = a \o r /\ Len(r) = Len(h) - k
        /\ \A i \in 1 .. Len(r) : SameChange(r[i], h[k + i])
    BY <1>0, <1>2, ReplayShape
  <2>2. k \in Nat /\ k <= Len(h)
    BY <1>0, SharedHistory
  <2>3. \A i \in 1 .. Len(r) : r[i].stamp = s
    <3>1. Picks(a, h) \in Seq(Patch) /\ Len(Picks(a, h)) = Len(r)
      BY <1>0, <2>1, PicksType
    <3>2. \A i \in 1 .. Len(r) : Picks(a, h)[i] \in PatchOf(PRs, Stamp)
      BY <1>0, <3>1
    <3>3. \A i \in 1 .. Len(r) : r[i] = [Picks(a, h)[i] EXCEPT !.stamp = s]
      BY <3>1 DEF Restamped
    <3> QED
      BY <3>2, <3>3, Zenon DEF PatchOf
  <2> HIDE DEF r, k
  <2>4. /\ DOMAIN (a \o r) = 1 .. Len(a) + Len(r)
        /\ \A i \in 1 .. Len(a) : (a \o r)[i] = a[i]
        /\ \A i \in Len(a) + 1 .. Len(a) + Len(r) :
              (a \o r)[i] = r[i - Len(a)] /\ i - Len(a) \in 1 .. Len(r)
    BY <1>0, <2>1
  <2>5. CASE j <= Len(a)
    <3>1. j \in DOMAIN a /\ (a \o r)[j] = a[j]
      BY <1>0, <2>1, <2>4, <2>5
    <3> QED
      BY <2>1, <3>1
  <2>6. CASE j > Len(a)
    <3>0. j \in Len(a) + 1 .. Len(a) + Len(r)
      BY <1>0, <2>1, <2>4, <2>6
    <3>1. PICK i \in 1 .. Len(r) : (a \o r)[j] = r[i]
      BY <2>4, <3>0
    <3>2. k + i \in 1 .. Len(h) /\ SameChange(r[i], h[k + i])
      BY <1>0, <2>1, <2>2
    <3> QED
      BY <1>0, <1>2, <2>1, <2>3, <3>1, <3>2
  <2> QED
    BY <1>0, <2>1, <2>4, <2>5, <2>6
<1> QED
  BY <1>1, <1>2

\* A replay the forge stamped with a number it gave is sound.
LEMMA ReplaySound ==
    ASSUME NEW hs, NEW bs \in [PRs -> Nat], NEW p \in PRs, NEW n \in Nat, n <= bs[p],
           NEW a \in Commit, NEW h \in Commit, Sound(a, hs, bs), Sound(h, hs, bs), ~Mismatch(a, h)
    PROVE  Sound(Replay(a, h, <<p, n>>), hs, bs)
<1> DEFINE c == Replay(a, h, <<p, n>>)
<1>1. <<p, n>> \in Stamp /\ <<p, n>>[1] = p /\ <<p, n>>[2] = n
  BY DEF Stamp
<1>2. Unique(c)
  BY <1>1, ReplayUnique DEF Sound
<1>3. ASSUME NEW j \in DOMAIN c
      PROVE  c[j].ver <= Latest(hs, c[j].pr) /\ c[j].stamp[2] <= bs[c[j].stamp[1]]
  <2>1. \/ \E i \in DOMAIN a : c[j] = a[i]
        \/ \E i \in DOMAIN h : c[j] = h[i]
        \/ c[j].stamp = <<p, n>> /\ \E i \in DOMAIN h : SameChange(c[j], h[i])
    BY <1>1, ReplayParts
  <2> HIDE DEF c
  <2> QED
    BY <1>1, <2>1, ZenonT(30) DEF Sound, Known, Stamped, SameChange
<1> HIDE DEF c
<1> QED
  BY <1>2, <1>3 DEF Sound, Known, Stamped, c

\* What is sound stays so as the forge makes more replays.
LEMMA StampedLater ==
    ASSUME NEW c \in Commit, NEW bs \in [PRs -> Nat], NEW bt \in [PRs -> Nat],
           \A p \in PRs : bs[p] <= bt[p], Stamped(c, bs)
    PROVE  Stamped(c, bt)
<1>1. ASSUME NEW i \in DOMAIN c PROVE c[i].stamp[2] <= bt[c[i].stamp[1]]
  <2>1. c[i] \in Patch
    BY CommitIsPatches
  <2>2. c[i].stamp \in PRs \X Nat
    BY <2>1 DEF Patch, Stamp
  <2>3. c[i].stamp[1] \in PRs /\ c[i].stamp[2] \in Nat
    BY <2>2
  <2>4. c[i].stamp[2] <= bs[c[i].stamp[1]] /\ bs[c[i].stamp[1]] <= bt[c[i].stamp[1]]
        /\ bs[c[i].stamp[1]] \in Nat /\ bt[c[i].stamp[1]] \in Nat
    BY <2>3 DEF Stamped
  <2> QED
    BY <2>3, <2>4
<1> QED
  BY <1>1 DEF Stamped

\* What a store keeps is what its entries do.
LEMMA KeptIn ==
    ASSUME NEW es, NEW X, \A p \in PRs : Parts(es[p]) \subseteq X PROVE Kept(es) \subseteq X
BY DEF Kept

\* The commits in hand are commits.
LEMMA HeldType ==
    ASSUME TypeOK PROVE Held \subseteq Commit \cup {None}
<1>1. \A e \in Entry \cup {None} : Parts(e) \subseteq Commit \cup {None}
  BY DEF Parts, Entry
<1>2. Kept(entries) \subseteq Commit \cup {None} /\ Kept(disk) \subseteq Commit \cup {None}
  <2>1. \A p \in PRs : entries[p] \in Entry \cup {None} /\ disk[p] \in Entry \cup {None}
    BY DEF TypeOK
  <2>2. \A p \in PRs : Parts(entries[p]) \subseteq Commit \cup {None}
    BY <1>1, <2>1
  <2>3. \A p \in PRs : Parts(disk[p]) \subseteq Commit \cup {None}
    BY <1>1, <2>1
  <2> QED
    BY <2>2, <2>3, KeptIn, Zenon
<1>3. base \in Commit /\ tick.tip \in Commit \cup {None}
  BY DEF TypeOK, Tick
<1>4. \A p \in PRs : head[p] \in Commit /\ enq[p] \in Commit \cup {None}
  BY DEF TypeOK
<1>5. \A p \in PRs : dm[p].to \in Commit \cup {None}
  BY DEF TypeOK, Merge
<1>6. \A i \in DOMAIN tick.members : tick.members[i].sha \in Commit
  <2>1. tick.members \in Seq(LandingMember)
    BY DEF TypeOK, Tick
  <2>2. \A i \in DOMAIN tick.members : tick.members[i] \in LandingMember
    BY <2>1
  <2> QED
    BY <2>2 DEF LandingMember
<1> QED
  BY <1>2, <1>3, <1>4, <1>5, <1>6 DEF Held

\* The rebuild counters are natural numbers.
LEMMA CountersType ==
    ASSUME IInv PROVE TypeOK /\ builds \in [PRs -> Nat] /\ \A p \in PRs : builds[p] <= builds[p]
<1>1. TypeOK
  BY DEF IInv
<1>2. builds \in [PRs -> Nat]
  BY <1>1 DEF TypeOK
<1> QED
  BY <1>1, <1>2

\* A rebuild never turns the counter of its pull request back.
LEMMA BuildIsLater ==
    ASSUME builds \in [PRs -> Nat], NEW p \in PRs, NEW h, NEW parent
    PROVE  NextBuild(p, h, parent) \in Nat /\ builds[p] <= NextBuild(p, h, parent)
BY DEF NextBuild

\* A counter that moves up leaves no counter behind.
LEMMA CounterMoves ==
    ASSUME NEW b \in [PRs -> Nat], NEW p \in PRs, NEW n \in Nat, b[p] <= n
    PROVE  LET c == [b EXCEPT ![p] = n] IN
           c \in [PRs -> Nat] /\ n <= c[p] /\ \A q \in PRs : b[q] <= c[q]
OBVIOUS

\* A step that takes at most one new commit in hand, a sound one.
LEMMA HistoryGrows ==
    ASSUME IInv, HistoryOK, builds' \in [PRs -> Nat], \A p \in PRs : builds[p] <= builds'[p],
           UNCHANGED <<head, reports>>, NEW r, r # None => Sound(r, head, builds'),
           Held' \subseteq Held \cup {None, r}
    PROVE  HistoryOK'
<1>0. TypeOK /\ builds \in [PRs -> Nat] /\ \A x \in reports : x.sha \in Commit
  BY ZenonT(30) DEF IInv, TypeOK
<1>1. \A c \in Held : c # None => Sound(c, head, builds')
  <2>1. ASSUME NEW c \in Held, c # None PROVE Stamped(c, builds')
    <3>1. c \in Commit /\ Stamped(c, builds)
      BY <1>0, <2>1, HeldType DEF HistoryOK, Sound
    <3> QED
      BY <1>0, <3>1, StampedLater
  <2> QED
    BY <2>1 DEF HistoryOK, Sound
<1>2. \A x \in reports : Stamped(x.sha, builds')
  BY <1>0, StampedLater DEF HistoryOK
<1> QED
  BY <1>1, <1>2 DEF HistoryOK

-----------------------------------------------------------------------------
(* What the queue's operations write.                                      *)

\* The record d of the entry e: the same attempt.
Keeps(d, e) == d.head = e.head /\ d.base = e.base /\ d.sha = e.sha /\ d.red = e.red

\* Nothing was rebuilt: each entry goes on as it was, or ends for another reason than its gate.
Settled(new) ==
    \A p \in PRs : new[p] # entries[p] =>
        /\ entries[p] # None /\ new[p] \in Entry
        /\ Keeps(new[p], entries[p])
        /\ \/ new[p].state = entries[p].state /\ new[p].reason = entries[p].reason
           \/ new[p].state \in Ends /\ new[p].reason # "gate"

\* build_on: entry p is d, the head h replayed onto parent.
Rebuilt(p, d, h, parent, f) ==
    /\ d \in Entry /\ d.state = "building"
    /\ d.head = h /\ d.base = parent
    /\ d.sha = Replay(parent, h, <<p, NextBuild(p, h, parent)>>)
    /\ ~Mismatch(parent, h)
    /\ Save([entries EXCEPT ![p] = d], f)
    /\ builds' = [builds EXCEPT ![p] = NextBuild(p, h, parent)]

\* finish keeps the attempt.
LEMMA FinishedKeeps ==
    ASSUME NEW e \in Entry, NEW st \in Ends, NEW r \in Reason
    PROVE  /\ Finished(e, st, r) \in Entry
           /\ Keeps(Finished(e, st, r), e)
           /\ Finished(e, st, r).state = st /\ Finished(e, st, r).reason = r
<1>1. Finished(e, st, r) = [[e EXCEPT !.state = st] EXCEPT !.reason = r]
  BY DEF Finished
<1>2. ASSUME NEW x \in Entry
      PROVE  /\ [x EXCEPT !.state = st] \in Entry
             /\ Keeps([x EXCEPT !.state = st], x) /\ [x EXCEPT !.state = st].state = st
  BY DEF Entry, Keeps, Ends
<1>3. ASSUME NEW x \in Entry
      PROVE  /\ [x EXCEPT !.reason = r] \in Entry /\ [x EXCEPT !.reason = r].reason = r
             /\ Keeps([x EXCEPT !.reason = r], x) /\ [x EXCEPT !.reason = r].state = x.state
  BY DEF Entry, Keeps
<1> DEFINE y == [e EXCEPT !.state = st]
<1>4. y \in Entry /\ Keeps(y, e) /\ y.state = st
  BY <1>2
<1>5. Finished(e, st, r) = [y EXCEPT !.reason = r]
  BY <1>1
<1> HIDE DEF y
<1> QED
  BY <1>3, <1>4, <1>5 DEF Keeps

\* Closing an attempt that a restack replaces, or naming a new neighbour, keeps it.
LEMMA TouchedKeeps ==
    ASSUME NEW e \in Entry, NEW after \in PRs \cup {None}
    PROVE  /\ Supersede(e) \in Entry /\ Keeps(Supersede(e), e)
           /\ Supersede(e).state = e.state /\ Supersede(e).reason = e.reason
           /\ [e EXCEPT !.after = after] \in Entry /\ Keeps([e EXCEPT !.after = after], e)
           /\ [e EXCEPT !.after = after].state = e.state
           /\ [e EXCEPT !.after = after].reason = e.reason
<1>1. ASSUME NEW x \in Entry
      PROVE  /\ [x EXCEPT !.last = "superseded"] \in Entry /\ Keeps([x EXCEPT !.last = "superseded"], x)
             /\ [x EXCEPT !.last = "superseded"].state = x.state
             /\ [x EXCEPT !.last = "superseded"].reason = x.reason
  BY Zenon DEF Entry, Keeps, Conclusion
<1>2. /\ [e EXCEPT !.after = after] \in Entry /\ Keeps([e EXCEPT !.after = after], e)
      /\ [e EXCEPT !.after = after].state = e.state /\ [e EXCEPT !.after = after].reason = e.reason
  BY DEF Entry, Keeps
<1>3. Keeps(e, e)
  BY DEF Keeps
<1> QED
  BY <1>1, <1>2, <1>3 DEF Supersede

\* build_on keeps what the entry's attempts came to.
LEMMA BuiltKeeps ==
    ASSUME builds \in [PRs -> Nat], NEW e \in Draft, NEW p \in PRs, NEW parent \in Commit,
           e.head # <<>>
    PROVE  Built(e, p, parent).red = e.red /\ Built(e, p, parent).reason = e.reason
<1> DEFINE c == Replay(parent, e.head, <<p, NextBuild(p, e.head, parent)>>)
<1>1. Built(e, p, parent) = [[[e EXCEPT !.base = parent] EXCEPT !.sha = c] EXCEPT !.last = "open"]
  BY DEF Built
<1> HIDE DEF c
<1> QED
  BY <1>1 DEF Draft

\* A rebuild, or the end of an entry that no longer replays.
LEMMA BuildWrites ==
    ASSUME TypeOK, NEW p \in PRs, NEW e \in Entry, e.head # <<>>, e.state = "building",
           NEW parent \in Commit, NEW after \in PRs \cup {None}, NEW f,
           BuildOrDequeue(e, p, parent, after, f)
    PROVE  \/ \E d : Rebuilt(p, d, e.head, parent, f) /\ d.red = e.red /\ d.reason = e.reason
           \/ \E d \in Entry : /\ Save([entries EXCEPT ![p] = d], f) /\ builds' = builds
                               /\ Keeps(d, e) /\ d.state = "dequeued" /\ d.reason = "replay"
<1>0. builds \in [PRs -> Nat] /\ e \in Draft
  BY EntryIsDraft, ZenonT(30) DEF TypeOK
<1>1. CASE CanBuild(p, e.head, parent, f)
  <2> DEFINE b == Built(e, p, parent)
             d == [b EXCEPT !.after = after]
             n == NextBuild(p, e.head, parent)
  <2>1. /\ Save([entries EXCEPT ![p] = d], f) /\ builds' = [builds EXCEPT ![p] = n]
        /\ ~Mismatch(parent, e.head)
    BY <1>1, ZenonT(30) DEF BuildOrDequeue, CanBuild
  <2>2. /\ b \in Entry /\ b.head = e.head /\ b.state = e.state /\ b.base = parent
        /\ b.sha = Replay(parent, e.head, <<p, n>>)
    BY <1>0, BuiltEntry, ZenonT(30)
  <2>3. b.red = e.red /\ b.reason = e.reason
    BY <1>0, BuiltKeeps
  <2> HIDE DEF b
  <2>4. d \in Entry /\ Keeps(d, b) /\ d.state = b.state /\ d.reason = b.reason
    BY <2>2, TouchedKeeps, ZenonT(30)
  <2> HIDE DEF d
  <2>5. d.state = "building" /\ d.head = e.head /\ d.base = parent
        /\ d.sha = Replay(parent, e.head, <<p, n>>) /\ d.red = e.red /\ d.reason = e.reason
    BY <2>2, <2>3, <2>4, ZenonT(30) DEF Keeps
  <2>6. Rebuilt(p, d, e.head, parent, f)
    BY <2>1, <2>4, <2>5 DEF Rebuilt
  <2> QED
    BY <2>5, <2>6
<1>2. CASE ~CanBuild(p, e.head, parent, f)
  <2> DEFINE d == Finished(e, "dequeued", "replay")
  <2>1. Save([entries EXCEPT ![p] = d], f) /\ builds' = builds
    BY <1>2, ZenonT(30) DEF BuildOrDequeue
  <2>2. "dequeued" \in Ends /\ "replay" \in Reason
    BY Zenon DEF Ends, Reason
  <2>3. d \in Entry /\ Keeps(d, e) /\ d.state = "dequeued" /\ d.reason = "replay"
    BY <2>2, FinishedKeeps
  <2> HIDE DEF d
  <2> QED
    BY <2>1, <2>3, Zenon
<1> QED
  BY <1>1, <1>2, Zenon

\* One entry goes on or ends.
LEMMA SettledOne ==
    ASSUME TypeOK, NEW p \in PRs, entries[p] # None, NEW d \in Entry, Keeps(d, entries[p]),
           \/ d.state = entries[p].state /\ d.reason = entries[p].reason
           \/ d.state \in Ends /\ d.reason # "gate"
    PROVE  Settled([entries EXCEPT ![p] = d])
BY DEF Settled, TypeOK

\* finish, for any reason but the gate.
LEMMA SettledFinish ==
    ASSUME TypeOK, NEW p \in PRs, entries[p] # None, NEW st \in Ends, NEW r \in Reason \ {"gate"}
    PROVE  Settled([entries EXCEPT ![p] = Finished(entries[p], st, r)])
<1> DEFINE d == Finished(entries[p], st, r)
<1>1. entries[p] \in Entry
  BY ZenonT(30) DEF TypeOK
<1>2. d \in Entry /\ Keeps(d, entries[p]) /\ d.state = st /\ d.reason = r
  BY <1>1, FinishedKeeps
<1> HIDE DEF d
<1>3. Settled([entries EXCEPT ![p] = d])
  BY <1>2, SettledOne
<1> QED
  BY <1>3, ZenonT(30) DEF d

\* still_queued ends entries and changes nothing else.
LEMMA TickStartWrites ==
    ASSUME IInv, NEW f, TickStart(f)
    PROVE  \E new : Settled(new) /\ Save(new, f)
<1> DEFINE seen == {p \in Building(entries) : f # <<"unreadable", p>>}
           new == [p \in PRs |-> IF p \in seen THEN Checked(p) ELSE entries[p]]
<1>1. Save(new, f)
  BY ZenonT(30) DEF TickStart
<1>2. ASSUME NEW p \in PRs, new[p] # entries[p]
      PROVE  /\ entries[p] # None /\ new[p] \in Entry /\ Keeps(new[p], entries[p])
             /\ new[p].state \in Ends /\ new[p].reason # "gate"
  <2>1. p \in Building(entries) /\ new[p] = Checked(p)
    BY <1>2
  <2>2. entries[p] # None /\ entries[p] \in Entry
    BY <2>1, ZenonT(30) DEF Building, IsBuilding, IInv, TypeOK
  <2>3. \E st \in Ends, r \in Reason \ {"gate"} : Checked(p) = Finished(entries[p], st, r)
    BY <1>2, <2>1, ZenonT(30) DEF Checked, Ends, Reason
  <2> HIDE DEF new
  <2> QED
    BY <2>1, <2>2, <2>3, FinishedKeeps
<1> HIDE DEF new
<1>3. Settled(new)
  BY <1>2 DEF Settled
<1> QED
  BY <1>1, <1>3

\* A landing that stops ends one entry at most.
LEMMA LandStopsWrites ==
    ASSUME IInv, NEW f, LandRefused(f) \/ LandBlocked(f) \/ LandNotBelow(f)
    PROVE  \E new : Settled(new) /\ Save(new, f)
<1>0. TypeOK
  BY DEF IInv
<1>1. CASE LandBlocked(f)
  <2>1. Save(entries, f)
    BY <1>1 DEF LandBlocked, EndLanding
  <2>2. Settled(entries)
    BY DEF Settled
  <2> QED
    BY <2>1, <2>2
<1>2. CASE LandRefused(f)
  <2>1. PICK i \in DOMAIN tick.members :
           Save([entries EXCEPT ![tick.members[i].pr] = Refused(tick.members[i], f)], f)
    BY <1>2 DEF LandRefused, EndLanding
  <2> DEFINE p == tick.members[i].pr
             d == Refused(tick.members[i], f)
  <2>2. p \in PRs /\ entries[p] \in Entry /\ entries[p] # None
    BY <1>2, MemberEntry, Zenon DEF LandRefused, IInv, MembersOK
  <2>3. \/ d = entries[p]
        \/ \E st \in Ends, r \in Reason \ {"gate"} : d = Finished(entries[p], st, r)
    BY ZenonT(30) DEF Refused, Ends, Reason
  <2> HIDE DEF p, d
  <2>4. Settled([entries EXCEPT ![p] = d])
    <3>1. CASE d = entries[p]
      BY <2>2, <3>1, SettledOne, <1>0 DEF Keeps
    <3>2. CASE \E st \in Ends, r \in Reason \ {"gate"} : d = Finished(entries[p], st, r)
      BY <1>0, <2>2, <3>2, SettledFinish
    <3> QED
      BY <2>3, <3>1, <3>2, ZenonT(30)
  <2> QED
    BY <2>1, <2>4, ZenonT(30) DEF p, d
<1>3. CASE LandNotBelow(f)
  <2>1. PICK i \in DOMAIN tick.members :
           Save([entries EXCEPT ![tick.members[i].pr] = Finished(@, "failed", "not_ready")], f)
    BY <1>3 DEF LandNotBelow, EndLanding
  <2> DEFINE p == tick.members[i].pr
  <2>2. p \in PRs /\ entries[p] # None
    BY <1>3, MemberEntry, Zenon DEF LandNotBelow, IInv, MembersOK
  <2>3. Settled([entries EXCEPT ![p] = Finished(entries[p], "failed", "not_ready")])
    <3> HIDE DEF p
    <3> QED
      BY <1>0, <2>2, SettledFinish DEF Ends, Reason
  <2> QED
    BY <2>1, <2>3, ZenonT(30)
<1> QED
  BY <1>1, <1>2, <1>3

\* A landing records how its members ended.
LEMMA LandRecordWrites ==
    ASSUME IInv, NEW f, LandRecord(f)
    PROVE  \E new : Settled(new) /\ Save(new, f)
<1> DEFINE new == [p \in PRs |->
            IF \E i \in DOMAIN tick.members : tick.members[i].pr = p
            THEN Recorded(CHOOSE m \in Range(tick.members) : m.pr = p)
            ELSE entries[p]]
<1>1. tick.pc = "record" /\ Save(new, f)
  BY ZenonT(30) DEF LandRecord, EndLanding
<1>2. ASSUME NEW i \in DOMAIN tick.members
      PROVE  LET m == tick.members[i] IN
             /\ entries[m.pr] # None /\ Recorded(m) \in Entry /\ Keeps(Recorded(m), entries[m.pr])
             /\ Recorded(m).state \in Ends /\ Recorded(m).reason # "gate"
  <2> DEFINE m == tick.members[i]
             e == entries[m.pr]
  <2>1. m \in LandingMember /\ e \in Entry /\ e # None
    BY <1>1, MemberEntry, Zenon DEF IInv, MembersOK
  <2>2. CASE m.pr \in tick.failed
    <3>1. Recorded(m) = Finished(e, "failed", "unrecorded")
      BY <2>2, ZenonT(30) DEF Recorded
    <3> HIDE DEF m, e
    <3> QED
      BY <2>1, <3>1, FinishedKeeps DEF Ends, Reason, m, e
  <2>3. CASE m.pr \notin tick.failed
    <3>1. PICK conclusion \in Conclusion :
             Recorded(m) = [Finished(e, "landed", "landed") EXCEPT !.landed = m.sha, !.last = conclusion]
      BY <2>3, Zenon DEF Recorded, Conclusion
    <3> DEFINE d == Finished(e, "landed", "landed")
    <3>2. d \in Entry /\ Keeps(d, e) /\ d.state = "landed" /\ d.reason = "landed"
      BY <2>1, FinishedKeeps DEF Ends, Reason
    <3>3. m.sha \in Commit
      BY <2>1 DEF LandingMember
    <3>4. Recorded(m) = [[d EXCEPT !.landed = m.sha] EXCEPT !.last = conclusion]
      BY <3>1
    <3> HIDE DEF d, m, e
    <3>5. /\ Recorded(m) \in Entry /\ Keeps(Recorded(m), d)
          /\ Recorded(m).state = "landed" /\ Recorded(m).reason = "landed"
      BY <3>2, <3>3, <3>4, Zenon DEF Entry, Keeps
    <3> QED
      BY <2>1, <3>2, <3>5 DEF Keeps, Ends, m, e
  <2> QED
    BY <2>2, <2>3
<1>3. ASSUME NEW p \in PRs, new[p] # entries[p]
      PROVE  /\ entries[p] # None /\ new[p] \in Entry /\ Keeps(new[p], entries[p])
             /\ new[p].state \in Ends /\ new[p].reason # "gate"
  <2> DEFINE m == CHOOSE m \in Range(tick.members) : m.pr = p
  <2>1. new[p] = Recorded(m) /\ \E i \in DOMAIN tick.members : tick.members[i].pr = p
    BY <1>3, ZenonT(30)
  <2>2. m \in Range(tick.members) /\ m.pr = p
    BY <2>1, ZenonT(30) DEF Range
  <2>3. PICK i \in DOMAIN tick.members : m = tick.members[i]
    BY <2>2 DEF Range
  <2> HIDE DEF new, m
  <2> QED
    BY <1>2, <2>1, <2>2, <2>3, ZenonT(30)
<1> HIDE DEF new
<1>4. Settled(new)
  BY <1>3 DEF Settled
<1> QED
  BY <1>1, <1>4, ZenonT(30)

\* A dequeue request ends one entry.
LEMMA DequeueWrites ==
    ASSUME IInv, NEW p \in PRs, NEW f, Dequeue(p, f)
    PROVE  \E new : Settled(new) /\ Save(new, f)
<1>1. entries[p] # None /\ TypeOK
  BY DEF Dequeue, IsBuilding, IInv
<1>2. Save([entries EXCEPT ![p] = Finished(entries[p], "dequeued", "request")], f)
  BY DEF Dequeue
<1>3. Settled([entries EXCEPT ![p] = Finished(entries[p], "dequeued", "request")])
  BY <1>1, SettledFinish DEF Ends, Reason
<1> QED
  BY <1>2, <1>3

\* Where restack puts an entry is a commit, and its neighbour a pull request.
LEMMA ParentFacts ==
    ASSUME IInv, Restacking, tick.tip # None, NEW i \in DOMAIN tick.live
    PROVE  ParentOf(i) \in Commit /\ AfterOf(i) \in PRs \cup {None}
<1>1. tick \in Tick
  BY DEF IInv, TypeOK
<1>2. CASE i = 1
  BY <1>1, <1>2, ZenonT(30) DEF ParentOf, AfterOf, Tick
<1>3. CASE i # 1
  <2>1. i - 1 \in DOMAIN tick.live
    <3>1. tick.live \in Seq(PRs)
      BY <1>1, ZenonT(30) DEF Tick
    <3> QED BY <1>3, <3>1, TheOneBelow, Zenon
  <2> QED
    BY <1>3, <2>1, LiveEntry DEF ParentOf, AfterOf
<1> QED
  BY <1>2, <1>3

\* One turn of restack's loop names a neighbour, ends an entry or rebuilds it on its parent.
LEMMA RestackStepWrites ==
    ASSUME IInv, NEW f, RestackStep(f)
    PROVE  \E i \in DOMAIN tick.live :
              /\ \A j \in 1 .. i - 1 : IsPlaced(j)
              /\ \/ builds' = builds /\ \E new : Settled(new) /\ Save(new, f)
                 \/ \E d : /\ Rebuilt(tick.live[i], d, entries[tick.live[i]].head, ParentOf(i), f)
                           /\ d.red = entries[tick.live[i]].red
                           /\ d.reason = entries[tick.live[i]].reason
<1>0. Restacking /\ tick.tip # None /\ TypeOK
  BY ZenonT(30) DEF RestackStep, IInv
<1>1. PICK i \in DOMAIN tick.live :
         /\ \A j \in 1 .. i - 1 : IsPlaced(j)
         /\ LET p == tick.live[i] IN
            IF entries[p].base = ParentOf(i)
            THEN /\ Save([entries EXCEPT ![p].after = AfterOf(i)], f)
                 /\ UNCHANGED builds
            ELSE BuildOrDequeue(Supersede(entries[p]), p, ParentOf(i), AfterOf(i), f)
  BY DEF RestackStep
<1> DEFINE p == tick.live[i]
           e == Supersede(entries[p])
<1>2. /\ p \in PRs /\ entries[p] \in Entry /\ entries[p].state = "building"
      /\ entries[p].head # <<>> /\ entries[p] # None
  BY <1>0, LiveEntry, Zenon DEF HeadOf, IInv, LiveOK, Restacking, IsBuilding
<1>3. ParentOf(i) \in Commit /\ AfterOf(i) \in PRs \cup {None}
  BY <1>0, ParentFacts, ZenonT(30)
<1>4. CASE entries[p].base = ParentOf(i)
  <2> DEFINE d == [entries[p] EXCEPT !.after = AfterOf(i)]
  <2>1. Save([entries EXCEPT ![p] = d], f) /\ builds' = builds
    BY <1>1, <1>4, ZenonT(30)
  <2>2. d \in Entry /\ Keeps(d, entries[p]) /\ d.state = entries[p].state /\ d.reason = entries[p].reason
    BY <1>2, <1>3, TouchedKeeps, ZenonT(30)
  <2> HIDE DEF d
  <2>3. Settled([entries EXCEPT ![p] = d])
    BY <1>0, <1>2, <2>2, SettledOne
  <2> QED
    BY <1>1, <2>1, <2>3
<1>5. CASE entries[p].base # ParentOf(i)
  <2>1. e \in Entry /\ Keeps(e, entries[p]) /\ e.state = entries[p].state /\ e.reason = entries[p].reason
    BY <1>2, <1>3, TouchedKeeps, Zenon
  <2>2. BuildOrDequeue(e, p, ParentOf(i), AfterOf(i), f)
    BY <1>1, <1>5, ZenonT(30)
  <2> HIDE DEF e
  <2>3. e.head # <<>> /\ e.state = "building" /\ e.head = entries[p].head /\ e.red = entries[p].red
    BY <1>2, <2>1 DEF Keeps
  <2>4. \/ \E d : Rebuilt(p, d, e.head, ParentOf(i), f) /\ d.red = e.red /\ d.reason = e.reason
        \/ \E d \in Entry : /\ Save([entries EXCEPT ![p] = d], f) /\ builds' = builds
                            /\ Keeps(d, e) /\ d.state = "dequeued" /\ d.reason = "replay"
    <3> HIDE DEF p
    <3> QED
      BY <1>0, <1>2, <1>3, <2>1, <2>2, <2>3, BuildWrites, Zenon
  <2>5. CASE \E d : Rebuilt(p, d, e.head, ParentOf(i), f) /\ d.red = e.red /\ d.reason = e.reason
    BY <1>1, <2>1, <2>3, <2>5
  <2>6. ASSUME NEW d \in Entry, Save([entries EXCEPT ![p] = d], f), builds' = builds,
               Keeps(d, e), d.state = "dequeued", d.reason = "replay"
        PROVE  \E new : Settled(new) /\ Save(new, f)
    <3>1. Keeps(d, entries[p]) /\ d.state \in Ends /\ d.reason # "gate"
      BY <2>1, <2>6, ZenonT(30) DEF Keeps, Ends
    <3>2. Settled([entries EXCEPT ![p] = d])
      <4> HIDE DEF p
      <4> QED
        BY <1>0, <1>2, <3>1, SettledOne
    <3> QED
      BY <2>6, <3>2, ZenonT(30)
  <2> QED
    BY <1>1, <2>4, <2>5, <2>6, Zenon
<1> QED
  BY <1>4, <1>5

\* d is e with one more red attempt.
OneMoreRed(d, e) == d.head = e.head /\ d.base = e.base /\ d.sha = e.sha /\ d.red = e.red + 1

\* retry_or_fail rebuilds the entry on the same parent, or ends it.
LEMMA TickRetryWrites ==
    ASSUME IInv, NEW f, TickRetry(f)
    PROVE  LET p == tick.live[1]
               e == entries[p]
           IN  \/ /\ e.sha # e.head /\ e.red + 1 < MaxAttempts
                  /\ \E d : /\ Rebuilt(p, d, e.head, e.base, f)
                            /\ d.red = e.red + 1 /\ d.reason = e.reason
               \/ \E d \in Entry :
                     /\ Save([entries EXCEPT ![p] = d], f) /\ builds' = builds
                     /\ OneMoreRed(d, e) /\ d.state \in Ends
                     /\ \/ d.reason = "replay" /\ e.red + 1 < MaxAttempts
                        \/ d.reason = "gate" /\ (e.red + 1 < MaxAttempts => e.sha = e.head)
<1> DEFINE p == tick.live[1]
           e == entries[p]
           red == [e EXCEPT !.red = @ + 1, !.last = "failure"]
<1>0. Restacking /\ TypeOK /\ 1 \in DOMAIN tick.live
  BY DEF TickRetry, BottomIsRed, Restacking, IInv, TypeOK, Tick
<1>1. /\ p \in PRs /\ e \in Entry /\ e.state = "building" /\ e.head # <<>> /\ e.base \in Commit
      /\ e.after \in PRs \cup {None}
  BY <1>0, LiveEntry, Zenon DEF Entry, HeadOf
<1>2. IF red.red < MaxAttempts /\ e.sha # e.head
      THEN BuildOrDequeue(red, p, e.base, e.after, f)
      ELSE Save([entries EXCEPT ![p] = Finished(red, "failed", "gate")], f) /\ UNCHANGED builds
  BY ZenonT(30) DEF TickRetry
<1>3. red \in Entry /\ OneMoreRed(red, e) /\ red.state = e.state /\ red.reason = e.reason
  <2> DEFINE y == [e EXCEPT !.red = e.red + 1]
  <2>1. red = [y EXCEPT !.last = "failure"]
    OBVIOUS
  <2>2. y \in Entry /\ OneMoreRed(y, e) /\ y.state = e.state /\ y.reason = e.reason
    <3> HIDE DEF e
    <3> QED
      BY <1>1 DEF Entry, OneMoreRed
  <2> HIDE DEF e, red, y
  <2>3. red \in Entry /\ Keeps(red, y) /\ red.state = y.state /\ red.reason = y.reason
    BY <2>1, <2>2, ZenonT(30) DEF Entry, Conclusion, Keeps
  <2> QED
    BY <2>2, <2>3 DEF OneMoreRed, Keeps
<1> HIDE DEF p, e, red
<1>4. CASE red.red < MaxAttempts /\ e.sha # e.head
  <2>1. e.red + 1 < MaxAttempts /\ red.head = e.head /\ red.head # <<>> /\ red.state = "building"
    BY <1>1, <1>3, <1>4, ZenonT(30) DEF OneMoreRed
  <2>2. BuildOrDequeue(red, p, e.base, e.after, f)
    BY <1>2, <1>4, ZenonT(30)
  <2>3. \/ \E d : Rebuilt(p, d, red.head, e.base, f) /\ d.red = red.red /\ d.reason = red.reason
        \/ \E d \in Entry : /\ Save([entries EXCEPT ![p] = d], f) /\ builds' = builds
                            /\ Keeps(d, red) /\ d.state = "dequeued" /\ d.reason = "replay"
    BY <1>0, <1>1, <1>3, <2>1, <2>2, BuildWrites, ZenonT(30)
  <2>4. CASE \E d : Rebuilt(p, d, red.head, e.base, f) /\ d.red = red.red /\ d.reason = red.reason
    BY <1>3, <1>4, <2>1, <2>4, ZenonT(30) DEF OneMoreRed, p, e
  <2>5. CASE \E d \in Entry : /\ Save([entries EXCEPT ![p] = d], f) /\ builds' = builds
                              /\ Keeps(d, red) /\ d.state = "dequeued" /\ d.reason = "replay"
    <3>1. PICK d \in Entry : /\ Save([entries EXCEPT ![p] = d], f) /\ builds' = builds
                             /\ Keeps(d, red) /\ d.state = "dequeued" /\ d.reason = "replay"
      BY <2>5, ZenonT(30)
    <3>2. OneMoreRed(d, e) /\ d.state \in Ends
      BY <1>3, <3>1 DEF OneMoreRed, Keeps, Ends
    <3> QED
      BY <2>1, <3>1, <3>2, Zenon DEF p, e
  <2> QED
    BY <2>3, <2>4, <2>5, Zenon
<1>5. CASE ~(red.red < MaxAttempts /\ e.sha # e.head)
  <2> DEFINE d == Finished(red, "failed", "gate")
  <2>1. Save([entries EXCEPT ![p] = d], f) /\ builds' = builds
    BY <1>2, <1>5, ZenonT(30)
  <2>2. d \in Entry /\ Keeps(d, red) /\ d.state = "failed" /\ d.reason = "gate"
    BY <1>3, FinishedKeeps DEF Ends, Reason
  <2> HIDE DEF d
  <2>3. OneMoreRed(d, e) /\ d.state \in Ends /\ (e.red + 1 < MaxAttempts => e.sha = e.head)
    BY <1>3, <1>5, <2>2 DEF OneMoreRed, Keeps, Ends
  <2> QED
    BY <2>1, <2>2, <2>3, Zenon DEF p, e
<1> QED
  BY <1>4, <1>5, Zenon

\* enqueue writes nothing, a fresh entry on the stack, or the record of its refusal.
LEMMA EnqueueWrites ==
    ASSUME IInv, NEW p \in PRs, NEW f, Enqueue(p, f)
    PROVE  \/ UNCHANGED queueVars
           \/ \E d, parent :
                 /\ parent = base \/ \E q \in PRs : IsBuilding(entries, q) /\ parent = entries[q].sha
                 /\ parent \in Commit
                 /\ Rebuilt(p, d, enq[p], parent, f) /\ d.red = 0 /\ d.reason = None
           \/ \E d \in Entry :
                 /\ Save([entries EXCEPT ![p] = d], f) /\ builds' = builds
                 /\ d.head = enq[p] /\ d.base = base /\ d.sha = None /\ d.red = 0
                 /\ d.state = "dequeued" /\ d.reason = "refused"
<1>0. /\ TypeOK /\ builds \in [PRs -> Nat] /\ base \in Commit /\ enq[p] # None
      /\ enq[p] \in Commit /\ enq[p] # <<>> /\ clock \in Nat
  BY DEF IInv, TypeOK, Enqueue, EnqueueGuard, HeadsOK, HeadOf
<1>1. ASSUME NEW last \in StackTails(p),
             LET e == [NewEntry(p) EXCEPT !.after = last]
                 parent == IF last = None THEN base ELSE entries[last].sha
             IN  IF CanBuild(p, e.head, parent, f)
                 THEN /\ Save([entries EXCEPT ![p] = Built(e, p, parent)], f)
                      /\ builds' = [builds EXCEPT ![p] = NextBuild(p, e.head, parent)]
                 ELSE /\ Save([entries EXCEPT ![p] = RefusedEntry(e)], f)
                      /\ UNCHANGED builds
      PROVE  \/ \E d, parent :
                   /\ parent = base \/ \E q \in PRs : IsBuilding(entries, q) /\ parent = entries[q].sha
                   /\ parent \in Commit
                   /\ Rebuilt(p, d, enq[p], parent, f) /\ d.red = 0 /\ d.reason = None
             \/ \E d \in Entry :
                   /\ Save([entries EXCEPT ![p] = d], f) /\ builds' = builds
                   /\ d.head = enq[p] /\ d.base = base /\ d.sha = None /\ d.red = 0
                   /\ d.state = "dequeued" /\ d.reason = "refused"
  <2> DEFINE e == [NewEntry(p) EXCEPT !.after = last]
             parent == IF last = None THEN base ELSE entries[last].sha
  <2>1. e \in Draft /\ parent \in Commit
    BY <1>0, EnqueuedDraft, Zenon
  <2>2. e = [head |-> enq[p], base |-> None, sha |-> None, state |-> "building", at |-> clock,
             red |-> 0, last |-> None, after |-> last, reason |-> None, landed |-> None]
    BY DEF NewEntry
  <2>3. parent = base \/ \E q \in PRs : IsBuilding(entries, q) /\ parent = entries[q].sha
    BY ZenonT(30) DEF StackTails, Building
  <2> HIDE DEF e, parent
  <2>4. e.head = enq[p] /\ e.sha = None /\ e.red = 0 /\ e.reason = None /\ e.state = "building"
    BY <2>2, ZenonT(30)
  <2>5. CASE CanBuild(p, e.head, parent, f)
    <3> DEFINE d == Built(e, p, parent)
    <3>1. /\ Save([entries EXCEPT ![p] = d], f) /\ ~Mismatch(parent, e.head)
          /\ builds' = [builds EXCEPT ![p] = NextBuild(p, e.head, parent)]
      BY <1>1, <2>5, ZenonT(30) DEF CanBuild, e, parent
    <3>2. /\ d \in Entry /\ d.head = e.head /\ d.state = e.state /\ d.base = parent
          /\ d.sha = Replay(parent, e.head, <<p, NextBuild(p, e.head, parent)>>)
      BY <1>0, <2>1, <2>4, BuiltEntry, ZenonT(30)
    <3>3. d.red = e.red /\ d.reason = e.reason
      BY <1>0, <2>1, <2>4, BuiltKeeps
    <3> HIDE DEF d
    <3>4. Rebuilt(p, d, enq[p], parent, f) /\ d.red = 0 /\ d.reason = None
      BY <2>4, <3>1, <3>2, <3>3, ZenonT(30) DEF Rebuilt
    <3> QED
      BY <2>1, <2>3, <3>4
  <2>6. CASE ~CanBuild(p, e.head, parent, f)
    <3> DEFINE d == RefusedEntry(e)
    <3>1. Save([entries EXCEPT ![p] = d], f) /\ builds' = builds
      BY <1>1, <2>6 DEF e, parent
    <3>2. d = [[[e EXCEPT !.base = base] EXCEPT !.state = "dequeued"] EXCEPT !.reason = "refused"]
      BY DEF RefusedEntry
    <3> HIDE DEF d
    <3>3. /\ d \in Entry /\ d.head = e.head /\ d.base = base /\ d.sha = e.sha /\ d.red = e.red
          /\ d.state = "dequeued" /\ d.reason = "refused"
      BY <1>0, <2>1, <3>2, ZenonT(30) DEF Draft, Entry, Reason
    <3> QED
      BY <2>4, <3>1, <3>3
  <2> QED
    BY <2>5, <2>6, Zenon
<1> QED
  BY <1>1, Zenon DEF Enqueue

\* A building entry has a queue commit.
LEMMA QueuedCommit ==
    ASSUME IInv, NEW p \in PRs, IsBuilding(entries, p)
    PROVE  /\ entries[p] \in Entry /\ entries[p] # None /\ entries[p].state = "building"
           /\ HeadOf(entries[p].head, p, base) /\ IsReplay(entries[p])
           /\ entries[p].base \in Commit /\ entries[p].sha \in Commit /\ entries[p].head \in Commit
<1>1. entries[p] \in Entry /\ entries[p].state = "building" /\ Stored(entries[p], p, base)
      /\ entries[p] # None
  BY ZenonT(30) DEF IsBuilding, IInv, TypeOK, StoresOK
<1>2. /\ HeadOf(entries[p].head, p, base) /\ IsReplay(entries[p]) /\ entries[p].base \in Commit
      /\ entries[p].head \in Commit
  BY <1>1, ZenonT(30) DEF Stored, Entry
<1>3. entries[p].sha \in Commit
  BY <1>2, ReplayFacts DEF IsReplay, HeadOf
<1> QED
  BY <1>1, <1>2, <1>3

-----------------------------------------------------------------------------
(* Every step keeps the commits in hand sound.                             *)

\* The commits in hand after a step, place by place.
LEMMA HeldNext ==
    ASSUME NEW H, base' \in H, tick'.tip \in H,
           \A p \in PRs : head'[p] \in H, \A p \in PRs : enq'[p] \in H,
           \A p \in PRs : dm'[p].to \in H,
           Kept(entries') \subseteq H, Kept(disk') \subseteq H,
           \A i \in DOMAIN tick'.members : tick'.members[i].sha \in H
    PROVE  Held' \subseteq H
BY ZenonT(30) DEF Held

\* Where a commit in hand is.
LEMMA InHand ==
    /\ base \in Held /\ tick.tip \in Held
    /\ \A p \in PRs : head[p] \in Held /\ enq[p] \in Held /\ dm[p].to \in Held
    /\ Kept(entries) \subseteq Held /\ Kept(disk) \subseteq Held
    /\ \A p \in PRs : entries[p] # None =>
          entries[p].head \in Held /\ entries[p].base \in Held /\ entries[p].sha \in Held
    /\ \A i \in DOMAIN tick.members : tick.members[i].sha \in Held
<1>1. \A p \in PRs : entries[p] # None =>
         entries[p].head \in Kept(entries) /\ entries[p].base \in Kept(entries)
         /\ entries[p].sha \in Kept(entries)
  BY ZenonT(30) DEF Kept, Parts
<1> QED
  BY <1>1, Zenon DEF Held

\* Entries that settle keep their commits.
LEMMA SettledKept ==
    ASSUME NEW new, Settled(new) PROVE Kept(new) \subseteq Kept(entries)
<1>1. ASSUME NEW p \in PRs PROVE Parts(new[p]) \subseteq Parts(entries[p])
  <2>1. CASE new[p] = entries[p]
    BY <2>1, ZenonT(30)
  <2>2. CASE new[p] # entries[p]
    BY <2>2 DEF Settled, Keeps, Parts
  <2> QED
    BY <2>1, <2>2, ZenonT(30)
<1>2. \A p \in PRs : Parts(entries[p]) \subseteq Kept(entries)
  BY DEF Kept
<1> QED
  BY <1>1, <1>2, KeptIn, ZenonT(30)

\* Writing one entry adds its commits.
LEMMA OneKept ==
    ASSUME TypeOK, NEW p \in PRs, NEW d
    PROVE  Kept([entries EXCEPT ![p] = d]) \subseteq Kept(entries) \cup {d.head, d.base, d.sha}
<1> DEFINE new == [entries EXCEPT ![p] = d]
<1>1. \A q \in PRs : Parts(entries[q]) \subseteq Kept(entries)
  BY ZenonT(30) DEF Kept
<1>2. Parts(d) \subseteq {d.head, d.base, d.sha}
  BY ZenonT(30) DEF Parts
<1>3. \A q \in PRs : new[q] = IF q = p THEN d ELSE entries[q]
  BY DEF TypeOK
<1> HIDE DEF new
<1>4. \A q \in PRs : Parts(new[q]) \subseteq Kept(entries) \cup {d.head, d.base, d.sha}
  BY <1>1, <1>2, <1>3
<1>5. Kept(new) \subseteq Kept(entries) \cup {d.head, d.base, d.sha}
  BY <1>4, KeptIn, Zenon
<1> QED
  BY <1>5, Zenon DEF new

\* persist stores nothing but what it is given.
LEMMA SaveKept ==
    ASSUME NEW new, NEW f, Save(new, f)
    PROVE  Kept(entries') \subseteq Kept(new) /\ Kept(disk') \subseteq Kept(new) \cup Kept(disk)
<1>1. entries' = new /\ \A p \in PRs : disk'[p] = new[p] \/ disk'[p] = disk[p]
  BY DEF Save
<1>2. \A p \in PRs : Parts(new[p]) \subseteq Kept(new) /\ Parts(disk[p]) \subseteq Kept(disk)
  BY ZenonT(30) DEF Kept
<1>3. \A p \in PRs : Parts(disk'[p]) \subseteq Kept(new) \cup Kept(disk)
  BY <1>1, <1>2, ZenonT(30)
<1> QED
  BY <1>1, <1>3, KeptIn, Zenon

\* A step of the queue that writes entries.
LEMMA WritingKeepsHistory ==
    ASSUME IInv, HistoryOK, NEW new, NEW f, Save(new, f),
           builds' \in [PRs -> Nat], \A p \in PRs : builds[p] <= builds'[p],
           NEW r, r # None => Sound(r, head, builds'), Kept(new) \subseteq Held \cup {None, r},
           UNCHANGED <<base, head, reports, dm>>, \A q \in PRs : enq'[q] \in {enq[q], None},
           tick'.tip \in {tick.tip, base, None},
           tick'.members = <<>> \/ tick'.members = tick.members
    PROVE  HistoryOK'
<1>1. Kept(entries') \subseteq Held \cup {None, r} /\ Kept(disk') \subseteq Held \cup {None, r}
  BY SaveKept, InHand, ZenonT(30)
<1>2. tick'.tip \in Held \cup {None} /\ \A q \in PRs : enq'[q] \in Held \cup {None}
  BY InHand, ZenonT(30)
<1>3. \A i \in DOMAIN tick'.members : tick'.members[i].sha \in Held
  BY InHand
<1>4. Held' \subseteq Held \cup {None, r}
  <2> DEFINE H == Held \cup {None, r}
  <2>1. /\ base' \in H /\ tick'.tip \in H
        /\ \A p \in PRs : head'[p] \in H
        /\ \A p \in PRs : enq'[p] \in H
        /\ \A p \in PRs : dm'[p].to \in H
        /\ \A i \in DOMAIN tick'.members : tick'.members[i].sha \in H
    BY <1>2, <1>3, InHand, ZenonT(30)
  <2>2. Kept(entries') \subseteq H /\ Kept(disk') \subseteq H
    BY <1>1, Zenon
  <2> HIDE DEF H
  <2>3. Held' \subseteq H
    BY <2>1, <2>2, HeldNext, ZenonT(30)
  <2> QED
    BY <2>3, Zenon DEF H
<1> QED
  BY <1>4, HistoryGrows, ZenonT(30)

\* restack starts from the base and no landing.
LEMMA RestackTick ==
    ASSUME NEW pc, NEW S, NEW es, NEW f, Restack(pc, S, es, f)
    PROVE  tick'.tip \in {base, None} /\ tick'.members = <<>>
BY DEF Restack, Resting

\* The steps that end entries.
LEMMA SettlingKeepsHistory ==
    ASSUME IInv, HistoryOK, NEW new, NEW f, Settled(new), Save(new, f), builds' = builds,
           UNCHANGED <<base, head, reports, dm, enq>>,
           tick'.tip \in {tick.tip, base, None},
           tick'.members = <<>> \/ tick'.members = tick.members
    PROVE  HistoryOK'
<1>1. Kept(new) \subseteq Held \cup {None, None}
  BY SettledKept, InHand, ZenonT(30)
<1>2. builds \in [PRs -> Nat] /\ \A p \in PRs : builds[p] <= builds[p]
  BY CountersType
<1> QED
  BY <1>1, <1>2, WritingKeepsHistory

\* A rebuild of commits in hand.
LEMMA RebuildKeepsHistory ==
    ASSUME IInv, HistoryOK, NEW p \in PRs, NEW d, NEW h \in Held, NEW parent \in Held, NEW f,
           h \in Commit, parent \in Commit, Rebuilt(p, d, h, parent, f),
           UNCHANGED <<base, head, reports, dm>>, \A q \in PRs : enq'[q] \in {enq[q], None},
           tick'.tip \in {tick.tip, base, None},
           tick'.members = <<>> \/ tick'.members = tick.members
    PROVE  HistoryOK'
<1> DEFINE n == NextBuild(p, h, parent)
           c == Replay(parent, h, <<p, n>>)
<1>1. /\ Save([entries EXCEPT ![p] = d], f) /\ builds' = [builds EXCEPT ![p] = n]
      /\ d.head = h /\ d.base = parent /\ d.sha = c /\ ~Mismatch(parent, h)
  BY ZenonT(30) DEF Rebuilt
<1>0. builds \in [PRs -> Nat] /\ TypeOK
  BY CountersType, ZenonT(30)
<1>2. n \in Nat /\ builds[p] <= n
  BY <1>0, BuildIsLater, ZenonT(30)
<1> HIDE DEF n
<1>3. builds' \in [PRs -> Nat] /\ (\A q \in PRs : builds[q] <= builds'[q]) /\ n <= builds'[p]
  BY <1>0, <1>1, <1>2, CounterMoves, ZenonT(30)
<1>4. h # None /\ parent # None
  BY NoneIsNoCommit, ZenonT(30)
<1>5. Sound(h, head, builds) /\ Sound(parent, head, builds)
  BY <1>4 DEF HistoryOK
<1>6. Sound(h, head, builds') /\ Sound(parent, head, builds')
  BY <1>0, <1>3, <1>5, StampedLater, ZenonT(30) DEF Sound
<1>7. Sound(c, head, builds')
  BY <1>1, <1>0, <1>2, <1>3, <1>6, ReplaySound, ZenonT(30)
<1> HIDE DEF c
<1>8. Kept([entries EXCEPT ![p] = d]) \subseteq Held \cup {None, c}
  BY <1>0, <1>1, OneKept, InHand
<1> QED
  BY <1>1, <1>3, <1>7, <1>8, WritingKeepsHistory, ZenonT(30)

\* A tick keeps the commits in hand sound.
LEMMA TickKeepsHistory ==
    ASSUME IInv, HistoryOK, NEW f,
           TickStart(f) \/ LandRefused(f) \/ LandBlocked(f) \/ LandNotBelow(f) \/ LandRecord(f)
    PROVE  HistoryOK'
<1>1. UNCHANGED <<base, head, reports, dm, enq>>
  BY ZenonT(30) DEF TickStart, LandRefused, LandBlocked, LandNotBelow, LandRecord, outsideQueue, pullVars
<1>2. builds' = builds
  BY Zenon DEF TickStart, LandRefused, LandBlocked, LandNotBelow, LandRecord, EndLanding
<1>3. \E pc, S, es : Restack(pc, S, es, f)
  <2>1. CASE TickStart(f)
    BY <2>1 DEF TickStart
  <2>2. CASE LandRefused(f) \/ LandBlocked(f) \/ LandNotBelow(f) \/ LandRecord(f)
    BY <2>2, Zenon DEF LandRefused, LandBlocked, LandNotBelow, LandRecord, EndLanding
  <2> QED
    BY <2>1, <2>2, ZenonT(30)
<1>4. \E new : Settled(new) /\ Save(new, f)
  BY TickStartWrites, LandStopsWrites, LandRecordWrites, ZenonT(30)
<1>5. tick'.tip \in {base, None} /\ tick'.members = <<>>
  BY <1>3, RestackTick, ZenonT(30)
<1> QED
  BY <1>1, <1>2, <1>4, <1>5, SettlingKeepsHistory, ZenonT(30)

\* restack keeps the commits in hand sound.
LEMMA RestackStepKeepsHistory ==
    ASSUME IInv, HistoryOK, NEW f, RestackStep(f) PROVE HistoryOK'
<1>0. /\ UNCHANGED <<base, head, reports, dm, enq>> /\ Restacking /\ tick.tip # None
      /\ tick \in Tick
  BY DEF RestackStep, outsideQueue, pullVars, IInv, TypeOK
<1>1. tick'.tip = tick.tip /\ tick'.members = tick.members
  BY <1>0 DEF RestackStep, Tick
<1>2. PICK i \in DOMAIN tick.live :
         \/ builds' = builds /\ \E new : Settled(new) /\ Save(new, f)
         \/ \E d : Rebuilt(tick.live[i], d, entries[tick.live[i]].head, ParentOf(i), f)
  BY RestackStepWrites, ZenonT(30)
<1>3. CASE builds' = builds /\ \E new : Settled(new) /\ Save(new, f)
  BY <1>0, <1>1, <1>3, SettlingKeepsHistory, ZenonT(30)
<1>4. ASSUME NEW d, Rebuilt(tick.live[i], d, entries[tick.live[i]].head, ParentOf(i), f)
      PROVE  HistoryOK'
  <2> DEFINE p == tick.live[i]
  <2>1. p \in PRs /\ entries[p] # None /\ entries[p].head \in Commit
    BY <1>0, LiveEntry, Zenon DEF HeadOf, IInv, LiveOK, Restacking, IsBuilding
  <2>2. ParentOf(i) \in Commit /\ entries[p].head \in Held
    BY <1>0, <2>1, ParentFacts, InHand
  <2>3. ParentOf(i) \in Held
    <3>1. CASE i = 1
      BY <3>1, InHand, ZenonT(30) DEF ParentOf
    <3>2. CASE i # 1
      <4>1. i - 1 \in DOMAIN tick.live
        <5>1. tick \in Tick
          BY <1>0, Zenon
        <5>2. tick.live \in Seq(PRs)
          BY <5>1, ZenonT(30) DEF Tick
        <5> QED BY <3>2, <5>2, TheOneBelow, Zenon
      <4>2. tick.live[i - 1] \in PRs /\ entries[tick.live[i - 1]] # None
        BY <1>0, <4>1, LiveEntry, ZenonT(30) DEF IInv, LiveOK, Restacking, IsBuilding
      <4> QED
        BY <3>2, <4>2, InHand DEF ParentOf
    <3> QED
      BY <3>1, <3>2, ZenonT(30)
  <2> HIDE DEF p
  <2>4. Rebuilt(p, d, entries[p].head, ParentOf(i), f)
    BY <1>4 DEF p
  <2> QED
    BY <1>0, <1>1, <2>1, <2>2, <2>3, <2>4, RebuildKeepsHistory
<1> QED
  BY <1>2, <1>3, <1>4, ZenonT(30)

\* retry_or_fail keeps the commits in hand sound.
LEMMA TickRetryKeepsHistory ==
    ASSUME IInv, HistoryOK, NEW f, TickRetry(f) PROVE HistoryOK'
<1> DEFINE p == tick.live[1]
           e == entries[p]
<1>0. /\ UNCHANGED <<base, head, reports, dm, enq>> /\ Restacking /\ 1 \in DOMAIN tick.live /\ TypeOK
      /\ Restack("restack", Remaining(entries'), entries', f)
  BY DEF TickRetry, BottomIsRed, Restacking, outsideQueue, pullVars, IInv, TypeOK, Tick
<1>1. tick'.tip \in {base, None} /\ tick'.members = <<>>
  BY <1>0, RestackTick
<1>2. p \in PRs /\ e # None /\ e.head \in Commit /\ e.base \in Commit
  BY <1>0, LiveEntry, ZenonT(30) DEF HeadOf, IInv, LiveOK, Restacking, IsBuilding
<1>3. e.head \in Held /\ e.base \in Held /\ e.sha \in Held
  BY <1>2, InHand
<1>4. \/ \E d : Rebuilt(p, d, e.head, e.base, f)
      \/ \E d \in Entry : /\ Save([entries EXCEPT ![p] = d], f) /\ builds' = builds
                          /\ OneMoreRed(d, e)
  BY TickRetryWrites, ZenonT(30)
<1> HIDE DEF p, e
<1>5. CASE \E d : Rebuilt(p, d, e.head, e.base, f)
  BY <1>0, <1>1, <1>2, <1>3, <1>5, RebuildKeepsHistory, Zenon
<1>6. ASSUME NEW d \in Entry, Save([entries EXCEPT ![p] = d], f), builds' = builds, OneMoreRed(d, e)
      PROVE  HistoryOK'
  <2>1. Kept([entries EXCEPT ![p] = d]) \subseteq Held \cup {None, None}
    BY <1>0, <1>2, <1>3, <1>6, OneKept, InHand, ZenonT(30) DEF OneMoreRed
  <2>2. builds \in [PRs -> Nat] /\ \A q \in PRs : builds[q] <= builds[q]
    BY <1>0 DEF TypeOK
  <2> QED
    BY <1>0, <1>1, <1>6, <2>1, <2>2, WritingKeepsHistory, Zenon
<1> QED
  BY <1>4, <1>5, <1>6, Zenon

\* Requests to the queue keep the commits in hand sound.
LEMMA RequestKeepsHistory ==
    ASSUME IInv, HistoryOK, NEW p \in PRs, NEW f, Enqueue(p, f) \/ Dequeue(p, f) PROVE HistoryOK'
<1>1. UNCHANGED <<base, head, reports, dm, tick>>
  BY DEF Enqueue, EnqueueDone, Dequeue, outsideQueue, pullVars
<1>2. CASE Dequeue(p, f)
  <2>1. builds' = builds /\ enq' = enq
    BY <1>2 DEF Dequeue, outsideQueue
  <2> QED
    BY <1>1, <1>2, <2>1, DequeueWrites, SettlingKeepsHistory, ZenonT(30)
<1>3. CASE Enqueue(p, f)
  <2>1. /\ \A q \in PRs : enq'[q] \in {enq[q], None}
        /\ TypeOK /\ enq[p] \in Commit /\ builds \in [PRs -> Nat]
    BY <1>3, ZenonT(30) DEF Enqueue, EnqueueGuard, EnqueueDone, IInv, TypeOK
  <2>2. CASE UNCHANGED queueVars
    <3>1. Held' \subseteq Held \cup {None, None}
      BY <1>1, <2>1, <2>2, InHand, ZenonT(30) DEF Held, queueVars
    <3>2. builds' = builds /\ \A q \in PRs : builds[q] <= builds[q]
      BY <2>1, <2>2 DEF queueVars
    <3> QED
      BY <1>1, <2>1, <3>1, <3>2, HistoryGrows, ZenonT(30)
  <2>3. ASSUME NEW d, NEW parent \in Commit, Rebuilt(p, d, enq[p], parent, f),
               parent = base \/ \E q \in PRs : IsBuilding(entries, q) /\ parent = entries[q].sha
        PROVE  HistoryOK'
    <3>1. parent \in Held /\ enq[p] \in Held
      BY <2>3, InHand, ZenonT(30) DEF IsBuilding
    <3> QED
      BY <1>1, <2>1, <2>3, <3>1, RebuildKeepsHistory, ZenonT(30)
  <2>4. ASSUME NEW d \in Entry, Save([entries EXCEPT ![p] = d], f), builds' = builds,
               d.head = enq[p], d.base = base, d.sha = None
        PROVE  HistoryOK'
    <3>1. Kept([entries EXCEPT ![p] = d]) \subseteq Held \cup {None, None}
      BY <2>1, <2>4, OneKept, InHand, ZenonT(30)
    <3>2. \A q \in PRs : builds[q] <= builds[q]
      BY <2>1
    <3> QED
      BY <1>1, <2>1, <2>4, <3>1, <3>2, WritingKeepsHistory, ZenonT(30)
  <2> QED
    BY <1>3, <2>2, <2>3, <2>4, EnqueueWrites, ZenonT(30)
<1> QED
  BY <1>2, <1>3, ZenonT(30)

\* A step that writes no entry and makes no commit.
LEMMA NothingNew ==
    ASSUME IInv, HistoryOK, UNCHANGED <<head, reports, builds>>,
           base' \in Held, tick'.tip \in Held \cup {None},
           Kept(entries') \subseteq Held, Kept(disk') \subseteq Held,
           \A q \in PRs : enq'[q] \in Held \cup {None} /\ dm'[q].to \in Held \cup {None},
           \A i \in DOMAIN tick'.members : tick'.members[i].sha \in Held
    PROVE  HistoryOK'
<1>1. Held' \subseteq Held \cup {None, None}
  <2> DEFINE H == Held \cup {None, None}
  <2>1. /\ base' \in H /\ tick'.tip \in H
        /\ \A p \in PRs : head'[p] \in H
        /\ \A p \in PRs : enq'[p] \in H
        /\ \A p \in PRs : dm'[p].to \in H
        /\ Kept(entries') \subseteq H /\ Kept(disk') \subseteq H
        /\ \A i \in DOMAIN tick'.members : tick'.members[i].sha \in H
    BY InHand, ZenonT(30)
  <2> HIDE DEF H
  <2>2. Held' \subseteq H
    BY <2>1, HeldNext, ZenonT(30)
  <2> QED
    BY <2>2, Zenon DEF H
<1>2. builds \in [PRs -> Nat] /\ \A p \in PRs : builds[p] <= builds[p]
  BY CountersType
<1> QED
  BY <1>1, <1>2, HistoryGrows

\* The steps of a tick that write no entry keep the commits in hand sound.
LEMMA LandKeepsHistory ==
    ASSUME IInv, HistoryOK, NEW f,
           RestackDone \/ TickWait \/ TickLand \/ LandReady \/ LandMove \/ LandFinalize(f)
    PROVE  HistoryOK'
<1>0. /\ UNCHANGED <<head, reports, builds, entries, disk, enq, dm>> /\ tick \in Tick
      /\ LandMove \/ base' = base
  BY Zenon DEF RestackDone, TickWait, TickLand, LandReady, LandMove, LandFinalize, outsideQueue,
         queueVars, pullVars, IInv, TypeOK
<1>1. base' \in Held
  <2>1. CASE LandMove
    <3>1. base' = Top.sha /\ tick.pc = "move"
      BY <2>1 DEF LandMove
    <3>2. Len(tick.members) \in DOMAIN tick.members /\ Top = tick.members[Len(tick.members)]
      BY <3>1, MembersInOrder, ZenonT(30)
    <3> QED
      BY <3>1, <3>2, InHand
  <2>2. CASE base' = base
    BY <2>2, InHand
  <2> QED
    BY <1>0, <2>1, <2>2, ZenonT(30)
<1>2. /\ tick'.tip \in {tick.tip, None}
      /\ TickLand \/ tick'.members \in {<<>>, tick.members}
  <2>1. CASE RestackDone \/ TickWait
    BY <2>1 DEF RestackDone, TickWait, Resting
  <2>2. CASE TickLand
    BY <1>0, <2>2, Zenon DEF TickLand, Tick
  <2>3. CASE LandReady \/ LandMove
    BY <1>0, <2>3 DEF LandReady, LandMove, Tick
  <2>4. CASE LandFinalize(f)
    <3>1. PICK w : tick' = [tick EXCEPT !.pc = "record", !.failed = w]
      BY <2>4, Zenon DEF LandFinalize
    <3> QED
      BY <1>0, <3>1 DEF Tick
  <2> QED
    BY <2>1, <2>2, <2>3, <2>4, ZenonT(30)
<1>3. ASSUME NEW i \in DOMAIN tick'.members PROVE tick'.members[i].sha \in Held
  <2>1. CASE TickLand
    <3>1. PICK top \in Green :
             tick' = [tick EXCEPT !.pc = "ready", !.tip = None,
                                  !.members = [j \in 1 .. top |-> Member(tick.live[j])]]
      BY <2>1, Zenon DEF TickLand
    <3> DEFINE ms == [j \in 1 .. top |-> Member(tick.live[j])]
    <3>2. tick'.members = ms
      BY <1>0, <3>1, ZenonT(30) DEF Tick
    <3>3. Restacking /\ i \in 1 .. top /\ top \in DOMAIN tick.live /\ 1 .. top \subseteq DOMAIN tick.live
      <4>1. Restacking /\ top \in DOMAIN tick.live /\ tick.live \in Seq(PRs)
        BY <1>0, <2>1, Zenon DEF TickLand, Restacking, Green, Tick
      <4> QED
        BY <1>3, <3>2, <4>1
    <3>4. ms[i] = Member(tick.live[i]) /\ i \in DOMAIN tick.live
      BY <3>3
    <3>5. ms[i].sha = entries[tick.live[i]].sha /\ entries[tick.live[i]] # None
          /\ tick.live[i] \in PRs
      BY <3>3, <3>4, MemberFacts, LiveEntry, Zenon
    <3> QED
      BY <3>2, <3>5, InHand
  <2>2. CASE ~TickLand
    <3>1. tick'.members = tick.members
      BY <1>2, <1>3, <2>2
    <3> QED
      BY <1>3, <3>1, InHand, ZenonT(30)
  <2> QED
    BY <2>1, <2>2, ZenonT(30)
<1> QED
  BY <1>0, <1>1, <1>2, <1>3, InHand, NothingNew, ZenonT(30)

\* A start, a crash and a request that only reads keep the commits in hand sound.
LEMMA RestartKeepsHistory ==
    ASSUME IInv, HistoryOK, Load \/ Crash \/ \E p \in PRs : EnqueueRead(p) PROVE HistoryOK'
<1>1. CASE Load
  <2>1. entries' = disk /\ UNCHANGED <<base, head, reports, disk, builds, enq, tick, dm>>
    BY <1>1, ZenonT(30) DEF Load, pullVars
  <2> QED
    BY <2>1, InHand, NothingNew
<1>2. CASE Crash
  <2>1. /\ entries' = [p \in PRs |-> None] /\ enq' = [p \in PRs |-> None] /\ tick' = Resting
        /\ dm' = [p \in PRs |-> NoMerge] /\ UNCHANGED <<base, head, reports, disk, builds>>
    BY <1>2 DEF Crash, pullVars
  <2>2. Kept(entries') \subseteq Held
    BY <2>1, KeptIn, ZenonT(30) DEF Parts
  <2>3. tick'.tip = None /\ tick'.members = <<>> /\ \A q \in PRs : dm'[q].to = None /\ enq'[q] = None
    BY <2>1 DEF Resting, NoMerge
  <2> QED
    BY <2>1, <2>2, <2>3, InHand, NothingNew
<1>3. ASSUME NEW p \in PRs, EnqueueRead(p) PROVE HistoryOK'
  <2>1. /\ UNCHANGED <<base, head, reports, entries, disk, builds, tick, dm>>
        /\ \A q \in PRs : enq'[q] \in {enq[q], head[q]}
    BY <1>3, ZenonT(30) DEF EnqueueRead, pullVars, queueVars, IInv, TypeOK
  <2> QED
    BY <2>1, InHand, NothingNew, ZenonT(30)
<1> QED
  BY <1>1, <1>2, <1>3, ZenonT(30)

\* A direct merge keeps the commits in hand sound.
LEMMA DirectKeepsHistory ==
    ASSUME IInv, HistoryOK, NEW p \in PRs, NEW f,
           DirectGate(p) \/ DirectAlreadyIn(p) \/ DirectRead(p) \/ DirectRefused(p) \/ DirectMove(p)
              \/ DirectFinalize(p, f)
    PROVE  HistoryOK'
<1>0. /\ dm \in [PRs -> Merge] /\ UNCHANGED <<head, reports, entries, disk, enq, tick>>
  BY DEF DirectGate, DirectAlreadyIn, DirectRead, DirectRefused, DirectMove, DirectFinalize,
         pullVars, queueVars, IInv, TypeOK
<1>1. CASE DirectRead(p)
  <2> DEFINE n == DirectBuild(p)
             c == Replay(base, head[p], <<p, n>>)
             d == [pc |-> "move", from |-> base, to |-> c, head |-> dm[p].head]
  <2>1. /\ builds' = [builds EXCEPT ![p] = n] /\ dm' = [dm EXCEPT ![p] = d]
        /\ ~Mismatch(base, head[p]) /\ base' = base
    BY <1>1, ZenonT(30) DEF DirectRead, DirectAllowed, DirectReplay
  <2>2. builds \in [PRs -> Nat] /\ n \in Nat /\ builds[p] <= n /\ base \in Commit /\ head[p] \in Commit
    BY DEF IInv, TypeOK, DirectBuild
  <2> HIDE DEF n
  <2>3. builds' \in [PRs -> Nat] /\ (\A q \in PRs : builds[q] <= builds'[q]) /\ n <= builds'[p]
    BY <2>1, <2>2
  <2>4. Sound(base, head, builds) /\ Sound(head[p], head, builds)
    BY <2>2, InHand, NoneIsNoCommit, Zenon DEF HistoryOK
  <2>5. Sound(base, head, builds') /\ Sound(head[p], head, builds')
    BY <2>2, <2>3, <2>4, StampedLater DEF Sound
  <2>6. Sound(c, head, builds')
    BY <2>1, <2>2, <2>3, <2>5, ReplaySound, Zenon
  <2> HIDE DEF c
  <2>7. \A q \in PRs : dm'[q].to \in {dm[q].to, c}
    BY <1>0, <2>1
  <2>8. Held' \subseteq Held \cup {None, c}
    BY <1>0, <2>1, <2>7, InHand, ZenonT(30) DEF Held
  <2> QED
    BY <1>0, <2>3, <2>6, <2>8, HistoryGrows, ZenonT(30)
<1>2. CASE ~DirectRead(p)
  <2>1. builds' = builds
    BY <1>2, ZenonT(30) DEF DirectGate, DirectAlreadyIn, DirectRefused, DirectMove, DirectFinalize, queueVars
  <2>2. base' \in {base, dm[p].to}
    BY <1>2, ZenonT(30) DEF DirectGate, DirectAlreadyIn, DirectRefused, DirectMove, DirectFinalize
  <2>3. \A q \in PRs : dm'[q].to \in {dm[q].to, base, None}
    BY <1>0, <1>2 DEF DirectGate, DirectAlreadyIn, DirectRefused, DirectMove, DirectFinalize,
                      NoMerge, Merge
  <2> QED
    BY <1>0, <2>1, <2>2, <2>3, InHand, NothingNew, Zenon
<1> QED
  BY <1>1, <1>2, ZenonT(30)

\* What was known stays so when a head gets newer.
LEMMA KnownLater ==
    ASSUME NEW c \in Commit, NEW hs, NEW ht, \A p \in PRs : Latest(hs, p) \in Nat /\ Latest(ht, p) \in Nat,
           \A p \in PRs : Latest(hs, p) <= Latest(ht, p), Known(c, hs)
    PROVE  Known(c, ht)
<1>1. ASSUME NEW i \in DOMAIN c PROVE c[i].ver <= Latest(ht, c[i].pr)
  <2>1. c[i] \in Patch
    BY CommitIsPatches
  <2>2. c[i].pr \in PRs /\ c[i].ver \in Nat
    BY <2>1, ZenonT(30) DEF Patch
  <2>3. c[i].ver <= Latest(hs, c[i].pr) /\ Latest(hs, c[i].pr) <= Latest(ht, c[i].pr)
        /\ Latest(hs, c[i].pr) \in Nat /\ Latest(ht, c[i].pr) \in Nat
    BY <2>2 DEF Known
  <2> HIDE DEF Latest
  <2> QED
    BY <2>2, <2>3
<1> QED
  BY <1>1, ZenonT(30) DEF Known

\* The version of a head is a number.
LEMMA LatestType ==
    ASSUME IInv, NEW p \in PRs
    PROVE  /\ Latest(head, p) \in Nat /\ Last(head[p]).ver = Latest(head, p)
           /\ head[p][Len(head[p])].pr = p
<1>1. head[p] \in Seq(Patch) /\ head[p] # <<>> /\ head[p][Len(head[p])].pr = p
  BY CommitIsPatches, ZenonT(30) DEF IInv, HeadsOK, HeadOf
<1>2. head[p][Len(head[p])] \in Patch /\ Last(head[p]) = head[p][Len(head[p])]
  BY <1>1 DEF Last
<1>3. head[p][Len(head[p])].ver \in Nat
  BY <1>2 DEF Patch
<1> QED
  BY <1>1, <1>2, <1>3, ZenonT(30) DEF Latest

\* A push on a base that knows no newer version of it keeps the commits in hand sound.
LEMMA PushKeepsHistory ==
    ASSUME IInv, HistoryOK, NEW p \in PRs, Push(p) PROVE HistoryOK'
<1> DEFINE v == Latest(head, p) + 1
           x == [pr |-> p, ver |-> v, stamp |-> <<p, 0>>]
           h == Append(base, x)
<1>0. /\ head' = [head EXCEPT ![p] = h]
      /\ UNCHANGED <<base, reports, entries, disk, builds, enq, tick, dm>>
  BY LatestType, ZenonT(30) DEF Push, pullsOnly, queueVars
<1>1. v \in Nat /\ Latest(head, p) \in Nat /\ Latest(head, p) < v
  BY LatestType
<1>2. x \in Patch /\ x.pr = p /\ x.ver = v /\ x.stamp[1] = p /\ x.stamp[2] = 0
  BY <1>1 DEF Patch, Stamp
<1>3. base \in Seq(Patch) /\ base \in Commit /\ Sound(base, head, builds) /\ builds \in [PRs -> Nat]
      /\ head \in [PRs -> Commit] /\ TypeOK
  BY InHand, NoneIsNoCommit, CommitIsPatches, ZenonT(30) DEF HistoryOK, IInv, TypeOK
<1> HIDE DEF x, v
<1>4. h \in Seq(Patch) /\ Len(h) = Len(base) + 1 /\ h[Len(h)] = x /\ DOMAIN h = 1 .. Len(base) + 1
      /\ \A i \in 1 .. Len(base) : h[i] = base[i]
  BY <1>2, <1>3, OnePatchMore, Zenon
<1> HIDE DEF h
<1>5. head'[p] = h /\ \A q \in PRs : q # p => head'[q] = head[q]
  <2>1. head' = [head EXCEPT ![p] = h] /\ head \in [PRs -> Commit]
    BY <1>0, <1>3, Zenon
  <2> QED
    BY <2>1, Zenon
<1>6. /\ \A q \in PRs : Latest(head, q) \in Nat /\ Latest(head', q) \in Nat
      /\ \A q \in PRs : Latest(head, q) <= Latest(head', q)
      /\ Latest(head', p) = v
  <2>1. Latest(head', p) = v
    BY <1>2, <1>4, <1>5, ZenonT(30) DEF Latest
  <2>2. \A q \in PRs : q # p => Latest(head', q) = Latest(head, q)
    BY <1>5, ZenonT(30) DEF Latest
  <2>3. \A q \in PRs : Latest(head, q) \in Nat
    BY LatestType, ZenonT(30)
  <2> HIDE DEF Latest
  <2> QED
    BY <1>1, <2>1, <2>2, <2>3
<1>7. \A c \in Held : c # None => Sound(c, head', builds)
  <2>1. ASSUME NEW c \in Held, c # None PROVE Known(c, head')
    <3>1. c \in Commit /\ Known(c, head)
      BY <1>3, <2>1, HeldType DEF HistoryOK, Sound
    <3> QED
      BY <1>6, <3>1, KnownLater, ZenonT(30)
  <2> QED
    BY <2>1, ZenonT(30) DEF HistoryOK, Sound
<1>8. Sound(h, head', builds)
  <2>1. \A i \in 1 .. Len(base) : ~SameChange(base[i], x)
    <3>1. ASSUME NEW i \in 1 .. Len(base), SameChange(base[i], x) PROVE FALSE
      <4>1. base[i].pr = p /\ base[i].ver = v /\ i \in DOMAIN base
        BY <1>2, <1>3, <3>1 DEF SameChange
      <4>2. base[i].ver <= Latest(head, p)
        BY <1>3, <4>1 DEF Sound, Known
      <4> QED
        BY <1>1, <4>1, <4>2
    <3> QED
      BY <3>1, ZenonT(30)
  <2>2. Len(base) \in Nat /\ DOMAIN base = 1 .. Len(base)
    BY <1>3
  <2>3. Unique(h)
    <3>1. ASSUME NEW i \in DOMAIN h, NEW j \in DOMAIN h, SameChange(h[i], h[j]) PROVE i = j
      <4>1. CASE i <= Len(base) /\ j <= Len(base)
        BY <1>3, <1>4, <2>2, <3>1, <4>1 DEF Sound, Unique
      <4>2. CASE i = Len(base) + 1 /\ j <= Len(base)
        BY <1>4, <2>1, <2>2, <3>1, <4>2 DEF SameChange
      <4>3. CASE i <= Len(base) /\ j = Len(base) + 1
        BY <1>4, <2>1, <2>2, <3>1, <4>3
      <4> QED
        BY <1>4, <2>2, <4>1, <4>2, <4>3
    <3> QED
      BY <3>1, ZenonT(30) DEF Unique
  <2>4. Known(base, head')
    BY <1>3, <1>6, KnownLater, ZenonT(30) DEF Sound
  <2>5. Known(h, head')
    <3>1. \A i \in DOMAIN h : (i \in DOMAIN base /\ h[i] = base[i]) \/ h[i] = x
      BY <1>4, <2>2
    <3>2. v <= v
      BY <1>1
    <3> QED
      BY <1>2, <1>6, <2>4, <3>1, <3>2, ZenonT(30) DEF Known
  <2>6. Stamped(h, builds)
    <3>1. \A i \in DOMAIN h : (i \in DOMAIN base /\ h[i] = base[i]) \/ h[i] = x
      BY <1>4, <2>2
    <3>2. 0 <= builds[p]
      BY <1>3
    <3> QED
      BY <1>2, <1>3, <3>1, <3>2, ZenonT(30) DEF Sound, Stamped
  <2> QED
    BY <2>3, <2>5, <2>6, ZenonT(30) DEF Sound
<1>9. Held' \subseteq Held \cup {h}
  BY <1>0, <1>5 DEF Held
<1> QED
  BY <1>0, <1>7, <1>8, <1>9, Zenon DEF HistoryOK

\* A report names a commit in hand; closing and reviewing move no commit.
LEMMA PullsKeepHistory ==
    ASSUME IInv, HistoryOK, NEW p \in PRs, NEW c,
           Close(p) \/ Review(p) \/ ReportHead(p, c) \/ ReportQueued(p, c)
    PROVE  HistoryOK'
<1>1. UNCHANGED <<base, head, entries, disk, builds, enq, tick, dm>>
  BY ZenonT(30) DEF Close, Review, ReportHead, ReportQueued, Report, pullsOnly, pullVars, queueVars
<1>2. Held' = Held
  BY <1>1, Zenon DEF Held
<1>3. ASSUME NEW r \in reports' PROVE Stamped(r.sha, builds)
  <2>1. CASE r \in reports
    BY <2>1 DEF HistoryOK
  <2>2. CASE r \notin reports
    <3>1. r.sha = head[p] \/ (IsBuilding(entries, p) /\ r.sha = entries[p].sha)
      <4>1. ReportHead(p, c) \/ ReportQueued(p, c)
        BY <1>3, <2>2, ZenonT(30) DEF Close, Review, pullsOnly
      <4>2. CASE ReportHead(p, c)
        <5>1. PICK ok \in BOOLEAN : reports' = reports \cup {[sha |-> head[p], ctx |-> c, ok |-> ok]}
          BY <4>2 DEF ReportHead, Report
        <5>2. r = [sha |-> head[p], ctx |-> c, ok |-> ok]
          BY <1>3, <2>2, <5>1, Zenon
        <5> QED
          BY <5>2, ZenonT(30)
      <4>3. CASE ReportQueued(p, c)
        <5>1. PICK ok \in BOOLEAN :
                 reports' = reports \cup {[sha |-> entries[p].sha, ctx |-> c, ok |-> ok]}
          BY <4>3 DEF ReportQueued, Report
        <5>2. r = [sha |-> entries[p].sha, ctx |-> c, ok |-> ok]
          BY <1>3, <2>2, <5>1, Zenon
        <5>3. r.sha = entries[p].sha
          BY <5>2, ZenonT(30)
        <5> QED
          BY <4>3, <5>3, Zenon DEF ReportQueued
      <4> QED
        BY <4>1, <4>2, <4>3, Zenon
    <3>2. r.sha \in Held /\ r.sha \in Commit
      BY <3>1, InHand, QueuedCommit, ZenonT(30) DEF IInv, TypeOK, IsBuilding
    <3> QED
      BY <3>2, NoneIsNoCommit, ZenonT(30) DEF HistoryOK, Sound
  <2> QED
    BY <2>1, <2>2, ZenonT(30)
<1> QED
  BY <1>1, <1>2, <1>3, ZenonT(30) DEF HistoryOK

\* A history with one change of each pull request is sound.
LEMMA InitHistory ==
    ASSUME Init PROVE HistoryOK
<1>0. builds = [p \in PRs |-> 0] /\ head = [p \in PRs |-> Authored(p)] /\ base = <<>>
  BY Zenon DEF Init
<1>1. ASSUME NEW p \in PRs PROVE Sound(head[p], head, builds) /\ Stamped(Authored(p), builds)
  <2> DEFINE x == [pr |-> p, ver |-> 1, stamp |-> <<p, 0>>]
  <2>1. head[p] = <<x>> /\ Authored(p) = <<x>>
    BY <1>0, ZenonT(30) DEF Authored
  <2>2. x.pr = p /\ x.ver = 1 /\ x.stamp = <<p, 0>>
    BY Zenon
  <2>3. x.stamp[1] = p /\ x.stamp[2] = 0
    BY <2>2
  <2> HIDE DEF x
  <2>4. DOMAIN <<x>> = {1} /\ <<x>>[1] = x /\ Len(<<x>>) = 1
    OBVIOUS
  <2>5. Latest(head, p) = 1
    BY <2>1, <2>2, <2>4, ZenonT(30) DEF Latest
  <2>6. Unique(<<x>>)
    BY <2>4, ZenonT(30) DEF Unique
  <2>7. Known(<<x>>, head)
    BY <2>2, <2>4, <2>5 DEF Known
  <2>8. Stamped(<<x>>, builds)
    BY <1>0, <2>3, <2>4 DEF Stamped
  <2> QED
    BY <2>1, <2>6, <2>7, <2>8, ZenonT(30) DEF Sound
<1>2. Sound(base, head, builds)
  BY <1>0 DEF Sound, Unique, Known, Stamped
<1>3. Kept(entries) = {} /\ Kept(disk) = {}
  BY Zenon DEF Init, Kept, Parts
<1>4. Held \subseteq {None, base} \cup {head[p] : p \in PRs}
  <2>1. /\ tick.tip = None /\ tick.members = <<>>
        /\ \A p \in PRs : enq[p] = None /\ dm[p].to = None
    BY Zenon DEF Init, Resting, NoMerge
  <2>2. {tick.members[i].sha : i \in DOMAIN tick.members} = {}
    BY <2>1
  <2>3. {enq[p] : p \in PRs} \cup {dm[p].to : p \in PRs} \subseteq {None}
    BY <2>1, ZenonT(30)
  <2> QED
    BY <1>3, <2>1, <2>2, <2>3, Zenon DEF Held
<1>5. \A r \in reports : \E p \in PRs : r.sha = Authored(p)
  <2>1. reports = {[sha |-> Authored(p), ctx |-> c, ok |-> TRUE] : p \in PRs, c \in Contexts}
    BY DEF Init
  <2> QED
    BY <2>1
<1> QED
  BY <1>1, <1>2, <1>4, <1>5 DEF HistoryOK

\* HistoryOK is inductive, given IInv.
LEMMA HistoryStep ==
    ASSUME IInv, HistoryOK, [Next]_vars PROVE HistoryOK'
<1>1. CASE TickStep
  BY <1>1, TickKeepsHistory, RestackStepKeepsHistory, TickRetryKeepsHistory, LandKeepsHistory, ZenonT(30)
     DEF TickStep
<1>2. CASE Load \/ Crash
  BY <1>2, RestartKeepsHistory, ZenonT(30)
<1>3. ASSUME NEW p \in PRs, EnqueueRead(p) PROVE HistoryOK'
  BY <1>3, RestartKeepsHistory, ZenonT(30)
<1>4. ASSUME NEW p \in PRs, NEW f, Enqueue(p, f) \/ Dequeue(p, f) PROVE HistoryOK'
  BY <1>4, RequestKeepsHistory, ZenonT(30)
<1>5. ASSUME NEW p \in PRs, NEW f,
             DirectGate(p) \/ DirectAlreadyIn(p) \/ DirectRead(p) \/ DirectRefused(p) \/ DirectMove(p)
                \/ DirectFinalize(p, f)
      PROVE  HistoryOK'
  BY <1>5, DirectKeepsHistory
<1>6. ASSUME NEW p \in PRs, Push(p) PROVE HistoryOK'
  BY <1>6, PushKeepsHistory, ZenonT(30)
<1>7. ASSUME NEW p \in PRs, NEW c,
             Close(p) \/ Review(p) \/ ReportHead(p, c) \/ ReportQueued(p, c)
      PROVE  HistoryOK'
  BY <1>7, PullsKeepHistory, ZenonT(30)
<1>8. CASE UNCHANGED vars
  <2>1. UNCHANGED <<base, head, reports, entries, disk, builds, enq, tick, dm>>
    BY <1>8, Zenon DEF vars, pullVars, queueVars
  <2>2. Held' = Held
    BY <2>1 DEF Held
  <2> QED
    BY <2>1, <2>2 DEF HistoryOK
<1>9. ASSUME NEW p \in PRs,
             \/ EnqueueRead(p)
             \/ \E f \in SomeFault({"replay", "write"}) : Enqueue(p, f)
             \/ \E f \in SomeFault({"write"}) : Dequeue(p, f)
      PROVE  HistoryOK'
  BY <1>3, <1>4, <1>9, Zenon
<1>10. ASSUME NEW p \in PRs,
              \/ DirectGate(p) \/ DirectAlreadyIn(p) \/ DirectRead(p) \/ DirectRefused(p)
                    \/ DirectMove(p)
              \/ \E f \in SomeFault({"record"}) : DirectFinalize(p, f)
       PROVE  HistoryOK'
  BY <1>5, <1>10, Zenon
<1>11. ASSUME NEW p \in PRs,
              \/ Push(p) \/ Close(p) \/ Review(p)
              \/ \E c \in Contexts : ReportHead(p, c) \/ ReportQueued(p, c)
       PROVE  HistoryOK'
  BY <1>6, <1>7, <1>11, Zenon
<1> QED
  BY <1>1, <1>2, <1>8, <1>9, <1>10, <1>11, Zenon DEF Next
=============================================================================
