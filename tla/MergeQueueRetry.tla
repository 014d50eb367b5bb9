-------------------------- MODULE MergeQueueRetry ---------------------------
(***************************************************************************)
(* An attempt of MergeQueue is spent by a red gate only.  Each failure of  *)
(* an entry is matched by a red report on a replay of its own, other than  *)
(* the one it has now: a rebuild gets a commit no report names, because its*)
(* stamp is new.  The exception is a head the base holds already: its      *)
(* replay is the tip, and it stays so as the base advances.                *)
(***************************************************************************)
EXTENDS MergeQueueHistory

\* The replays of p's changes that a gate reported red.
IsRedReplay(r, p) ==
    ~r.ok /\ r.sha # <<>> /\ Last(r.sha).pr = p /\ Last(r.sha).stamp[2] # 0

RedReplays(rs, p) == {r.sha : r \in {x \in rs : IsRedReplay(x, p)}}

RedReports(rs) == {r \in rs : ~r.ok}

\* Each failure of e had a red replay of its own.
Spent(e, p, rs) == e.red <= Cardinality(RedReplays(rs, p) \ {e.sha})

InBase(e, b) == IsAncestor(e.head, e.base) /\ IsAncestor(e.head, b)

Retried(e, p, b, rs) ==
    e # None =>
        /\ e.red <= MaxAttempts
        /\ e.state = "building" =>
              e.red < MaxAttempts /\ e.reason # "gate" /\ (Spent(e, p, rs) \/ InBase(e, b))
        /\ e.reason = "gate" => e.red = MaxAttempts \/ (e.red > 0 /\ e.sha = e.head)

\* The stack names an entry once, and what its tip does not hold is matched.
StackSpent ==
    Restacking =>
        /\ IsAncestor(tick.tip, base)
        /\ \A i, j \in DOMAIN tick.live : tick.live[i] = tick.live[j] => i = j
        /\ \A i \in DOMAIN tick.live :
              \/ Spent(entries[tick.live[i]], tick.live[i], reports)
              \/ IsAncestor(entries[tick.live[i]].head, tick.tip)

RetryOK ==
    /\ IsFiniteSet(RedReports(reports))
    /\ \A p \in PRs : Retried(entries[p], p, base, reports) /\ Retried(disk[p], p, base, reports)
    /\ StackSpent

-----------------------------------------------------------------------------
(* Counting red replays.                                                   *)

\* There are finitely many, and no fewer as reports come in.
LEMMA RedReplaysFinite ==
    ASSUME NEW rs, IsFiniteSet(RedReports(rs)), NEW p
    PROVE  IsFiniteSet(RedReplays(rs, p))
<1> DEFINE R == {x \in rs : IsRedReplay(x, p)}
<1>1. R \subseteq RedReports(rs)
  BY DEF RedReports, IsRedReplay
<1>2. IsFiniteSet(R)
  BY <1>1, FS_Subset
<1>3. RedReplays(rs, p) = {r.sha : r \in R}
  BY DEF RedReplays
<1> HIDE DEF R
<1>4. IsFiniteSet({r.sha : r \in R})
  <2> DEFINE T == {r.sha : r \in R}
             g == [r \in R |-> r.sha]
  <2>1. g \in Surjection(R, T)
    BY DEF Surjection
  <2> HIDE DEF T, g
  <2>2. IsFiniteSet(T)
    BY <1>2, <2>1, FS_Surjection
  <2> QED
    BY <2>2 DEF T
<1> QED
  BY <1>3, <1>4

\* Retries that were earned stay earned while reports come in.
LEMMA SpentLater ==
    ASSUME NEW e, NEW p, e.red \in Nat, NEW rs, NEW rt, rs \subseteq rt,
           IsFiniteSet(RedReports(rt)), Spent(e, p, rs)
    PROVE  Spent(e, p, rt)
<1> DEFINE A == RedReplays(rs, p) \ {e.sha}
           B == RedReplays(rt, p) \ {e.sha}
<1>1. IsFiniteSet(B)
  BY RedReplaysFinite, FS_Subset
<1>2. A \subseteq B
  BY DEF RedReplays
<1>3. e.red <= Cardinality(A)
  BY DEF Spent
<1> HIDE DEF A, B
<1>4. IsFiniteSet(A) /\ Cardinality(A) <= Cardinality(B)
  BY <1>1, <1>2, FS_Subset
<1>5. Cardinality(A) \in Nat /\ Cardinality(B) \in Nat
  BY <1>1, <1>4, FS_CardinalityType
<1>6. e.red <= Cardinality(B)
  BY <1>3, <1>4, <1>5
<1> QED
  BY <1>6 DEF Spent, B

\* A commit no report names takes nothing from the count, and its red forerunner adds one.
LEMMA CountFresh ==
    ASSUME NEW R, IsFiniteSet(R), NEW c, c \notin R, NEW x, NEW n \in Nat,
           n <= Cardinality(R \ {x})
    PROVE  /\ n <= Cardinality(R \ {c})
           /\ x \in R => n + 1 <= Cardinality(R \ {c})
<1>1. R \ {c} = R
  OBVIOUS
<1>2. IsFiniteSet(R \ {x}) /\ Cardinality(R \ {x}) <= Cardinality(R)
  BY FS_Subset
<1>3. x \in R => Cardinality(R \ {x}) = Cardinality(R) - 1
  BY FS_RemoveElement
<1>4. Cardinality(R) \in Nat /\ Cardinality(R \ {x}) \in Nat
  BY <1>2, FS_CardinalityType
<1>5. n <= Cardinality(R) /\ (x \in R => n + 1 <= Cardinality(R))
  BY <1>2, <1>3, <1>4
<1> QED
  BY <1>1, <1>5

-----------------------------------------------------------------------------
(* The last commit of a replay.                                            *)

LEMMA ConcatEnd ==
    ASSUME NEW S, NEW a \in Seq(S), NEW r \in Seq(S), r # <<>>
    PROVE  a \o r \in Seq(S) /\ a \o r # <<>> /\ Last(a \o r) = r[Len(r)]
<1>1. Len(a) \in Nat /\ Len(r) \in Nat /\ Len(r) # 0
  OBVIOUS
<1>2. a \o r \in Seq(S) /\ Len(a \o r) = Len(a) + Len(r)
  OBVIOUS
<1>3. (a \o r)[Len(a) + Len(r)] = r[Len(r)]
  BY <1>1
<1> QED
  BY <1>1, <1>2, <1>3 DEF Last

\* A head that is not in the parent is replayed to a commit that ends with it.
LEMMA ReplayEnd ==
    ASSUME NEW s \in Stamp, NEW a \in Commit, NEW h \in Commit, h # <<>>, ~IsAncestor(h, a)
    PROVE  LET c == Replay(a, h, s) IN
           /\ c \in Commit /\ c # <<>> /\ SameChange(Last(c), Last(h))
           /\ IsAncestor(a, h) => c = h
           /\ ~IsAncestor(a, h) => Last(c).stamp = s
<1>0. /\ a \in Seq(Patch) /\ h \in Seq(Patch) /\ Patch = PatchOf(PRs, Stamp) /\ Len(h) \in Nat
      /\ Len(a) \in Nat /\ Len(h) # 0
  BY CommitIsPatches
<1>1. CASE IsAncestor(a, h)
  BY <1>1, ZenonT(30) DEF Replay, SameChange
<1>2. CASE ~IsAncestor(a, h)
  <2> DEFINE q == Picks(a, h)
             r == Restamped(q, s)
             k == Shared(a, h)
  <2>1. /\ r \in Seq(Patch) /\ Replay(a, h, s) = a \o r /\ Len(r) = Len(h) - k
        /\ \A i \in 1 .. Len(r) : SameChange(r[i], h[k + i])
    BY <1>0, <1>2, ReplayShape
  <2>2. k \in Nat /\ k <= Len(a) /\ k <= Len(h) /\ \A i \in 1 .. k : a[i] = h[i]
    BY <1>0, SharedHistory
  <2>3. q \in Seq(Patch) /\ Len(q) = Len(h) - k
    BY <1>0, PicksType
  <2> HIDE DEF k, q
  <2>4. k # Len(h)
    BY <1>0, <2>2 DEF IsAncestor
  <2>5. \A i \in 1 .. Len(q) : r[i].stamp = s
    <3>1. ASSUME NEW i \in 1 .. Len(q) PROVE r[i].stamp = s
      <4>1. r[i] = [q[i] EXCEPT !.stamp = s] /\ q[i] \in Patch
        BY <2>3 DEF Restamped
      <4> QED
        BY <4>1 DEF Patch
    <3> QED
      BY <3>1
  <2> HIDE DEF r
  <2>6. Len(r) \in 1 .. Len(r) /\ k + Len(r) = Len(h) /\ Len(r) \in 1 .. Len(q)
    BY <1>0, <2>1, <2>2, <2>3, <2>4
  <2>7. SameChange(r[Len(r)], h[Len(h)]) /\ r[Len(r)].stamp = s
    BY <2>1, <2>5, <2>6
  <2>8. r # <<>>
    BY <2>6
  <2>9. a \o r \in Seq(Patch) /\ a \o r # <<>> /\ Last(a \o r) = r[Len(r)] /\ Last(h) = h[Len(h)]
    BY <1>0, <2>1, <2>8, ConcatEnd DEF Last
  <2> QED
    BY <1>2, <2>1, <2>7, <2>9, CommitIsPatches, ZenonT(30)
<1> QED
  BY <1>1, <1>2

\* The next replay of a head has a commit no report names.
LEMMA FreshIsNotRed ==
    ASSUME IInv, HistoryOK, NEW p \in PRs, NEW h, NEW b, HeadOf(h, p, b), NEW parent \in Commit,
           ~IsAncestor(h, parent)
    PROVE  Replay(parent, h, <<p, NextBuild(p, h, parent)>>) \notin RedReplays(reports, p)
<1> DEFINE n == NextBuild(p, h, parent)
           s == <<p, n>>
           c == Replay(parent, h, s)
<1>0. builds \in [PRs -> Nat] /\ h \in Commit /\ h # <<>> /\ Last(h).stamp = <<p, 0>>
  BY DEF IInv, TypeOK, HeadOf, Last
<1>1. n \in Nat /\ s \in Stamp /\ s[1] = p /\ s[2] = n
  BY <1>0, NextBuildType
<1>2. ~IsAncestor(parent, h) => n = builds[p] + 1
  BY DEF NextBuild
<1> HIDE DEF n, s
<1>3. /\ c \in Commit /\ c # <<>>
      /\ IsAncestor(parent, h) => c = h
      /\ ~IsAncestor(parent, h) => Last(c).stamp = s
  BY <1>0, <1>1, ReplayEnd
<1> HIDE DEF c
<1>4. ASSUME NEW r \in reports, IsRedReplay(r, p), r.sha = c PROVE FALSE
  <2>1. Last(c).stamp[2] # 0
    BY <1>4 DEF IsRedReplay
  <2>2. CASE IsAncestor(parent, h)
    BY <1>0, <1>3, <2>1, <2>2
  <2>3. CASE ~IsAncestor(parent, h)
    <3>1. Stamped(c, builds)
      BY <1>4 DEF HistoryOK
    <3>2. Len(c) \in DOMAIN c /\ Last(c) = c[Len(c)]
      BY <1>3, CommitIsPatches DEF Last
    <3>3. s[2] <= builds[s[1]]
      BY <1>3, <2>3, <3>1, <3>2 DEF Stamped
    <3> QED
      BY <1>0, <1>1, <1>2, <2>3, <3>3
  <2> QED
    BY <2>2, <2>3
<1> QED
  BY <1>4, ZenonT(30) DEF RedReplays, c, s, n

\* A rebuilt entry is matched as it was: its commit is new.
LEMMA RebuiltSpent ==
    ASSUME IInv, HistoryOK, IsFiniteSet(RedReports(reports)),
           NEW p \in PRs, NEW h, NEW b, HeadOf(h, p, b), NEW parent \in Commit,
           ~IsAncestor(h, parent), NEW d, d.red \in Nat,
           d.sha = Replay(parent, h, <<p, NextBuild(p, h, parent)>>),
           NEW e, e.red \in Nat, Spent(e, p, reports),
           \/ d.red = e.red
           \/ d.red = e.red + 1 /\ e.sha \in RedReplays(reports, p)
    PROVE  Spent(d, p, reports)
<1> DEFINE R == RedReplays(reports, p)
           c == d.sha
           x == e.sha
<1>1. c \notin R
  BY FreshIsNotRed
<1>2. IsFiniteSet(R) /\ e.red <= Cardinality(R \ {x})
  BY RedReplaysFinite DEF Spent
<1> HIDE DEF R, c, x
<1>3. e.red <= Cardinality(R \ {c}) /\ (x \in R => e.red + 1 <= Cardinality(R \ {c}))
  BY <1>1, <1>2, CountFresh
<1>4. d.red <= Cardinality(R \ {c})
  BY <1>3 DEF R, x
<1> QED
  BY <1>4, ZenonT(30) DEF Spent, R, c

\* A red queue commit that is not the head's own is a red replay.
LEMMA RedIsReplay ==
    ASSUME IInv, NEW p \in PRs, IsBuilding(entries, p), Own(p) = "red",
           entries[p].sha # entries[p].head, ~IsAncestor(entries[p].head, entries[p].base)
    PROVE  entries[p].sha \in RedReplays(reports, p)
<1> DEFINE e == entries[p]
<1>1. /\ e.head \in Commit /\ e.head # <<>> /\ Last(e.head).pr = p
      /\ e.base \in Commit /\ IsReplay(e)
  BY QueuedCommit, ZenonT(30) DEF HeadOf, Last
<1>2. PICK s \in Stamp : s[2] # 0 /\ e.sha = Replay(e.base, e.head, s)
  BY <1>1, ZenonT(30) DEF IsReplay
<1>3. /\ e.sha # <<>> /\ SameChange(Last(e.sha), Last(e.head))
      /\ IsAncestor(e.base, e.head) => e.sha = e.head
      /\ ~IsAncestor(e.base, e.head) => Last(e.sha).stamp = s
  BY <1>1, <1>2, ReplayEnd
<1>4. Last(e.sha).pr = p /\ Last(e.sha).stamp[2] # 0
  BY <1>1, <1>2, <1>3 DEF SameChange
<1>5. \E c : [sha |-> e.sha, ctx |-> c, ok |-> FALSE] \in reports
  BY Zenon DEF Own, GateVerdict
<1> HIDE DEF e
<1>6. PICK c : [sha |-> e.sha, ctx |-> c, ok |-> FALSE] \in reports
  BY <1>5, Zenon
<1>7. IsRedReplay([sha |-> e.sha, ctx |-> c, ok |-> FALSE], p)
  BY <1>3, <1>4 DEF IsRedReplay
<1>8. e.sha \in RedReplays(reports, p)
  BY <1>6, <1>7 DEF RedReplays
<1> QED
  BY <1>8, ZenonT(30) DEF e

-----------------------------------------------------------------------------
(* The stack a tick works on.                                              *)

\* stack_order names an entry once.
LEMMA OrderIsInjective ==
    ASSUME NEW S \in SUBSET PRs, NEW es, \A p \in S : es[p].at \in Nat,
           NEW live \in StackOrders(es, S)
    PROVE  /\ \A i, j \in DOMAIN live : live[i] = live[j] => i = j
           /\ \A i \in DOMAIN live : live[i] \in S
<1>1. IsFiniteSet(S)
  BY ConstantsAssumption, FS_Subset, Zenon
<1>2. Cardinality(S) \in Nat
  BY <1>1, FS_CardinalityType
<1>3. DOMAIN live = 1 .. Cardinality(S) /\ \A i \in DOMAIN live : live[i] \in S
  BY DEF StackOrders
<1>4. ASSUME NEW i \in DOMAIN live, NEW j \in DOMAIN live, i < j PROVE live[i] # live[j]
  <2>1. es[live[i]].at < es[live[j]].at
    BY <1>4, ZenonT(30) DEF StackOrders
  <2> QED
    BY <1>3, <2>1
<1> QED
  BY <1>2, <1>3, <1>4

\* What the i-th entry has to sit on extends the tip, and holds its head only if the tip does.
LEMMA ParentExtendsTip ==
    ASSUME IInv, RetryOK, Restacking, tick.tip # None, NEW i \in DOMAIN tick.live,
           \A j \in 1 .. i - 1 : IsPlaced(j)
    PROVE  /\ IsAncestor(tick.tip, ParentOf(i))
           /\ IsAncestor(entries[tick.live[i]].head, ParentOf(i))
                 => IsAncestor(entries[tick.live[i]].head, tick.tip)
<1> DEFINE h == entries[tick.live[i]].head
           c == ParentOf(i)
<1>0. /\ tick.tip \in Seq(Patch) /\ tick.live \in Seq(PRs) /\ i \in 1 .. Len(tick.live)
      /\ Len(tick.live) \in Nat
  BY CommitIsPatches DEF IInv, TypeOK, Tick
<1>1. h \in Seq(Patch) /\ h # <<>> /\ h[Len(h)].pr = tick.live[i]
  BY LiveEntry, CommitIsPatches, Zenon DEF HeadOf
<1>2. CASE i = 1
  <2>1. ParentOf(i) = tick.tip
    BY <1>2, ZenonT(30) DEF ParentOf
  <2> QED
    BY <1>0, <2>1, AncestorReflexive, ZenonT(30)
<1>3. CASE i # 1
  <2>1. i - 1 \in 1 .. i - 1 /\ i - 1 \in 0 .. Len(tick.live) /\ i - 1 \in DOMAIN tick.live
        /\ \A m \in 1 .. i - 1 : m \in DOMAIN tick.live /\ m # i
    BY <1>0, <1>3
  <2>2. c = entries[tick.live[i - 1]].sha
    BY <1>3, ZenonT(30) DEF ParentOf
  <2>3. c \in Seq(Patch)
    BY <2>1, <2>2, LiveEntry, CommitIsPatches, ZenonT(30)
  <2>4. ChainUpTo(i - 1)
    BY <2>1, ChainBelow, ZenonT(30)
  <2>5. /\ IsAncestor(tick.tip, c)
        /\ \A j \in Len(tick.tip) + 1 .. Len(c) :
              \E m \in 1 .. i - 1 : SameChange(c[j], LastOf(tick.live[m]))
    BY <2>2, <2>4 DEF ChainUpTo
  <2>6. ASSUME IsAncestor(h, c) PROVE IsAncestor(h, tick.tip)
    <3> HIDE DEF c, h
    <3>0. Len(h) \in Nat /\ Len(h) # 0 /\ Len(c) \in Nat /\ Len(tick.tip) \in Nat
      BY <1>0, <1>1, <2>3
    <3>1. CASE Len(h) <= Len(tick.tip)
      BY <1>0, <1>1, <2>3, <2>5, <2>6, <3>0, <3>1 DEF IsAncestor
    <3>2. CASE Len(h) > Len(tick.tip)
      <4>1. Len(h) \in Len(tick.tip) + 1 .. Len(c) /\ c[Len(h)] = h[Len(h)]
        BY <2>6, <3>0, <3>2 DEF IsAncestor
      <4>2. PICK m \in 1 .. i - 1 : SameChange(c[Len(h)], LastOf(tick.live[m]))
        BY <2>5, <4>1, ZenonT(30)
      <4>3. LastOf(tick.live[m]).pr = tick.live[m]
        BY <2>1, LiveEntry, Zenon DEF HeadOf, LastOf
      <4>4. tick.live[m] = tick.live[i]
        BY <1>1, <4>1, <4>2, <4>3 DEF SameChange
      <4> QED
        BY <2>1, <4>4, ZenonT(30) DEF RetryOK, StackSpent
    <3> QED
      BY <3>0, <3>1, <3>2
  <2> QED
    BY <2>5, <2>6
<1> QED
  BY <1>2, <1>3, ZenonT(30)

-----------------------------------------------------------------------------
(* What a step keeps.                                                      *)

\* Reports come in and the base advances: what was matched stays so.
LEMMA RetriedLater ==
    ASSUME NEW e \in Entry \cup {None}, NEW p, NEW a \in Commit, NEW b \in Commit, IsAncestor(a, b),
           NEW rs, NEW rt, rs \subseteq rt, IsFiniteSet(RedReports(rt)), Retried(e, p, a, rs)
    PROVE  Retried(e, p, b, rt)
<1>1. CASE e = None
  BY <1>1, ZenonT(30) DEF Retried
<1>2. CASE e # None
  <2>1. e \in Entry /\ e.red \in Nat /\ e.head \in Commit
    BY <1>2, ZenonT(30) DEF Entry
  <2>2. Spent(e, p, rs) => Spent(e, p, rt)
    BY <2>1, SpentLater, ZenonT(30)
  <2>3. InBase(e, a) => InBase(e, b)
    BY <2>1, AncestorTrans, ZenonT(30) DEF InBase
  <2> QED
    BY <1>2, <2>2, <2>3, ZenonT(30) DEF Retried
<1> QED
  BY <1>1, <1>2, ZenonT(30)

\* An entry that settles is matched as it was.
LEMMA SettledRetried ==
    ASSUME NEW new, Settled(new), NEW b, NEW rs, \A p \in PRs : Retried(entries[p], p, b, rs),
           NEW p \in PRs
    PROVE  /\ Retried(new[p], p, b, rs)
           /\ new[p] # None /\ new[p] # entries[p] => Keeps(new[p], entries[p])
<1>1. CASE new[p] = entries[p]
  BY <1>1
<1>2. CASE new[p] # entries[p]
  <2> DEFINE d == new[p]
             e == entries[p]
  <2>1. /\ e # None /\ d.head = e.head /\ d.base = e.base /\ d.sha = e.sha /\ d.red = e.red
        /\ (d.state = e.state /\ d.reason = e.reason) \/ (d.state \in Ends /\ d.reason # "gate")
    BY <1>2 DEF Settled, Keeps
  <2>2. d.state \in Ends => d.state # "building"
    BY DEF Ends
  <2>3. Retried(e, p, b, rs)
    BY Zenon
  <2> HIDE DEF d, e
  <2>4. Spent(e, p, rs) => Spent(d, p, rs)
    BY <2>1, ZenonT(30) DEF Spent
  <2>5. InBase(e, b) => InBase(d, b)
    BY <2>1, ZenonT(30) DEF InBase
  <2>6. Retried(d, p, b, rs)
    BY <2>1, <2>2, <2>3, <2>4, <2>5, ZenonT(30) DEF Retried
  <2> QED
    BY <1>2, <2>6, ZenonT(30) DEF Settled, d
<1> QED
  BY <1>1, <1>2, ZenonT(30)

\* What is written is matched in the index and in the refs.
LEMMA SavedRetried ==
    ASSUME RetryOK, NEW new, NEW f, Save(new, f), UNCHANGED <<base, reports>>,
           \A p \in PRs : Retried(new[p], p, base, reports), StackSpent'
    PROVE  RetryOK'
<1>1. ASSUME NEW p \in PRs
      PROVE  entries'[p] = new[p] /\ disk'[p] \in {new[p], disk[p]}
  BY ZenonT(30) DEF Save
<1>2. ASSUME NEW p \in PRs
      PROVE  Retried(entries'[p], p, base, reports) /\ Retried(disk'[p], p, base, reports)
  BY <1>1 DEF RetryOK
<1>3. IsFiniteSet(RedReports(reports))
  BY ZenonT(30) DEF RetryOK
<1> QED
  BY <1>2, <1>3, ZenonT(30) DEF RetryOK

\* restack takes up entries that are matched, or that the base holds.
LEMMA RestackSpent ==
    ASSUME IInv, NEW S \in SUBSET PRs, NEW es, NEW pc \in {"stack", "restack"}, NEW f \in AnyFault,
           "tip" \notin Faults, Restack(pc, S, es, f), entries' = es, UNCHANGED <<base, reports>>,
           \A p \in S : /\ es[p] \in Entry /\ es[p].state = "building" /\ es[p] # None
                        /\ Retried(es[p], p, base, reports)
    PROVE  StackSpent'
<1>1. PICK live \in StackOrders(es, S) :
           tick' = [Resting EXCEPT !.pc = pc, !.live = live,
                                   !.tip = IF f[1] = "tip" THEN None ELSE base]
  BY Zenon DEF Restack
<1>2. tick'.live = live
  BY <1>1 DEF Resting
<1>3. tick'.tip = base /\ base \in Commit
  BY RestackFacts, ZenonT(30) DEF IInv, TypeOK
<1>4. \A p \in S : es[p].at \in Nat
  BY ZenonT(30) DEF Entry
<1>5. /\ \A i, j \in DOMAIN live : live[i] = live[j] => i = j
      /\ \A i \in DOMAIN live : live[i] \in S
  BY <1>4, OrderIsInjective
<1>6. ASSUME NEW p \in S PROVE Spent(es[p], p, reports) \/ IsAncestor(es[p].head, base)
  BY ZenonT(30) DEF Retried, InBase
<1>7. IsAncestor(base, base)
  BY <1>3, CommitIsPatches, AncestorReflexive, ZenonT(30)
<1> QED
  BY <1>2, <1>3, <1>5, <1>6, <1>7 DEF StackSpent

\* The entries of S build.
LEMMA BuildingIsEntry ==
    ASSUME TypeOK', NEW S \in SUBSET PRs, \A p \in S : IsBuilding(entries', p)
    PROVE  \A p \in S : entries'[p] \in Entry /\ entries'[p].state = "building" /\ entries'[p] # None
BY ZenonT(30) DEF TypeOK, IsBuilding

\* A step that settles entries and restacks.
LEMMA SettleAndRestack ==
    ASSUME IInv, IInv', RetryOK, "tip" \notin Faults, NEW new, NEW f \in AnyFault, Settled(new),
           Save(new, f), UNCHANGED <<base, reports>>,
           NEW S \in SUBSET PRs, \A p \in S : IsBuilding(new, p),
           NEW pc \in {"stack", "restack"}, Restack(pc, S, new, f)
    PROVE  RetryOK'
<1>1. entries' = new
  BY ZenonT(30) DEF Save
<1>2. \A p \in PRs : Retried(entries[p], p, base, reports)
  BY DEF RetryOK
<1>3. \A p \in PRs : Retried(new[p], p, base, reports)
  BY <1>2, SettledRetried, ZenonT(30)
<1>4. \A p \in S : entries'[p] \in Entry /\ entries'[p].state = "building" /\ entries'[p] # None
  BY <1>1, BuildingIsEntry, ZenonT(30) DEF IInv
<1>5. StackSpent'
  BY <1>1, <1>3, <1>4, RestackSpent
<1> QED
  BY <1>3, <1>5, SavedRetried, ZenonT(30)

\* The steps of a tick that end entries.
LEMMA TickKeepsRetry ==
    ASSUME IInv, IInv', RetryOK, "tip" \notin Faults, NEW f \in AnyFault,
           TickStart(f) \/ LandRefused(f) \/ LandBlocked(f) \/ LandNotBelow(f) \/ LandRecord(f)
    PROVE  RetryOK'
<1>1. UNCHANGED <<base, reports>>
  BY DEF TickStart, LandRefused, LandBlocked, LandNotBelow, LandRecord, outsideQueue
<1>2. PICK new : Settled(new) /\ Save(new, f)
  BY TickStartWrites, LandStopsWrites, LandRecordWrites, ZenonT(30)
<1>3. new = entries' /\ TypeOK
  BY <1>2, ZenonT(30) DEF Save, IInv
<1>4. CASE TickStart(f)
  <2> DEFINE seen == {p \in Building(entries) : f # <<"unreadable", p>>}
             nw == [p \in PRs |-> IF p \in seen THEN Checked(p) ELSE entries[p]]
             S == {p \in seen : IsBuilding(nw, p)}
  <2>1. Restack("stack", S, nw, f) /\ Save(nw, f)
    BY <1>4, ZenonT(30) DEF TickStart
  <2>2. nw = new
    BY <1>3, <2>1, ZenonT(30) DEF Save
  <2>3. S \in SUBSET PRs /\ \A p \in S : IsBuilding(nw, p)
    BY ZenonT(30) DEF Building
  <2> HIDE DEF S, nw
  <2> QED
    BY <1>1, <1>2, <2>1, <2>2, <2>3, SettleAndRestack
<1>5. CASE ~TickStart(f)
  <2>1. PICK nw : Save(nw, f) /\ Restack("restack", Remaining(nw), nw, f)
    BY <1>5, Zenon DEF LandRefused, LandBlocked, LandNotBelow, LandRecord, EndLanding
  <2>2. nw = new
    BY <1>3, <2>1, ZenonT(30) DEF Save
  <2>3. Remaining(nw) \in SUBSET PRs /\ \A p \in Remaining(nw) : IsBuilding(nw, p)
    BY <1>3, RemainingBuild, ZenonT(30)
  <2> QED
    BY <1>1, <1>2, <2>1, <2>2, <2>3, SettleAndRestack
<1> QED
  BY <1>4, <1>5, ZenonT(30)

\* A step that rewrites one entry.
LEMMA OneRetried ==
    ASSUME IInv, RetryOK, NEW p \in PRs, NEW d, Retried(d, p, base, reports)
    PROVE  \A q \in PRs : Retried([entries EXCEPT ![p] = d][q], q, base, reports)
<1>1. \A q \in PRs : [entries EXCEPT ![p] = d][q] = IF q = p THEN d ELSE entries[q]
  BY ZenonT(30) DEF IInv, TypeOK
<1> QED
  BY <1>1 DEF RetryOK

\* A building entry that was matched or in the tip, put on a parent that extends the tip.
LEMMA RestackedEntry ==
    ASSUME IInv, HistoryOK, RetryOK, Restacking, tick.tip # None, NEW i \in DOMAIN tick.live,
           \A j \in 1 .. i - 1 : IsPlaced(j), NEW d, NEW f,
           Rebuilt(tick.live[i], d, entries[tick.live[i]].head, ParentOf(i), f),
           d.red = entries[tick.live[i]].red, d.reason = entries[tick.live[i]].reason
    PROVE  /\ Retried(d, tick.live[i], base, reports)
           /\ Spent(d, tick.live[i], reports) \/ IsAncestor(d.head, tick.tip)
<1> DEFINE p == tick.live[i]
           e == entries[p]
           c == ParentOf(i)
<1>0. /\ p \in PRs /\ e \in Entry /\ e.state = "building" /\ HeadOf(e.head, p, base)
      /\ e.head \in Commit /\ e.red \in Nat /\ e # None
  <2>1. e # None
    BY ZenonT(30) DEF IInv, LiveOK, Restacking, IsBuilding
  <2> QED
    BY <2>1, LiveEntry, ZenonT(30) DEF HeadOf, Entry
<1>1. /\ c \in Commit /\ tick.tip \in Commit /\ base \in Commit /\ IsAncestor(tick.tip, base)
  BY ParentFacts, ZenonT(30) DEF IInv, TypeOK, Tick, RetryOK, StackSpent
<1>2. /\ IsAncestor(tick.tip, c)
      /\ IsAncestor(e.head, c) => IsAncestor(e.head, tick.tip)
  BY ParentExtendsTip, ZenonT(30)
<1>3. Spent(e, p, reports) \/ IsAncestor(e.head, tick.tip)
  BY ZenonT(30) DEF RetryOK, StackSpent
<1>4. /\ d.head = e.head /\ d.base = c /\ d.red = e.red /\ d.reason = e.reason
      /\ d.state = "building" /\ d.sha = Replay(c, e.head, <<p, NextBuild(p, e.head, c)>>)
  BY DEF Rebuilt
<1>5. e.red < MaxAttempts /\ e.reason # "gate"
  BY <1>0, ZenonT(30) DEF RetryOK, Retried
<1> HIDE DEF c, e, p
<1>6. Spent(d, p, reports) \/ IsAncestor(e.head, tick.tip)
  <2>1. ASSUME ~IsAncestor(e.head, tick.tip) PROVE Spent(d, p, reports)
    <3>1. ~IsAncestor(e.head, c) /\ Spent(e, p, reports)
      BY <1>2, <1>3, <2>1, ZenonT(30)
    <3>2. IsFiniteSet(RedReports(reports)) /\ d.red \in Nat
      BY <1>0, <1>4, ZenonT(30) DEF RetryOK
    <3> QED
      BY <1>0, <1>1, <1>4, <3>1, <3>2, RebuiltSpent, ZenonT(30)
  <2> QED
    BY <2>1, ZenonT(30)
<1>7. IsAncestor(e.head, tick.tip) => InBase(d, base)
  BY <1>0, <1>1, <1>2, <1>4, AncestorTrans, ZenonT(30) DEF InBase
<1>8. Retried(d, p, base, reports)
  <2>1. d.red <= MaxAttempts
    BY <1>0, <1>4, <1>5, ConstantsAssumption
  <2> QED
    BY <1>4, <1>5, <1>6, <1>7, <2>1, ZenonT(30) DEF Retried
<1> QED
  BY <1>4, <1>6, <1>8 DEF p, e

\* A turn of restack's loop spends no attempt.
LEMMA RestackStepKeepsRetry ==
    ASSUME IInv, IInv', HistoryOK, RetryOK, "tip" \notin Faults, NEW f, RestackStep(f)
    PROVE  RetryOK'
<1>0. /\ UNCHANGED <<base, reports>> /\ Restacking /\ tick.tip # None /\ tick \in Tick /\ TypeOK
  BY ZenonT(30) DEF RestackStep, outsideQueue, IInv, TypeOK
<1>1. PICK live \in StackOrders(entries', Remaining(entries')) : tick' = [tick EXCEPT !.live = live]
  BY DEF RestackStep
<1>2. tick'.live = live /\ tick'.tip = tick.tip
  BY <1>0, <1>1, ZenonT(30) DEF Tick
<1>3. /\ Remaining(entries') \in SUBSET PRs
      /\ \A q \in Remaining(entries') : IsBuilding(entries', q)
      /\ \A q \in Remaining(entries') : \E m \in DOMAIN tick.live : q = tick.live[m]
  BY <1>0, RemainingBuild, ZenonT(30) DEF Remaining, Range
<1>4. \A q \in Remaining(entries') :
         entries'[q] \in Entry /\ entries'[q].state = "building" /\ entries'[q] # None
  BY <1>3, BuildingIsEntry, ZenonT(30) DEF IInv
<1>5. PICK i \in DOMAIN tick.live :
         /\ \A j \in 1 .. i - 1 : IsPlaced(j)
         /\ \/ builds' = builds /\ \E new : Settled(new) /\ Save(new, f)
            \/ \E d : /\ Rebuilt(tick.live[i], d, entries[tick.live[i]].head, ParentOf(i), f)
                      /\ d.red = entries[tick.live[i]].red
                      /\ d.reason = entries[tick.live[i]].reason
  BY RestackStepWrites
<1>6. \E new : /\ Save(new, f)
               /\ \A q \in PRs : Retried(new[q], q, base, reports)
               /\ \A q \in Remaining(entries') :
                     Spent(new[q], q, reports) \/ IsAncestor(new[q].head, tick.tip)
  <2>1. ASSUME NEW q \in Remaining(entries'), q \in PRs
        PROVE  Spent(entries[q], q, reports) \/ IsAncestor(entries[q].head, tick.tip)
    <3>1. PICK m \in DOMAIN tick.live : q = tick.live[m]
      BY <1>3, ZenonT(30)
    <3> QED
      BY <1>0, <3>1 DEF RetryOK, StackSpent
  <2>2. CASE \E new : Settled(new) /\ Save(new, f)
    <3>1. PICK new : Settled(new) /\ Save(new, f)
      BY <2>2, ZenonT(30)
    <3>2. \A q \in PRs : Retried(entries[q], q, base, reports)
      BY ZenonT(30) DEF RetryOK
    <3>3. \A q \in PRs : /\ Retried(new[q], q, base, reports)
                         /\ new[q] # None /\ new[q] # entries[q] => Keeps(new[q], entries[q])
      BY <3>1, <3>2, SettledRetried, Zenon
    <3>4. entries' = new
      BY <3>1, ZenonT(30) DEF Save
    <3>5. ASSUME NEW q \in Remaining(entries')
          PROVE  Spent(new[q], q, reports) \/ IsAncestor(new[q].head, tick.tip)
      <4>1. q \in PRs /\ new[q] # None
        BY <1>3, <1>4, <3>4, <3>5, ZenonT(30)
      <4>2. new[q] = entries[q] \/ Keeps(new[q], entries[q])
        BY <3>3, <4>1
      <4> QED
        BY <2>1, <4>1, <4>2, ZenonT(30) DEF Keeps, Spent
    <3> QED
      BY <3>1, <3>3, <3>5, ZenonT(30)
  <2>3. CASE \E d : /\ Rebuilt(tick.live[i], d, entries[tick.live[i]].head, ParentOf(i), f)
                    /\ d.red = entries[tick.live[i]].red
                    /\ d.reason = entries[tick.live[i]].reason
    <3> DEFINE p == tick.live[i]
    <3>1. PICK d : /\ Rebuilt(p, d, entries[p].head, ParentOf(i), f)
                   /\ d.red = entries[p].red
                   /\ d.reason = entries[p].reason
      BY <2>3
    <3> DEFINE new == [entries EXCEPT ![p] = d]
    <3>2. /\ Retried(d, p, base, reports)
          /\ Spent(d, p, reports) \/ IsAncestor(d.head, tick.tip)
      BY <1>0, <1>5, <3>1, RestackedEntry, ZenonT(30)
    <3>3. p \in PRs /\ Save(new, f)
      BY <1>0, <3>1, LiveEntry, ZenonT(30) DEF Rebuilt
    <3>4. \A q \in PRs : new[q] = IF q = p THEN d ELSE entries[q]
      BY ZenonT(30) DEF IInv, TypeOK
    <3>5. \A q \in PRs : Retried(new[q], q, base, reports)
      BY <3>2, <3>3, OneRetried, ZenonT(30)
    <3> HIDE DEF new, p
    <3>6. \A q \in Remaining(entries') :
             Spent(new[q], q, reports) \/ IsAncestor(new[q].head, tick.tip)
      BY <1>3, <2>1, <3>2, <3>4
    <3> QED
      BY <3>3, <3>5, <3>6, ZenonT(30)
  <2> QED
    BY <1>5, <2>2, <2>3, ZenonT(30)
<1>7. PICK new : /\ Save(new, f)
                 /\ \A q \in PRs : Retried(new[q], q, base, reports)
                 /\ \A q \in Remaining(entries') :
                       Spent(new[q], q, reports) \/ IsAncestor(new[q].head, tick.tip)
  BY <1>6, ZenonT(30)
<1>8. entries' = new
  BY <1>7, ZenonT(30) DEF Save
<1>9. /\ \A k, j \in DOMAIN live : live[k] = live[j] => k = j
      /\ \A k \in DOMAIN live : live[k] \in Remaining(entries')
  <2>1. \A q \in Remaining(entries') : entries'[q].at \in Nat
    BY <1>4, ZenonT(30) DEF Entry
  <2> QED
    BY <1>3, <2>1, OrderIsInjective
<1>10. IsAncestor(tick.tip, base)
  BY <1>0 DEF RetryOK, StackSpent
<1>11. StackSpent'
  BY <1>0, <1>2, <1>7, <1>8, <1>9, <1>10, Zenon DEF StackSpent
<1> QED
  BY <1>0, <1>7, <1>11, SavedRetried

\* A retry has a red commit of its own; without one left, the entry fails.
LEMMA TickRetryKeepsRetry ==
    ASSUME IInv, IInv', HistoryOK, RetryOK, "tip" \notin Faults, NEW f \in AnyFault, TickRetry(f)
    PROVE  RetryOK'
<1> DEFINE p == tick.live[1]
           e == entries[p]
<1>0. /\ UNCHANGED <<base, reports>> /\ Restacking /\ tick.tip # None /\ TypeOK
      /\ IsPlaced(1) /\ 1 \in DOMAIN tick.live /\ Own(p) = "red"
      /\ Restack("restack", Remaining(entries'), entries', f)
  <2>1. Restacking /\ tick.pc = "stack" /\ IsRestacked /\ BottomIsRed
    BY ZenonT(30) DEF TickRetry, Restacking
  <2>2. tick.tip # None
    BY <2>1, ZenonT(30) DEF IInv, LiveOK
  <2>3. 1 \in DOMAIN tick.live
    BY <2>1 DEF BottomIsRed, IInv, TypeOK, Tick
  <2> QED
    BY <2>1, <2>2, <2>3 DEF TickRetry, outsideQueue, IInv, IsRestacked, BottomIsRed
<1>1. /\ p \in PRs /\ e \in Entry /\ e.state = "building" /\ HeadOf(e.head, p, base)
      /\ e.head \in Commit /\ e.red \in Nat /\ IsBuilding(entries, p) /\ e # None
      /\ e.base \in Commit
  <2>1. IsBuilding(entries, p) /\ e # None
    BY <1>0, ZenonT(30) DEF IInv, LiveOK, Restacking, IsBuilding
  <2> QED
    BY <1>0, <2>1, LiveEntry, Zenon DEF HeadOf, Entry
<1>2. e.base = tick.tip /\ IsAncestor(tick.tip, base) /\ tick.tip \in Commit /\ base \in Commit
  BY <1>0 DEF IsPlaced, ParentOf, RetryOK, StackSpent, IInv, TypeOK, Tick
<1>3. /\ e.red < MaxAttempts /\ e.reason # "gate"
      /\ Spent(e, p, reports) \/ InBase(e, base)
  BY <1>1, Zenon DEF RetryOK, Retried
<1>4. MaxAttempts \in Nat
  BY ConstantsAssumption
<1>5. \E d : Save([entries EXCEPT ![p] = d], f) /\ Retried(d, p, base, reports)
  <2>1. CASE /\ e.sha # e.head /\ e.red + 1 < MaxAttempts
             /\ \E d : /\ Rebuilt(p, d, e.head, e.base, f)
                       /\ d.red = e.red + 1 /\ d.reason = e.reason
    <3>1. PICK d : Rebuilt(p, d, e.head, e.base, f) /\ d.red = e.red + 1 /\ d.reason = e.reason
      BY <2>1, ZenonT(30)
    <3>2. /\ d.head = e.head /\ d.base = e.base /\ d.state = "building"
          /\ d.sha = Replay(e.base, e.head, <<p, NextBuild(p, e.head, e.base)>>)
          /\ Save([entries EXCEPT ![p] = d], f)
      BY <3>1, ZenonT(30) DEF Rebuilt
    <3>3. ASSUME IsAncestor(e.head, e.base) PROVE InBase(d, base)
      BY <1>1, <1>2, <3>2, <3>3, AncestorTrans, Zenon DEF InBase
    <3>4. ASSUME ~IsAncestor(e.head, e.base) PROVE Spent(d, p, reports)
      <4>1. Spent(e, p, reports)
        BY <1>3, <3>4, ZenonT(30) DEF InBase
      <4>2. e.sha \in RedReplays(reports, p)
        BY <1>0, <1>1, <2>1, <3>4, RedIsReplay, Zenon
      <4> HIDE DEF e, p
      <4>3. IsFiniteSet(RedReports(reports)) /\ d.red \in Nat
        <5>1. \A n \in Nat : n + 1 \in Nat
          OBVIOUS
        <5> QED BY <1>1, <3>1, <5>1, Zenon DEF RetryOK
      <4> QED
        BY <1>1, <3>1, <3>2, <3>4, <4>1, <4>2, <4>3, RebuiltSpent, Zenon
    <3> HIDE DEF e, p
    <3>5. d.red <= MaxAttempts /\ d.red < MaxAttempts /\ d.reason # "gate"
      <4>1. e.red + 1 < MaxAttempts /\ d.red = e.red + 1 /\ e.red \in Nat
        BY <1>1, <2>1, <3>1, Zenon
      <4>2. d.reason # "gate"
        BY <1>3, <3>1, Zenon
      <4> QED
        BY <1>4, <4>1, <4>2
    <3>6. Retried(d, p, base, reports)
      BY <3>3, <3>4, <3>5, ZenonT(30) DEF Retried
    <3> QED
      BY <3>2, <3>6, ZenonT(30)
  <2>2. CASE \E d \in Entry :
                /\ Save([entries EXCEPT ![p] = d], f) /\ builds' = builds
                /\ OneMoreRed(d, e) /\ d.state \in Ends
                /\ \/ d.reason = "replay" /\ e.red + 1 < MaxAttempts
                   \/ d.reason = "gate" /\ (e.red + 1 < MaxAttempts => e.sha = e.head)
    <3>1. PICK d \in Entry :
                /\ Save([entries EXCEPT ![p] = d], f)
                /\ OneMoreRed(d, e) /\ d.state \in Ends
                /\ \/ d.reason = "replay" /\ e.red + 1 < MaxAttempts
                   \/ d.reason = "gate" /\ (e.red + 1 < MaxAttempts => e.sha = e.head)
      BY <2>2, ZenonT(30)
    <3>2. d.red = e.red + 1 /\ d.sha = e.sha /\ d.head = e.head /\ d.state # "building"
      BY <3>1, ZenonT(30) DEF OneMoreRed, Ends
    <3> HIDE DEF e, p
    <3>3. d.red <= MaxAttempts /\ d.red > 0
      <4>1. \A n, m \in Nat : n < m => n + 1 <= m /\ n + 1 > 0
        OBVIOUS
      <4> QED
        BY <1>1, <1>3, <1>4, <3>2, <4>1, Zenon
    <3>4. d.reason = "gate" => d.red = MaxAttempts \/ (d.red > 0 /\ d.sha = d.head)
      <4>1. \A n, m \in Nat : n < m => n + 1 < m \/ n + 1 = m
        OBVIOUS
      <4>2. d.reason = "gate" => (e.red + 1 < MaxAttempts => e.sha = e.head)
        BY <3>1, Zenon
      <4> QED BY <1>1, <1>3, <1>4, <3>2, <3>3, <4>1, <4>2, Zenon
    <3>5. Retried(d, p, base, reports)
      BY <3>2, <3>3, <3>4, ZenonT(30) DEF Retried
    <3> QED
      BY <3>1, <3>5, Zenon
  <2> QED
    BY <2>1, <2>2, TickRetryWrites, ZenonT(30)
<1>6. PICK d : Save([entries EXCEPT ![p] = d], f) /\ Retried(d, p, base, reports)
  BY <1>5, ZenonT(30)
<1> DEFINE new == [entries EXCEPT ![p] = d]
<1>7. entries' = new /\ Save(new, f)
  BY <1>6, Zenon DEF Save
<1>8. \A q \in PRs : Retried(new[q], q, base, reports)
  BY <1>1, <1>6, OneRetried
<1> HIDE DEF new, e, p
<1>9. /\ Remaining(entries') \in SUBSET PRs
      /\ \A q \in Remaining(entries') : IsBuilding(entries', q)
  BY <1>0, RemainingBuild, ZenonT(30)
<1>10. \A q \in Remaining(entries') :
         entries'[q] \in Entry /\ entries'[q].state = "building" /\ entries'[q] # None
  BY <1>9, BuildingIsEntry DEF IInv
<1>11. StackSpent'
  BY <1>0, <1>7, <1>8, <1>9, <1>10, RestackSpent, Zenon
<1> QED
  BY <1>0, <1>7, <1>8, <1>11, SavedRetried

\* A new entry has spent nothing, and a dequeued one keeps what it spent.
LEMMA RequestKeepsRetry ==
    ASSUME IInv, RetryOK, NEW p \in PRs, NEW f, Enqueue(p, f) \/ Dequeue(p, f) PROVE RetryOK'
<1>0. UNCHANGED <<base, reports, tick>> /\ tick.pc = "idle"
  BY DEF Enqueue, EnqueueDone, EnqueueGuard, Dequeue, outsideQueue
<1>1. StackSpent'
  BY <1>0, ZenonT(30) DEF StackSpent, Restacking
<1>2. ASSUME NEW d, d.red = 0, d.reason # "gate" PROVE Retried(d, p, base, reports)
  <2>1. IsFiniteSet(RedReplays(reports, p) \ {d.sha})
    BY RedReplaysFinite, FS_Subset, Zenon DEF RetryOK
  <2>2. Cardinality(RedReplays(reports, p) \ {d.sha}) \in Nat
    BY <2>1, FS_CardinalityType
  <2>3. Spent(d, p, reports)
    <3>1. \A n \in Nat : 0 <= n
      OBVIOUS
    <3> QED BY <1>2, <2>2, <3>1, Zenon DEF Spent
  <2>4. 0 < MaxAttempts /\ 0 <= MaxAttempts
    BY ConstantsAssumption
  <2> QED
    BY <1>2, <2>3, <2>4 DEF Retried
<1>3. CASE Dequeue(p, f)
  <2>1. PICK new : Settled(new) /\ Save(new, f)
    BY <1>3, DequeueWrites, ZenonT(30)
  <2>2. \A q \in PRs : Retried(entries[q], q, base, reports)
    BY ZenonT(30) DEF RetryOK
  <2>3. \A q \in PRs : Retried(new[q], q, base, reports)
    BY <2>1, <2>2, SettledRetried, ZenonT(30)
  <2> QED
    BY <1>0, <1>1, <2>1, <2>3, SavedRetried
<1>4. CASE Enqueue(p, f)
  <2>1. CASE UNCHANGED queueVars
    BY <1>0, <1>1, <2>1, ZenonT(30) DEF RetryOK, queueVars
  <2>2. ASSUME NEW d, Save([entries EXCEPT ![p] = d], f), d.red = 0, d.reason # "gate" PROVE RetryOK'
    <3>1. Retried(d, p, base, reports)
      BY <1>2, <2>2, ZenonT(30)
    <3>2. \A q \in PRs : Retried([entries EXCEPT ![p] = d][q], q, base, reports)
      BY <3>1, OneRetried, ZenonT(30)
    <3> QED
      BY <1>0, <1>1, <2>2, <3>2, SavedRetried, Zenon
  <2>3. None # "gate" /\ "refused" # "gate"
    BY ConstantsAssumption
  <2>4. CASE \E d, parent :
                /\ parent = base \/ \E q \in PRs : IsBuilding(entries, q) /\ parent = entries[q].sha
                /\ parent \in Commit
                /\ Rebuilt(p, d, enq[p], parent, f) /\ d.red = 0 /\ d.reason = None
    <3>1. PICK d, parent : Rebuilt(p, d, enq[p], parent, f) /\ d.red = 0 /\ d.reason = None
      BY <2>4, ZenonT(30)
    <3>2. Save([entries EXCEPT ![p] = d], f)
      BY <3>1, ZenonT(30) DEF Rebuilt
    <3> QED
      BY <2>2, <2>3, <3>1, <3>2, ZenonT(30)
  <2>5. CASE \E d \in Entry :
                /\ Save([entries EXCEPT ![p] = d], f) /\ builds' = builds
                /\ d.head = enq[p] /\ d.base = base /\ d.sha = None /\ d.red = 0
                /\ d.state = "dequeued" /\ d.reason = "refused"
    <3>1. PICK d \in Entry : Save([entries EXCEPT ![p] = d], f) /\ d.red = 0 /\ d.reason = "refused"
      BY <2>5, Zenon
    <3> QED
      BY <2>2, <2>3, <3>1
  <2> QED
    BY <1>4, <2>1, <2>4, <2>5, EnqueueWrites, Zenon
<1> QED
  BY <1>3, <1>4, ZenonT(30)

\* Whatever else happens, reports come in and the base advances.
LEMMA OthersKeepRetry ==
    ASSUME IInv, IInv', RetryOK, "tip" \notin Faults, IsAncestor(base, base'), reports \subseteq reports',
           IsFiniteSet(RedReports(reports')), disk' = disk,
           \A p \in PRs : entries'[p] \in {entries[p], disk[p], None},
           ~Restacking' \/ UNCHANGED <<entries, tick>>
    PROVE  RetryOK'
<1>0. /\ base \in Commit /\ base' \in Commit
      /\ \A p \in PRs : entries[p] \in Entry \cup {None} /\ disk[p] \in Entry \cup {None}
  BY DEF IInv, TypeOK
<1>1. ASSUME NEW p \in PRs
      PROVE  Retried(entries[p], p, base', reports') /\ Retried(disk[p], p, base', reports')
  BY <1>0, RetriedLater, ZenonT(30) DEF RetryOK
<1>2. ASSUME NEW p \in PRs PROVE Retried(entries'[p], p, base', reports')
  <2>1. Retried(None, p, base', reports')
    BY ZenonT(30) DEF Retried
  <2> QED
    BY <1>1, <2>1, ZenonT(30)
<1>3. StackSpent'
  <2> SUFFICES ASSUME Restacking' PROVE StackSpent'
    BY Zenon DEF StackSpent
  <2>1. UNCHANGED <<entries, tick>> /\ Restacking
    BY ZenonT(30) DEF Restacking
  <2>2. tick.tip \in Commit
    BY <2>1, ZenonT(30) DEF IInv, LiveOK, Restacking, TypeOK, Tick
  <2>3. IsAncestor(tick.tip, base')
    BY <1>0, <2>1, <2>2, AncestorTrans, ZenonT(30) DEF RetryOK, StackSpent
  <2>4. ASSUME NEW i \in DOMAIN tick.live
        PROVE  \/ Spent(entries[tick.live[i]], tick.live[i], reports')
               \/ IsAncestor(entries[tick.live[i]].head, tick.tip)
    <3>1. entries[tick.live[i]].red \in Nat
      BY <2>1, LiveEntry, ZenonT(30) DEF Entry
    <3>2. \/ Spent(entries[tick.live[i]], tick.live[i], reports)
          \/ IsAncestor(entries[tick.live[i]].head, tick.tip)
      BY <2>1, ZenonT(30) DEF RetryOK, StackSpent
    <3> QED
      BY <3>1, <3>2, SpentLater, Zenon
  <2>5. \A i, j \in DOMAIN tick.live : tick.live[i] = tick.live[j] => i = j
    BY <2>1, Zenon DEF RetryOK, StackSpent
  <2> QED
    BY <2>1, <2>3, <2>4, <2>5, ZenonT(30) DEF StackSpent
<1> QED
  BY <1>1, <1>2, <1>3, ZenonT(30) DEF RetryOK

\* The base a step leaves extends the one it found.
LEMMA BaseExtends ==
    ASSUME IInv, base' = base \/ LandMove \/ \E p \in PRs : DirectMove(p)
    PROVE  IsAncestor(base, base')
<1>1. base \in Commit
  BY ZenonT(30) DEF IInv, TypeOK
<1>2. CASE base' = base
  BY <1>1, <1>2, CommitIsPatches, AncestorReflexive
<1>3. CASE LandMove
  BY <1>3, ZenonT(30) DEF LandMove, BaseAsExpected
<1>4. ASSUME NEW p \in PRs, DirectMove(p), base' # base PROVE IsAncestor(base, base')
  BY <1>4, ZenonT(30) DEF DirectMove, IInv, MergesOK
<1> QED
  BY <1>2, <1>3, <1>4, ZenonT(30)

\* The other steps of a tick keep every entry and take up no stack.
LEMMA LandKeepsRetry ==
    ASSUME IInv, IInv', RetryOK, "tip" \notin Faults, NEW f,
           RestackDone \/ TickWait \/ TickLand \/ LandReady \/ LandMove \/ LandFinalize(f)
    PROVE  RetryOK'
<1>1. UNCHANGED <<entries, disk, reports>> /\ (LandMove \/ base' = base) /\ tick \in Tick
  BY Zenon DEF RestackDone, TickWait, TickLand, LandReady, LandMove, LandFinalize, outsideQueue,
         queueVars, IInv, TypeOK
<1>2. ~Restacking'
  <2>1. CASE RestackDone \/ TickWait
    BY <2>1 DEF RestackDone, TickWait, Resting, Restacking
  <2>2. CASE TickLand
    BY <1>1, <2>2, Zenon DEF TickLand, Tick, Restacking
  <2>3. CASE LandReady \/ LandMove
    BY <1>1, <2>3 DEF LandReady, LandMove, Tick, Restacking
  <2>4. CASE LandFinalize(f)
    <3>1. PICK w : tick' = [tick EXCEPT !.pc = "record", !.failed = w]
      BY <2>4, Zenon DEF LandFinalize
    <3> QED
      BY <1>1, <3>1 DEF Tick, Restacking
  <2> QED
    BY <2>1, <2>2, <2>3, <2>4, ZenonT(30)
<1>3. IsFiniteSet(RedReports(reports'))
  BY <1>1 DEF RetryOK
<1>4. IsAncestor(base, base')
  BY <1>1, BaseExtends, ZenonT(30)
<1> QED
  BY <1>1, <1>2, <1>3, <1>4, OthersKeepRetry, ZenonT(30)

\* One more report is one more commit that may be red.
LEMMA ReportKeepsRetry ==
    ASSUME IInv, IInv', RetryOK, "tip" \notin Faults, NEW p \in PRs, NEW c,
           ReportHead(p, c) \/ ReportQueued(p, c)
    PROVE  RetryOK'
<1>1. UNCHANGED <<base, entries, disk, tick>>
  BY ZenonT(30) DEF ReportHead, ReportQueued, Report, queueVars
<1>2. PICK r : reports' = reports \cup {r}
  BY ZenonT(30) DEF ReportHead, ReportQueued, Report
<1>3. IsFiniteSet(RedReports(reports) \cup {r})
  BY FS_AddElement, Zenon DEF RetryOK
<1>4. RedReports(reports') \subseteq RedReports(reports) \cup {r}
  BY <1>2, ZenonT(30) DEF RedReports
<1>5. IsFiniteSet(RedReports(reports'))
  BY <1>3, <1>4, FS_Subset, ZenonT(30)
<1>6. IsAncestor(base, base')
  BY <1>1, BaseExtends
<1> QED
  BY <1>1, <1>2, <1>5, <1>6, OthersKeepRetry, ZenonT(30)

\* A start, a crash, direct merges and what authors do touch no attempt.
LEMMA RestKeepsRetry ==
    ASSUME IInv, IInv', RetryOK, "tip" \notin Faults,
           \/ Load \/ Crash \/ UNCHANGED vars
           \/ \E p \in PRs, f \in AnyFault :
                 \/ EnqueueRead(p) \/ DirectGate(p) \/ DirectAlreadyIn(p) \/ DirectRead(p)
                 \/ DirectRefused(p) \/ DirectMove(p) \/ DirectFinalize(p, f)
                 \/ Push(p) \/ Close(p) \/ Review(p)
    PROVE  RetryOK'
<1>1. reports' = reports /\ disk' = disk
  BY ZenonT(30)
     DEF Load, Crash, EnqueueRead, DirectGate, DirectAlreadyIn, DirectRead, DirectRefused, DirectMove,
         DirectFinalize, Push, Close, Review, pullsOnly, queueVars, vars
<1>2. base' = base \/ \E p \in PRs : DirectMove(p)
  BY ZenonT(30) DEF Load, Crash, EnqueueRead, DirectGate, DirectAlreadyIn, DirectRead, DirectRefused,
         DirectFinalize, Push, Close, Review, pullsOnly, vars
<1>3. /\ \A p \in PRs : entries'[p] \in {entries[p], disk[p], None}
      /\ ~Restacking' \/ UNCHANGED <<entries, tick>>
  <2>1. CASE Load
    <3>1. ~loaded /\ entries' = disk /\ tick' = tick
      BY <2>1, ZenonT(30) DEF Load
    <3>2. tick' = Resting
      BY <3>1 DEF IInv
    <3> QED
      BY <3>1, <3>2 DEF Restacking, Resting
  <2>2. CASE Crash
    BY <2>2, ZenonT(30) DEF Crash, Restacking, Resting
  <2>3. CASE ~Load /\ ~Crash
    <3>1. UNCHANGED <<entries, tick>>
      BY <2>3, ZenonT(30)
         DEF EnqueueRead, DirectGate, DirectAlreadyIn, DirectRead, DirectRefused, DirectMove,
             DirectFinalize, Push, Close, Review, pullsOnly, queueVars, vars
    <3> QED
      BY <3>1, Zenon
  <2> QED
    BY <2>1, <2>2, <2>3, ZenonT(30)
<1>4. IsFiniteSet(RedReports(reports'))
  BY <1>1, Zenon DEF RetryOK
<1>5. IsAncestor(base, base')
  BY <1>2, BaseExtends, ZenonT(30)
<1> QED
  BY <1>1, <1>3, <1>4, <1>5, OthersKeepRetry, Zenon

\* RetryOK is inductive, given the other two.
LEMMA RetryStep ==
    ASSUME IInv, IInv', HistoryOK, RetryOK, "tip" \notin Faults, [Next]_vars PROVE RetryOK'
<1>1. CASE TickStep
  BY <1>1, SomeFaultIsFault, TickKeepsRetry, RestackStepKeepsRetry, TickRetryKeepsRetry,
     LandKeepsRetry, ZenonT(30) DEF TickStep
<1>2. CASE Load \/ Crash \/ UNCHANGED vars
  BY <1>2, RestKeepsRetry, ZenonT(30)
<1>3. ASSUME NEW p \in PRs, NEW f, Enqueue(p, f) \/ Dequeue(p, f) PROVE RetryOK'
  BY <1>3, RequestKeepsRetry, ZenonT(30)
<1>4. ASSUME NEW p \in PRs,
             \/ EnqueueRead(p) \/ DirectGate(p) \/ DirectAlreadyIn(p) \/ DirectRead(p)
             \/ DirectRefused(p) \/ DirectMove(p) \/ Push(p) \/ Close(p) \/ Review(p)
      PROVE  RetryOK'
  <2>1. NoFault \in AnyFault
    BY ZenonT(30) DEF AnyFault
  <2> QED
    BY <1>4, <2>1, RestKeepsRetry, ZenonT(30)
<1>5. ASSUME NEW p \in PRs, NEW f \in SomeFault({"record"}), DirectFinalize(p, f) PROVE RetryOK'
  BY <1>5, SomeFaultIsFault, RestKeepsRetry
<1>6. ASSUME NEW p \in PRs, NEW c, ReportHead(p, c) \/ ReportQueued(p, c) PROVE RetryOK'
  BY <1>6, ReportKeepsRetry, ZenonT(30)
<1> QED
  BY <1>1, <1>2, <1>3, <1>4, <1>5, <1>6 DEF Next

\* What the invariant says of an entry of the index.
LEMMA RetryInv ==
    ASSUME IInv, RetryOK PROVE RetryIsSpentOnRedGates
<1>1. ASSUME NEW p \in PRs, entries[p] # None
      PROVE  LET e == entries[p] IN
             /\ e.red <= MaxAttempts
             /\ e.state = "building" => e.red < MaxAttempts
             /\ e.reason = "gate" => e.red = MaxAttempts \/ (e.red > 0 /\ e.sha = e.head)
  BY <1>1, ZenonT(30) DEF RetryOK, Retried
<1>2. ASSUME NEW p \in PRs, entries[p] # None, entries[p].state = "building",
             ~IsAncestor(entries[p].head, entries[p].base)
      PROVE  entries[p].red <=
                Cardinality({r.sha : r \in {x \in reports : ~x.ok /\ Last(x.sha).pr = p}})
  <2> DEFINE e == entries[p]
             A == RedReplays(reports, p) \ {e.sha}
             R == {x \in reports : ~x.ok /\ Last(x.sha).pr = p}
             B == {r.sha : r \in R}
             g == [r \in R |-> r.sha]
  <2>1. e.red <= Cardinality(A) /\ e.red \in Nat
    BY <1>2, Zenon DEF RetryOK, Retried, InBase, Spent, IInv, TypeOK, Entry
  <2>2. A \subseteq B
    BY DEF RedReplays, IsRedReplay
  <2>3. IsFiniteSet(R)
    <3>1. R \subseteq RedReports(reports)
      BY DEF RedReports
    <3> QED
      BY <3>1, FS_Subset, Zenon DEF RetryOK
  <2>4. g \in Surjection(R, B)
    BY Zenon DEF Surjection
  <2> HIDE DEF e, A, R, B, g
  <2>5. IsFiniteSet(B)
    BY <2>3, <2>4, FS_Surjection, ZenonT(30)
  <2>6. IsFiniteSet(A) /\ Cardinality(A) <= Cardinality(B)
    BY <2>2, <2>5, FS_Subset, ZenonT(30)
  <2>7. Cardinality(A) \in Nat /\ Cardinality(B) \in Nat
    BY <2>5, <2>6, FS_CardinalityType, ZenonT(30)
  <2>8. e.red <= Cardinality(B)
    BY <2>1, <2>6, <2>7
  <2> QED
    BY <2>8, ZenonT(30) DEF e, B, R
<1> QED
  BY <1>1, <1>2, ZenonT(30) DEF RetryIsSpentOnRedGates
=============================================================================
