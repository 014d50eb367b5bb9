------------------------ MODULE MergeQueueInvariant -------------------------
(***************************************************************************)
(* The inductive invariant of MergeQueue, and what a state that satisfies  *)
(* it says of commits and replays, of the entries, of the stack and of the *)
(* members of a landing.                                                   *)
(***************************************************************************)
EXTENDS MergeQueue, FiniteSetTheorems, WellFoundedInduction, TLAPS

(***************************************************************************)
(* What the ancestry test and the replay of replay.rs guarantee, for       *)
(* commits over any set of patches.                                        *)
(***************************************************************************)

\* Every commit of h but the last is in b: h was cut from b.
CutFrom(h, b) ==
    \A i \in 1 .. Len(h) - 1 : i <= Len(b) /\ b[i] = h[i]

\* A commit is its own ancestor (merge-base --is-ancestor of equal shas).
LEMMA AncestorReflexive ==
    ASSUME NEW S, NEW a \in Seq(S) PROVE IsAncestor(a, a)
BY DEF IsAncestor

\* Ancestry is transitive.
LEMMA AncestorTransitive ==
    ASSUME NEW S, NEW a \in Seq(S), NEW b \in Seq(S), NEW c \in Seq(S),
           IsAncestor(a, b), IsAncestor(b, c)
    PROVE  IsAncestor(a, c)
BY DEF IsAncestor

\* The last patch of a commit is one of its patches.
LEMMA LastType ==
    ASSUME NEW S, NEW c \in Seq(S), c # <<>> PROVE Last(c) \in S
BY DEF Last

\* A head cut from a history is cut from every history that extends it.
LEMMA CutFromDescendant ==
    ASSUME NEW S, NEW h \in Seq(S), NEW a \in Seq(S), NEW b \in Seq(S),
           CutFrom(h, a), IsAncestor(a, b)
    PROVE  CutFrom(h, b)
BY DEF IsAncestor, CutFrom

\* Induction over an initial segment of the positive numbers.
LEMMA SegmentInduction ==
    ASSUME NEW n \in Nat, NEW S, n >= 1 => 1 \in S,
           \A k \in 1 .. n - 1 : k \in S => k + 1 \in S
    PROVE  1 .. n \subseteq S
<1> DEFINE T == {k \in 1 .. n : k \notin S}
<1> SUFFICES ASSUME T # {} PROVE FALSE
  OBVIOUS
<1>1. T \subseteq Nat
  OBVIOUS
<1>2. PICK x \in T : \A y \in T : ~(<<y, x>> \in OpToRel(<, Nat))
  BY <1>1, NatLessThanWellFounded, WFMin, Zenon
<1>3. \A y \in T : ~(y < x)
  BY <1>1, <1>2, Zenon DEF OpToRel
<1>4. CASE x = 1
  BY <1>4
<1>5. CASE x # 1
  <2>1. x - 1 \in 1 .. n - 1 /\ x - 1 \notin T
    BY <1>3, <1>5
  <2> QED
    BY <2>1
<1> QED
  BY <1>4, <1>5

\* A bounded, non-empty set of numbers has a greatest element.
LEMMA GreatestExists ==
    ASSUME NEW n \in Nat, NEW S, S \subseteq 0 .. n, S # {}
    PROVE  Max(S) \in S /\ \A y \in S : y <= Max(S)
<1> DEFINE T == {k \in Nat : n - k \in S}
<1>1. T \subseteq Nat /\ T # {}
  <2>1. PICK s \in S : TRUE
    BY Zenon
  <2>2. n - s \in T
    BY <2>1
  <2> QED
    BY <2>2, Zenon
<1>2. PICK x \in T : \A y \in T : ~(<<y, x>> \in OpToRel(<, Nat))
  <2> HIDE DEF T
  <2> QED
    BY <1>1, NatLessThanWellFounded, WFMin, Zenon
<1>3. \A y \in T : ~(y < x)
  BY <1>1, <1>2, Zenon DEF OpToRel
<1>4. n - x \in S /\ \A y \in S : n - x >= y
  <2>1. ASSUME NEW y \in S PROVE n - x >= y
    <3>1. n - y \in T
      BY <2>1
    <3> QED
      BY <1>3, <3>1
  <2> QED
    BY <2>1
<1> QED
  BY <1>4, Zenon DEF Max

\* The shared history of two commits is their longest common prefix.
LEMMA SharedHistory ==
    ASSUME NEW S, NEW a \in Seq(S), NEW b \in Seq(S)
    PROVE  /\ Shared(a, b) \in Nat
           /\ Shared(a, b) <= Len(a) /\ Shared(a, b) <= Len(b)
           /\ \A i \in 1 .. Shared(a, b) : a[i] = b[i]
           /\ \A n \in Nat : (n <= Len(a) /\ n <= Len(b) /\ \A i \in 1 .. n : a[i] = b[i])
                                => n <= Shared(a, b)
<1> DEFINE m == Min({Len(a), Len(b)})
           T == {n \in 0 .. m : \A i \in 1 .. n : a[i] = b[i]}
<1>1. m \in Nat /\ m <= Len(a) /\ m <= Len(b) /\ (m = Len(a) \/ m = Len(b))
  BY DEF Min
<1>2. 0 \in T /\ T \subseteq 0 .. m
  BY <1>1
<1>3. Max(T) \in T /\ \A y \in T : y <= Max(T)
  <2> HIDE DEF m, T
  <2> QED
    BY <1>1, <1>2, GreatestExists, Zenon
<1>4. Shared(a, b) = Max(T)
  BY DEF Shared
<1> HIDE DEF m
<1> QED
  BY <1>1, <1>3, <1>4

-----------------------------------------------------------------------------
(* What a replay is made of.                                               *)

PatchOf(P, St) == [pr : P, ver : Nat, stamp : St]

\* What a replay picks is a sequence of patches.
LEMMA PicksType ==
    ASSUME NEW S, NEW a \in Seq(S), NEW h \in Seq(S)
    PROVE  /\ Picks(a, h) \in Seq(S)
           /\ Len(Picks(a, h)) = Len(h) - Shared(a, h)
           /\ \A i \in 1 .. Len(Picks(a, h)) : Picks(a, h)[i] = h[Shared(a, h) + i]
<1>1. Shared(a, h) \in Nat /\ Shared(a, h) <= Len(h)
  BY SharedHistory
<1> DEFINE k == Shared(a, h)
           s == SubSeq(h, k + 1, Len(h))
<1>2. Picks(a, h) = s
  BY DEF Picks
<1>3. k \in Nat /\ k <= Len(h) /\ Len(h) \in Nat
  BY <1>1
<1> HIDE DEF k
<1>4. Len(s) = Len(h) - k
  BY <1>3
<1>5. \A i \in 1 .. Len(s) : s[i] = h[k + i]
  BY <1>3
<1>6. s \in Seq(S)
  BY <1>3
<1> HIDE DEF s
<1>7. /\ s \in Seq(S)
      /\ Len(s) = Len(h) - k
      /\ \A i \in 1 .. Len(s) : s[i] = h[k + i]
  BY <1>4, <1>5, <1>6
<1> QED
  BY <1>2, <1>7 DEF k

\* The commits a replay puts on its parent.
LEMMA RestampedType ==
    ASSUME NEW P, NEW St, NEW S, S = PatchOf(P, St), NEW s \in St, NEW q \in Seq(S)
    PROVE  /\ Restamped(q, s) \in Seq(S)
           /\ Len(Restamped(q, s)) = Len(q)
           /\ \A i \in 1 .. Len(q) : SameChange(Restamped(q, s)[i], q[i])
<1>1. DOMAIN q = 1 .. Len(q) /\ \A i \in 1 .. Len(q) : q[i] \in PatchOf(P, St)
  OBVIOUS
<1>2. \A x \in PatchOf(P, St) :
         [x EXCEPT !.stamp = s] \in PatchOf(P, St) /\ SameChange([x EXCEPT !.stamp = s], x)
  BY DEF PatchOf, SameChange
<1>3. \A i \in 1 .. Len(q) : Restamped(q, s)[i] = [q[i] EXCEPT !.stamp = s]
  BY <1>1 DEF Restamped
<1>4. \A i \in 1 .. Len(q) : Restamped(q, s)[i] \in PatchOf(P, St) /\ SameChange(Restamped(q, s)[i], q[i])
  BY <1>1, <1>2, <1>3, Zenon
<1>5. Restamped(q, s) \in [1 .. Len(q) -> PatchOf(P, St)]
  BY <1>1, <1>2, Zenon DEF Restamped
<1> QED
  BY <1>4, <1>5

\* A replay that is not the head itself: the picks, restamped, on the parent.
LEMMA ReplayShape ==
    ASSUME NEW P, NEW St, NEW S, S = PatchOf(P, St), NEW s \in St,
           NEW a \in Seq(S), NEW h \in Seq(S),
           ~IsAncestor(a, h)
    PROVE  LET r == Restamped(Picks(a, h), s) IN
              /\ r \in Seq(S)
              /\ Replay(a, h, s) = a \o r
              /\ Len(r) = Len(h) - Shared(a, h)
              /\ \A i \in 1 .. Len(r) : SameChange(r[i], h[Shared(a, h) + i])
<1> DEFINE q == Picks(a, h)
           r == Restamped(q, s)
<1>1. Replay(a, h, s) = a \o r
  BY DEF Replay
<1>2. q \in Seq(S) /\ Len(q) = Len(h) - Shared(a, h)
         /\ \A i \in 1 .. Len(q) : q[i] = h[Shared(a, h) + i]
  BY PicksType
<1>3. r \in Seq(S) /\ Len(r) = Len(q) /\ \A i \in 1 .. Len(q) : SameChange(r[i], q[i])
  <2> HIDE DEF q
  <2> QED
    BY <1>2, RestampedType
<1> HIDE DEF q
<1>4. \A i \in 1 .. Len(r) : SameChange(r[i], h[Shared(a, h) + i])
  BY <1>2, <1>3
<1> QED
  BY <1>1, <1>2, <1>3, <1>4 DEF q

(* Git::replay answers a commit above its parent that carries the change   *)
(* of the head's last commit.                                              *)
LEMMA ReplayAbove ==
    ASSUME NEW P, NEW St, NEW S, S = PatchOf(P, St), NEW s \in St,
           NEW a \in Seq(S), NEW h \in Seq(S), h # <<>>
    PROVE  /\ Replay(a, h, s) \in Seq(S)
           /\ IsAncestor(a, Replay(a, h, s))
           /\ \E i \in DOMAIN Replay(a, h, s) : SameChange(Replay(a, h, s)[i], h[Len(h)])
<1>1. CASE IsAncestor(a, h)
  BY <1>1 DEF Replay, SameChange
<1>2. CASE ~IsAncestor(a, h)
  <2> DEFINE r == Restamped(Picks(a, h), s)
  <2>1. /\ r \in Seq(S)
        /\ Replay(a, h, s) = a \o r
        /\ Len(r) = Len(h) - Shared(a, h)
        /\ \A i \in 1 .. Len(r) : SameChange(r[i], h[Shared(a, h) + i])
    BY <1>2, ReplayShape
  <2> HIDE DEF r
  <2>2. Shared(a, h) \in Nat /\ Shared(a, h) <= Len(a) /\ Shared(a, h) <= Len(h)
           /\ \A i \in 1 .. Shared(a, h) : a[i] = h[i]
    BY SharedHistory
  <2>3. a \o r \in Seq(S) /\ IsAncestor(a, a \o r)
    BY <2>1 DEF IsAncestor
  <2>4. CASE Shared(a, h) = Len(h)
    <3>1. Len(h) \in DOMAIN (a \o r) /\ (a \o r)[Len(h)] = h[Len(h)]
      BY <2>1, <2>2, <2>4
    <3> QED
      BY <2>1, <2>3, <3>1, Zenon DEF SameChange
  <2>5. CASE Shared(a, h) < Len(h)
    <3>1. Len(r) >= 1 /\ Len(a) + Len(r) \in DOMAIN (a \o r)
             /\ (a \o r)[Len(a) + Len(r)] = r[Len(r)]
      BY <2>1, <2>2, <2>5
    <3>2. SameChange(r[Len(r)], h[Len(h)])
      BY <2>1, <2>2, <3>1
    <3> QED
      BY <2>1, <2>3, <3>1, <3>2
  <2> QED
    BY <2>2, <2>4, <2>5
<1> QED
  BY <1>1, <1>2

(* A head cut from its new parent brings nothing but its own last change.  *)
LEMMA ReplayAdds ==
    ASSUME NEW P, NEW St, NEW S, S = PatchOf(P, St), NEW s \in St,
           NEW a \in Seq(S), NEW h \in Seq(S), h # <<>>,
           CutFrom(h, a)
    PROVE  \A i \in Len(a) + 1 .. Len(Replay(a, h, s)) : SameChange(Replay(a, h, s)[i], h[Len(h)])
<1>1. CASE IsAncestor(a, h)
  <2>1. Replay(a, h, s) = h
    BY <1>1 DEF Replay
  <2>2. Len(a) >= Len(h) - 1
    BY DEF CutFrom
  <2> QED
    BY <2>1, <2>2 DEF SameChange
<1>2. CASE ~IsAncestor(a, h)
  <2> DEFINE r == Restamped(Picks(a, h), s)
  <2>1. /\ r \in Seq(S)
        /\ Replay(a, h, s) = a \o r
        /\ Len(r) = Len(h) - Shared(a, h)
        /\ \A i \in 1 .. Len(r) : SameChange(r[i], h[Shared(a, h) + i])
    BY <1>2, ReplayShape
  <2> HIDE DEF r
  <2>2. Shared(a, h) \in Nat /\ Shared(a, h) >= Len(h) - 1
    BY SharedHistory DEF CutFrom
  <2>3. ASSUME NEW i \in Len(a) + 1 .. Len(a \o r) PROVE SameChange((a \o r)[i], h[Len(h)])
    <3>1. i = Len(a) + 1 /\ Len(r) = 1 /\ Shared(a, h) = Len(h) - 1
      BY <2>1, <2>2
    <3>2. (a \o r)[i] = r[1] /\ SameChange(r[1], h[Len(h)])
      BY <2>1, <3>1
    <3> QED
      BY <3>2
  <2> QED
    BY <2>1, <2>3
<1> QED
  BY <1>1, <1>2

-----------------------------------------------------------------------------
(***************************************************************************)
(* The inductive invariant.                                                *)
(***************************************************************************)
Carries(c, p) == \E i \in DOMAIN c : c[i].pr = p

\* c carries the change the head h was pushed for.
CarriesLast(c, h) == \E i \in DOMAIN c : SameChange(c[i], h[Len(h)])

\* A head of p: one commit its author stamped on a commit of b's history.
HeadOf(h, p, b) ==
    /\ h \in Commit /\ h # <<>>
    /\ h[Len(h)].pr = p /\ h[Len(h)].stamp = <<p, 0>>
    /\ CutFrom(h, b)

\* The queue commit of e is the forge's replay of its head onto its base.
IsReplay(e) == \E s \in Stamp : s[2] # 0 /\ e.sha = Replay(e.base, e.head, s)

\* What p has in a store: a head of p, and while it builds, its replay.
Stored(e, p, b) ==
    e # None =>
        /\ HeadOf(e.head, p, b)
        /\ e.state = "building" => IsReplay(e)

HeadsOK ==
    \A p \in PRs : /\ HeadOf(head[p], p, base)
                   /\ enq[p] # None => HeadOf(enq[p], p, base)

StoresOK ==
    \A p \in PRs : Stored(entries[p], p, base) /\ Stored(disk[p], p, base)

(* The stack a tick works on is building, and its heads were cut from the  *)
(* tip it is put on: a head is read before the tip is.                     *)
LiveOK ==
    tick.pc \in {"stack", "restack"} =>
        /\ \A i \in DOMAIN tick.live :
              /\ IsBuilding(entries, tick.live[i])
              /\ tick.tip # None => CutFrom(entries[tick.live[i]].head, tick.tip)
        /\ "tip" \notin Faults => tick.tip # None

GatedBy(rs, from, to) ==
    \A i \in Len(from) + 1 .. Len(to) : \A c \in Required[to[i].pr] :
        [sha |-> to, ctx |-> c, ok |-> TRUE] \in rs

\* Everything `to' has above `from' is the change of a member.
BroughtBy(ms, from, to) ==
    \A j \in Len(from) + 1 .. Len(to) :
        \E i \in DOMAIN ms : SameChange(to[j], ms[i].head[Len(ms[i].head)])

(* A landing knows its members, each with a queue commit that carries the  *)
(* change of the head it was queued with.  Before the base moves, the top  *)
(* brings nothing but members above the commit the bottom was built on,    *)
(* and is gated for them.                                                  *)
MembersOK ==
    /\ tick.pc \in {"ready", "move", "finalize", "record"} =>
          /\ tick.members # <<>>
          /\ \A i \in DOMAIN tick.members :
                /\ entries[tick.members[i].pr] # None
                /\ Carries(tick.members[i].sha, tick.members[i].pr)
                /\ CarriesLast(tick.members[i].sha, tick.members[i].head)
    /\ tick.pc \in {"ready", "move"} /\ "tip" \notin Faults =>
          /\ GatedBy(reports, tick.members[1].base, tick.members[Len(tick.members)].sha)
          /\ BroughtBy(tick.members, tick.members[1].base, tick.members[Len(tick.members)].sha)
    /\ tick.pc = "finalize" =>
          \A i \in DOMAIN tick.members : IsAncestor(tick.members[i].sha, base)

(* A direct merge is gated as the pull request is: nobody pushes to it     *)
(* after its gate was read, and the base's protection asks of a replay     *)
(* what its own gate asks.                                                 *)
DirectlyGated(p) == p \in Direct => p \notin Pushed /\ Required[p] \subseteq BaseRequired

HeadIsGreen(rs, h, p) == \A c \in Required[p] : [sha |-> h, ctx |-> c, ok |-> TRUE] \in rs

MergesOK ==
    \A p \in PRs :
        /\ dm[p].pc = "gated" =>
              /\ p \in Direct
              /\ dm[p].head \in Commit
              /\ DirectlyGated(p) => HeadIsGreen(reports, head[p], p)
        /\ dm[p].pc = "move" =>
              /\ dm[p].from \in Commit /\ dm[p].to \in Commit
              /\ IsAncestor(dm[p].from, dm[p].to)
              /\ Carries(dm[p].to, p)
              /\ p \notin Pushed => CarriesLast(dm[p].to, head[p])
              /\ DirectlyGated(p) => GatedBy(reports, dm[p].from, dm[p].to)
        /\ dm[p].pc = "finalize" =>
              /\ dm[p].to \in Commit
              /\ IsAncestor(dm[p].to, base)
              /\ Carries(dm[p].to, p)
              /\ p \notin Pushed => CarriesLast(dm[p].to, head[p])

IInv ==
    /\ TypeOK /\ HeadsOK /\ StoresOK /\ LiveOK /\ MembersOK /\ MergesOK
    /\ ~loaded => tick = Resting

-----------------------------------------------------------------------------
(* Commits of this repository.                                             *)

\* A commit is a sequence of patches.
LEMMA CommitIsPatches == Commit = Seq(Patch) /\ Patch = PatchOf(PRs, Stamp)
BY DEF Commit, Patch, PatchOf

\* The history of an empty repository is a commit.
LEMMA EmptyIsCommit == <<>> \in Commit
BY CommitIsPatches

\* The length of a commit is a natural number.
LEMMA CommitLength == \A c \in Commit : Len(c) \in Nat
BY CommitIsPatches

\* A replay descends from the commit it was replayed onto and carries its pull request.
LEMMA ReplayFacts ==
    ASSUME NEW s \in Stamp, NEW a \in Commit, NEW h \in Commit, h # <<>>
    PROVE  /\ Replay(a, h, s) \in Commit
           /\ IsAncestor(a, Replay(a, h, s))
           /\ Carries(Replay(a, h, s), h[Len(h)].pr)
           /\ CarriesLast(Replay(a, h, s), h)
<1>1. a \in Seq(Patch) /\ h \in Seq(Patch) /\ Patch = PatchOf(PRs, Stamp)
  BY CommitIsPatches
<1>2. /\ Replay(a, h, s) \in Seq(Patch)
      /\ IsAncestor(a, Replay(a, h, s))
      /\ \E i \in DOMAIN Replay(a, h, s) : SameChange(Replay(a, h, s)[i], h[Len(h)])
  BY <1>1, ReplayAbove
<1> QED
  BY <1>2, CommitIsPatches DEF Carries, CarriesLast, SameChange

\* A replay adds nothing but the change of the pull request's head.
LEMMA ReplayAddsOwn ==
    ASSUME NEW s \in Stamp, NEW a \in Commit, NEW h \in Commit, h # <<>>, CutFrom(h, a)
    PROVE  \A i \in Len(a) + 1 .. Len(Replay(a, h, s)) : SameChange(Replay(a, h, s)[i], h[Len(h)])
<1>1. a \in Seq(Patch) /\ h \in Seq(Patch) /\ Patch = PatchOf(PRs, Stamp)
  BY CommitIsPatches
<1> QED
  BY <1>1, ReplayAdds

\* Ancestry of commits is transitive.
LEMMA AncestorTrans ==
    ASSUME NEW a \in Commit, NEW b \in Commit, NEW c \in Commit,
           IsAncestor(a, b), IsAncestor(b, c)
    PROVE  IsAncestor(a, c)
BY CommitIsPatches, AncestorTransitive

\* A head stays a head of its pull request when the base advances.
LEMMA HeadOfLater ==
    ASSUME NEW h, NEW p, NEW a \in Commit, NEW b \in Commit, HeadOf(h, p, a), IsAncestor(a, b)
    PROVE  HeadOf(h, p, b)
BY CommitIsPatches, CutFromDescendant DEF HeadOf

\* A well-formed entry stays so when the base advances.
LEMMA StoredLater ==
    ASSUME NEW e, NEW p, NEW a \in Commit, NEW b \in Commit, Stored(e, p, a), IsAncestor(a, b)
    PROVE  Stored(e, p, b)
BY HeadOfLater DEF Stored

\* gate_verdict answers green only when every required context is.
LEMMA GreenVerdict ==
    ASSUME NEW sha, NEW required, GateVerdict(sha, required) = "green"
    PROVE  \A c \in required : [sha |-> sha, ctx |-> c, ok |-> TRUE] \in reports
BY DEF GateVerdict
\* The enumeration of a set of pull requests is a sequence of them.
LEMMA ListIsSequence ==
    ASSUME NEW n \in Nat, NEW T, NEW S \in SUBSET T, NEW s \in [1 .. n -> S]
    PROVE  s \in Seq(T) /\ \A i \in DOMAIN s : s[i] \in S
<1>1. s \in [1 .. n -> T]
  OBVIOUS
<1> QED
  BY <1>1

\* No commit is the absent value.
LEMMA NoneIsNoCommit == None \notin Commit
BY ConstantsAssumption DEF ConstantsAssumption, Commit, Patch, Stamp

\* There are finitely many pull requests.
LEMMA PRsAreFinite == IsFiniteSet(PRs)
BY ConstantsAssumption DEF ConstantsAssumption

\* What a pull request requires are contexts.
LEMMA RequiredContexts == Required \in [PRs -> SUBSET Contexts]
BY ConstantsAssumption DEF ConstantsAssumption

-----------------------------------------------------------------------------
(* Queue entries.                                                          *)

\* An entry that may not be built yet.
Draft ==
    [head : Commit, base : Commit \cup {None}, sha : Commit \cup {None},
     state : {"building", "landed", "failed", "dequeued"},
     at : Nat, red : Nat, last : Conclusion, after : PRs \cup {None},
     reason : Reason, landed : Commit \cup {None}]

Ends == {"landed", "failed", "dequeued"}

\* A well-formed entry may be rewritten by the helpers of the tick.
LEMMA EntryIsDraft == Entry \subseteq Draft
BY DEF Entry, Draft

\* finish leaves a well-formed entry with the same head.
LEMMA FinishedEntry ==
    ASSUME NEW e \in Entry, NEW st \in Ends, NEW r \in Reason
    PROVE  /\ Finished(e, st, r) \in Entry
           /\ Finished(e, st, r).head = e.head
           /\ Finished(e, st, r).state = st
<1>1. ASSUME NEW x \in Entry
      PROVE  /\ [x EXCEPT !.state = st] \in Entry
             /\ [x EXCEPT !.state = st].head = x.head /\ [x EXCEPT !.state = st].state = st
  BY DEF Entry, Ends
<1>2. ASSUME NEW x \in Entry
      PROVE  /\ [x EXCEPT !.reason = r] \in Entry
             /\ [x EXCEPT !.reason = r].head = x.head /\ [x EXCEPT !.reason = r].state = x.state
  BY DEF Entry
<1> QED
  BY <1>1, <1>2, Zenon DEF Finished

\* The build number after a stack is a number.
LEMMA NextBuildType ==
    ASSUME builds \in [PRs -> Nat], NEW p \in PRs, NEW h, NEW parent
    PROVE  NextBuild(p, h, parent) \in Nat /\ <<p, NextBuild(p, h, parent)>> \in Stamp
BY DEF NextBuild, Stamp

\* build_on leaves an entry whose queue commit is a replay onto its base.
LEMMA BuiltEntry ==
    ASSUME builds \in [PRs -> Nat], NEW e \in Draft, NEW p \in PRs, NEW parent \in Commit,
           e.head # <<>>
    PROVE  /\ Built(e, p, parent) \in Entry
           /\ Built(e, p, parent).head = e.head
           /\ Built(e, p, parent).state = e.state
           /\ Built(e, p, parent).base = parent
           /\ Built(e, p, parent).sha = Replay(parent, e.head, <<p, NextBuild(p, e.head, parent)>>)
           /\ IsReplay(Built(e, p, parent))
<1> DEFINE n == NextBuild(p, e.head, parent)
           c == Replay(parent, e.head, <<p, n>>)
<1>1. <<p, n>> \in Stamp
  BY NextBuildType
<1>2. c \in Commit
  BY <1>1, ReplayFacts DEF Draft
<1>3. Built(e, p, parent) = [[[e EXCEPT !.base = parent] EXCEPT !.sha = c] EXCEPT !.last = "open"]
  BY DEF Built
<1> HIDE DEF n
<1>4. ASSUME NEW x, x = [[[e EXCEPT !.base = parent] EXCEPT !.sha = c] EXCEPT !.last = "open"]
      PROVE  /\ x \in Entry /\ x.head = e.head /\ x.state = e.state
             /\ x.base = parent /\ x.sha = c
  <2> HIDE DEF c
  <2> QED
    BY <1>2, <1>4, Zenon DEF Draft, Entry, Conclusion
<1>5. \E s \in Stamp : s[2] # 0 /\ c = Replay(parent, e.head, s)
  <2>1. CASE IsAncestor(parent, e.head)
    <3>1. <<p, 1>> \in Stamp /\ <<p, 1>>[2] # 0
      BY DEF Stamp
    <3> QED
      BY <2>1, <3>1 DEF Replay
  <2>2. CASE ~IsAncestor(parent, e.head)
    <3>1. n # 0
      BY <2>2 DEF n, NextBuild
    <3> QED
      BY <1>1, <3>1
  <2> QED
    BY <2>1, <2>2
<1> HIDE DEF c
<1> QED
  BY <1>3, <1>4, <1>5 DEF IsReplay, c, n

\* Recording the predecessor of an entry keeps it a replay.
LEMMA AfterEntry ==
    ASSUME NEW e \in Entry, NEW after \in PRs \cup {None}
    PROVE  /\ [e EXCEPT !.after = after] \in Entry
           /\ [e EXCEPT !.after = after].head = e.head
           /\ [e EXCEPT !.after = after].state = e.state
           /\ IsReplay(e) => IsReplay([e EXCEPT !.after = after])
BY DEF Entry, IsReplay

\* Superseding the gate results of an entry keeps its head and state.
LEMMA SupersededEntry ==
    ASSUME NEW e \in Entry
    PROVE  /\ Supersede(e) \in Entry
           /\ Supersede(e).head = e.head /\ Supersede(e).state = e.state
BY Zenon DEF Supersede, Entry, Conclusion

-----------------------------------------------------------------------------
(* Entries of the store, of the stack and of a landing.                    *)

Store == [PRs -> Entry \cup {None}]

AllStored(es, b) == \A p \in PRs : Stored(es[p], p, b)

AnyFault == {NoFault} \cup (Faults \X PRs)

\* The faults an action may meet are faults of the model.
LEMMA SomeFaultIsFault ==
    ASSUME NEW kinds PROVE SomeFault(kinds) \subseteq AnyFault
BY DEF SomeFault, AnyFault

\* stack_order is a sequence of the entries it orders.
LEMMA OrderIsSequence ==
    ASSUME NEW S \in SUBSET PRs, NEW es, NEW s \in StackOrders(es, S)
    PROVE  s \in Seq(PRs) /\ \A i \in DOMAIN s : s[i] \in S
<1>1. IsFiniteSet(S)
  BY FS_Subset, PRsAreFinite
<1>2. Cardinality(S) \in Nat
  BY <1>1, FS_CardinalityType
<1> DEFINE n == Cardinality(S)
<1>3. s \in [1 .. n -> S]
  BY DEF StackOrders
<1> HIDE DEF n
<1>4. n \in Nat
  BY <1>2 DEF n
<1> QED
  BY <1>3, <1>4, ListIsSequence

\* restack takes up the entries it is given, onto the base tip if it can be read.
LEMMA RestackFacts ==
    ASSUME base \in Commit, NEW S \in SUBSET PRs, NEW es, NEW pc \in {"stack", "restack"},
           NEW f \in AnyFault, Restack(pc, S, es, f)
    PROVE  /\ tick' \in Tick
           /\ tick'.pc = pc /\ tick'.members = <<>>
           /\ \A i \in DOMAIN tick'.live : tick'.live[i] \in S
           /\ tick'.tip \in {base, None}
           /\ "tip" \notin Faults => tick'.tip = base
<1>1. PICK live \in StackOrders(es, S) :
           tick' = [Resting EXCEPT !.pc = pc, !.live = live,
                                   !.tip = IF f[1] = "tip" THEN None ELSE base]
  BY Zenon DEF Restack
<1>2. live \in Seq(PRs) /\ \A i \in DOMAIN live : live[i] \in S
  BY OrderIsSequence
<1>3. tick' = [pc |-> pc, live |-> live, tip |-> IF f[1] = "tip" THEN None ELSE base,
               members |-> <<>>, failed |-> {}]
  BY <1>1, Zenon DEF Resting
<1>4. "tip" \notin Faults => f[1] # "tip"
  BY DEF AnyFault, NoFault
<1> QED
  BY <1>2, <1>3, <1>4 DEF Tick

\* An entry of the live stack is building.
LEMMA LiveEntry ==
    ASSUME IInv, Restacking, NEW i \in DOMAIN tick.live
    PROVE  /\ tick.live[i] \in PRs
           /\ entries[tick.live[i]] \in Entry /\ entries[tick.live[i]].state = "building"
           /\ HeadOf(entries[tick.live[i]].head, tick.live[i], base)
           /\ IsReplay(entries[tick.live[i]])
           /\ entries[tick.live[i]].base \in Commit /\ entries[tick.live[i]].sha \in Commit
<1> DEFINE p == tick.live[i]
<1>1. p \in PRs
  BY DEF IInv, TypeOK, Tick
<1>2. entries[p] # None /\ entries[p].state = "building"
  BY DEF IInv, LiveOK, Restacking, IsBuilding
<1>3. entries[p] \in Entry /\ Stored(entries[p], p, base)
  BY <1>1, <1>2, ZenonT(30) DEF IInv, TypeOK, StoresOK
<1>4. HeadOf(entries[p].head, p, base) /\ IsReplay(entries[p])
  BY <1>2, <1>3, ZenonT(30) DEF Stored
<1>5. entries[p].base \in Commit /\ entries[p].head \in Commit
  BY <1>3 DEF Entry
<1>6. entries[p].sha \in Commit
  BY <1>4, <1>5, ReplayFacts, Zenon DEF IsReplay, HeadOf
<1> QED
  BY <1>1, <1>2, <1>3, <1>4, <1>5, <1>6

\* What is left of the stack is building.
LEMMA RemainingBuild ==
    ASSUME TypeOK, NEW es
    PROVE  Remaining(es) \in SUBSET PRs /\ \A p \in Remaining(es) : IsBuilding(es, p)
BY DEF Remaining, Range, TypeOK, Tick

\* Landing members stand for entries of the queue.
LEMMA MemberEntry ==
    ASSUME IInv, tick.pc \in {"ready", "move", "finalize", "record"},
           NEW i \in DOMAIN tick.members
    PROVE  /\ tick.members[i] \in LandingMember
           /\ tick.members[i].pr \in PRs
           /\ entries[tick.members[i].pr] \in Entry
           /\ Stored(entries[tick.members[i].pr], tick.members[i].pr, base)
           /\ HeadOf(entries[tick.members[i].pr].head, tick.members[i].pr, base)
<1>0. tick.members \in Seq(LandingMember)
  BY DEF IInv, TypeOK, Tick
<1>1. tick.members[i] \in LandingMember /\ tick.members[i].pr \in PRs
  <2>1. tick.members[i] \in LandingMember
    BY <1>0
  <2> QED
    BY <2>1 DEF LandingMember
<1>2. entries[tick.members[i].pr] # None
  BY DEF IInv, MembersOK
<1> QED
  BY <1>1, <1>2 DEF IInv, TypeOK, StoresOK, Stored

\* The entry enqueue builds, and the commit it builds on, are well formed.
LEMMA EnqueuedDraft ==
    ASSUME IInv, NEW p \in PRs, enq[p] # None, NEW last \in StackTails(p)
    PROVE  LET e == [NewEntry(p) EXCEPT !.after = last]
               parent == IF last = None THEN base ELSE entries[last].sha
           IN  /\ e \in Draft /\ HeadOf(e.head, p, base)
               /\ parent \in Commit
<1> DEFINE e == [NewEntry(p) EXCEPT !.after = last]
           parent == IF last = None THEN base ELSE entries[last].sha
<1>1. enq[p] \in Commit /\ HeadOf(enq[p], p, base) /\ base \in Commit /\ clock \in Nat
  BY DEF IInv, TypeOK, HeadsOK
<1>2. last \in PRs \cup {None} /\ (last # None => IsBuilding(entries, last))
  BY DEF StackTails, Building
<1>3. e = [head |-> enq[p], base |-> None, sha |-> None, state |-> "building", at |-> clock,
           red |-> 0, last |-> None, after |-> last, reason |-> None, landed |-> None]
  BY DEF NewEntry
<1>4. e \in Draft /\ HeadOf(e.head, p, base)
  <2> HIDE DEF e
  <2>1. e.head = enq[p]
    BY <1>3
  <2>2. e \in Draft
    BY <1>1, <1>2, <1>3 DEF Draft, Conclusion, Reason
  <2> QED
    BY <1>1, <2>1, <2>2
<1>5. CASE last = None
  BY <1>1, <1>4, <1>5
<1>6. CASE last # None
  <2>1. last \in PRs /\ entries[last] \in Entry /\ Stored(entries[last], last, base)
        /\ entries[last].state = "building"
    BY <1>2, <1>6 DEF IInv, TypeOK, StoresOK, IsBuilding
  <2>2. HeadOf(entries[last].head, last, base) /\ IsReplay(entries[last])
    BY <1>2, <1>6, <2>1 DEF Stored, IsBuilding
  <2>3. entries[last].base \in Commit
    BY <2>1, ZenonT(30) DEF Entry
  <2>4. entries[last].sha \in Commit
    BY <2>2, <2>3, ReplayFacts DEF IsReplay, HeadOf
  <2> QED
    BY <1>4, <1>6, <2>4
<1> QED
  BY <1>5, <1>6

\* The change p was queued for.
LastOf(p) == entries[p].head[Len(entries[p].head)]

\* What one entry of the stack adds to the commit it sits on.
LEMMA LiveAdds ==
    ASSUME IInv, Restacking, NEW i \in DOMAIN tick.live, NEW parent \in Commit,
           entries[tick.live[i]].base = parent, CutFrom(entries[tick.live[i]].head, parent)
    PROVE  /\ IsAncestor(parent, entries[tick.live[i]].sha)
           /\ \A j \in Len(parent) + 1 .. Len(entries[tick.live[i]].sha) :
                 SameChange(entries[tick.live[i]].sha[j], LastOf(tick.live[i]))
<1> DEFINE e == entries[tick.live[i]]
<1>1. /\ e.head \in Commit /\ e.head # <<>> /\ e.head[Len(e.head)].pr = tick.live[i]
      /\ IsReplay(e)
  BY LiveEntry, Zenon DEF HeadOf
<1>2. PICK s \in Stamp : e.sha = Replay(parent, e.head, s)
  BY <1>1, ZenonT(30) DEF IsReplay
<1> HIDE DEF e
<1>3. CutFrom(e.head, parent)
  BY ZenonT(30) DEF e
<1>4. IsAncestor(parent, Replay(parent, e.head, s))
  BY <1>1, ReplayFacts, ZenonT(30)
<1>5. \A j \in Len(parent) + 1 .. Len(Replay(parent, e.head, s)) :
         SameChange(Replay(parent, e.head, s)[j], e.head[Len(e.head)])
  BY <1>1, <1>3, ReplayAddsOwn
<1> QED
  BY <1>1, <1>2, <1>4, <1>5, ZenonT(30) DEF e, LastOf

\* restack left a chain: its k-th commit brings the tip the first k changes.
ChainUpTo(k) ==
    LET c == entries[tick.live[k]].sha IN
    /\ IsAncestor(tick.tip, c)
    /\ \A j \in Len(tick.tip) + 1 .. Len(c) : \E m \in 1 .. k : SameChange(c[j], LastOf(tick.live[m]))

\* A stack whose first n entries are placed is a chain from the base tip to each of them.
LEMMA ChainBelow ==
    ASSUME IInv, Restacking, tick.tip # None, NEW n \in 0 .. Len(tick.live),
           \A i \in 1 .. n : IsPlaced(i)
    PROVE  \A k \in 1 .. n : ChainUpTo(k)
<1> DEFINE S == {k \in 1 .. n : ChainUpTo(k)}
<1>0. n \in Nat /\ 1 .. n \subseteq DOMAIN tick.live /\ tick.tip \in Commit
  BY DEF IInv, TypeOK, Tick
<1>1. ASSUME NEW i \in 1 .. n
      PROVE  CutFrom(entries[tick.live[i]].head, tick.tip) /\ entries[tick.live[i]].head \in Commit
  BY <1>0, LiveEntry, Zenon DEF IInv, LiveOK, Restacking, HeadOf
<1>2. n >= 1 => 1 \in S
  <2> SUFFICES ASSUME n >= 1 PROVE ChainUpTo(1)
    BY <1>0
  <2>1. 1 \in DOMAIN tick.live /\ entries[tick.live[1]].base = tick.tip
    BY <1>0 DEF IsPlaced, ParentOf
  <2>2. CutFrom(entries[tick.live[1]].head, tick.tip)
    BY <1>0, <1>1, <2>1
  <2>3. /\ IsAncestor(tick.tip, entries[tick.live[1]].sha)
        /\ \A j \in Len(tick.tip) + 1 .. Len(entries[tick.live[1]].sha) :
              SameChange(entries[tick.live[1]].sha[j], LastOf(tick.live[1]))
    BY <1>0, <2>1, <2>2, LiveAdds
  <2> QED
    BY <2>3 DEF ChainUpTo
<1>3. ASSUME NEW k \in 1 .. n - 1, k \in S PROVE k + 1 \in S
  <2> DEFINE b == entries[tick.live[k]].sha
             c == entries[tick.live[k + 1]].sha
  <2>1. k \in DOMAIN tick.live /\ k + 1 \in DOMAIN tick.live /\ k + 1 \in 1 .. n
    BY <1>0
  <2>2. entries[tick.live[k + 1]].base = b
    BY <1>0, <2>1 DEF IsPlaced, ParentOf
  <2>3. b \in Commit /\ c \in Commit
    BY <2>1, LiveEntry
  <2>4. IsAncestor(tick.tip, b)
        /\ \A j \in Len(tick.tip) + 1 .. Len(b) : \E m \in 1 .. k : SameChange(b[j], LastOf(tick.live[m]))
    BY <1>3, Zenon DEF ChainUpTo
  <2>5. CutFrom(entries[tick.live[k + 1]].head, b)
    BY <1>0, <1>1, <2>1, <2>3, <2>4, CutFromDescendant, CommitIsPatches, ZenonT(30)
  <2>6. IsAncestor(b, c) /\ \A j \in Len(b) + 1 .. Len(c) : SameChange(c[j], LastOf(tick.live[k + 1]))
    BY <2>1, <2>2, <2>3, <2>5, LiveAdds, ZenonT(30)
  <2>7. IsAncestor(tick.tip, c)
    BY <1>0, <2>3, <2>4, <2>6, AncestorTrans
  <2>8. ASSUME NEW j \in Len(tick.tip) + 1 .. Len(c)
        PROVE  \E m \in 1 .. k + 1 : SameChange(c[j], LastOf(tick.live[m]))
    <3>1. Len(tick.tip) \in Nat /\ Len(b) \in Nat /\ Len(c) \in Nat
      BY <1>0, <2>3, CommitLength, ZenonT(30)
    <3>2. CASE j <= Len(b)
      <4>1. j \in Len(tick.tip) + 1 .. Len(b) /\ j \in 1 .. Len(b)
        BY <3>1, <3>2
      <4>2. c[j] = b[j]
        BY <2>6, <4>1, Zenon DEF IsAncestor
      <4>3. PICK m \in 1 .. k : SameChange(b[j], LastOf(tick.live[m]))
        BY <2>4, <4>1
      <4> QED
        BY <4>2, <4>3
    <3>3. CASE j > Len(b)
      <4>1. j \in Len(b) + 1 .. Len(c) /\ k + 1 \in 1 .. k + 1
        BY <3>1, <3>3
      <4> QED
        BY <2>6, <4>1
    <3>4. j <= Len(b) \/ j > Len(b)
      BY <3>1
    <3> QED
      BY <3>2, <3>3, <3>4, ZenonT(30)
  <2> HIDE DEF b, c
  <2>9. ChainUpTo(k + 1)
    BY <2>7, <2>8 DEF ChainUpTo, c
  <2> QED
    BY <2>1, <2>9
<1>4. 1 .. n \subseteq S
  <2> HIDE DEF S
  <2> QED
    BY <1>0, <1>2, <1>3, SegmentInduction, Zenon
<1> QED
  BY <1>4

\* An entry of the live stack is a landing member whose queue commit carries it.
LEMMA MemberFacts ==
    ASSUME IInv, Restacking, NEW i \in DOMAIN tick.live
    PROVE  /\ Member(tick.live[i]) \in LandingMember
           /\ Member(tick.live[i]).pr = tick.live[i]
           /\ Member(tick.live[i]).base = entries[tick.live[i]].base
           /\ Member(tick.live[i]).sha = entries[tick.live[i]].sha
           /\ Member(tick.live[i]).head = entries[tick.live[i]].head
           /\ Carries(entries[tick.live[i]].sha, tick.live[i])
           /\ CarriesLast(entries[tick.live[i]].sha, entries[tick.live[i]].head)
           /\ entries[tick.live[i]] # None
<1> DEFINE p == tick.live[i]
<1>1. /\ p \in PRs /\ entries[p] \in Entry /\ HeadOf(entries[p].head, p, base)
      /\ IsReplay(entries[p]) /\ entries[p].base \in Commit /\ entries[p].sha \in Commit
  BY LiveEntry
<1>2. Own(p) \in {"red", "green", "waiting"}
  BY ZenonT(30) DEF Own, GateVerdict
<1>3. Carries(entries[p].sha, p) /\ CarriesLast(entries[p].sha, entries[p].head)
  BY <1>1, ReplayFacts, ZenonT(30) DEF IsReplay, HeadOf
<1>4. entries[p] # None
  BY ZenonT(30) DEF IInv, LiveOK, Restacking, IsBuilding
<1> QED
  BY <1>1, <1>2, <1>3, <1>4, ZenonT(30) DEF Member, LandingMember, HeadOf

\* A landing has members, and its top is the last of them.
LEMMA MembersInOrder ==
    ASSUME IInv, tick.pc \in {"ready", "move", "finalize", "record"}
    PROVE  /\ tick.members \in Seq(LandingMember) /\ Len(tick.members) \in DOMAIN tick.members
           /\ Top = tick.members[Len(tick.members)]
           /\ Top.sha \in Commit
<1>1. tick.members \in Seq(LandingMember) /\ tick.members # <<>>
  BY DEF IInv, TypeOK, Tick, MembersOK
<1>2. Len(tick.members) \in DOMAIN tick.members /\ Top = tick.members[Len(tick.members)]
  BY <1>1 DEF Top, Last
<1> QED
  BY <1>1, <1>2, MemberEntry, ZenonT(30) DEF LandingMember
=============================================================================
