-------------------------- MODULE AuditQueueProofs --------------------------
(***************************************************************************)
(* Proofs about AuditQueue: rows are honest, proofs are earned and running *)
(* audits keep their tickets, whatever the heads, runners and bases are.   *)
(***************************************************************************)
EXTENDS AuditQueue, FiniteSetTheorems, WellFoundedInduction, TLAPS

\* A row of head h that its runner submitted says what the runner audited, and
\* a row with a base was submitted by a runner.
Honest(h, row) ==
    /\ row.by # None =>
          /\ row.base = row.audited
          /\ row.base = NoBase => row.mode = "full"
          /\ row.by \notin Barred[h][row.audited]
    /\ row.base # None => row.by # None

\* What a planner has read; a queue head is planned by the tick alone.
PlanOK(w, p) ==
    p.step \in {"decide", "enqueue", "republish", "retire"} =>
        /\ p.row # None => Honest(p.head, p.row)
        /\ IsQueue(p.head) => w = "tick"
        /\ p.step \in {"republish", "retire"} =>
              IsQueue(p.head) /\ p.row # None /\ p.row.base = p.base

\* What a report carries on its way to its row.
SubOK(r, s) ==
    /\ s.step = "consume" => Matches(s.ticket, s.job)
    /\ s.step = "record" =>
          /\ s.base = s.audited /\ (s.base = NoBase => s.mode = "full")
          /\ r \notin Barred[s.head][s.audited]
    /\ s.step \in {"post", "receipt"} => s.row.by = r /\ Honest(s.head, s.row)

(***************************************************************************)
(* The inductive invariant: the state has its types, no head has two       *)
(* tickets, and every copy of a row, of a ticket or of a report that a     *)
(* request holds between two steps is as honest as the row it leads to.    *)
(***************************************************************************)
RefsOK ==
    /\ tip \in [Branches -> Heads \cup {None}]
    /\ mergeBase \in [Heads -> Base]
    /\ trusted \in [Heads -> BOOLEAN]
    /\ proof \in [Heads -> {"absent", "pending", "pass", "fail"}]

ScoresOK ==
    /\ score \in [Heads -> Row \cup {None}]
    /\ \A h \in Heads : score[h] # None => Honest(h, score[h])

PlansOK ==
    /\ plan \in [Planners -> PlanState]
    /\ \A w \in Planners : PlanOK(w, plan[w])

SubsOK ==
    /\ sub \in [Runners -> SubState]
    /\ \A r \in Runners : SubOK(r, sub[r])

RestoreOK == restore = None \/ restore \subseteq {h \in Heads : ~IsQueue(h)}

\* No head has two tickets.
Distinct(ts) == \A i, j \in DOMAIN ts : ts[i].head = ts[j].head => i = j

\* A well-formed ticket queue.
Queue(ts) == ts \in Seq(Ticket) /\ Distinct(ts) /\ Len(ts) <= Capacity

IInv == Queue(tickets) /\ RefsOK /\ ScoresOK /\ PlansOK /\ SubsOK /\ RestoreOK

-----------------------------------------------------------------------------
(* Positions and subsequences.                                             *)

\* A non-empty set of natural numbers has a least element.
LEMMA LeastExists ==
    ASSUME NEW S, S \subseteq Nat, S # {} PROVE Min(S) \in S /\ \A y \in S : Min(S) <= y
<1>1. PICK x \in S : \A y \in S : ~(<<y, x>> \in OpToRel(<, Nat))
  BY NatLessThanWellFounded, WFMin, Zenon
<1>2. \A y \in S : ~(y < x)
  BY <1>1, Zenon DEF OpToRel
<1>3. \A y \in S : x <= y
  BY <1>2
<1> QED
  BY <1>3, Zenon DEF Min

\* How many positions of P lie at or below i.
Rank(P, i) == Cardinality({j \in P : j <= i})

\* The ranks of some positions of a sequence number them from 1, in their order.
LEMMA RankIsBijection ==
    ASSUME NEW n \in Nat, NEW P \in SUBSET (1 .. n)
    PROVE  /\ IsFiniteSet(P) /\ Cardinality(P) \in Nat /\ Cardinality(P) <= n
           /\ \A i \in P : Rank(P, i) \in 1 .. Cardinality(P)
           /\ \A i, j \in P : Rank(P, i) = Rank(P, j) => i = j
           /\ \A k \in 1 .. Cardinality(P) : \E i \in P : Rank(P, i) = k
<1> DEFINE Below(i) == {j \in P : j <= i}
<1>0. \A i \in P : i \in Nat
  OBVIOUS
<1>1. IsFiniteSet(P) /\ Cardinality(P) \in Nat /\ Cardinality(P) <= n
  <2>1. IsFiniteSet(1 .. n) /\ Cardinality(1 .. n) = n
    BY FS_Interval
  <2>2. IsFiniteSet(P) /\ Cardinality(P) <= Cardinality(1 .. n)
    BY <2>1, FS_Subset, Zenon
  <2>3. Cardinality(P) \in Nat
    BY <2>2, FS_CardinalityType
  <2> QED
    BY <2>1, <2>2, <2>3
<1>2. ASSUME NEW i \in P
      PROVE  /\ IsFiniteSet(Below(i)) /\ Rank(P, i) = Cardinality(Below(i)) /\ Rank(P, i) \in Nat
             /\ 1 <= Rank(P, i) /\ Rank(P, i) <= Cardinality(P)
  <2>1. Below(i) \in SUBSET P /\ i \in Below(i)
    OBVIOUS
  <2>2. IsFiniteSet(Below(i)) /\ Cardinality(Below(i)) <= Cardinality(P)
    BY <1>1, <2>1, FS_Subset
  <2>3. Cardinality(Below(i)) \in Nat /\ Cardinality(Below(i)) # 0
    BY <2>1, <2>2, FS_CardinalityType, FS_EmptySet
  <2> QED
    BY <2>2, <2>3 DEF Rank
<1>3. ASSUME NEW i \in P, NEW j \in P, Rank(P, i) = Rank(P, j), i <= j PROVE i = j
  <2>1. Below(i) \in SUBSET Below(j)
    <3>1. ASSUME NEW k \in Below(i) PROVE k \in Below(j)
      BY <1>0, <1>3, <3>1
    <3> QED
      BY <3>1, Zenon
  <2>2. /\ IsFiniteSet(Below(j)) /\ Rank(P, j) = Cardinality(Below(j))
        /\ Rank(P, i) = Cardinality(Below(i))
    BY <1>2
  <2>3. Cardinality(Below(j)) = Cardinality(Below(i))
    BY <1>3, <2>2
  <2> HIDE DEF Below
  <2>4. Below(i) = Below(j)
    BY <2>1, <2>2, <2>3, FS_Subset
  <2> USE DEF Below
  <2>5. j \in Below(i)
    BY <2>4
  <2> QED
    BY <1>3, <2>5
<1>4. \A i, j \in P : Rank(P, i) = Rank(P, j) => i = j
  <2>1. \A i, j \in P : i <= j \/ j <= i
    OBVIOUS
  <2> QED
    BY <1>3, <2>1
<1> DEFINE f == [i \in P |-> Rank(P, i)]
<1>5. ASSUME NEW i \in P PROVE Rank(P, i) \in 1 .. Cardinality(P)
  <2>1. Rank(P, i) \in Nat /\ 1 <= Rank(P, i) /\ Rank(P, i) <= Cardinality(P)
    BY <1>2, Zenon
  <2> QED
    BY <1>1, <2>1
<1>9. f \in Injection(P, 1 .. Cardinality(P))
  BY <1>4, <1>5, Zenon DEF Injection, IsInjective
<1>6. IsFiniteSet(1 .. Cardinality(P)) /\ Cardinality(1 .. Cardinality(P)) = Cardinality(P)
  BY <1>1, FS_Interval
<1>7. f \in Surjection(P, 1 .. Cardinality(P))
  BY <1>6, <1>9, FS_Injection
<1>8. \A k \in 1 .. Cardinality(P) : \E i \in P : Rank(P, i) = k
  <2>1. \A k \in 1 .. Cardinality(P) : \E i \in P : f[i] = k
    BY <1>7, Zenon DEF Surjection
  <2> QED
    BY <2>1
<1> QED
  BY <1>1, <1>4, <1>5, <1>8, Zenon

\* A subsequence holds what stands at its positions, each of them once.
LEMMA SubsequencePositions ==
    ASSUME NEW S, NEW s \in Seq(S), NEW P \in SUBSET DOMAIN s
    PROVE  /\ Subsequence(s, P) \in Seq(S)
           /\ Len(Subsequence(s, P)) = Cardinality(P) /\ Cardinality(P) <= Len(s)
           /\ Cardinality(P) \in Nat
           /\ \E g \in [1 .. Cardinality(P) -> P] :
                /\ \A k \in 1 .. Cardinality(P) : Subsequence(s, P)[k] = s[g[k]]
                /\ \A k, l \in 1 .. Cardinality(P) : g[k] = g[l] => k = l
                /\ \A i \in P : \E k \in 1 .. Cardinality(P) : g[k] = i
<1> DEFINE c == Cardinality(P)
           g == [k \in 1 .. c |-> CHOOSE i \in P : Rank(P, i) = k]
           u == Subsequence(s, P)
<1>1. Len(s) \in Nat /\ P \in SUBSET (1 .. Len(s))
  OBVIOUS
<1>2. /\ c \in Nat /\ c <= Len(s)
      /\ \A i \in P : Rank(P, i) \in 1 .. c
      /\ \A i, j \in P : Rank(P, i) = Rank(P, j) => i = j
      /\ \A k \in 1 .. c : \E i \in P : Rank(P, i) = k
  BY <1>1, RankIsBijection
<1>3. \A k \in 1 .. c : g[k] \in P /\ Rank(P, g[k]) = k
  BY <1>2
<1>4. g \in [1 .. c -> P]
  BY <1>3
<1>5. u = [k \in 1 .. c |-> s[g[k]]]
  BY DEF Subsequence, Rank
<1> HIDE DEF g, u, c
<1>6. \A k \in 1 .. c : s[g[k]] \in S
  BY <1>1, <1>4
<1>7. u \in Seq(S) /\ Len(u) = c /\ \A k \in 1 .. c : u[k] = s[g[k]]
  BY <1>2, <1>5, <1>6
<1>8. \A k, l \in 1 .. c : g[k] = g[l] => k = l
  BY <1>3
<1>9. ASSUME NEW i \in P PROVE \E k \in 1 .. c : g[k] = i
  <2>1. Rank(P, i) \in 1 .. c
    BY <1>2
  <2>2. g[Rank(P, i)] \in P /\ Rank(P, g[Rank(P, i)]) = Rank(P, i)
    BY <1>3, <2>1
  <2>3. g[Rank(P, i)] = i
    BY <1>2, <2>2
  <2> QED
    BY <2>1, <2>3
<1> QED
  BY <1>2, <1>4, <1>7, <1>8, <1>9, Zenon DEF u, c

\* Some of the tickets of a queue, in their order, are a queue.
LEMMA SubsequenceOfTickets ==
    ASSUME NEW ts \in Seq(Ticket), Distinct(ts), NEW P \in SUBSET DOMAIN ts
    PROVE  /\ Subsequence(ts, P) \in Seq(Ticket) /\ Distinct(Subsequence(ts, P))
           /\ Len(Subsequence(ts, P)) = Cardinality(P) /\ Cardinality(P) <= Len(ts)
           /\ \A i \in P : ts[i] \in Range(Subsequence(ts, P))
           /\ \A t \in Range(Subsequence(ts, P)) : \E i \in P : t = ts[i]
<1> DEFINE u == Subsequence(ts, P)
           c == Cardinality(P)
<1>1. u \in Seq(Ticket) /\ Len(u) = c /\ c <= Len(ts) /\ c \in Nat
  BY SubsequencePositions
<1>2. PICK g \in [1 .. c -> P] :
         /\ \A k \in 1 .. c : u[k] = ts[g[k]]
         /\ \A k, l \in 1 .. c : g[k] = g[l] => k = l
         /\ \A i \in P : \E k \in 1 .. c : g[k] = i
  BY SubsequencePositions
<1> HIDE DEF u, c
<1>3. DOMAIN u = 1 .. c
  BY <1>1
<1>4. Distinct(u)
  BY <1>2, <1>3 DEF Distinct
<1>5. Range(u) = {u[k] : k \in 1 .. c}
  BY <1>3, Zenon DEF Range
<1>6. \A i \in P : ts[i] \in Range(u)
  BY <1>2, <1>5
<1>7. \A t \in Range(u) : \E i \in P : t = ts[i]
  BY <1>2, <1>5
<1> QED
  BY <1>1, <1>4, <1>6, <1>7 DEF u, c

-----------------------------------------------------------------------------
(* The ticket queue.                                                       *)

\* The tickets of a reachable state are a well-formed queue.
LEMMA TicketsAreQueue == ASSUME TypeOK PROVE Queue(tickets)
BY Zenon DEF TypeOK, Queue, Distinct

\* A ticket of a queue stands at a position of it.
LEMMA TicketAt ==
    ASSUME NEW ts \in Seq(Ticket)
    PROVE  /\ \A t \in Range(ts) : t \in Ticket /\ \E i \in DOMAIN ts : t = ts[i]
           /\ \A i \in DOMAIN ts : ts[i] \in Range(ts) /\ ts[i] \in Ticket
           /\ DOMAIN ts = 1 .. Len(ts) /\ Len(ts) \in Nat
<1>1. /\ \A i \in DOMAIN ts : ts[i] \in Ticket
      /\ DOMAIN ts = 1 .. Len(ts) /\ Len(ts) \in Nat
  OBVIOUS
<1> QED
  BY <1>1, Zenon DEF Range

\* Expiring claims leaves every ticket its head, its base and its place, and a
\* ticket that is claimed afterwards as it was.
LEMMA ExpireKeeps ==
    ASSUME NEW ts, Queue(ts)
    PROVE  LET live == ExpireStaleClaims(ts) IN
           /\ Queue(live) /\ DOMAIN live = DOMAIN ts /\ Len(live) = Len(ts)
           /\ \A i \in DOMAIN ts :
                 /\ live[i].head = ts[i].head /\ live[i].base = ts[i].base
                 /\ live[i].stamp = ts[i].stamp
                 /\ ~IsWaiting(live[i]) => live[i] = ts[i]
                 /\ ~ts[i].late => live[i] = ts[i]
<1> DEFINE Fresh(t) == [t EXCEPT !.by = None, !.late = FALSE]
           live == ExpireStaleClaims(ts)
<1>1. ts \in Seq(Ticket) /\ Distinct(ts) /\ Len(ts) <= Capacity
  BY DEF Queue
<1>2. DOMAIN ts = 1 .. Len(ts) /\ Len(ts) \in Nat /\ \A i \in DOMAIN ts : ts[i] \in Ticket
  BY <1>1
<1>3. live = [i \in DOMAIN ts |-> IF ts[i].late THEN Fresh(ts[i]) ELSE ts[i]]
  BY Zenon DEF ExpireStaleClaims
<1>4. ASSUME NEW t \in Ticket
      PROVE  /\ Fresh(t) \in Ticket /\ Fresh(t).head = t.head /\ Fresh(t).base = t.base
             /\ Fresh(t).stamp = t.stamp /\ Fresh(t).by = None
  BY Zenon DEF Ticket
<1> HIDE DEF live, Fresh
<1>5. DOMAIN live = DOMAIN ts /\ \A i \in DOMAIN ts : live[i] \in Ticket
  BY <1>2, <1>3, <1>4
<1>6. live \in Seq(Ticket) /\ Len(live) = Len(ts)
  BY <1>2, <1>3, <1>5
<1>7. \A i \in DOMAIN ts :
        /\ live[i].head = ts[i].head /\ live[i].base = ts[i].base
        /\ live[i].stamp = ts[i].stamp
        /\ ~IsWaiting(live[i]) => live[i] = ts[i]
        /\ ~ts[i].late => live[i] = ts[i]
  BY <1>2, <1>3, <1>4 DEF IsWaiting
<1>8. Distinct(live)
  BY <1>1, <1>5, <1>7, Zenon DEF Distinct
<1> QED
  BY <1>1, <1>5, <1>6, <1>7, <1>8, Zenon DEF Queue, live

\* A queue without the ticket at position i.
LEMMA WithoutKeeps ==
    ASSUME NEW ts, Queue(ts), NEW i \in DOMAIN ts
    PROVE  /\ Queue(Without(ts, i)) /\ Len(Without(ts, i)) = Len(ts) - 1
           /\ \A j \in DOMAIN ts : j # i => ts[j] \in Range(Without(ts, i))
           /\ \A t \in Range(Without(ts, i)) : \E j \in DOMAIN ts : j # i /\ t = ts[j]
<1> DEFINE P == DOMAIN ts \ {i}
<1>1. ts \in Seq(Ticket) /\ Distinct(ts) /\ Len(ts) <= Capacity /\ Capacity \in Nat
  BY Constants DEF Queue
<1>2. DOMAIN ts = 1 .. Len(ts) /\ Len(ts) \in Nat
  BY <1>1
<1>3. IsFiniteSet(DOMAIN ts) /\ Cardinality(DOMAIN ts) = Len(ts)
  <2> DEFINE n == Len(ts)
  <2>1. n \in Nat /\ DOMAIN ts = 1 .. n
    BY <1>2
  <2> HIDE DEF n
  <2>2. IsFiniteSet(1 .. n) /\ Cardinality(1 .. n) = n
    BY <2>1, FS_Interval
  <2> QED
    BY <2>1, <2>2, Zenon DEF n
<1>4. Cardinality(P) = Len(ts) - 1
  <2>1. Cardinality(P) = IF i \in DOMAIN ts THEN Cardinality(DOMAIN ts) - 1 ELSE Cardinality(DOMAIN ts)
    BY <1>3, FS_RemoveElement, Zenon
  <2> QED
    BY <1>3, <2>1, Zenon
<1>5. Without(ts, i) = Subsequence(ts, P) /\ P \in SUBSET DOMAIN ts
  BY Zenon DEF Without
<1>6. \A j \in DOMAIN ts : j \in P <=> j # i
  OBVIOUS
<1> HIDE DEF P
<1>7. /\ Subsequence(ts, P) \in Seq(Ticket) /\ Distinct(Subsequence(ts, P))
      /\ Len(Subsequence(ts, P)) = Cardinality(P) /\ Cardinality(P) <= Len(ts)
      /\ \A j \in P : ts[j] \in Range(Subsequence(ts, P))
      /\ \A t \in Range(Subsequence(ts, P)) : \E j \in P : t = ts[j]
  BY <1>1, <1>5, SubsequenceOfTickets
<1>8. Len(Without(ts, i)) = Len(ts) - 1 /\ Len(Without(ts, i)) <= Capacity
  BY <1>1, <1>2, <1>4, <1>5, <1>7
<1>9. Queue(Without(ts, i))
  BY <1>5, <1>7, <1>8, Zenon DEF Queue
<1> QED
  BY <1>5, <1>6, <1>7, <1>8, <1>9, Zenon

\* There is a moment at which no ticket was made or claimed.
LEMMA NowType == ASSUME TypeOK PROVE Now \in Nat
<1> DEFINE A == {t.stamp : t \in Range(tickets)}
           C == {s \in Runners : sub[s].step = "consume"}
           J == {s \in Runners : sub[s].step = "audit"}
           B == {sub[r].ticket.stamp : r \in C}
           D == {sub[r].stamp : r \in J}
<1>1. IsFiniteSet(A)
  <2>1. Queue(tickets) /\ tickets \in Seq(Ticket)
    BY TicketsAreQueue DEF Queue
  <2>2. DOMAIN tickets = 1 .. Len(tickets) /\ Len(tickets) \in Nat
    BY <2>1
  <2>3. IsFiniteSet(DOMAIN tickets)
    BY <2>2, FS_Interval
  <2>4. [i \in DOMAIN tickets |-> tickets[i].stamp] \in Surjection(DOMAIN tickets, A)
    BY Zenon DEF Surjection, Range
  <2> QED
    BY <2>3, <2>4, FS_Surjection
<1>2. IsFiniteSet(B)
  <2>1. IsFiniteSet(C)
    BY Constants, FS_Subset
  <2>2. [r \in C |-> sub[r].ticket.stamp] \in Surjection(C, B)
    BY Zenon DEF Surjection
  <2> QED
    BY <2>1, <2>2, FS_Surjection
<1>3. IsFiniteSet(D)
  <2>1. IsFiniteSet(J)
    BY Constants, FS_Subset
  <2>2. [r \in J |-> sub[r].stamp] \in Surjection(J, D)
    BY Zenon DEF Surjection
  <2> QED
    BY <2>1, <2>2, FS_Surjection
<1>4. Stamps = (A \cup B) \cup D
  BY Zenon DEF Stamps
<1>5. IsFiniteSet(Stamps)
  <2> HIDE DEF A, B, D
  <2> QED
    BY <1>1, <1>2, <1>3, <1>4, FS_Union, Zenon
<1> HIDE DEF A, B, D, C, J
<1> DEFINE n == Cardinality(Stamps)
<1>6. n \in Nat
  BY <1>5, FS_CardinalityType
<1>7. \E m \in 0 .. n : m \notin Stamps
  <2>1. SUFFICES ASSUME 0 .. n \in SUBSET Stamps PROVE FALSE
    BY Zenon
  <2>2. Cardinality(0 .. n) = n + 1
    BY <1>6, FS_Interval
  <2>3. Cardinality(0 .. n) <= n
    BY <1>5, <2>1, FS_Subset, Zenon
  <2> QED
    BY <1>6, <2>2, <2>3
<1>8. Now \in 0 .. n
  BY <1>7, Zenon DEF Now
<1> QED
  BY <1>6, <1>8

\* Making room in a queue that is not full evicts at most a waiting ticket.
LEMMA MakeRoomKeeps ==
    ASSUME NEW ts, Queue(ts), ~IsFull(ts)
    PROVE  /\ Queue(MakeRoom(ts)) /\ Len(MakeRoom(ts)) < Capacity
           /\ \A i \in DOMAIN ts : ~IsWaiting(ts[i]) => ts[i] \in Range(MakeRoom(ts))
           /\ \A t \in Range(MakeRoom(ts)) : t \in Range(ts)
<1>1. ts \in Seq(Ticket) /\ Len(ts) <= Capacity /\ Len(ts) \in Nat /\ Capacity \in Nat
  BY Constants DEF Queue
<1>2. DOMAIN ts \subseteq Nat /\ \A i \in DOMAIN ts : ts[i] \in Range(ts)
  BY <1>1, TicketAt
<1>3. CASE Len(ts) < Capacity
  <2>1. MakeRoom(ts) = ts
    BY <1>3, Zenon DEF MakeRoom
  <2> QED
    BY <1>2, <1>3, <2>1, Zenon
<1>4. CASE ~(Len(ts) < Capacity)
  <2>1. Len(ts) = Capacity /\ Len(ts) - 1 < Capacity
    BY <1>1, <1>4
  <2>2. Victims(ts) # {} /\ Victims(ts) \subseteq Nat
    BY <1>1, <1>2, <2>1 DEF IsFull, Victims
  <2> DEFINE v == Min(Victims(ts))
  <2>3. v \in Victims(ts)
    BY <2>2, LeastExists
  <2>4. v \in DOMAIN ts /\ IsWaiting(ts[v]) /\ MakeRoom(ts) = Without(ts, v)
    BY <1>4, <2>3, Zenon DEF Victims, MakeRoom
  <2> HIDE DEF v
  <2>5. /\ Queue(Without(ts, v)) /\ Len(Without(ts, v)) = Len(ts) - 1
        /\ \A j \in DOMAIN ts : j # v => ts[j] \in Range(Without(ts, v))
        /\ \A t \in Range(Without(ts, v)) : \E j \in DOMAIN ts : j # v /\ t = ts[j]
    BY <2>4, WithoutKeeps
  <2>6. Len(MakeRoom(ts)) < Capacity
    BY <2>1, <2>4, <2>5, Zenon
  <2> QED
    BY <1>2, <2>4, <2>5, <2>6, Zenon
<1> QED
  BY <1>3, <1>4

\* A ticket for a head that has none fits behind a queue with room.
LEMMA AppendKeeps ==
    ASSUME NEW ts, Queue(ts), Len(ts) < Capacity, NEW t \in Ticket,
           \A s \in Range(ts) : s.head # t.head
    PROVE  /\ Queue(Append(ts, t))
           /\ \A s \in Range(ts) : s \in Range(Append(ts, t))
<1> DEFINE u == Append(ts, t)
<1>1. /\ ts \in Seq(Ticket) /\ Distinct(ts) /\ Capacity \in Nat /\ Len(ts) \in Nat
      /\ DOMAIN ts = 1 .. Len(ts) /\ \A i \in DOMAIN ts : ts[i] \in Range(ts)
  BY Constants, TicketAt DEF Queue
<1>2. /\ u \in Seq(Ticket) /\ Len(u) = Len(ts) + 1 /\ DOMAIN u = 1 .. Len(ts) + 1
      /\ u[Len(ts) + 1] = t /\ \A i \in 1 .. Len(ts) : u[i] = ts[i]
  BY <1>1
<1> HIDE DEF u
<1>3. Len(u) <= Capacity
  BY <1>1, <1>2
<1>4. ASSUME NEW i \in DOMAIN u, NEW j \in DOMAIN u, u[i].head = u[j].head PROVE i = j
  <2>1. CASE i \in 1 .. Len(ts) /\ j \in 1 .. Len(ts)
    BY <1>1, <1>2, <1>4, <2>1, Zenon DEF Distinct
  <2>2. \A k \in 1 .. Len(ts) : u[k].head # u[Len(ts) + 1].head
    BY <1>1, <1>2, Zenon
  <2>3. \A k \in DOMAIN u : k \in 1 .. Len(ts) \/ k = Len(ts) + 1
    BY <1>1, <1>2
  <2> QED
    BY <1>4, <2>1, <2>2, <2>3, Zenon
<1>5. Queue(u)
  BY <1>2, <1>3, <1>4, Zenon DEF Queue, Distinct
<1>6. ASSUME NEW s \in Range(ts) PROVE s \in Range(u)
  <2>1. PICK i \in DOMAIN ts : s = ts[i]
    BY <1>1, TicketAt
  <2>2. i \in DOMAIN u /\ u[i] = s
    BY <1>1, <1>2, <2>1
  <2> QED
    BY <2>2, Zenon DEF Range
<1> QED
  BY <1>5, <1>6 DEF u

\* Writing another ticket for the head at position i.
LEMMA RewriteKeeps ==
    ASSUME NEW ts, Queue(ts), NEW i \in DOMAIN ts, NEW t \in Ticket, t.head = ts[i].head
    PROVE  /\ Queue([ts EXCEPT ![i] = t]) /\ t \in Range([ts EXCEPT ![i] = t])
           /\ \A j \in DOMAIN ts : j # i => ts[j] \in Range([ts EXCEPT ![i] = t])
<1> DEFINE u == [ts EXCEPT ![i] = t]
<1>1. ts \in Seq(Ticket) /\ Distinct(ts) /\ Len(ts) <= Capacity
  BY DEF Queue
<1>2. u \in Seq(Ticket) /\ Len(u) = Len(ts) /\ DOMAIN u = DOMAIN ts
  BY <1>1
<1>3. u[i] = t /\ \A j \in DOMAIN ts : j # i => u[j] = ts[j]
  BY <1>1
<1> HIDE DEF u
<1>4. Distinct(u)
  BY <1>1, <1>2, <1>3, Zenon DEF Distinct
<1>5. Queue(u)
  BY <1>1, <1>2, <1>4, Zenon DEF Queue
<1>6. \A j \in DOMAIN ts : u[j] \in Range(u)
  BY <1>2, Zenon DEF Range
<1> QED
  BY <1>3, <1>5, <1>6, Zenon DEF u

\* A new ticket is a ticket nobody has claimed.
LEMMA NewTicketType ==
    ASSUME TypeOK, NEW h \in Heads, NEW b \in Base
    PROVE  /\ NewTicket(h, b) \in Ticket /\ NewTicket(h, b).head = h /\ NewTicket(h, b).base = b
<1>1. Now \in Nat
  BY NowType
<1> QED
  BY <1>1 DEF NewTicket, Ticket

\* Enqueueing keeps the queue well formed.  A ticket whose claim is inside its
\* lease stays, unless it is that of the queue head whose diff changed.
LEMMA EnqueuedKeeps ==
    ASSUME TypeOK, NEW h \in Heads, NEW b \in Base
    PROVE  /\ Queue(Enqueued(h, b).tickets)
           /\ \A t \in Range(tickets) : IsRunning(t) =>
                 \/ t \in Range(Enqueued(h, b).tickets)
                 \/ /\ IsQueue(h) /\ t.head = h /\ b # t.base
                    /\ \E s \in Range(Enqueued(h, b).tickets) : s.head = h /\ s.base = b
<1> DEFINE live == ExpireStaleClaims(tickets)
           at == Positions(live, h)
           P == {i \in DOMAIN live : ~IsSuperseded(live[i], h)}
           kept == Subsequence(live, P)
           new == NewTicket(h, b)
           E == Enqueued(h, b)
<1>1. Queue(tickets) /\ new \in Ticket /\ new.head = h /\ new.base = b
  BY TicketsAreQueue, NewTicketType
<1>2. /\ Queue(live) /\ DOMAIN live = DOMAIN tickets
      /\ \A i \in DOMAIN tickets :
            /\ live[i].head = tickets[i].head /\ live[i].base = tickets[i].base
            /\ ~tickets[i].late => live[i] = tickets[i]
  BY <1>1, ExpireKeeps
<1>3. at # {} => E = IF IsReplaced(live[Min(at)], h, b)
                     THEN [outcome |-> "queued", tickets |-> [live EXCEPT ![Min(at)] = new]]
                     ELSE [outcome |-> "already", tickets |-> live]
  BY Zenon DEF Enqueued
<1>4. at = {} => E = IF IsFull(kept) THEN [outcome |-> "full", tickets |-> kept]
                     ELSE [outcome |-> "queued", tickets |-> Append(MakeRoom(kept), new)]
  BY Zenon DEF Enqueued
<1>5. at \subseteq DOMAIN live /\ \A i \in at : live[i].head = h
  BY Zenon DEF Positions
<1>6. \A i \in DOMAIN live : live[i].head = h => i \in at
  BY Zenon DEF Positions
<1>7. P \in SUBSET DOMAIN live /\ \A i \in DOMAIN live : ~IsWaiting(live[i]) => i \in P
  BY Zenon DEF IsSuperseded
<1> HIDE DEF live, at, P, new, E
<1>8. tickets \in Seq(Ticket) /\ live \in Seq(Ticket) /\ Distinct(live) /\ Len(live) <= Capacity
  BY <1>1, <1>2 DEF Queue
<1>9. ASSUME NEW t \in Range(tickets), IsRunning(t)
      PROVE  \E i \in DOMAIN live : live[i] = t /\ ~IsWaiting(live[i])
  <2>1. PICK i \in DOMAIN tickets : t = tickets[i]
    BY <1>8, TicketAt
  <2> QED
    BY <1>2, <1>9, <2>1, Zenon DEF IsRunning
<1>10. CASE at # {}
  <2> DEFINE m == Min(at)
  <2>1. DOMAIN live \subseteq Nat
    BY <1>8, TicketAt
  <2>2. m \in at
    BY <1>5, <1>10, <2>1, LeastExists
  <2>3. m \in DOMAIN live /\ live[m].head = h
    BY <1>5, <2>2
  <2> HIDE DEF m
  <2>4. CASE IsReplaced(live[m], h, b)
    <3>1. E.tickets = [live EXCEPT ![m] = new]
      BY <1>3, <1>10, <2>4 DEF m
    <3>2. /\ Queue(E.tickets) /\ new \in Range(E.tickets)
          /\ \A j \in DOMAIN live : j # m => live[j] \in Range(E.tickets)
      <4> DEFINE u == [live EXCEPT ![m] = new]
      <4>1. new.head = live[m].head
        BY <1>1, <2>3
      <4>2. Queue(u) /\ new \in Range(u) /\ \A j \in DOMAIN live : j # m => live[j] \in Range(u)
        BY <1>1, <1>2, <2>3, <4>1, RewriteKeeps, Zenon
      <4> HIDE DEF u
      <4>3. E.tickets = u
        BY <3>1 DEF u
      <4> QED
        BY <4>2, <4>3, Zenon
    <3>3. IsQueue(h) /\ live[m].base # b
      BY <2>4 DEF IsReplaced
    <3> QED
      BY <1>1, <1>9, <2>3, <3>2, <3>3, Zenon DEF E
  <2>5. CASE ~IsReplaced(live[m], h, b)
    <3>1. E.tickets = live
      BY <1>3, <1>10, <2>5 DEF m
    <3>2. \A i \in DOMAIN live : live[i] \in Range(live)
      BY <1>8, TicketAt
    <3> QED
      BY <1>2, <1>9, <3>1, <3>2, Zenon DEF E
  <2> QED
    BY <2>4, <2>5
<1>11. CASE at = {}
  <2>1. /\ kept \in Seq(Ticket) /\ Distinct(kept) /\ Len(kept) <= Len(live)
        /\ \A i \in P : live[i] \in Range(kept)
        /\ \A t \in Range(kept) : \E i \in P : t = live[i]
    BY <1>7, <1>8, SubsequenceOfTickets
  <2> HIDE DEF kept
  <2>2. Queue(kept)
    <3>1. Len(kept) \in Nat /\ Len(live) \in Nat /\ Capacity \in Nat
      BY <1>8, <2>1, Constants
    <3>2. Len(kept) <= Capacity
      BY <1>8, <2>1, <3>1
    <3> QED
      BY <2>1, <3>2, Zenon DEF Queue
  <2>3. \A t \in Range(kept) : t.head # h
    BY <1>6, <1>7, <1>11, <2>1, Zenon
  <2>4. CASE IsFull(kept)
    <3>1. E.tickets = kept
      BY <1>4, <1>11, <2>4
    <3>2. \A t \in Range(tickets) : IsRunning(t) => t \in Range(kept)
      BY <1>7, <1>9, <2>1, Zenon
    <3>3. Queue(E.tickets)
      BY <2>2, <3>1, Zenon
    <3>4. Range(E.tickets) = Range(kept)
      BY <3>1
    <3> QED
      BY <3>2, <3>3, <3>4, Zenon DEF E
  <2>5. CASE ~IsFull(kept)
    <3> DEFINE room == MakeRoom(kept)
    <3>1. E.tickets = Append(room, new)
      BY <1>4, <1>11, <2>5
    <3>2. /\ Queue(room) /\ Len(room) < Capacity
          /\ \A i \in DOMAIN kept : ~IsWaiting(kept[i]) => kept[i] \in Range(room)
          /\ \A t \in Range(room) : t \in Range(kept)
      BY <2>2, <2>5, MakeRoomKeeps
    <3> HIDE DEF room
    <3>3. \A t \in Range(room) : t.head # new.head
      BY <1>1, <2>3, <3>2, Zenon
    <3>4. Queue(E.tickets) /\ \A t \in Range(room) : t \in Range(E.tickets)
      BY <1>1, <3>1, <3>2, <3>3, AppendKeeps
    <3>5. ASSUME NEW t \in Range(tickets), IsRunning(t) PROVE t \in Range(E.tickets)
      <4>1. t \in Range(kept) /\ ~IsWaiting(t)
        BY <1>7, <1>9, <2>1, <3>5, Zenon
      <4>2. PICK k \in DOMAIN kept : t = kept[k]
        BY <2>1, <4>1, TicketAt
      <4> QED
        BY <3>2, <3>4, <4>1, <4>2, Zenon
    <3> QED
      BY <3>4, <3>5, Zenon DEF E
  <2> QED
    BY <2>4, <2>5
<1> QED
  BY <1>10, <1>11

\* Taking the ticket of a head leaves the others.
LEMMA TakeKeeps ==
    ASSUME TypeOK, NEW h, Positions(tickets, h) # {}
    PROVE  /\ Queue(Take(h))
           /\ \A t \in Range(tickets) : t.head # h => t \in Range(Take(h))
           /\ Min(Positions(tickets, h)) \in DOMAIN tickets
           /\ tickets[Min(Positions(tickets, h))].head = h
<1> DEFINE m == Min(Positions(tickets, h))
<1>1. Queue(tickets) /\ tickets \in Seq(Ticket)
  BY TicketsAreQueue DEF Queue
<1>2. DOMAIN tickets \subseteq Nat /\ Positions(tickets, h) \subseteq DOMAIN tickets
  BY <1>1, TicketAt DEF Positions
<1>3. m \in Positions(tickets, h)
  BY <1>2, LeastExists
<1>4. m \in DOMAIN tickets /\ tickets[m].head = h
  BY <1>3, Zenon DEF Positions
<1>5. Take(h) = Without(tickets, m)
  BY Zenon DEF Take
<1> HIDE DEF m
<1>6. /\ Queue(Take(h))
      /\ \A j \in DOMAIN tickets : j # m => tickets[j] \in Range(Take(h))
  BY <1>1, <1>4, <1>5, WithoutKeeps
<1>7. ASSUME NEW t \in Range(tickets), t.head # h PROVE t \in Range(Take(h))
  <2>1. PICK i \in DOMAIN tickets : t = tickets[i]
    BY <1>1, TicketAt
  <2> QED
    BY <1>4, <1>6, <1>7, <2>1, Zenon
<1> QED
  BY <1>4, <1>6, <1>7, Zenon DEF m

-----------------------------------------------------------------------------
(* What planners and runners have in hand.                                 *)

\* The inductive invariant implies the type invariant.
LEMMA IInvTypes == ASSUME IInv PROVE TypeOK
<1>1. RestoreOK => restore = None \/ restore \subseteq Heads
  BY Zenon DEF RestoreOK
<1> QED
  BY <1>1, Zenon DEF IInv, Queue, Distinct, RefsOK, ScoresOK, PlansOK, SubsOK, TypeOK

\* A planner that has read its head knows the base and the row it read.
LEMMA PlanShape ==
    ASSUME NEW p \in PlanState
    PROVE  /\ p.step \in {"decide", "enqueue", "republish", "retire"} =>
                 p \in [step : {"decide", "enqueue", "republish", "retire"}, head : Heads,
                        base : Base, row : Row \cup {None}]
           /\ p.step = "publish" => p.head \in Heads
BY DEF PlanState, Idle

\* The report a runner has in hand.
LEMMA SubShape ==
    ASSUME NEW s \in SubState
    PROVE  /\ s.step = "audit" => s \in AuditJob
           /\ s.step = "consume" => s.ticket \in Ticket /\ s.job \in AuditJob
           /\ s.step = "record" => /\ s.head \in Heads /\ s.base \in Base /\ s.audited \in Base
                                   /\ s.mode \in Modes
           /\ s.step \in {"post", "receipt"} =>
                 s \in [step : {"post", "receipt"}, head : Heads, row : Row]
BY DEF SubState, Idle, AuditJob

\* A planner or a runner with nothing in hand.
LEMMA IdleOK ==
    /\ Idle \in PlanState /\ \A w : PlanOK(w, Idle)
    /\ Idle \in SubState /\ \A r : SubOK(r, Idle)
BY DEF Idle, PlanState, SubState, PlanOK, SubOK

\* One planner moves on.
LEMMA PlanMoves ==
    ASSUME PlansOK, NEW w \in Planners, NEW p \in PlanState, PlanOK(w, p),
           plan' = [plan EXCEPT ![w] = p]
    PROVE  PlansOK'
<1>1. plan \in [Planners -> PlanState] /\ \A v \in Planners : PlanOK(v, plan[v])
  BY DEF PlansOK
<1>2. plan' \in [Planners -> PlanState] /\ \A v \in Planners : PlanOK(v, plan'[v])
  BY <1>1, Zenon
<1> QED
  BY <1>2 DEF PlansOK

\* One runner moves on.
LEMMA SubMoves ==
    ASSUME SubsOK, NEW r \in Runners, NEW s \in SubState, SubOK(r, s),
           sub' = [sub EXCEPT ![r] = s]
    PROVE  SubsOK'
<1>1. sub \in [Runners -> SubState] /\ \A q \in Runners : SubOK(q, sub[q])
  BY DEF SubsOK
<1>2. sub' \in [Runners -> SubState] /\ \A q \in Runners : SubOK(q, sub'[q])
  BY <1>1, Zenon
<1> QED
  BY <1>2 DEF SubsOK

\* A runner is refused, or done.
LEMMA RefuseKeeps == ASSUME SubsOK, NEW r \in Runners, Refuse(r) PROVE SubsOK'
BY IdleOK, SubMoves, Zenon DEF Refuse

\* A planner is done.
LEMMA PlanEnds == ASSUME PlansOK, NEW w \in Planners, Goto(w, Idle) PROVE PlansOK'
BY IdleOK, PlanMoves, Zenon DEF Goto

\* What a planner reads of a head is as honest as the rows.
LEMMA ReadingOK ==
    ASSUME IInv, NEW w \in Planners, NEW h \in Heads, IsQueue(h) => w = "tick"
    PROVE  Reading(h) \in PlanState /\ PlanOK(w, Reading(h))
<1>1. mergeBase[h] \in Base /\ score[h] \in Row \cup {None} /\ (score[h] # None => Honest(h, score[h]))
  BY DEF IInv, RefsOK, ScoresOK
<1>2. ReadableRow(h) \in Row \cup {None} /\ (ReadableRow(h) # None => Honest(h, ReadableRow(h)))
  BY <1>1, ZenonT(30) DEF ReadableRow
<1>3. Reading(h) \in PlanState
  BY <1>1, <1>2 DEF Reading, PlanState
<1>4. Reading(h).step = "decide" /\ Reading(h).head = h /\ Reading(h).row = ReadableRow(h)
  BY DEF Reading
<1> QED
  BY <1>2, <1>3, <1>4 DEF PlanOK

\* What a planner decides from what it read.
LEMMA DecidedOK ==
    ASSUME NEW w \in Planners, NEW p \in PlanState, PlanOK(w, p), p.step = "decide",
           Decided(p) # "idle"
    PROVE  LET d == [p EXCEPT !.step = Decided(p)] IN d \in PlanState /\ PlanOK(w, d)
<1> DEFINE d == [p EXCEPT !.step = Decided(p)]
<1>1. /\ p \in [step : {"decide", "enqueue", "republish", "retire"}, head : Heads, base : Base,
                row : Row \cup {None}]
      /\ p.row # None => Honest(p.head, p.row)
      /\ IsQueue(p.head) => w = "tick"
  BY PlanShape DEF PlanOK
<1>2. /\ Decided(p) \in {"enqueue", "republish", "retire"}
      /\ Decided(p) \in {"republish", "retire"} => IsQueue(p.head) /\ Recoverable(p)
  BY DEF Decided
<1>3. Recoverable(p) => p.row # None /\ p.row.base = p.base
  BY DEF Recoverable
<1>4. d.step = Decided(p) /\ d.head = p.head /\ d.base = p.base /\ d.row = p.row
  BY <1>1
<1>5. d \in PlanState
  BY <1>1, <1>2, ZenonT(30) DEF PlanState
<1> HIDE DEF d
<1>6. PlanOK(w, d)
  BY <1>1, <1>2, <1>3, <1>4, ZenonT(30) DEF PlanOK
<1> QED
  BY <1>5, <1>6 DEF d

-----------------------------------------------------------------------------
(* Planning keeps the invariant.                                           *)

\* A push, a queue build, a tick or a re-gate starts to plan a head.
LEMMA StartPlanKeeps ==
    ASSUME IInv, NEW w \in Planners, NEW h \in Heads, Move(w, h) \/ Replan(w, h) PROVE IInv'
<1>1. IsQueue(h) => w = "tick"
  BY DEF Move, Replan, MayPlan
<1>2. Reading(h) \in PlanState /\ PlanOK(w, Reading(h))
  BY <1>1, ReadingOK
<1>3. /\ plan' = [plan EXCEPT ![w] = Reading(h)]
      /\ UNCHANGED <<tickets, mergeBase, score, trusted, proof, sub, restore>>
      /\ tip' = tip \/ tip' = [tip EXCEPT ![Branch[h]] = h]
  BY Zenon DEF Move, Replan, Goto
<1>4. PlansOK'
  BY <1>2, <1>3, PlanMoves, Zenon DEF IInv
<1>5. tip' \in [Branches -> Heads \cup {None}]
  BY <1>3 DEF IInv, RefsOK
<1>6. RefsOK'
  BY <1>3, <1>5, ZenonT(30) DEF IInv, RefsOK
<1> QED
  BY <1>3, <1>4, <1>6 DEF IInv, ScoresOK, SubsOK, RestoreOK

\* What lies below a head lands.
LEMMA NarrowKeeps == ASSUME IInv, NEW h \in Heads, Narrow(h) PROVE IInv'
<1>1. mergeBase' \in [Heads -> Base]
  BY DEF Narrow, IInv, RefsOK, Base
<1>2. UNCHANGED <<tickets, tip, score, trusted, proof, plan, sub, restore>>
  BY Zenon DEF Narrow
<1> QED
  BY <1>1, <1>2 DEF IInv, RefsOK, ScoresOK, PlansOK, SubsOK, RestoreOK

\* A planner decides.
LEMMA DecideKeeps == ASSUME IInv, NEW w \in Planners, Decide(w) PROVE IInv'
<1>1. /\ plan[w] \in PlanState /\ PlanOK(w, plan[w]) /\ plan[w].step = "decide"
      /\ Goto(w, IF Decided(plan[w]) = "idle" THEN Idle
                 ELSE [plan[w] EXCEPT !.step = Decided(plan[w])])
  BY DEF IInv, PlansOK, Decide
<1>2. PlansOK'
  <2>1. CASE Decided(plan[w]) = "idle"
    BY <1>1, <2>1, PlanEnds DEF IInv
  <2>2. CASE Decided(plan[w]) # "idle"
    <3> DEFINE d == [plan[w] EXCEPT !.step = Decided(plan[w])]
    <3>1. d \in PlanState /\ PlanOK(w, d)
      BY <1>1, <2>2, DecidedOK
    <3> HIDE DEF d
    <3>2. plan' = [plan EXCEPT ![w] = d]
      BY <1>1, <2>2 DEF Goto, d
    <3> QED
      BY <3>1, <3>2, PlanMoves, Zenon DEF IInv
  <2> QED
    BY <2>1, <2>2
<1>3. UNCHANGED <<tickets, tip, mergeBase, score, trusted, proof, sub, restore>>
  BY Zenon DEF Decide
<1> QED
  BY <1>2, <1>3 DEF IInv, RefsOK, ScoresOK, SubsOK, RestoreOK

\* A planner asks for an audit.
LEMMA EnqueueKeeps == ASSUME IInv, NEW w \in Planners, Enqueue(w) PROVE IInv'
<1>1. /\ plan[w] \in PlanState /\ plan[w].step = "enqueue"
  BY DEF IInv, PlansOK, Enqueue
<1>2. plan[w].head \in Heads /\ plan[w].base \in Base
  BY <1>1, PlanShape
<1>3. Queue(tickets')
  BY <1>2, IInvTypes, EnqueuedKeeps, ZenonT(30) DEF Enqueue
<1> DEFINE d == [step |-> "publish", head |-> plan[w].head]
<1>4. d \in PlanState /\ PlanOK(w, d)
  BY <1>2 DEF PlanState, PlanOK
<1> HIDE DEF d
<1>5. plan' = [plan EXCEPT ![w] = Idle] \/ plan' = [plan EXCEPT ![w] = d]
  BY Zenon DEF Enqueue, Goto, d
<1>6. PlansOK'
  BY <1>4, <1>5, IdleOK, PlanMoves DEF IInv
<1>7. UNCHANGED <<tip, mergeBase, score, trusted, proof, sub, restore>>
  BY Zenon DEF Enqueue
<1> QED
  BY <1>3, <1>6, <1>7 DEF IInv, RefsOK, ScoresOK, SubsOK, RestoreOK

\* A planner publishes the pending check, or the verdict of a row it recovers.
LEMMA PublishKeeps ==
    ASSUME IInv, NEW w \in Planners, PublishPending(w) \/ Republish(w) PROVE IInv'
<1>1. plan[w] \in PlanState /\ PlanOK(w, plan[w])
  BY DEF IInv, PlansOK
<1>2. Conclusion(plan[w].row) \in {"pass", "fail"}
  BY DEF Conclusion
<1>3. proof' \in [Heads -> {"absent", "pending", "pass", "fail"}]
  BY <1>2 DEF PublishPending, Republish, IInv, RefsOK
<1>4. UNCHANGED <<tickets, tip, mergeBase, score, trusted, sub, restore>>
  BY Zenon DEF PublishPending, Republish
<1>5. PlansOK'
  <2>1. CASE plan' = [plan EXCEPT ![w] = Idle]
    BY <2>1, IdleOK, PlanMoves, Zenon DEF IInv
  <2>2. CASE Republish(w) /\ plan' = [plan EXCEPT ![w] = [plan[w] EXCEPT !.step = "retire"]]
    <3> DEFINE d == [plan[w] EXCEPT !.step = "retire"]
    <3>1. plan[w].step = "republish"
      BY <2>2 DEF Republish
    <3>2. plan[w] \in [step : {"decide", "enqueue", "republish", "retire"}, head : Heads,
                       base : Base, row : Row \cup {None}]
      BY <1>1, <3>1, PlanShape
    <3>3. d \in PlanState /\ d.head = plan[w].head /\ d.base = plan[w].base /\ d.row = plan[w].row
      BY <3>2, ZenonT(30) DEF PlanState
    <3> HIDE DEF d
    <3>4. PlanOK(w, d)
      BY <1>1, <3>1, <3>3 DEF PlanOK
    <3>5. plan' = [plan EXCEPT ![w] = d]
      BY <2>2 DEF d
    <3> QED
      BY <3>3, <3>4, <3>5, PlanMoves, Zenon DEF IInv
  <2> QED
    BY <2>1, <2>2, Zenon DEF PublishPending, Republish, Goto
<1> QED
  BY <1>3, <1>4, <1>5 DEF IInv, RefsOK, ScoresOK, SubsOK, RestoreOK

\* A ticket whose verdict was recovered is retired.
LEMMA RetireKeeps == ASSUME IInv, NEW w \in Planners, RetireTicket(w) PROVE IInv'
<1> DEFINE h == plan[w].head
<1>1. \/ tickets' = tickets
      \/ tickets' = Take(h) /\ \E t \in Range(tickets) : t.head = h
  BY Zenon DEF RetireTicket
<1>2. Queue(tickets')
  <2>1. CASE tickets' = tickets
    BY <2>1 DEF IInv
  <2>2. CASE tickets' = Take(h) /\ \E t \in Range(tickets) : t.head = h
    <3>1. Positions(tickets, h) # {}
      BY <2>2, TicketAt DEF Positions, IInv, Queue
    <3> HIDE DEF h
    <3>2. Queue(Take(h))
      BY <3>1, IInvTypes, TakeKeeps, ZenonT(30)
    <3> QED
      BY <2>2, <3>2, ZenonT(30)
  <2> QED
    BY <1>1, <2>1, <2>2
<1>3. PlansOK'
  BY PlanEnds DEF RetireTicket, IInv
<1>4. UNCHANGED <<tip, mergeBase, score, trusted, proof, sub, restore>>
  BY Zenon DEF RetireTicket
<1> QED
  BY <1>2, <1>3, <1>4 DEF IInv, RefsOK, ScoresOK, SubsOK, RestoreOK

\* A start finds the heads whose proof is pending.
LEMMA RestoreKeeps ==
    ASSUME IInv, BeginRestore \/ \E h \in Heads : RestoreHead(h) PROVE IInv'
<1>1. CASE BeginRestore
  <2>1. RestoreOK' /\ UNCHANGED <<tickets, tip, mergeBase, score, trusted, proof, plan, sub>>
    BY <1>1 DEF BeginRestore, RestoreOK
  <2> QED
    BY <2>1, ZenonT(30) DEF IInv, RefsOK, ScoresOK, PlansOK, SubsOK
<1>2. ASSUME NEW h \in Heads, RestoreHead(h) PROVE IInv'
  <2>1. restore # None /\ h \in restore /\ restore' = restore \ {h}
    BY <1>2 DEF RestoreHead
  <2>2. ~IsQueue(h) /\ RestoreOK'
    BY <2>1 DEF IInv, RestoreOK
  <2>3. "restore" \in Planners
    BY DEF Planners
  <2>4. Reading(h) \in PlanState /\ PlanOK("restore", Reading(h))
    BY <2>2, <2>3, ReadingOK
  <2>5. plan' = plan \/ plan' = [plan EXCEPT !["restore"] = Reading(h)]
    BY <1>2 DEF RestoreHead, Goto
  <2>6. PlansOK'
    <3>1. CASE plan' = plan
      BY <3>1 DEF IInv, PlansOK
    <3>2. CASE plan' = [plan EXCEPT !["restore"] = Reading(h)]
      BY <2>3, <2>4, <3>2, PlanMoves, Zenon DEF IInv
    <3> QED
      BY <2>5, <3>1, <3>2
  <2>7. UNCHANGED <<tickets, tip, mergeBase, score, trusted, proof, sub>>
    BY <1>2, Zenon DEF RestoreHead
  <2> QED
    BY <2>2, <2>6, <2>7 DEF IInv, RefsOK, ScoresOK, SubsOK
<1> QED
  BY <1>1, <1>2

-----------------------------------------------------------------------------
(* Runners keep the invariant.                                             *)

\* The tickets after a claim of the positions M.
HeldBy(r, M) ==
    LET live == ExpireStaleClaims(tickets) IN
    [i \in DOMAIN live |-> IF i \in M THEN [live[i] EXCEPT !.by = r, !.stamp = Now] ELSE live[i]]

\* A claim writes the runner and the moment into the tickets it hands out.
LEMMA HeldKeeps ==
    ASSUME IInv, NEW r \in Runners, NEW M
    PROVE  /\ Queue(HeldBy(r, M)) /\ DOMAIN HeldBy(r, M) = DOMAIN tickets
           /\ \A i \in DOMAIN tickets :
                 i \notin M /\ ~tickets[i].late => HeldBy(r, M)[i] = tickets[i]
<1> DEFINE live == ExpireStaleClaims(tickets)
           Mine(t) == [t EXCEPT !.by = r, !.stamp = Now]
           held == HeldBy(r, M)
<1>1. Queue(tickets) /\ Now \in Nat
  BY IInvTypes, TicketsAreQueue, NowType
<1>2. /\ Queue(live) /\ DOMAIN live = DOMAIN tickets
      /\ \A i \in DOMAIN tickets : ~tickets[i].late => live[i] = tickets[i]
  BY <1>1, ExpireKeeps
<1>3. ASSUME NEW t \in Ticket PROVE Mine(t) \in Ticket /\ Mine(t).head = t.head
  BY <1>1, Zenon DEF Ticket
<1>4. held = [i \in DOMAIN live |-> IF i \in M THEN Mine(live[i]) ELSE live[i]]
  BY Zenon DEF HeldBy
<1> HIDE DEF live, Mine, held
<1>5. /\ live \in Seq(Ticket) /\ Distinct(live) /\ Len(live) <= Capacity
      /\ DOMAIN live = 1 .. Len(live) /\ Len(live) \in Nat
      /\ \A i \in DOMAIN live : live[i] \in Ticket
  BY <1>2, TicketAt DEF Queue
<1>6. /\ DOMAIN held = DOMAIN live
      /\ \A i \in DOMAIN live : held[i] \in Ticket /\ held[i].head = live[i].head
      /\ \A i \in DOMAIN live : i \notin M => held[i] = live[i]
  BY <1>3, <1>4, <1>5
<1>7. held \in Seq(Ticket) /\ Len(held) = Len(live)
  BY <1>4, <1>5, <1>6
<1>8. Distinct(held)
  BY <1>5, <1>6, Zenon DEF Distinct
<1>9. Queue(held)
  BY <1>5, <1>7, <1>8, Zenon DEF Queue
<1> QED
  BY <1>2, <1>6, <1>9, Zenon DEF held

\* The work on a ticket.
LEMMA JobOK ==
    ASSUME NEW r \in Runners, NEW t \in Ticket, NEW mode \in Modes
    PROVE  Job(t, mode) \in SubState /\ SubOK(r, Job(t, mode))
BY ZenonT(30) DEF Job, SubState, AuditJob, SubOK, Ticket

\* A runner claims tickets and starts to audit one of them.
LEMMA ClaimKeeps == ASSUME IInv, NEW r \in Runners, NEW n, Claim(r, n) PROVE IInv'
<1> DEFINE M == Claimed(Claimable(tickets), n)
           held == HeldBy(r, M)
<1>1. /\ tickets' = held
      /\ \E i \in M : \E mode \in Modes : sub' = [sub EXCEPT ![r] = Job(held[i], mode)]
  <2>1. \A t : AuditMode(t) \in Modes
    BY DEF AuditMode, Modes
  <2>2. "diff" \in Modes
    BY ZenonT(30) DEF Modes
  <2> QED
    BY <2>1, <2>2, ZenonT(30) DEF Claim, HeldBy, Claimable
<1>2. Queue(held) /\ DOMAIN held = DOMAIN tickets
  BY HeldKeeps
<1>3. M \subseteq DOMAIN tickets
  BY ExpireKeeps, Zenon DEF Claimed, Claimable, IInv
<1> HIDE DEF M, held
<1>4. PICK i \in M, mode \in Modes : sub' = [sub EXCEPT ![r] = Job(held[i], mode)]
  BY <1>1, Zenon
<1>5. held[i] \in Ticket
  BY <1>2, <1>3, TicketAt DEF Queue
<1>6. SubsOK'
  <2>1. Job(held[i], mode) \in SubState /\ SubOK(r, Job(held[i], mode))
    BY <1>5, JobOK
  <2> QED
    BY <1>4, <2>1, SubMoves, Zenon DEF IInv
<1>7. UNCHANGED <<tip, mergeBase, score, trusted, proof, plan, restore>>
  BY Zenon DEF Claim
<1> QED
  BY <1>1, <1>2, <1>6, <1>7 DEF IInv, RefsOK, ScoresOK, PlansOK, RestoreOK

\* A gate audits a ticket it read; a runner is lost; a lease runs out.
LEMMA RunnerKeeps ==
    ASSUME IInv, NEW r \in Runners, NEW i, StartGate(r, i) \/ LoseRunner(r) PROVE IInv'
<1>1. SubsOK'
  <2>1. CASE StartGate(r, i)
    <3>1. tickets[i] \in Ticket /\ "full" \in Modes
      BY <2>1, TicketAt DEF StartGate, IInv, Queue, Modes
    <3>2. Job(tickets[i], "full") \in SubState /\ SubOK(r, Job(tickets[i], "full"))
      BY <3>1, JobOK
    <3> QED
      BY <2>1, <3>2, SubMoves, Zenon DEF StartGate, IInv
  <2>2. CASE LoseRunner(r)
    BY <2>2, IdleOK, SubMoves, Zenon DEF LoseRunner, IInv
  <2> QED
    BY <2>1, <2>2
<1>2. UNCHANGED <<tickets, tip, mergeBase, score, trusted, proof, plan, restore>>
  BY Zenon DEF StartGate, LoseRunner
<1> QED
  BY <1>1, <1>2 DEF IInv, RefsOK, ScoresOK, PlansOK, RestoreOK

\* A lease that runs out changes nothing else of its ticket.
LEMMA LateTicket ==
    ASSUME IInv, NEW i, LeaseRunsOut(i)
    PROVE  /\ i \in DOMAIN tickets /\ tickets' = [tickets EXCEPT ![i] = [@ EXCEPT !.late = TRUE]]
           /\ [tickets[i] EXCEPT !.late = TRUE] \in Ticket
           /\ [tickets[i] EXCEPT !.late = TRUE].head = tickets[i].head
           /\ [tickets[i] EXCEPT !.late = TRUE].late = TRUE
<1>1. /\ i \in DOMAIN tickets
      /\ tickets' = [tickets EXCEPT ![i] = [@ EXCEPT !.late = TRUE]]
  BY DEF LeaseRunsOut
<1>2. tickets[i] \in Ticket
  BY <1>1, TicketAt, ZenonT(30) DEF IInv, Queue
<1> QED
  BY <1>1, <1>2, Zenon DEF Ticket

(* expire_stale_claims frees a ticket and changes nothing else of it. *)
LEMMA LeaseKeeps == ASSUME IInv, NEW i, LeaseRunsOut(i) PROVE IInv'
<1> DEFINE t == [tickets[i] EXCEPT !.late = TRUE]
<1>1. i \in DOMAIN tickets /\ t \in Ticket /\ t.head = tickets[i].head
  BY LateTicket
<1>2. tickets' = [tickets EXCEPT ![i] = t]
  BY LateTicket, Zenon
<1> HIDE DEF t
<1>3. Queue(tickets')
  BY <1>1, <1>2, RewriteKeeps, Zenon DEF IInv
<1>4. UNCHANGED <<tip, mergeBase, score, trusted, proof, plan, sub, restore>>
  BY Zenon DEF LeaseRunsOut
<1> QED
  BY <1>3, <1>4 DEF IInv, RefsOK, ScoresOK, PlansOK, SubsOK, RestoreOK

-----------------------------------------------------------------------------
(* Ingest keeps the invariant.                                             *)

\* A report is matched with a ticket.
LEMMA AuthorizeKeeps == ASSUME IInv, NEW r \in Runners, Authorize(r) PROVE IInv'
<1>1. sub[r] \in SubState /\ sub[r].step = "audit"
  BY ZenonT(30) DEF IInv, SubsOK, Authorize
<1>2. sub[r] \in AuditJob
  BY <1>1, SubShape
<1>3. SubsOK'
  <2>1. CASE Refuse(r)
    BY <2>1, RefuseKeeps DEF IInv
  <2>2. ASSUME NEW t \in Range(tickets), Matches(t, sub[r]),
               sub' = [sub EXCEPT ![r] = [step |-> "consume", ticket |-> t, job |-> sub[r]]]
        PROVE  SubsOK'
    <3> DEFINE s == [step |-> "consume", ticket |-> t, job |-> sub[r]]
    <3>1. t \in Ticket
      BY TicketAt, ZenonT(30) DEF IInv, Queue
    <3>2. s \in SubState
      BY <1>2, <3>1, ZenonT(30) DEF SubState
    <3>3. SubOK(r, s)
      BY <2>2 DEF SubOK
    <3> HIDE DEF s
    <3>4. sub' = [sub EXCEPT ![r] = s]
      BY <2>2 DEF s
    <3> QED
      BY <3>2, <3>3, <3>4, SubMoves, Zenon DEF IInv
  <2> QED
    BY <2>1, <2>2, Zenon DEF Authorize
<1>4. UNCHANGED <<tickets, tip, mergeBase, score, trusted, proof, plan, restore>>
  BY Zenon DEF Authorize
<1> QED
  BY <1>3, <1>4 DEF IInv, RefsOK, ScoresOK, PlansOK, RestoreOK

\* The ticket that is consumed is the one that was matched, whatever happened in between.
LEMMA TakenIsMatched ==
    ASSUME IInv, NEW t \in Ticket, Open(t)
    PROVE  /\ Positions(tickets, t.head) # {}
           /\ tickets[Min(Positions(tickets, t.head))].base = t.base
<1>1. PICK s \in Range(tickets) : s = [t EXCEPT !.late = s.late]
  BY DEF Open
<1>2. s.head = t.head /\ s.base = t.base
  BY <1>1 DEF Ticket
<1>3. PICK i \in DOMAIN tickets : s = tickets[i]
  BY <1>1, TicketAt DEF IInv, Queue
<1>4. Positions(tickets, t.head) # {}
  BY <1>2, <1>3, ZenonT(30) DEF Positions
<1> DEFINE m == Min(Positions(tickets, t.head))
<1>5. m \in DOMAIN tickets /\ tickets[m].head = t.head
  BY <1>4, IInvTypes, TakeKeeps
<1> HIDE DEF m
<1>6. m = i
  BY <1>2, <1>3, <1>5, Zenon DEF IInv, Queue, Distinct
<1> QED
  BY <1>2, <1>3, <1>4, <1>6 DEF m

\* A report consumes its ticket.
LEMMA ConsumeKeeps == ASSUME IInv, NEW r \in Runners, Consume(r) PROVE IInv'
<1> DEFINE t == sub[r].ticket
           job == sub[r].job
           taken == tickets[Min(Positions(tickets, t.head))]
<1>1. sub[r] \in SubState /\ SubOK(r, sub[r]) /\ sub[r].step = "consume"
  BY ZenonT(30) DEF IInv, SubsOK, Consume
<1>2. t \in Ticket /\ job \in AuditJob /\ Matches(t, job)
  BY <1>1, SubShape, ZenonT(30) DEF SubOK
<1>3. CASE Refuse(r) /\ tickets' = tickets
  BY <1>3, RefuseKeeps DEF IInv, RefsOK, ScoresOK, PlansOK, RestoreOK, Consume
<1>4. CASE ~IsAuthor(r, job) /\ Open(t)
  <2>1. /\ tickets' = Take(t.head)
        /\ sub' = [sub EXCEPT ![r] = [step |-> "record", head |-> t.head, base |-> taken.base,
                                      audited |-> job.base, mode |-> job.mode]]
        /\ UNCHANGED <<tip, mergeBase, score, trusted, proof, plan, restore>>
    BY <1>4, Zenon DEF Consume
  <2>2. Positions(tickets, t.head) # {} /\ taken.base = t.base
    BY <1>2, <1>4, TakenIsMatched, ZenonT(30)
  <2> HIDE DEF taken
  <2>3. Queue(tickets')
    BY <2>1, <2>2, IInvTypes, TakeKeeps, ZenonT(30)
  <2> DEFINE s == [step |-> "record", head |-> t.head, base |-> taken.base,
                   audited |-> job.base, mode |-> job.mode]
  <2>4. /\ t.head \in Heads /\ t.base \in Base /\ job.base \in Base /\ job.mode \in Modes
        /\ t.head = job.head /\ t.base = job.base /\ (t.base = NoBase => job.mode = "full")
    BY <1>2, ZenonT(30) DEF Ticket, AuditJob, Matches
  <2>5. r \notin Barred[job.head][job.base]
    BY <1>4, ZenonT(30) DEF IsAuthor
  <2> HIDE DEF t, job
  <2>6. s \in SubState
    BY <2>2, <2>4 DEF SubState
  <2>7. SubOK(r, s)
    BY <2>2, <2>4, <2>5, Zenon DEF SubOK
  <2>8. sub' = [sub EXCEPT ![r] = s]
    BY <2>1
  <2> HIDE DEF s
  <2>9. SubsOK'
    BY <2>6, <2>7, <2>8, SubMoves, Zenon DEF IInv
  <2> QED
    BY <2>1, <2>3, <2>9, Zenon DEF IInv, RefsOK, ScoresOK, PlansOK, RestoreOK
<1> QED
  BY <1>3, <1>4, Zenon DEF Consume

\* A row that is stored is honest.
LEMMA StoredKeeps ==
    ASSUME IInv, NEW h \in Heads, NEW row \in Row, Honest(h, row), Stored(h, row)
    PROVE  ScoresOK' /\ trusted' \in [Heads -> BOOLEAN]
<1>1. /\ score' = [score EXCEPT ![h] = row]
      /\ \E same \in BOOLEAN : trusted' = [trusted EXCEPT ![h] = trusted[h] /\ same]
  BY Zenon DEF Stored
<1>2. /\ score \in [Heads -> Row \cup {None}] /\ trusted \in [Heads -> BOOLEAN]
      /\ \A g \in Heads : score[g] # None => Honest(g, score[g])
  BY DEF IInv, ScoresOK, RefsOK
<1>3. /\ score' \in [Heads -> Row \cup {None}]
      /\ \A g \in Heads : score'[g] # None => Honest(g, score'[g])
  BY <1>1, <1>2, Zenon
<1>4. trusted' \in [Heads -> BOOLEAN]
  <2>1. PICK same \in BOOLEAN : trusted' = [trusted EXCEPT ![h] = trusted[h] /\ same]
    BY <1>1, ZenonT(30)
  <2>2. (trusted[h] /\ same) \in BOOLEAN
    OBVIOUS
  <2> QED
    BY <1>2, <2>1, <2>2, Zenon
<1> QED
  BY <1>3, <1>4 DEF ScoresOK

\* A report becomes the row of its head, or is lost.
LEMMA RecordKeeps ==
    ASSUME IInv, NEW r \in Runners, NEW v \in Verdicts, Record(r, v) PROVE IInv'
<1> DEFINE h == sub[r].head
           row == [base |-> sub[r].base, audited |-> sub[r].audited, mode |-> sub[r].mode,
                   by |-> r, verdict |-> v]
           s == [step |-> "post", head |-> h, row |-> row]
<1>1. sub[r] \in SubState /\ SubOK(r, sub[r]) /\ sub[r].step = "record"
  BY ZenonT(30) DEF IInv, SubsOK, Record
<1>2. /\ h \in Heads /\ sub[r].base \in Base /\ sub[r].audited \in Base /\ sub[r].mode \in Modes
      /\ sub[r].base = sub[r].audited /\ (sub[r].base = NoBase => sub[r].mode = "full")
      /\ r \notin Barred[h][sub[r].audited]
  BY <1>1, SubShape DEF SubOK
<1>3. row \in Row
  BY <1>2, Zenon DEF Row
<1>4. /\ row.by = r /\ row.base = sub[r].base /\ row.audited = sub[r].audited
      /\ row.mode = sub[r].mode
  OBVIOUS
<1>5. UNCHANGED <<tickets, tip, mergeBase, proof, plan, restore>>
  BY Zenon DEF Record
<1>6. \/ Stored(h, row) /\ sub' = [sub EXCEPT ![r] = s]
      \/ Refuse(r) /\ UNCHANGED <<score, trusted>>
  BY Zenon DEF Record
<1> HIDE DEF row
<1>7. Honest(h, row) /\ row.by # None
  BY <1>2, <1>4, Constants, ZenonT(30) DEF Honest
<1>8. s \in SubState /\ SubOK(r, s)
  BY <1>2, <1>3, <1>4, <1>7 DEF SubState, SubOK
<1> HIDE DEF h, s
<1>9. CASE Stored(h, row) /\ sub' = [sub EXCEPT ![r] = s]
  <2>1. ScoresOK' /\ trusted' \in [Heads -> BOOLEAN]
    BY <1>2, <1>3, <1>7, <1>9, StoredKeeps
  <2>2. SubsOK'
    BY <1>8, <1>9, SubMoves, Zenon DEF IInv
  <2> QED
    BY <1>5, <2>1, <2>2, ZenonT(30) DEF IInv, RefsOK, PlansOK, RestoreOK
<1>10. CASE Refuse(r) /\ UNCHANGED <<score, trusted>>
  <2>1. SubsOK'
    BY <1>10, RefuseKeeps, ZenonT(30) DEF IInv
  <2> QED
    BY <1>5, <1>10, <2>1 DEF IInv, RefsOK, ScoresOK, PlansOK, RestoreOK
<1> QED
  BY <1>6, <1>9, <1>10, ZenonT(30)

\* The completed check and the receipt of the merge queue.
LEMMA PostKeeps == ASSUME IInv, NEW r \in Runners, Post(r) PROVE IInv'
<1>1. sub[r] \in SubState /\ SubOK(r, sub[r]) /\ sub[r].step = "post"
  BY DEF IInv, SubsOK, Post
<1> DEFINE s == [sub[r] EXCEPT !.step = "receipt"]
<1>2. s \in SubState /\ s.step = "receipt" /\ s.head = sub[r].head /\ s.row = sub[r].row
  BY <1>1, SubShape DEF SubState
<1>3. sub' = [sub EXCEPT ![r] = Idle] \/ sub' = [sub EXCEPT ![r] = s]
  BY Zenon DEF Post
<1> HIDE DEF s
<1>4. SubOK(r, s)
  BY <1>1, <1>2 DEF SubOK
<1>5. SubsOK'
  BY <1>2, <1>3, <1>4, IdleOK, SubMoves DEF IInv
<1>6. Conclusion(sub[r].row) \in {"pass", "fail"}
  BY DEF Conclusion
<1>7. proof' \in [Heads -> {"absent", "pending", "pass", "fail"}]
  BY <1>6 DEF Post, IInv, RefsOK
<1>8. UNCHANGED <<tickets, tip, mergeBase, score, trusted, plan, restore>>
  BY Zenon DEF Post
<1> QED
  BY <1>5, <1>7, <1>8 DEF IInv, RefsOK, ScoresOK, PlansOK, RestoreOK

(* A receipt is left for the row that was recorded. *)
LEMMA ReceiptKeeps == ASSUME IInv, NEW r \in Runners, Receipt(r) PROVE IInv'
<1>1. SubsOK'
  BY RefuseKeeps DEF IInv, Receipt
<1>2. trusted' \in [Heads -> BOOLEAN]
  BY Zenon DEF Receipt, IInv, RefsOK
<1>3. UNCHANGED <<tickets, tip, mergeBase, score, proof, plan, restore>>
  BY Zenon DEF Receipt
<1> QED
  BY <1>1, <1>2, <1>3, ZenonT(30) DEF IInv, RefsOK, ScoresOK, PlansOK, RestoreOK

\* A backfilled row has no base and no runner.
LEMMA BackfillKeeps == ASSUME IInv, NEW h \in Heads, Backfill(h) PROVE IInv'
<1> DEFINE row == [base |-> None, audited |-> None, mode |-> "full", by |-> None, verdict |-> "pass"]
<1>1. row \in Row /\ row.by = None /\ row.base = None
  BY Constants DEF Row, Modes
<1>2. Stored(h, row) /\ UNCHANGED <<tickets, tip, mergeBase, proof, plan, sub, restore>>
  BY Zenon DEF Backfill
<1> HIDE DEF row
<1>3. Honest(h, row)
  BY <1>1, ZenonT(30) DEF Honest
<1>4. ScoresOK' /\ trusted' \in [Heads -> BOOLEAN]
  BY <1>1, <1>2, <1>3, StoredKeeps
<1> QED
  BY <1>2, <1>4, ZenonT(30) DEF IInv, RefsOK, PlansOK, SubsOK, RestoreOK

\* The queue is empty after a start.
LEMMA EmptyQueue == Queue(<<>>)
<1>1. <<>> \in Seq(Ticket) /\ Len(<<>>) = 0 /\ DOMAIN <<>> = {}
  OBVIOUS
<1>2. 0 <= Capacity
  BY Constants
<1> QED
  BY <1>1, <1>2 DEF Queue, Distinct

\* A restart forgets the requests and keeps the audits of the runners.
LEMMA CrashKeeps == ASSUME IInv, Crash PROVE IInv'
<1>1. Queue(tickets')
  BY EmptyQueue DEF Crash
<1>2. PlansOK'
  <2>1. plan' = [w \in Planners |-> Idle]
    BY DEF Crash
  <2> QED
    BY <2>1, IdleOK, Zenon DEF PlansOK
<1>3. SubsOK'
  <2>1. sub' = [r \in Runners |-> IF sub[r].step = "audit" THEN sub[r] ELSE Idle]
    BY DEF Crash
  <2>2. sub \in [Runners -> SubState] /\ \A r \in Runners : SubOK(r, sub[r])
    BY DEF IInv, SubsOK
  <2>3. \A r \in Runners : sub'[r] \in {sub[r], Idle}
    BY <2>1
  <2>4. \A r \in Runners : sub'[r] \in SubState /\ SubOK(r, sub'[r])
    BY <2>2, <2>3, IdleOK
  <2>5. sub' \in [Runners -> SubState]
    BY <2>1, <2>4
  <2> QED
    BY <2>4, <2>5, Zenon DEF SubsOK
<1>4. restore' = None /\ UNCHANGED <<tip, mergeBase, score, trusted, proof>>
  BY Zenon DEF Crash
<1> QED
  BY <1>1, <1>2, <1>3, <1>4, ZenonT(30) DEF IInv, RefsOK, ScoresOK, RestoreOK

-----------------------------------------------------------------------------
(* The invariant holds in every reachable state.                           *)

LEMMA InitEstablishes == Init => IInv
<1> SUFFICES ASSUME Init PROVE IInv
  OBVIOUS
<1>1. Queue(tickets)
  BY EmptyQueue, ZenonT(30) DEF Init
<1>2. RefsOK
  BY Constants DEF Init, RefsOK
<1>3. ScoresOK
  BY DEF Init, ScoresOK
<1>4. PlansOK /\ SubsOK
  BY IdleOK, Zenon DEF Init, PlansOK, SubsOK
<1>5. RestoreOK
  BY DEF Init, RestoreOK
<1> QED
  BY <1>1, <1>2, <1>3, <1>4, <1>5 DEF IInv

(* Every step keeps the inductive invariant. *)
LEMMA StepKeeps == IInv /\ [Next]_vars => IInv'
<1> SUFFICES ASSUME IInv, [Next]_vars PROVE IInv'
  OBVIOUS
<1>1. ASSUME NEW w \in Planners, NEW h \in Heads, Move(w, h) \/ Replan(w, h) PROVE IInv'
  BY <1>1, StartPlanKeeps
<1>2. ASSUME NEW h \in Heads, Narrow(h) \/ Backfill(h) PROVE IInv'
  BY <1>2, NarrowKeeps, BackfillKeeps
<1>3. ASSUME NEW w \in Planners, Plan(w) PROVE IInv'
  BY <1>3, DecideKeeps, EnqueueKeeps, PublishKeeps, RetireKeeps DEF Plan
<1>4. CASE Restoring
  BY <1>4, RestoreKeeps DEF Restoring
<1>5. ASSUME NEW r \in Runners, Claims(r) \/ LoseRunner(r) PROVE IInv'
  BY <1>5, ClaimKeeps, RunnerKeeps DEF Claims
<1>6. ASSUME NEW r \in Runners, Ingest(r) PROVE IInv'
  BY <1>6, AuthorizeKeeps, ConsumeKeeps, RecordKeeps, PostKeeps, ReceiptKeeps DEF Ingest
<1>7. ASSUME NEW r \in Runners, NEW i, StartGate(r, i) PROVE IInv'
  BY <1>7, RunnerKeeps
<1>8. ASSUME NEW i, LeaseRunsOut(i) PROVE IInv'
  BY <1>8, LeaseKeeps
<1>9. CASE Crash
  BY <1>9, CrashKeeps, ZenonT(30)
<1>10. CASE UNCHANGED vars
  BY <1>10 DEF vars, IInv, RefsOK, ScoresOK, PlansOK, SubsOK, RestoreOK
<1> QED
  BY <1>1, <1>2, <1>3, <1>4, <1>5, <1>6, <1>7, <1>8, <1>9, <1>10, Zenon DEF Next

(* The inductive invariant holds throughout. *)
LEMMA Invariance == Spec => []IInv
BY InitEstablishes, StepKeeps, PTL DEF Spec

\* The audit queue keeps its types: no head has two tickets and no queue outgrows
\* AUDIT_QUEUE_CAPACITY, for any number of heads, runners and planners.
THEOREM AuditsTypeCorrect == Spec => []TypeOK
<1>1. IInv => TypeOK
  BY IInvTypes
<1> QED
  BY <1>1, Invariance, PTL

\* Every governed row says what its runner audited: the base of the report, a full
\* report where there is no base, and no author among its auditors, although the
\* ticket is matched, the authors are read and the ticket is consumed in three steps.
THEOREM RowsAreAlwaysHonest == Spec => []RowsAreHonest
<1>1. IInv => RowsAreHonest
  BY Zenon DEF IInv, ScoresOK, Honest, RowsAreHonest
<1> QED
  BY <1>1, Invariance, PTL

-----------------------------------------------------------------------------
(* Proofs are earned.                                                      *)

\* Only three steps write a proof, and one of them only a pending one.
LEMMA ProofWriters ==
    ASSUME IInv, Next, NEW h \in Heads, proof'[h] = "pass", proof[h] # "pass"
    PROVE  (\E r \in Runners : Post(r)) \/ (\E w \in Planners : Republish(w))
<1>1. ASSUME NEW w \in Planners, NEW g \in Heads, Move(w, g) \/ Replan(w, g) PROVE FALSE
  BY <1>1, Zenon DEF Move, Replan
<1>2. ASSUME NEW g \in Heads, Narrow(g) \/ Backfill(g) \/ RestoreHead(g) PROVE FALSE
  BY <1>2, Zenon DEF Narrow, Backfill, RestoreHead
<1>3. ASSUME NEW w \in Planners, Decide(w) \/ Enqueue(w) \/ RetireTicket(w) PROVE FALSE
  BY <1>3, Zenon DEF Decide, Enqueue, RetireTicket
<1>4. ASSUME NEW w \in Planners, PublishPending(w) PROVE FALSE
  <2>1. proof' = proof \/ proof' = [proof EXCEPT ![plan[w].head] = "pending"]
    BY <1>4, Zenon DEF PublishPending
  <2>2. proof \in [Heads -> {"absent", "pending", "pass", "fail"}]
    BY DEF IInv, RefsOK
  <2> QED
    BY <2>1, <2>2
<1>5. ASSUME NEW r \in Runners, NEW n, Claim(r, n) \/ LoseRunner(r) \/ StartGate(r, n) PROVE FALSE
  BY <1>5, Zenon DEF Claim, LoseRunner, StartGate
<1>6. ASSUME NEW r \in Runners, NEW v, Authorize(r) \/ Consume(r) \/ Record(r, v) \/ Receipt(r)
      PROVE  FALSE
  BY <1>6, Zenon DEF Authorize, Consume, Record, Receipt
<1>7. ASSUME NEW i, LeaseRunsOut(i) \/ BeginRestore \/ Crash PROVE FALSE
  BY <1>7, Zenon DEF LeaseRunsOut, BeginRestore, Crash
<1> QED
  BY <1>1, <1>2, <1>3, <1>4, <1>5, <1>6, <1>7, ZenonT(60) DEF Next, Plan, Ingest, Restoring, Claims

\* A verdict that is posted or recovered is that of a governed report.
LEMMA EarnedStep ==
    ASSUME IInv, Next, NEW h \in Heads, proof'[h] = "pass", proof[h] # "pass"
    PROVE  IsEarned(h)
<1>0. proof \in [Heads -> {"absent", "pending", "pass", "fail"}]
  BY DEF IInv, RefsOK
<1>1. ASSUME NEW r \in Runners, Post(r) PROVE EarnedBy(h, sub[r])
  <2>1. sub[r] \in SubState /\ SubOK(r, sub[r]) /\ sub[r].step = "post"
    BY <1>1 DEF IInv, SubsOK, Post
  <2>2. proof' = proof \/ proof' = [proof EXCEPT ![sub[r].head] = Conclusion(sub[r].row)]
    BY <1>1, Zenon DEF Post
  <2>3. sub[r].head = h /\ Conclusion(sub[r].row) = "pass"
    BY <1>0, <2>2, ZenonT(30)
  <2>4. sub[r].row.verdict = "pass"
    BY <2>3, ZenonT(30) DEF Conclusion
  <2>5. sub[r].row.by = r /\ r # None /\ Honest(sub[r].head, sub[r].row)
    BY <2>1, Constants, ZenonT(30) DEF SubOK
  <2> QED
    BY <2>1, <2>3, <2>4, <2>5, Zenon DEF EarnedBy, Honest
<1>2. ASSUME NEW w \in Planners, Republish(w)
      PROVE  EarnedBy(h, plan[w]) /\ plan[w].row.base = plan[w].base
  <2>1. plan[w] \in PlanState /\ PlanOK(w, plan[w]) /\ plan[w].step = "republish"
    BY <1>2 DEF IInv, PlansOK, Republish
  <2>2. proof' = proof \/ proof' = [proof EXCEPT ![plan[w].head] = Conclusion(plan[w].row)]
    BY <1>2, Zenon DEF Republish
  <2>3. plan[w].head = h /\ Conclusion(plan[w].row) = "pass"
    BY <1>0, <2>2, ZenonT(30)
  <2>4. plan[w].row.verdict = "pass"
    BY <2>3, ZenonT(30) DEF Conclusion
  <2>5. /\ plan[w].row # None /\ plan[w].row.base = plan[w].base
        /\ Honest(plan[w].head, plan[w].row)
    BY <2>1 DEF PlanOK
  <2>6. plan[w].base \in Base
    BY <2>1, PlanShape, ZenonT(30)
  <2>7. plan[w].row.by # None /\ plan[w].row.base = plan[w].row.audited
    BY <2>5, <2>6, Constants DEF Honest
  <2> QED
    BY <2>1, <2>3, <2>4, <2>5, <2>7 DEF EarnedBy
<1> QED
  BY <1>1, <1>2, ProofWriters, Zenon DEF IsEarned

\* A proof turns green only by a governed report of its head that passed, posted by
\* its ingest or recovered from its row against the base the tick asked for.
THEOREM ProofIsAlwaysEarned == Spec => ProofIsEarned
<1>1. IInv /\ [Next]_vars =>
         [\A h \in Heads : proof'[h] = "pass" /\ proof[h] # "pass" => IsEarned(h)]_vars
  BY EarnedStep, Zenon
<1> QED
  BY <1>1, Invariance, PTL DEF Spec, ProofIsEarned

-----------------------------------------------------------------------------
(* Running audits keep their tickets.                                      *)

\* A ticket that is still there stays.
LEMMA StaysAsItIs ==
    ASSUME NEW t \in Ticket, t \in Range(tickets') PROVE StaysOrIsAnswered(t)
<1>1. t = [t EXCEPT !.late = t.late]
  BY DEF Ticket
<1> QED
  BY <1>1, Zenon DEF StaysOrIsAnswered

\* Another audit is asked for.
LEMMA RunningEnqueue ==
    ASSUME IInv, NEW w \in Planners, Enqueue(w), NEW t \in Range(tickets), IsRunning(t)
    PROVE  StaysOrIsAnswered(t)
<1> DEFINE h == plan[w].head
           b == plan[w].base
<1>1. plan[w] \in PlanState /\ plan[w].step = "enqueue" /\ t \in Ticket
  BY TicketAt DEF IInv, PlansOK, Enqueue, Queue
<1>2. h \in Heads /\ b \in Base /\ tickets' = Enqueued(h, b).tickets
  BY <1>1, PlanShape, Zenon DEF Enqueue
<1> HIDE DEF h, b
<1>3. \/ t \in Range(tickets')
      \/ /\ IsQueue(h) /\ t.head = h /\ b # t.base
         /\ \E s \in Range(tickets') : s.head = h /\ s.base = b
  <2>1. \/ t \in Range(Enqueued(h, b).tickets)
        \/ /\ IsQueue(h) /\ t.head = h /\ b # t.base
           /\ \E s \in Range(Enqueued(h, b).tickets) : s.head = h /\ s.base = b
    BY <1>2, IInvTypes, EnqueuedKeeps
  <2>2. Range(tickets') = Range(Enqueued(h, b).tickets)
    BY <1>2, ZenonT(30)
  <2> QED
    BY <2>1, <2>2, Zenon
<1>4. CASE t \in Range(tickets')
  BY <1>1, <1>4, StaysAsItIs
<1>5. CASE /\ IsQueue(h) /\ t.head = h /\ b # t.base
           /\ \E s \in Range(tickets') : s.head = h /\ s.base = b
  BY <1>5, Zenon DEF StaysOrIsAnswered
<1> QED
  BY <1>3, <1>4, <1>5, ZenonT(30)

\* A recovered verdict retires its own ticket only, and only a tick recovers one.
LEMMA RunningRetire ==
    ASSUME IInv, NEW w \in Planners, RetireTicket(w), NEW t \in Range(tickets), IsRunning(t)
    PROVE  StaysOrIsAnswered(t)
<1> DEFINE h == plan[w].head
<1>1. /\ tickets \in Seq(Ticket) /\ t \in Ticket /\ plan[w].step = "retire"
      /\ PlanOK(w, plan[w])
  BY TicketAt, ZenonT(30) DEF IInv, PlansOK, RetireTicket, Queue
<1>2. w = "tick"
  BY <1>1, ZenonT(30) DEF PlanOK
<1>3. CASE tickets' = tickets
  BY <1>1, <1>3, StaysAsItIs, ZenonT(30)
<1>4. CASE tickets' # tickets
  <2>1. PICK s \in Range(tickets) : s.head = h /\ s.base = plan[w].row.base /\ tickets' = Take(h)
    BY <1>4, Zenon DEF RetireTicket
  <2>2. PICK j \in DOMAIN tickets : s = tickets[j]
    BY <1>1, TicketAt
  <2>3. Positions(tickets, h) # {}
    BY <2>1, <2>2, Zenon DEF Positions
  <2>4. CASE t.head = h
    <3>1. PICK i \in DOMAIN tickets : t = tickets[i]
      BY <1>1, TicketAt
    <3>2. i = j
      BY <2>1, <2>2, <2>4, <3>1, Zenon DEF IInv, Queue, Distinct
    <3>3. t.base = plan[w].row.base
      BY <2>1, <2>2, <3>1, <3>2, Zenon
    <3> QED
      BY <1>1, <1>2, <2>4, <3>3, ZenonT(30) DEF StaysOrIsAnswered
  <2>5. CASE t.head # h
    <3> HIDE DEF h
    <3>1. t \in Range(Take(h))
      BY <2>3, <2>5, IInvTypes, TakeKeeps
    <3> QED
      BY <1>1, <2>1, <3>1, StaysAsItIs, ZenonT(30)
  <2> QED
    BY <2>4, <2>5
<1> QED
  BY <1>3, <1>4, ZenonT(30)

\* A claim takes waiting tickets.
LEMMA RunningClaim ==
    ASSUME IInv, NEW r \in Runners, NEW n, Claim(r, n), NEW t \in Range(tickets), IsRunning(t)
    PROVE  StaysOrIsAnswered(t)
<1> DEFINE live == ExpireStaleClaims(tickets)
           M == Claimed(live, n)
           held == HeldBy(r, M)
<1>1. tickets' = held
  BY Zenon DEF Claim, HeldBy, Claimable
<1>2. tickets \in Seq(Ticket) /\ t \in Ticket
  BY TicketAt DEF IInv, Queue
<1>3. PICK i \in DOMAIN tickets : t = tickets[i]
  BY <1>2, TicketAt
<1>4. ~IsWaiting(tickets[i]) /\ ~tickets[i].late
  BY <1>3, ZenonT(30) DEF IsRunning
<1>5. live[i] = tickets[i]
  BY <1>3, <1>4, ExpireKeeps DEF IInv
<1>6. i \notin M
  BY <1>4, <1>5, Zenon DEF Claimed
<1> HIDE DEF live, M, held
<1>7. Queue(held) /\ DOMAIN held = DOMAIN tickets /\ held[i] = tickets[i]
  BY <1>3, <1>4, <1>6, HeldKeeps DEF held
<1>8. held[i] \in Range(held)
  BY <1>3, <1>7, Zenon DEF Range
<1>9. t \in Range(tickets')
  BY <1>1, <1>3, <1>7, <1>8
<1> QED
  BY <1>2, <1>9, StaysAsItIs

\* A lease that runs out makes its ticket late.
LEMMA RunningLease ==
    ASSUME IInv, NEW i, LeaseRunsOut(i), NEW t \in Range(tickets), IsRunning(t)
    PROVE  StaysOrIsAnswered(t)
<1> DEFINE u == [tickets[i] EXCEPT !.late = TRUE]
<1>1. i \in DOMAIN tickets /\ u \in Ticket /\ u.head = tickets[i].head /\ u.late = TRUE
  BY LateTicket
<1>2. tickets' = [tickets EXCEPT ![i] = u]
  BY LateTicket, Zenon
<1>3. tickets \in Seq(Ticket) /\ t \in Ticket
  BY TicketAt DEF IInv, Queue
<1>4. PICK j \in DOMAIN tickets : t = tickets[j]
  BY <1>3, TicketAt
<1>5. /\ u \in Range([tickets EXCEPT ![i] = u])
      /\ \A k \in DOMAIN tickets : k # i => tickets[k] \in Range([tickets EXCEPT ![i] = u])
  BY <1>1, RewriteKeeps, Zenon DEF IInv
<1>6. CASE j = i
  <2>1. u = [t EXCEPT !.late = u.late]
    BY <1>1, <1>4, <1>6
  <2> HIDE DEF u
  <2> QED
    BY <1>2, <1>5, <2>1, Zenon DEF StaysOrIsAnswered
<1>7. CASE j # i
  <2> HIDE DEF u
  <2>1. t \in Range(tickets')
    BY <1>2, <1>4, <1>5, <1>7, Zenon
  <2> QED
    BY <1>3, <2>1, StaysAsItIs
<1> QED
  BY <1>6, <1>7

\* A report takes the ticket of its head.
LEMMA RunningConsume ==
    ASSUME IInv, NEW r \in Runners, Consume(r), NEW t \in Range(tickets), IsRunning(t)
    PROVE  StaysOrIsAnswered(t)
<1> DEFINE u == sub[r].ticket
<1>1. tickets \in Seq(Ticket) /\ t \in Ticket
  BY TicketAt, ZenonT(30) DEF IInv, Queue
<1>2. sub[r] \in SubState /\ sub[r].step = "consume" /\ sub \in [Runners -> SubState]
  BY ZenonT(30) DEF IInv, SubsOK, Consume
<1>3. u \in Ticket
  BY <1>2, SubShape
<1>4. CASE tickets' = tickets
  BY <1>1, <1>4, StaysAsItIs, ZenonT(30)
<1>5. CASE ~IsAuthor(r, sub[r].job) /\ Open(u)
  <2>1. /\ tickets' = Take(u.head)
        /\ \E s : sub' = [sub EXCEPT ![r] = s] /\ s.step = "record" /\ s.head = u.head
    <3> DEFINE s == [step |-> "record", head |-> u.head,
                     base |-> tickets[Min(Positions(tickets, u.head))].base,
                     audited |-> sub[r].job.base, mode |-> sub[r].job.mode]
    <3>1. tickets' = Take(u.head) /\ sub' = [sub EXCEPT ![r] = s]
      BY <1>5, Zenon DEF Consume
    <3>2. s.step = "record" /\ s.head = u.head
      BY Zenon
    <3> QED
      BY <3>1, <3>2, Zenon
  <2>2. Positions(tickets, u.head) # {}
    BY <1>3, <1>5, TakenIsMatched
  <2>3. CASE t.head = u.head
    <3>1. sub'[r].step = "record" /\ sub'[r].head = t.head
      BY <1>2, <2>1, <2>3
    <3> QED
      BY <1>2, <3>1, Zenon DEF StaysOrIsAnswered
  <2>4. CASE t.head # u.head
    <3> HIDE DEF u
    <3>1. t \in Range(Take(u.head))
      BY <2>2, <2>4, IInvTypes, TakeKeeps
    <3> QED
      BY <1>1, <2>1, <3>1, StaysAsItIs, ZenonT(30)
  <2> QED
    BY <2>3, <2>4
<1> QED
  BY <1>4, <1>5, Zenon DEF Consume

\* No other step touches the tickets, a restart aside.
LEMMA RunningStep ==
    ASSUME IInv, Next, NEW t \in Range(tickets), IsRunning(t) PROVE StaysOrIsAnswered(t)
<1>0. t \in Ticket
  BY TicketAt DEF IInv, Queue
<1>1. CASE tickets' = tickets
  BY <1>0, <1>1, StaysAsItIs
<1>2. ASSUME NEW w \in Planners, NEW h \in Heads, Move(w, h) \/ Replan(w, h) PROVE tickets' = tickets
  BY <1>2, Zenon DEF Move, Replan
<1>3. ASSUME NEW h \in Heads, Narrow(h) \/ Backfill(h) PROVE tickets' = tickets
  BY <1>3, Zenon DEF Narrow, Backfill
<1>4. ASSUME NEW w \in Planners, Plan(w) PROVE StaysOrIsAnswered(t)
  <2>1. ASSUME Decide(w) \/ PublishPending(w) \/ Republish(w) PROVE tickets' = tickets
    BY <2>1, Zenon DEF Decide, PublishPending, Republish
  <2> QED
    BY <1>1, <1>4, <2>1, RunningEnqueue, RunningRetire, Zenon DEF Plan
<1>5. ASSUME Restoring PROVE tickets' = tickets
  BY <1>5, Zenon DEF Restoring, BeginRestore, RestoreHead
<1>6. ASSUME NEW r \in Runners, Claims(r) \/ LoseRunner(r) \/ Ingest(r) PROVE StaysOrIsAnswered(t)
  <2>1. ASSUME NEW v, LoseRunner(r) \/ Authorize(r) \/ Record(r, v) \/ Post(r) \/ Receipt(r)
        PROVE  tickets' = tickets
    BY <2>1, Zenon DEF LoseRunner, Authorize, Record, Post, Receipt
  <2> QED
    BY <1>1, <1>6, <2>1, RunningClaim, RunningConsume, Zenon DEF Claims, Ingest
<1>7. ASSUME NEW r \in Runners, NEW i, StartGate(r, i) PROVE tickets' = tickets
  BY <1>7, Zenon DEF StartGate
<1>8. CASE Crash
  BY <1>8, Zenon DEF Crash, StaysOrIsAnswered
<1> QED
  BY <1>1, <1>2, <1>3, <1>4, <1>5, <1>6, <1>7, <1>8, RunningLease, ZenonT(30) DEF Next

\* A ticket whose claim is inside its lease is neither evicted, superseded nor handed
\* to a second runner, however many heads and runners share the queue.
THEOREM RunningAuditAlwaysKeepsItsTicket == Spec => RunningAuditKeepsItsTicket
<1>1. IInv /\ [Next]_vars =>
         [\A t \in Range(tickets) : IsRunning(t) => StaysOrIsAnswered(t)]_vars
  BY RunningStep, Zenon
<1> QED
  BY <1>1, Invariance, PTL DEF Spec, RunningAuditKeepsItsTicket
=============================================================================
