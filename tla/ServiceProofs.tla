---------------------------- MODULE ServiceProofs ----------------------------
(***************************************************************************)
(* Proofs about the services beside the merge queue: release actions, the  *)
(* attached terminal, the GitHub mirror with its pull requests, and the    *)
(* shift queue.  They share no state; each has its own specification and   *)
(* invariant.                                                              *)
(***************************************************************************)
EXTENDS ReleaseActions, AgentTerminal, PullImport, ShiftQueue, TLAPS

(* Of the actions that move a todo, only release opens it. *)
LEMMA OnlyReleaseOpens ==
    \A a \in DOMAIN Moves \ {"release"} : Moves[a] \in Statuses \ {"open"}
BY DEF Moves, Statuses

(* A built commit. *)
CommitOf(n, t) == [old |-> n, tree |-> t]

(* What it records. *)
LEMMA BuiltFields == \A n, t : CommitOf(n, t).old = n /\ CommitOf(n, t).tree = t
BY DEF CommitOf

-----------------------------------------------------------------------------
(***************************************************************************)
(* The attached terminal.  A session is in order when a gap before the     *)
(* next event it can deliver has been announced: in the replay, the gap to *)
(* the oldest event of the snapshot; afterwards, the one to the receiver.  *)
(***************************************************************************)
InOrder(s, last) ==
    /\ s \in Sessions
    /\ s.rx <= last
    /\ s.stage = "replaying" =>
          /\ s.cursor <= s.until /\ s.rx <= s.until
          /\ s.cursor + TTY_RING_CAP < s.until => s.told
    /\ s.stage \in {"live", "typing", "draining"} => (s.rx > s.cursor => s.told)

LeaseTyped(l) == l.epoch \in Nat /\ l = [holder |-> l.holder, epoch |-> l.epoch]

TerminalInv ==
    /\ published \in Nat
    /\ LeaseTyped(lease)
    /\ session \in [Viewers -> Sessions]
    /\ \A v \in Viewers : InOrder(session[v], published)

GapIsTold(v) ==
    (Following(v) /\ Following(v)' /\ session'[v].cursor # session[v].cursor) =>
        \/ session'[v].cursor = session[v].cursor + 1
        \/ session'[v].cursor > session[v].cursor /\ session[v].told

(* What a step may make of session v. *)
MayBecome(v, s) ==
    /\ InOrder(s, published)
    /\ s.stage # "closed" /\ Following(v) /\ s.cursor # session[v].cursor =>
          \/ s.cursor = session[v].cursor + 1
          \/ s.cursor > session[v].cursor /\ session[v].told

(* A session becomes what it may become, and the others stay as they are. *)
LEMMA OneSession ==
    ASSUME TerminalInv, NEW v \in Viewers, NEW s, MayBecome(v, s),
           session' = [session EXCEPT ![v] = s], published' = published, LeaseTyped(lease')
    PROVE  TerminalInv' /\ \A u \in Viewers : GapIsTold(u)
<1>1. s \in Sessions
  BY DEF MayBecome, InOrder
<1>2. session'[v] = s /\ \A u \in Viewers : u # v => session'[u] = session[u]
  BY ZenonT(30) DEF TerminalInv
<1>3. TerminalInv'
  BY <1>1, <1>2, ZenonT(30) DEF TerminalInv, MayBecome
<1>4. \A u \in Viewers : GapIsTold(u)
  BY <1>2, ZenonT(30) DEF GapIsTold, Following, Stage, MayBecome
<1> QED
  BY <1>3, <1>4, ZenonT(30)

(* A session that keeps its events may change its stage and its epoch. *)
LEMMA KeepsItsEvents ==
    ASSUME TerminalInv, NEW v \in Viewers, NEW s \in Sessions,
           s.cursor = session[v].cursor, s.rx = session[v].rx,
           s.until = session[v].until, s.told = session[v].told,
           \/ s.stage \in {"new", "counted", "steering", "closed", Stage(v)}
           \/ s.stage \in {"live", "typing", "draining"} /\ Stage(v) \in {"live", "typing", "draining"}
    PROVE  MayBecome(v, s)
BY DEF TerminalInv, InOrder, MayBecome, Stage

(* A closed session has no events. *)
LEMMA MayClose ==
    ASSUME TerminalInv, NEW v \in Viewers
    PROVE  MayBecome(v, Session("closed"))
BY DEF TerminalInv, InOrder, MayBecome, Session, Sessions, Stages

(* The receiver's next event comes after the client's last one, or is one   *)
(* that it has; a receiver that is past it was said to be.                  *)
LEMMA MayReceive ==
    ASSUME TerminalInv, NEW v \in Viewers, Stage(v) \in {"live", "draining"}, Pending(v)
    PROVE  MayBecome(v, Received(session[v]))
<1> DEFINE s == session[v]
           e == s.rx + 1
<1>1. /\ s \in Sessions /\ InOrder(s, published) /\ published \in Nat
      /\ s.rx \in Nat /\ s.cursor \in Nat /\ s.rx < published
      /\ s.stage \in {"live", "draining"}
  BY ZenonT(30) DEF TerminalInv, Pending, Sessions, Stage
<1> HIDE DEF s
<1>2. CASE e > s.cursor
  <2> DEFINE one == [s EXCEPT !.rx = e]
             two == [one EXCEPT !.cursor = e]
             put == [two EXCEPT !.told = FALSE]
  <2>1. one \in Sessions /\ one.rx = e /\ one.stage = s.stage
    BY <1>1 DEF Sessions
  <2> HIDE DEF one
  <2>2. two \in Sessions /\ two.rx = e /\ two.cursor = e /\ two.stage = s.stage
    BY <1>1, <2>1 DEF Sessions
  <2> HIDE DEF two
  <2>3. put \in Sessions /\ put.rx = e /\ put.cursor = e /\ put.stage = s.stage
    BY <2>2, ZenonT(30) DEF Sessions
  <2>4. Received(s) = put
    BY <1>2, ZenonT(30) DEF Received, one, two
  <2> HIDE DEF put
  <2>5. s.cursor = s.rx \/ s.told
    BY <1>1, <1>2 DEF InOrder
  <2>6. InOrder(put, published)
    BY <1>1, <2>3 DEF InOrder
  <2>7. e = s.cursor + 1 \/ (e > s.cursor /\ s.told)
    BY <1>1, <1>2, <2>5
  <2>8. MayBecome(v, put)
    BY <2>3, <2>6, <2>7, Zenon DEF MayBecome, s
  <2> QED
    BY <2>4, <2>8 DEF s
<1>3. CASE ~(e > s.cursor)
  <2> DEFINE put == [s EXCEPT !.rx = e]
  <2>1. Received(s) = put
    BY <1>3 DEF Received
  <2>2. put \in Sessions /\ put.rx = e /\ put.cursor = s.cursor /\ put.stage = s.stage
    BY <1>1 DEF Sessions
  <2> HIDE DEF put
  <2>3. put.rx <= published /\ ~(put.rx > put.cursor)
    BY <1>1, <1>3, <2>2
  <2>4. InOrder(put, published)
    BY <1>1, <2>2, <2>3 DEF InOrder
  <2>5. MayBecome(v, put)
    BY <2>2, <2>4, Zenon DEF MayBecome, s
  <2> QED
    BY <2>1, <2>5 DEF s
<1> QED
  BY <1>2, <1>3, Zenon DEF s

(* The replay's next event too. *)
LEMMA MayReplay ==
    ASSUME TerminalInv, NEW v \in Viewers, Stage(v) = "replaying",
           session[v].cursor < session[v].until
    PROVE  MayBecome(v, [session[v] EXCEPT !.cursor = ReplayNext(v), !.told = FALSE])
<1> DEFINE s == session[v]
           one == [s EXCEPT !.cursor = ReplayNext(v)]
           put == [one EXCEPT !.told = FALSE]
<1>1. /\ s \in Sessions /\ s.cursor \in Nat /\ s.until \in Nat /\ s.rx \in Nat
      /\ InOrder(s, published) /\ s.stage = "replaying" /\ published \in Nat
      /\ TTY_RING_CAP \in Nat \ {0}
  BY TerminalConstants DEF TerminalInv, Sessions, Stage
<1>2. /\ ReplayNext(v) \in Nat /\ ReplayNext(v) <= s.until
      /\ ReplayNext(v) + TTY_RING_CAP >= s.until
      /\ ReplayNext(v) = s.cursor + 1 \/ (ReplayNext(v) > s.cursor /\ s.told)
  <2>1. s.cursor + TTY_RING_CAP < s.until => s.told
    BY <1>1, Zenon DEF InOrder
  <2>2. s.cursor < s.until
    BY Zenon
  <2>3. ReplayNext(v) = IF s.cursor + TTY_RING_CAP < s.until
                        THEN s.until - TTY_RING_CAP + 1 ELSE s.cursor + 1
    BY DEF ReplayNext
  <2> HIDE DEF s
  <2> QED
    BY <1>1, <2>1, <2>2, <2>3
<1> HIDE DEF s
<1>3. one \in Sessions /\ one.cursor = ReplayNext(v) /\ one.rx = s.rx /\ one.until = s.until
      /\ one.stage = s.stage
  BY <1>1, <1>2 DEF Sessions
<1> HIDE DEF one
<1>4. put \in Sessions /\ put.cursor = ReplayNext(v) /\ put.rx = s.rx /\ put.until = s.until
      /\ put.stage = s.stage
  BY <1>3, ZenonT(30) DEF Sessions
<1>5. put = [session[v] EXCEPT !.cursor = ReplayNext(v), !.told = FALSE]
  BY DEF one, s
<1> HIDE DEF put
<1>6. InOrder(put, published)
  BY <1>1, <1>2, <1>4 DEF InOrder
<1>7. MayBecome(v, put)
  BY <1>2, <1>4, <1>6, Zenon DEF MayBecome, s
<1> QED
  BY <1>5, <1>7, ZenonT(30)

(* The replay is cut with the receiver, so nothing lies between them. *)
LEMMA MayStart ==
    ASSUME TerminalInv, NEW v \in Viewers, NEW after \in Cursors,
           Stage(v) \in {"counted", "steering"}
    PROVE  MayBecome(v, [session[v] EXCEPT !.stage = "replaying", !.cursor = after,
                            !.rx = published,
                            !.until = IF after < published THEN published ELSE after,
                            !.told = Lagged(after)])
<1> DEFINE s == session[v]
           until == IF after < published THEN published ELSE after
           one == [s EXCEPT !.stage = "replaying"]
           two == [one EXCEPT !.cursor = after]
           three == [two EXCEPT !.rx = published]
           four == [three EXCEPT !.until = until]
           put == [four EXCEPT !.told = Lagged(after)]
<1>1. /\ s \in Sessions /\ after \in Nat /\ published \in Nat /\ until \in Nat
      /\ TTY_RING_CAP \in Nat \ {0} /\ Lagged(after) \in BOOLEAN
  BY TerminalConstants DEF TerminalInv, Lagged
<1>2. after <= until /\ published <= until
  BY <1>1
<1>3. after + TTY_RING_CAP < until => Lagged(after)
  BY <1>1 DEF Lagged, OldestRetained
<1> HIDE DEF s, until
<1>4. one \in Sessions /\ one.stage = "replaying"
  BY <1>1 DEF Sessions, Stages
<1> HIDE DEF one
<1>5. two \in Sessions /\ two.stage = "replaying" /\ two.cursor = after
  BY <1>1, <1>4 DEF Sessions
<1> HIDE DEF two
<1>6. three \in Sessions /\ three.stage = "replaying" /\ three.cursor = after
      /\ three.rx = published
  BY <1>1, <1>5 DEF Sessions
<1> HIDE DEF three
<1>7. four \in Sessions /\ four.stage = "replaying" /\ four.cursor = after
      /\ four.rx = published /\ four.until = until
  BY <1>1, <1>6 DEF Sessions
<1> HIDE DEF four
<1>8. put \in Sessions /\ put.stage = "replaying" /\ put.cursor = after
      /\ put.rx = published /\ put.until = until /\ put.told = Lagged(after)
  BY <1>1, <1>7 DEF Sessions
<1>9. put = [session[v] EXCEPT !.stage = "replaying", !.cursor = after, !.rx = published,
                !.until = IF after < published THEN published ELSE after,
                !.told = Lagged(after)]
  BY DEF one, two, three, four, s, until
<1> HIDE DEF put
<1>10. MayBecome(v, put)
  BY <1>1, <1>2, <1>3, <1>8 DEF MayBecome, InOrder, Following, Stage
<1> QED
  BY <1>9, <1>10, ZenonT(30)

(* A run nobody watches satisfies the invariant. *)
LEMMA TerminalStart == TerminalInit => TerminalInv
BY DEF TerminalInit, TerminalInv, LeaseTyped, InOrder, Session, Sessions, Stages

(* Every step of the run, of a session and of its client. *)
LEMMA TerminalStep ==
    TerminalInv /\ [TerminalNext]_terminalVars => TerminalInv' /\ \A u \in Viewers : GapIsTold(u)
<1> SUFFICES ASSUME TerminalInv, [TerminalNext]_terminalVars
             PROVE  TerminalInv' /\ \A u \in Viewers : GapIsTold(u)
  OBVIOUS
<1>0. LeaseTyped(lease) /\ published \in Nat /\ session \in [Viewers -> Sessions]
  BY ZenonT(30) DEF TerminalInv
<1>1. CASE Publish
  <2>1. TerminalInv'
    BY <1>1 DEF Publish, TerminalInv, InOrder, Sessions
  <2> QED
    BY <1>1, <2>1 DEF Publish, GapIsTold
<1>2. CASE Complete \/ UNCHANGED terminalVars
  <2>1. UNCHANGED <<published, lease, session>>
    BY <1>2 DEF Complete, terminalVars
  <2> QED
    BY <2>1, ZenonT(30) DEF TerminalInv, GapIsTold
<1>3. ASSUME NEW v \in Viewers, NEW st \in Stages,
             session' = [session EXCEPT ![v].stage = st], published' = published,
             LeaseTyped(lease'),
             \/ st \in {"counted", "steering", Stage(v)}
             \/ st \in {"live", "typing", "draining"} /\ Stage(v) \in {"live", "typing", "draining"}
      PROVE  TerminalInv' /\ \A u \in Viewers : GapIsTold(u)
  <2> DEFINE s == [session[v] EXCEPT !.stage = st]
  <2>1. /\ s \in Sessions /\ s.stage = st /\ s.cursor = session[v].cursor
        /\ s.rx = session[v].rx /\ s.until = session[v].until /\ s.told = session[v].told
    BY <1>0 DEF Sessions
  <2>2. session' = [session EXCEPT ![v] = s]
    BY <1>3
  <2> HIDE DEF s
  <2>3. MayBecome(v, s)
    BY <1>3, <2>1, KeepsItsEvents
  <2> QED
    BY <1>3, <2>2, <2>3, OneSession, Zenon
<1>4. ASSUME NEW v \in Viewers, NEW st \in Stages, NEW e \in Nat,
             session' = [session EXCEPT ![v].stage = st, ![v].epoch = e], published' = published,
             LeaseTyped(lease'), st \in {"steering", Stage(v)}
      PROVE  TerminalInv' /\ \A u \in Viewers : GapIsTold(u)
  <2> DEFINE one == [session[v] EXCEPT !.stage = st]
             s == [one EXCEPT !.epoch = e]
  <2>1. /\ one \in Sessions /\ one.stage = st /\ one.cursor = session[v].cursor
        /\ one.rx = session[v].rx /\ one.until = session[v].until /\ one.told = session[v].told
    BY <1>0 DEF Sessions
  <2>2. session' = [session EXCEPT ![v] = s]
    <3>1. session' = [[session EXCEPT ![v] = one] EXCEPT ![v] = [[session EXCEPT ![v] = one][v] EXCEPT !.epoch = e]]
      BY <1>4
    <3>2. [session EXCEPT ![v] = one][v] = one
      BY <1>0
    <3> HIDE DEF one
    <3> QED
      BY <1>0, <3>1, <3>2, Zenon
  <2> HIDE DEF one
  <2>3. /\ s \in Sessions /\ s.stage = st /\ s.cursor = session[v].cursor
        /\ s.rx = session[v].rx /\ s.until = session[v].until /\ s.told = session[v].told
    BY <2>1 DEF Sessions
  <2> HIDE DEF s
  <2>4. MayBecome(v, s)
    BY <1>4, <2>3, KeepsItsEvents
  <2> QED
    BY <1>4, <2>2, <2>4, OneSession, Zenon
<1>5. ASSUME NEW v \in Viewers, session' = [session EXCEPT ![v].epoch = 0],
             published' = published, LeaseTyped(lease')
      PROVE  TerminalInv' /\ \A u \in Viewers : GapIsTold(u)
  <2> DEFINE s == [session[v] EXCEPT !.epoch = 0]
  <2>1. /\ s \in Sessions /\ s.stage = Stage(v) /\ s.cursor = session[v].cursor
        /\ s.rx = session[v].rx /\ s.until = session[v].until /\ s.told = session[v].told
    BY <1>0 DEF Sessions, Stage
  <2>2. session' = [session EXCEPT ![v] = s]
    BY <1>5
  <2> HIDE DEF s
  <2>3. MayBecome(v, s)
    BY <1>5, <2>1, KeepsItsEvents
  <2> QED
    BY <1>5, <2>2, <2>3, OneSession, ZenonT(30)
<1>6. ASSUME NEW v \in Viewers, session' = [session EXCEPT ![v] = Session("closed")],
             published' = published, LeaseTyped(lease')
      PROVE  TerminalInv' /\ \A u \in Viewers : GapIsTold(u)
  BY <1>6, MayClose, OneSession, Zenon
<1>7. \A v \in Viewers : LeaseTyped(LeaseWithout(v))
  BY <1>0, ZenonT(30) DEF LeaseTyped, LeaseWithout
<1>8. ASSUME NEW v \in Viewers, ClientStep(v)
      PROVE  TerminalInv' /\ \A u \in Viewers : GapIsTold(u)
  <2>1. CASE AttachViewer(v)
    BY <1>0, <1>3, <1>6, <2>1 DEF AttachViewer, Stages
  <2>2. CASE TakeControlFrame(v)
    <3>1. lease.epoch + 1 \in Nat /\ LeaseTyped(lease')
      BY <1>0, <2>2 DEF TakeControlFrame, TakeControl, LeaseTyped
    <3> QED
      BY <1>4, <2>2, <3>1, Zenon DEF TakeControlFrame, TakeControl, Stages
  <2>3. CASE ReleaseControl(v)
    BY <1>5, <1>7, <2>3, Zenon DEF ReleaseControl
  <2>4. CASE InputCheck(v)
    BY <1>0, <1>3, <2>4, Zenon DEF InputCheck, Stages
  <2>5. CASE Disconnect(v)
    BY <1>6, <1>7, <2>5, Zenon DEF Disconnect, EndSession
  <2> QED
    BY <1>8, <2>1, <2>2, <2>3, <2>4, <2>5 DEF ClientStep
<1>9. ASSUME NEW v \in Viewers, SessionStep(v)
      PROVE  TerminalInv' /\ \A u \in Viewers : GapIsTold(u)
  <2>1. CASE AttachWithControl(v)
    <3>1. lease.epoch + 1 \in Nat /\ LeaseTyped(lease')
      BY <1>0, <2>1 DEF AttachWithControl, TakeControl, LeaseTyped
    <3> QED
      BY <1>4, <2>1, <3>1, Zenon DEF AttachWithControl, TakeControl, Stages
  <2>2. ASSUME NEW after \in Cursors, StreamStart(v, after)
        PROVE  TerminalInv' /\ \A u \in Viewers : GapIsTold(u)
    BY <1>0, <2>2, MayStart, OneSession, ZenonT(30) DEF StreamStart
  <2>3. CASE ReplayEvent(v)
    <3>1. session' = [session EXCEPT ![v] =
                         [session[v] EXCEPT !.cursor = ReplayNext(v), !.told = FALSE]]
      BY <1>0, <2>3, Zenon DEF ReplayEvent
    <3> QED
      BY <1>0, <2>3, <3>1, MayReplay, OneSession, Zenon DEF ReplayEvent
  <2>4. CASE ReplayDone(v)
    <3> DEFINE s == [session[v] EXCEPT !.stage = "live"]
    <3>1. /\ s \in Sessions /\ s.stage = "live" /\ s.cursor = session[v].cursor
          /\ s.rx = session[v].rx /\ s.cursor \in Nat /\ s.rx \in Nat
      BY <1>0 DEF Sessions, Stages
    <3>2. session' = [session EXCEPT ![v] = s]
      BY <2>4 DEF ReplayDone
    <3> HIDE DEF s
    <3>3. MayBecome(v, s)
      BY <2>4, <3>1 DEF ReplayDone, TerminalInv, InOrder, MayBecome, Stage
    <3> QED
      BY <1>0, <2>4, <3>2, <3>3, OneSession, Zenon DEF ReplayDone
  <2>5. CASE LiveEvent(v) \/ DrainEvent(v)
    BY <1>0, <2>5, MayReceive, OneSession DEF LiveEvent, DrainEvent
  <2>6. CASE LiveLagged(v)
    <3> DEFINE n == published - TTY_BROADCAST_CAP
               one == [session[v] EXCEPT !.rx = n]
               s == [one EXCEPT !.told = TRUE]
    <3>1. n \in Nat /\ n <= published
      BY <1>0, <2>6, TerminalConstants DEF LiveLagged, Overflown, Sessions
    <3>2. one \in Sessions /\ one.rx = n /\ one.cursor = session[v].cursor /\ one.stage = Stage(v)
      BY <1>0, <3>1 DEF Sessions, Stage
    <3> HIDE DEF one
    <3>3. /\ s \in Sessions /\ s.rx = n /\ s.cursor = session[v].cursor /\ s.stage = Stage(v)
          /\ s.told = TRUE
      BY <3>2, Zenon DEF Sessions
    <3>4. session' = [session EXCEPT ![v] = s]
      BY <2>6, ZenonT(30) DEF LiveLagged, Skipped, one
    <3> HIDE DEF s
    <3>5. MayBecome(v, s)
      BY <1>0, <2>6, <3>1, <3>3 DEF LiveLagged, MayBecome, InOrder
    <3> QED
      BY <1>0, <2>6, <3>4, <3>5, OneSession, Zenon DEF LiveLagged
  <2>7. CASE TickLease(v)
    BY <1>0, <1>5, <2>7, Zenon DEF TickLease
  <2>8. CASE TickEnded(v) \/ InputSend(v)
    BY <1>0, <1>3, <2>8 DEF TickEnded, InputSend, Stages
  <2>9. CASE DrainDone(v)
    BY <1>6, <1>7, <2>9, Zenon DEF DrainDone, EndSession
  <2> QED
    BY <1>9, <2>1, <2>2, <2>3, <2>4, <2>5, <2>6, <2>7, <2>8, <2>9 DEF SessionStep
<1> QED
  BY <1>1, <1>2, <1>8, <1>9 DEF TerminalNext

(* An attached client misses no event without being told, for rings and     *)
(* channels of any size and any number of clients (tty_stream_start, pump). *)
THEOREM NeverASilentGap == TerminalSpec => NoSilentGap
<1>1. TerminalInv /\ [TerminalNext]_terminalVars =>
        [\A v \in Viewers :
            (Following(v) /\ Following(v)' /\ session'[v].cursor # session[v].cursor) =>
                \/ session'[v].cursor = session[v].cursor + 1
                \/ session'[v].cursor > session[v].cursor /\ session[v].told]_terminalVars
  BY TerminalStep, Zenon DEF GapIsTold
<1>2. TerminalInv /\ [TerminalNext]_terminalVars => TerminalInv'
  BY TerminalStep
<1> QED
  BY <1>1, <1>2, TerminalStart, PTL DEF TerminalSpec, NoSilentGap

(* Whoever checked before, input reaches the agent only from the session    *)
(* that holds control when it is delivered: send_control_by checks again    *)
(* under the lock, so no take-over between the two checks is lost.          *)
THEOREM InputIsAlwaysTheControllers == TerminalSpec => InputIsTheControllers
<1>1. [TerminalNext]_terminalVars =>
        [driven' # driven =>
            \E v \in Viewers :
                lease.holder = v /\ lease.epoch = driven' /\ Stage(v) = "typing"]_terminalVars
  <2> SUFFICES ASSUME TerminalNext, driven' # driven
               PROVE  \E v \in Viewers :
                         lease.holder = v /\ lease.epoch = driven' /\ Stage(v) = "typing"
    OBVIOUS
  <2>1. ASSUME NEW v \in Viewers, SessionStep(v) \/ ClientStep(v) PROVE InputSend(v)
    BY <2>1, Zenon DEF SessionStep, ClientStep, AttachWithControl, TakeControlFrame, TakeControl,
                StreamStart, ReplayEvent, ReplayDone, LiveEvent, LiveLagged, TickLease, TickEnded,
                DrainEvent, DrainDone, EndSession, AttachViewer, ReleaseControl, InputCheck, Disconnect
  <2>2. PICK v \in Viewers : InputSend(v)
    BY <2>1 DEF TerminalNext, Publish, Complete
  <2> QED
    BY <2>2 DEF InputSend, MayDrive, HoldsControl
<1> QED
  BY <1>1, PTL DEF TerminalSpec, InputIsTheControllers

-----------------------------------------------------------------------------
(***************************************************************************)
(* Release actions.  The inductive invariant is stated of any store a, so  *)
(* that it can be used of what Expire leaves: at most one ask for a step   *)
(* is open; numbers are given once, so a host's number still means the     *)
(* step it read; and what a host has begun was claimed, never cancelled.   *)
(***************************************************************************)
OneOpenAskPerStep(a) ==
    \A i, j \in AskIds : i # j /\ Open(a[i]) /\ Open(a[j]) => a[i].step # a[j].step

HostsKnowTheirStep(a) ==
    \A h \in ReleaseHosts :
        host[h] # NotBusy /\ a[host[h].id] # NoAsk => a[host[h].id].step = host[h].step

NumbersAreFresh(a) == \A i \in AskIds : i > next => a[i] = NoAsk /\ i \notin started

BegunIsClaimed(a) ==
    \A i \in started :
        a[i] # NoAsk => a[i].by # NoAsk /\ a[i].state \notin {"pending", "cancelled"}

StoreOK(a) ==
    /\ a \in [AskIds -> Asks \cup {NoAsk}]
    /\ OneOpenAskPerStep(a) /\ HostsKnowTheirStep(a) /\ NumbersAreFresh(a) /\ BegunIsClaimed(a)

HostsNameAsks == \A h \in ReleaseHosts : host[h] # NotBusy => host[h].id <= next

ReleaseInv == ReleaseTypeOK /\ HostsNameAsks /\ StoreOK(actions)

(* What expire does to one ask. *)
LEMMA ExpireOne ==
    ASSUME actions \in [AskIds -> Asks \cup {NoAsk}], NEW i \in AskIds
    PROVE  /\ Expire[i] \in Asks \cup {NoAsk}
           /\ Expire[i] = NoAsk <=> actions[i] = NoAsk
           /\ Expire[i] # NoAsk => /\ Expire[i].step = actions[i].step
                                   /\ Expire[i].by = actions[i].by
           /\ \/ Expire[i] = actions[i]
              \/ Expire[i].state = "expired" /\ Open(actions[i])
<1>1. CASE Open(actions[i]) /\ Overdue(actions[i])
  <2>1. actions[i] \in Asks
    BY <1>1 DEF Open
  <2>2. Expire[i] = [actions[i] EXCEPT !.state = "expired"]
    BY <1>1 DEF Expire
  <2>3. /\ Expire[i] \in Asks /\ Expire[i].step = actions[i].step
        /\ Expire[i].by = actions[i].by /\ Expire[i].state = "expired"
    BY <2>1, <2>2 DEF Asks, AskStates
  <2> QED
    BY <1>1, <2>1, <2>3, AskConstants
<1>2. CASE ~(Open(actions[i]) /\ Overdue(actions[i]))
  BY <1>2 DEF Expire
<1> QED
  BY <1>1, <1>2, ZenonT(30)

(* expire keeps the store in order. *)
LEMMA ExpireKeeps ==
    ASSUME StoreOK(actions), HostsNameAsks, ReleaseTypeOK
    PROVE  StoreOK(Expire)
<1> USE DEF StoreOK
<1>1. Expire \in [AskIds -> Asks \cup {NoAsk}]
  BY ExpireOne DEF Expire
<1>2. OneOpenAskPerStep(Expire)
  <2>1. \A i \in AskIds : Open(Expire[i]) => Expire[i] = actions[i]
    BY ExpireOne DEF Open
  <2> QED
    BY <2>1, ZenonT(30) DEF OneOpenAskPerStep
<1>3. HostsKnowTheirStep(Expire)
  <2>1. \A h \in ReleaseHosts : host[h] # NotBusy => host[h].id \in AskIds
    BY DEF ReleaseTypeOK, HostStates
  <2> QED
    BY <2>1, ExpireOne, Zenon DEF HostsKnowTheirStep
<1>4. NumbersAreFresh(Expire)
  BY ExpireOne, ZenonT(30) DEF NumbersAreFresh
<1>5. BegunIsClaimed(Expire)
  <2>1. started \subseteq AskIds
    BY ZenonT(30) DEF ReleaseTypeOK
  <2> QED
    BY <2>1, ExpireOne DEF BegunIsClaimed
<1> QED
  BY <1>1, <1>2, <1>3, <1>4, <1>5

(* So does an ask that ends. *)
LEMMA EndKeeps ==
    ASSUME NEW a, StoreOK(a), ReleaseTypeOK, NEW i \in AskIds, a[i] # NoAsk,
           NEW st \in {"succeeded", "failed", "cancelled"}, st = "cancelled" => i \notin started
    PROVE  StoreOK([a EXCEPT ![i].state = st])
<1> DEFINE new == [a EXCEPT ![i].state = st]
           put == [a[i] EXCEPT !.state = st]
<1> USE DEF StoreOK
<1>1. /\ put \in Asks /\ put.step = a[i].step /\ put.by = a[i].by /\ put.state = st
      /\ a[i] \in Asks
  BY DEF Asks, AskStates
<1>2. new = [a EXCEPT ![i] = put]
  OBVIOUS
<1>3. put # NoAsk /\ ~Open(put)
  BY <1>1, AskConstants DEF Open
<1> HIDE DEF put
<1>4. new \in [AskIds -> Asks \cup {NoAsk}]
  BY <1>1, <1>2
<1>5. new[i] = put /\ \A j \in AskIds : j # i => new[j] = a[j]
  BY <1>2
<1> SUFFICES StoreOK(new)
  OBVIOUS
<1> HIDE DEF new
<1>6. OneOpenAskPerStep(new)
  BY <1>3, <1>5 DEF OneOpenAskPerStep
<1>7. HostsKnowTheirStep(new)
  <2>1. \A h \in ReleaseHosts : host[h] # NotBusy => host[h].id \in AskIds
    BY DEF ReleaseTypeOK, HostStates
  <2> QED
    BY <1>1, <1>5, <2>1, Zenon DEF HostsKnowTheirStep
<1>8. NumbersAreFresh(new)
  BY <1>5, ZenonT(30) DEF NumbersAreFresh
<1>9. BegunIsClaimed(new)
  <2>1. started \subseteq AskIds
    BY ZenonT(30) DEF ReleaseTypeOK
  <2> QED
    BY <1>1, <1>3, <1>5, <2>1 DEF BegunIsClaimed
<1> QED
  BY <1>4, <1>6, <1>7, <1>8, <1>9

(* A new ask is the only open one for its step, under a new number. *)
LEMMA RecordKeeps ==
    ASSUME NEW a, StoreOK(a), ReleaseTypeOK, HostsNameAsks, NEW s \in Steps, next < MaxAsks,
           ~SameStepOpen(a, s), actions' = Recorded(a, s), next' = next + 1,
           UNCHANGED <<pollers, host, started>>
    PROVE  ReleaseInv'
<1> DEFINE put == [step |-> s, state |-> "pending", by |-> NoAsk, age |-> 0]
<1> USE DEF StoreOK
<1>0. next \in Nat /\ next + 1 \in AskIds
  BY ReleaseConstants DEF ReleaseTypeOK, AskIds
<1>1. put \in Asks /\ put.step = s
  BY ReleaseConstants DEF Asks, AskStates
<1>2. /\ actions' \in [AskIds -> Asks \cup {NoAsk}]
      /\ actions'[next + 1] = put
      /\ \A j \in AskIds : j # next + 1 => actions'[j] \in {a[j], NoAsk}
  BY <1>0, <1>1, ZenonT(30) DEF Recorded
<1> HIDE DEF put
<1>3. OneOpenAskPerStep(actions')
  <2>1. \A j \in AskIds : j # next + 1 /\ Open(actions'[j]) => Open(a[j]) /\ actions'[j] = a[j]
    BY <1>2 DEF Open
  <2>2. \A j \in AskIds : Open(a[j]) => a[j].step # s
    BY DEF SameStepOpen
  <2> QED
    BY <1>1, <1>2, <2>1, <2>2 DEF OneOpenAskPerStep
<1>4. \A h \in ReleaseHosts : host[h] # NotBusy => host[h].id \in AskIds /\ host[h].id <= next
  BY ZenonT(30) DEF ReleaseTypeOK, HostStates, HostsNameAsks
<1>5. HostsKnowTheirStep(actions)'
  BY <1>0, <1>2, <1>4 DEF HostsKnowTheirStep, AskIds
<1>6. NumbersAreFresh(actions)'
  BY <1>0, <1>2 DEF NumbersAreFresh, AskIds
<1>7. BegunIsClaimed(actions)'
  <2>1. \A i \in started : i \in AskIds /\ i # next + 1
    BY <1>0 DEF ReleaseTypeOK, NumbersAreFresh, AskIds
  <2> QED
    BY <1>2, <2>1, Zenon DEF BegunIsClaimed
<1>8. HostsNameAsks'
  BY <1>0, <1>4 DEF HostsNameAsks, AskIds
<1>9. ReleaseTypeOK'
  BY <1>0, <1>2 DEF ReleaseTypeOK, AskIds
<1> QED
  BY <1>2, <1>3, <1>5, <1>6, <1>7, <1>8, <1>9 DEF ReleaseInv, OneOpenAskPerStep

(* A claim gives a pending ask to one host. *)
LEMMA TakeKeeps ==
    ASSUME ReleaseInv, NEW h \in ReleaseHosts, TakeAsk(h)
    PROVE  ReleaseInv'
<1> DEFINE a == Expire
           i == host[h].id
           put == [a[i] EXCEPT !.state = "claimed", !.by = h, !.age = 0]
<1> USE DEF ReleaseInv
<1>1. StoreOK(a)
  BY ExpireKeeps
<1>2. /\ i \in AskIds /\ i <= next /\ host[h] \in HostStates /\ host[h] # NotBusy
  BY DEF TakeAsk, ReleaseTypeOK, HostStates, HostsNameAsks
<1> HIDE DEF a
<1>3. CASE Takeable(a[i])
  <2>1. /\ actions' = [a EXCEPT ![i] = put]
        /\ host' = [host EXCEPT ![h].stage = "running"]
        /\ started' = started \cup {i}
        /\ UNCHANGED <<next, pollers>>
    BY <1>3 DEF TakeAsk, a
  <2>2. a[i] \in Asks /\ a[i].state = "pending"
    BY <1>1, <1>2, <1>3, Zenon DEF StoreOK, Takeable
  <2>3. put \in Asks /\ put.step = a[i].step /\ put.by = h /\ put.state = "claimed"
    <3> DEFINE one == [a[i] EXCEPT !.state = "claimed"]
               two == [one EXCEPT !.by = h]
    <3>1. one \in Asks /\ one.step = a[i].step /\ one.state = "claimed"
      BY <2>2 DEF Asks, AskStates
    <3> HIDE DEF one
    <3>2. two \in Asks /\ two.step = one.step /\ two.state = one.state /\ two.by = h
      BY <3>1 DEF Asks
    <3> HIDE DEF two
    <3>3. /\ [two EXCEPT !.age = 0] \in Asks
          /\ [two EXCEPT !.age = 0].step = two.step
          /\ [two EXCEPT !.age = 0].state = two.state
          /\ [two EXCEPT !.age = 0].by = two.by
      BY <3>2, ReleaseConstants DEF Asks
    <3> QED
      BY <3>1, <3>2, <3>3 DEF one, two
  <2> HIDE DEF put
  <2>4. /\ actions' \in [AskIds -> Asks \cup {NoAsk}] /\ actions'[i] = put
        /\ \A j \in AskIds : j # i => actions'[j] = a[j]
    BY <1>1, <1>2, <2>1, <2>3 DEF StoreOK
  <2>5. /\ host' \in [ReleaseHosts -> HostStates \cup {NotBusy}]
        /\ host'[h].id = i /\ host'[h].step = host[h].step
        /\ \A k \in ReleaseHosts : k # h => host'[k] = host[k]
    BY <1>2, <2>1 DEF ReleaseTypeOK, HostStates
  <2>6. ReleaseTypeOK' /\ HostsNameAsks'
    BY <1>2, <2>1, <2>4, <2>5, ZenonT(30) DEF ReleaseTypeOK, HostsNameAsks
  <2>7. OneOpenAskPerStep(actions)'
    <3>1. Open(a[i])
      BY <2>2, AskConstants, Zenon DEF Open
    <3> QED
      BY <1>1, <1>2, <2>3, <2>4, <3>1 DEF StoreOK, OneOpenAskPerStep
  <2>8. HostsKnowTheirStep(actions)'
    <3>1. a[i].step = host[h].step
      BY <1>1, <1>2, <2>2, AskConstants, Zenon DEF StoreOK, HostsKnowTheirStep
    <3>2. \A k \in ReleaseHosts : host[k] # NotBusy => host[k].id \in AskIds
      BY ZenonT(30) DEF ReleaseTypeOK, HostStates
    <3>3. a[i] # NoAsk
      BY <2>2, AskConstants
    <3> SUFFICES ASSUME NEW k \in ReleaseHosts, host'[k] # NotBusy, actions'[host'[k].id] # NoAsk
                 PROVE  actions'[host'[k].id].step = host'[k].step
      BY Zenon DEF HostsKnowTheirStep
    <3>4. CASE k = h
      BY <2>3, <2>4, <2>5, <3>1, <3>4, Zenon
    <3>5. CASE k # h
      <4>1. host'[k] = host[k]
        BY <2>5, <3>5, Zenon
      <4>2. CASE host[k].id = i
        <5>1. a[i].step = host[k].step
          BY <1>1, <3>3, <4>1, <4>2, Zenon DEF StoreOK, HostsKnowTheirStep
        <5> QED
          BY <2>3, <2>4, <4>1, <4>2, <5>1, Zenon
      <4>3. CASE host[k].id # i
        <5>1. actions'[host[k].id] = a[host[k].id]
          BY <2>4, <3>2, <4>1, <4>3, Zenon
        <5> QED
          BY <1>1, <4>1, <5>1, Zenon DEF StoreOK, HostsKnowTheirStep
      <4> QED
        BY <4>2, <4>3, Zenon
    <3> QED
      BY <3>4, <3>5, Zenon
  <2>9. NumbersAreFresh(actions)'
    BY <1>1, <1>2, <2>1, <2>4 DEF StoreOK, NumbersAreFresh, ReleaseTypeOK, AskIds
  <2>10. BegunIsClaimed(actions)'
    <3>1. h # NoAsk
      BY ReleaseConstants
    <3> QED
      BY <1>1, <1>2, <2>1, <2>3, <2>4, <3>1 DEF StoreOK, BegunIsClaimed, ReleaseTypeOK
  <2> QED
    BY <2>4, <2>6, <2>7, <2>8, <2>9, <2>10, Zenon DEF StoreOK
<1>4. CASE ~Takeable(a[i])
  <2>1. /\ actions' = a /\ host' = [host EXCEPT ![h] = NotBusy]
        /\ UNCHANGED <<next, pollers, started>>
    BY <1>4, ZenonT(30) DEF TakeAsk, a
  <2>2. ReleaseTypeOK' /\ HostsNameAsks'
    BY <1>1, <2>1 DEF ReleaseTypeOK, HostsNameAsks, StoreOK
  <2>3. HostsKnowTheirStep(actions)'
    BY <1>1, <2>1, ZenonT(30) DEF StoreOK, HostsKnowTheirStep, ReleaseTypeOK
  <2> QED
    BY <1>1, <2>1, <2>2, <2>3, Zenon
       DEF StoreOK, OneOpenAskPerStep, NumbersAreFresh, BegunIsClaimed
<1> QED
  BY <1>3, <1>4, Zenon

(* The store may change as one of the lemmas above says, and hosts may go   *)
(* on with the number and the step they have, or stop.                      *)
LEMMA StoreAndHosts ==
    ASSUME ReleaseTypeOK, HostsNameAsks, StoreOK(actions'),
           host' \in [ReleaseHosts -> HostStates \cup {NotBusy}],
           \A k \in ReleaseHosts : host'[k] # NotBusy =>
               host[k] # NotBusy /\ host'[k].id = host[k].id /\ host'[k].step = host[k].step,
           next' = next, started' = started, pollers' \subseteq ReleaseHosts
    PROVE  ReleaseInv'
<1>1. actions' \in [AskIds -> Asks \cup {NoAsk}]
  BY ZenonT(30) DEF StoreOK
<1>2. ReleaseTypeOK' /\ HostsNameAsks'
  BY <1>1 DEF ReleaseTypeOK, HostsNameAsks
<1>3. HostsKnowTheirStep(actions)'
  BY Zenon DEF StoreOK, HostsKnowTheirStep
<1> QED
  BY <1>1, <1>2, <1>3, Zenon
     DEF ReleaseInv, StoreOK, OneOpenAskPerStep, NumbersAreFresh, BegunIsClaimed

(* An empty ledger satisfies the invariant. *)
LEMMA ReleaseStart == ReleaseInit => ReleaseInv
BY ReleaseConstants
   DEF ReleaseInit, ReleaseInv, ReleaseTypeOK, HostsNameAsks, StoreOK, OneOpenAskPerStep,
       HostsKnowTheirStep, NumbersAreFresh, BegunIsClaimed, Open

(* Every operation of the store, and every step of a host. *)
LEMMA ReleaseStep == ReleaseInv /\ [ReleaseNext]_releaseVars => ReleaseInv'
<1> SUFFICES ASSUME ReleaseInv, [ReleaseNext]_releaseVars PROVE ReleaseInv'
  BY Zenon
<1> USE DEF ReleaseInv
<1>0. StoreOK(Expire) /\ host \in [ReleaseHosts -> HostStates \cup {NotBusy}]
      /\ pollers \subseteq ReleaseHosts
  BY ExpireKeeps, ZenonT(30) DEF ReleaseTypeOK
<1>1. ASSUME NEW s \in Steps, Request(s)
      PROVE  ReleaseInv'
  <2>1. CASE actions' = Expire /\ UNCHANGED <<next, pollers, host, started>>
    BY <1>0, <2>1, StoreAndHosts, ZenonT(30)
  <2>2. CASE /\ ~SameStepOpen(Expire, s) /\ actions' = Recorded(Expire, s) /\ next' = next + 1
             /\ UNCHANGED <<pollers, host, started>>
    BY <1>0, <1>1, <2>2, RecordKeeps DEF Request
  <2> QED
    BY <1>1, <2>1, <2>2 DEF Request
<1>2. ASSUME NEW i \in AskIds, Cancel(i)
      PROVE  ReleaseInv'
  <2>1. CASE Cancellable(Expire[i])
    <3>1. i \notin started
      BY <1>0, <2>1, ZenonT(30) DEF StoreOK, BegunIsClaimed, Cancellable
    <3>2. Expire[i] # NoAsk
      BY <2>1, Zenon DEF Cancellable
    <3>3. StoreOK([Expire EXCEPT ![i].state = "cancelled"])
      BY <1>0, <3>1, <3>2, EndKeeps, Zenon
    <3>4. StoreOK(actions')
      BY <1>2, <2>1, <3>3 DEF Cancel
    <3> QED
      BY <1>0, <1>2, <3>4, StoreAndHosts DEF Cancel
  <2>2. CASE ~Cancellable(Expire[i])
    BY <1>0, <1>2, <2>2, StoreAndHosts, ZenonT(30) DEF Cancel
  <2> QED
    BY <2>1, <2>2
<1>3. ASSUME NEW h \in ReleaseHosts, CheckIn(h)
      PROVE  ReleaseInv'
  BY <1>0, <1>3, StoreAndHosts DEF CheckIn
<1>4. ASSUME NEW h \in ReleaseHosts, List(h)
      PROVE  ReleaseInv'
  <2>1. PICK i \in AskIds :
            /\ Expire[i] # NoAsk
            /\ host' = [host EXCEPT ![h] = [stage |-> "seen", id |-> i, step |-> Expire[i].step]]
    BY <1>4, ZenonT(30) DEF List
  <2>2. actions' = Expire /\ UNCHANGED <<next, pollers, started>>
    BY <1>4, ZenonT(30) DEF List
  <2>3. i <= next /\ Expire[i].step \in Steps
    BY <1>0, <2>1 DEF StoreOK, NumbersAreFresh, Asks, AskIds, ReleaseTypeOK
  <2>4. host'[h] = [stage |-> "seen", id |-> i, step |-> Expire[i].step]
        /\ host' \in [ReleaseHosts -> HostStates \cup {NotBusy}]
        /\ \A k \in ReleaseHosts : k # h => host'[k] = host[k]
    BY <1>0, <2>1, <2>3, ZenonT(30) DEF HostStates
  <2>5. ReleaseTypeOK' /\ HostsNameAsks'
    BY <1>0, <2>2, <2>3, <2>4 DEF ReleaseTypeOK, StoreOK, HostsNameAsks
  <2>6. HostsKnowTheirStep(actions)'
    BY <1>0, <2>2, <2>4 DEF StoreOK, HostsKnowTheirStep
  <2> QED
    BY <1>0, <2>2, <2>5, <2>6, Zenon
       DEF StoreOK, OneOpenAskPerStep, NumbersAreFresh, BegunIsClaimed
<1>5. ASSUME NEW h \in ReleaseHosts, ClaimCheck(h)
      PROVE  ReleaseInv'
  <2>1. /\ host' \in [ReleaseHosts -> HostStates \cup {NotBusy}]
        /\ \A k \in ReleaseHosts : host'[k] # NotBusy =>
              host[k] # NotBusy /\ host'[k].id = host[k].id /\ host'[k].step = host[k].step
    BY <1>0, <1>5, ZenonT(30) DEF ClaimCheck, HostStates
  <2> QED
    BY <1>0, <1>5, <2>1, StoreAndHosts DEF ClaimCheck
<1>6. ASSUME NEW h \in ReleaseHosts, HostLost(h)
      PROVE  ReleaseInv'
  BY <1>0, <1>6, StoreAndHosts, ZenonT(30) DEF HostLost
<1>7. ASSUME NEW h \in ReleaseHosts, NEW ok \in BOOLEAN, Result(h, ok)
      PROVE  ReleaseInv'
  <2> DEFINE i == host[h].id
             st == IF ok THEN "succeeded" ELSE "failed"
  <2>1. i \in AskIds /\ st \in {"succeeded", "failed", "cancelled"} /\ st # "cancelled"
    BY <1>0, <1>7, ZenonT(30) DEF Result, HostStates
  <2>2. StoreOK(actions')
    <3>1. CASE actions' = Expire
      BY <1>0, <3>1
    <3>2. CASE Expire[i] # NoAsk /\ actions' = [Expire EXCEPT ![i].state = st]
      <4> HIDE DEF i, st
      <4>1. StoreOK([Expire EXCEPT ![i].state = st])
        BY <1>0, <2>1, <3>2, EndKeeps, Zenon
      <4> QED
        BY <3>2, <4>1
    <3> QED
      BY <1>7, <3>1, <3>2 DEF Result
  <2> QED
    BY <1>0, <1>7, <2>2, StoreAndHosts DEF Result
<1>8. CASE Inbox
  BY <1>0, <1>8, StoreAndHosts DEF Inbox
<1>9. CASE ForgeRestart
  <2>1. StoreOK([i \in AskIds |-> NoAsk])
    BY DEF StoreOK, OneOpenAskPerStep, HostsKnowTheirStep, NumbersAreFresh, BegunIsClaimed, Open,
           ReleaseTypeOK, HostStates
  <2> QED
    BY <1>0, <1>9, <2>1, StoreAndHosts, ZenonT(30) DEF ForgeRestart
<1>10. CASE TimePassesForAsks
  <2>1. \A i \in AskIds :
           /\ actions'[i] \in Asks \cup {NoAsk}
           /\ actions'[i] = NoAsk <=> actions[i] = NoAsk
           /\ actions[i] # NoAsk => /\ actions'[i].step = actions[i].step
                                    /\ actions'[i].by = actions[i].by
                                    /\ actions'[i].state = actions[i].state
    <3> SUFFICES ASSUME NEW i \in AskIds, actions[i] # NoAsk
                 PROVE  /\ actions'[i] \in Asks
                        /\ actions'[i].step = actions[i].step /\ actions'[i].by = actions[i].by
                        /\ actions'[i].state = actions[i].state
      BY <1>10, AskConstants DEF TimePassesForAsks, Aged, Open
    <3>1. actions[i] \in Asks /\ actions'[i] = Aged(actions[i])
      BY <1>10 DEF TimePassesForAsks, StoreOK
    <3>2. CASE Open(actions[i]) /\ ~Overdue(actions[i])
      <4>1. actions[i].age + 1 \in 0..(PENDING_TTL + CLAIMED_TTL)
        <5>1. \A p, q \in Nat : \A n \in 0..(p + q) :
                 n \in Nat /\ (~(n >= p) => n + 1 \in 0..(p + q))
                           /\ (~(n >= q) => n + 1 \in 0..(p + q))
          OBVIOUS
        <5>2. actions[i].age \in 0..(PENDING_TTL + CLAIMED_TTL)
          BY <3>1, Zenon DEF Asks
        <5>3. PENDING_TTL \in Nat /\ CLAIMED_TTL \in Nat
          BY ReleaseConstants, Zenon
        <5>4. ~(actions[i].age >= PENDING_TTL) \/ ~(actions[i].age >= CLAIMED_TTL)
          BY <3>2, Zenon DEF Open, Overdue
        <5> QED
          BY <5>1, <5>2, <5>3, <5>4, Zenon
      <4> QED
        BY <3>1, <3>2, <4>1, ZenonT(30) DEF Aged, Asks
    <3> QED
      BY <3>1, <3>2 DEF Aged
  <2>2. actions' \in [AskIds -> Asks \cup {NoAsk}]
    BY <1>10, <2>1, Zenon DEF TimePassesForAsks
  <2>3. \A i \in AskIds : Open(actions'[i]) <=> Open(actions[i])
    BY <2>1 DEF Open
  <2>4. StoreOK(actions')
    <3>1. OneOpenAskPerStep(actions')
      BY <2>1, <2>3 DEF StoreOK, OneOpenAskPerStep, Open
    <3>2. HostsKnowTheirStep(actions') /\ NumbersAreFresh(actions') /\ BegunIsClaimed(actions')
      BY <2>1, Zenon DEF StoreOK, HostsKnowTheirStep, NumbersAreFresh, BegunIsClaimed, ReleaseTypeOK,
                  HostStates
    <3> QED
      BY <2>2, <3>1, <3>2, ZenonT(30) DEF StoreOK
  <2> QED
    BY <1>0, <1>10, <2>4, StoreAndHosts DEF TimePassesForAsks
<1>11. CASE UNCHANGED releaseVars
  BY <1>0, <1>11, StoreAndHosts, ZenonT(30) DEF releaseVars
<1> QED
  BY <1>1, <1>2, <1>3, <1>4, <1>5, <1>6, <1>7, <1>8, <1>9, <1>10, <1>11, TakeKeeps
     DEF ReleaseNext

(* Two hosts never hold claims for the same step, for any number of hosts, *)
(* steps, asks and restarts.                                               *)
THEOREM StepAlwaysRunsOnce == ReleaseSpec => []StepRunsOnce
<1>1. ReleaseInv => StepRunsOnce
  <2> SUFFICES ASSUME ReleaseInv, NEW h \in ReleaseHosts, NEW k \in ReleaseHosts,
                      h # k, Holds(h), Holds(k)
               PROVE  host[h].step # host[k].step
    BY ZenonT(30) DEF StepRunsOnce
  <2>1. /\ host[h].id \in AskIds /\ host[k].id \in AskIds
        /\ Open(actions[host[h].id]) /\ Open(actions[host[k].id])
        /\ actions[host[h].id].step = host[h].step /\ actions[host[k].id].step = host[k].step
    BY DEF Holds, Open, ReleaseInv, StoreOK, HostsKnowTheirStep, ReleaseTypeOK, HostStates
  <2>2. host[h].id # host[k].id
    BY ZenonT(30) DEF Holds
  <2> QED
    BY <2>1, <2>2, Zenon DEF ReleaseInv, StoreOK, OneOpenAskPerStep
<1> QED
  BY <1>1, ReleaseStart, ReleaseStep, PTL DEF ReleaseSpec

(* An ask that a person was told was not run has not been begun.           *)
THEOREM ToldNotRunIsNeverRun == ReleaseSpec => []ToldNotRunIsNotRun
<1>1. ReleaseInv => ToldNotRunIsNotRun
  BY Zenon DEF ReleaseInv, StoreOK, BegunIsClaimed, ToldNotRunIsNotRun
<1> QED
  BY <1>1, ReleaseStart, ReleaseStep, PTL DEF ReleaseSpec

-----------------------------------------------------------------------------
(***************************************************************************)
(* The shift queue's writes are atomic, its rework links end, and a live   *)
(* claim is taken by force only: for any number of clients, todos, workers *)
(* and retries.                                                            *)
(***************************************************************************)

(* What one request makes of a tree. *)

(* An accepted action writes a todo file. *)
LEMMA RewrittenTyped ==
    ASSUME NEW todo \in TodoFile, NEW r \in TodoRequests
    PROVE  Rewritten(todo, r) \in TodoFile
<1> /\ r.action \in Actions /\ r.target \in Logins /\ r.text \in Texts
    /\ r.reworks \in SUBSET Todos
  BY ZenonT(30) DEF TodoRequests
<1> \A a \in DOMAIN Moves : Moves[a] \in Statuses
  BY DEF Moves, Statuses
<1> "open" \in Statuses
  BY DEF Statuses
<1> QED
  BY Zenon DEF Rewritten, TodoFile

(* Filing writes one too. *)
LEMMA NewTodoTyped ==
    ASSUME NEW r \in TodoRequests
    PROVE  NewTodo(r) \in TodoFile
BY Zenon DEF NewTodo, TodoFile, TodoRequests, Callers, Statuses

(* An accepted request leaves a tree. *)
LEMMA TreeAfterTyped ==
    ASSUME NEW t \in Trees, NEW r \in TodoRequests, NEW now, NEW s, Accepts(t, r, now, s)
    PROVE  TreeAfter(t, r) \in Trees
<1> r.id \in Todos /\ r.caller.login \in Logins
  BY DEF TodoRequests, Callers
<1>1. CASE r.action = "file"
  BY <1>1, NewTodoTyped, Zenon DEF TreeAfter, Trees
<1>2. CASE r.action = "comment"
  <2>1. Append(t.threads[r.id], r.caller.login) \in Seq(Logins)
    BY DEF Trees
  <2> QED
    BY <1>2, <2>1, Zenon DEF TreeAfter, Commented, Trees
<1>3. CASE r.action \notin {"file", "comment"}
  <2>1. t.todos[r.id] \in TodoFile
    BY <1>3, ZenonT(30) DEF Accepts, Trees
  <2>2. Rewritten(t.todos[r.id], r) \in TodoFile
    BY <2>1, RewrittenTyped
  <2> QED
    BY <1>3, <2>2, Zenon DEF TreeAfter, Trees
<1> QED
  BY <1>1, <1>2, <1>3

(* A todo whose status and lease change is still one, and reworks the same. *)
Moved(todo, s, n) == [todo EXCEPT !.status = s, !.lease_until = n]

(* What a move of a todo changes and what it keeps. *)
LEMMA TodoMoved ==
    ASSUME NEW todo \in TodoFile, NEW s \in Statuses, NEW n \in Nat
    PROVE  /\ Moved(todo, s, n) \in TodoFile
           /\ Moved(todo, s, n).reworks = todo.reworks
           /\ Moved(todo, s, n).assignee = todo.assignee
           /\ Moved(todo, s, n).status = s
<1> DEFINE one == [todo EXCEPT !.status = s]
<1>1. /\ one \in TodoFile /\ one.status = s
      /\ one.reworks = todo.reworks /\ one.assignee = todo.assignee
  BY DEF TodoFile
<1> HIDE DEF one
<1>2. /\ [one EXCEPT !.lease_until = n] \in TodoFile
      /\ [one EXCEPT !.lease_until = n].status = one.status
      /\ [one EXCEPT !.lease_until = n].reworks = one.reworks
      /\ [one EXCEPT !.lease_until = n].assignee = one.assignee
  BY <1>1, ZenonT(30) DEF TodoFile
<1> QED
  BY <1>1, <1>2 DEF one, Moved

(* A worker's write leaves a tree: it changes one todo that was there, and  *)
(* neither opens it nor changes who it is for or what it reworks.           *)
WorkerWrote(t, u, x) ==
    \E new \in TodoFile :
        /\ t.todos[x] \in TodoFile
        /\ u = [t EXCEPT !.todos[x] = new]
        /\ new.status # "open"
        /\ new.assignee = t.todos[x].assignee /\ new.reworks = t.todos[x].reworks

(* A worker writes one todo, and neither its assignee nor its rework links. *)
LEMMA WorkerWrites ==
    ASSUME NEW t \in Trees, NEW now \in Nat, NEW length \in Nat,
           NEW u \in WorkerClaims(t, now, length) \cup WorkerEnds(t, now)
    PROVE  u \in Trees /\ \E x \in Todos : WorkerWrote(t, u, x)
<1>1. ASSUME NEW x \in Todos, NEW s \in {"claimed", "done", "blocked", "handoff"},
             NEW n \in Nat, t.todos[x] # Absent,
             u = [t EXCEPT !.todos[x] = [@ EXCEPT !.status = s, !.lease_until = n]]
      PROVE  u \in Trees /\ WorkerWrote(t, u, x)
  <2> DEFINE new == Moved(t.todos[x], s, n)
  <2>1. t.todos[x] \in TodoFile /\ s \in Statuses
    BY <1>1, ZenonT(30) DEF Trees, Statuses
  <2>2. /\ new \in TodoFile /\ new.status = s
        /\ new.assignee = t.todos[x].assignee /\ new.reworks = t.todos[x].reworks
    BY <2>1, TodoMoved
  <2>3. u = [t EXCEPT !.todos[x] = new]
    BY <1>1 DEF Moved
  <2> HIDE DEF new
  <2>4. u \in Trees
    BY <2>2, <2>3, Zenon DEF Trees
  <2>5. new.status # "open"
    BY <2>2, ZenonT(30)
  <2> QED
    BY <2>1, <2>2, <2>3, <2>4, <2>5, Zenon DEF WorkerWrote
<1>2. CASE u \in WorkerClaims(t, now, length)
  <2>1. PICK x \in Todos :
            /\ Claimable(t.todos[x], now)
            /\ u = [t EXCEPT !.todos[x] =
                       [@ EXCEPT !.status = "claimed", !.lease_until = now + length]]
    BY <1>2, Zenon DEF WorkerClaims
  <2>2. t.todos[x] # Absent /\ now + length \in Nat
    BY <2>1 DEF Claimable
  <2> QED
    BY <1>1, <2>1, <2>2, ZenonT(30)
<1>3. CASE u \in WorkerEnds(t, now)
  <2>1. PICK x \in Todos : t.todos[x] # Absent /\ u \in Outcomes(t, x)
    BY <1>3 DEF WorkerEnds
  <2>2. PICK s \in {"done", "blocked", "handoff"} :
            u = [t EXCEPT !.todos[x] = [@ EXCEPT !.status = s, !.lease_until = 0]]
    BY <2>1 DEF Outcomes
  <2> QED
    BY <1>1, <2>1, <2>2, Zenon
<1> QED
  BY <1>2, <1>3

-----------------------------------------------------------------------------
(* Rework links. *)

(* Below(todos, S) contains S and what its members rework, and is the least *)
(* such set.                                                                *)
LEMMA BelowClosed ==
    ASSUME NEW todos, NEW S \in SUBSET Todos,
           \A y \in Todos : ReworksOf(todos, y) \subseteq Todos
    PROVE  /\ Below(todos, S) \subseteq Todos
           /\ S \subseteq Below(todos, S)
           /\ \A y \in Below(todos, S) : ReworksOf(todos, y) \subseteq Below(todos, S)
           /\ \A C \in SUBSET Todos :
                 (S \subseteq C /\ \A y \in C : ReworksOf(todos, y) \subseteq C)
                     => Below(todos, S) \subseteq C
BY Zenon DEF Below

Acyclic(todos) == \A t \in Todos : t \notin Below(todos, ReworksOf(todos, t))

LinksInside(todos) == \A y \in Todos : ReworksOf(todos, y) \subseteq Todos

Relinked(old, new, id, targets) ==
    /\ \A y \in Todos \ {id} : ReworksOf(new, y) = ReworksOf(old, y)
    /\ ReworksOf(new, id) = targets

(* Todo id comes to rework `targets`, from none of which the links lead to  *)
(* id: no todo reaches itself by the new links if none did by the old ones. *)
LEMMA NewReworksEnd ==
    ASSUME NEW old, NEW new, NEW id \in Todos, NEW targets \in SUBSET Todos,
           LinksInside(old), Relinked(old, new, id, targets),
           id \notin Below(old, targets), Acyclic(old)
    PROVE  Acyclic(new)
<1> USE DEF LinksInside, Relinked
<1> SUFFICES ASSUME NEW t \in Todos
             PROVE  t \notin Below(new, ReworksOf(new, t))
  BY ZenonT(30) DEF Acyclic
<1> DEFINE C == Below(old, targets)
           D == Below(old, ReworksOf(old, t))
<1>1. /\ C \subseteq Todos /\ targets \subseteq C
      /\ \A y \in C : ReworksOf(old, y) \subseteq C
  BY BelowClosed, ZenonT(30)
<1>2. /\ D \subseteq Todos /\ ReworksOf(old, t) \subseteq D /\ t \notin D
      /\ \A y \in D : ReworksOf(old, y) \subseteq D
  BY BelowClosed DEF Acyclic
<1>3. t \in C => D \subseteq C
  <2> HAVE t \in C
  <2>1. ReworksOf(old, t) \subseteq C
    BY <1>1, ZenonT(30)
  <2> QED
    BY <1>1, <2>1, BelowClosed
<1>4. \A y \in Todos : ReworksOf(new, y) \subseteq Todos
  BY Zenon
<1> HIDE DEF C, D
<1> DEFINE E == IF t = id THEN C ELSE IF id \in D THEN C \cup D ELSE D
<1>5. /\ E \in SUBSET Todos /\ t \notin E /\ ReworksOf(new, t) \subseteq E
      /\ \A y \in E : ReworksOf(new, y) \subseteq E
  <2>1. CASE t = id
    BY <1>1, <2>1, ZenonT(30) DEF C
  <2>2. CASE t # id /\ id \in D
    <3>1. t \notin C
      BY <1>3, <2>2, ZenonT(30) DEF C
    <3> QED
      BY <1>1, <1>2, <2>2, <3>1, ZenonT(30)
  <2>3. CASE t # id /\ id \notin D
    BY <1>2, <2>3, ZenonT(30)
  <2> QED
    BY <2>1, <2>2, <2>3, Zenon
<1> HIDE DEF E
<1> QED
  BY <1>4, <1>5, BelowClosed

(* Links that do not change lead where they led. *)
LEMMA SameReworksEnd ==
    ASSUME NEW old, NEW new, NEW id \in Todos,
           Relinked(old, new, id, ReworksOf(old, id)), Acyclic(old)
    PROVE  Acyclic(new)
<1>1. \A y \in Todos : ReworksOf(new, y) = ReworksOf(old, y)
  BY DEF Relinked
<1>2. \A S : Below(new, S) = Below(old, S)
  BY <1>1, Zenon DEF Below
<1> QED
  BY <1>1, <1>2 DEF Acyclic

(* Only an edit of the links changes them. *)
LEMMA RewrittenReworks ==
    ASSUME NEW todo \in TodoFile, NEW r \in TodoRequests
    PROVE  Rewritten(todo, r).reworks = IF r.action = "rework" THEN r.reworks ELSE todo.reworks
<1> DEFINE put == Rewritten(todo, r)
<1> r.action \in Actions
  BY DEF TodoRequests
<1> USE DEF Rewritten, TodoFile, Moves
<1>1. CASE r.action = "release"
  BY <1>1, ZenonT(30)
<1>2. CASE r.action \in DOMAIN Moves \ {"release"}
  BY <1>2
<1>3. CASE r.action \in AssignmentActions
  BY <1>3 DEF AssignmentActions
<1>4. CASE r.action = "rework"
  BY <1>4
<1>5. CASE r.action \in {"edit", "outcome_check", "comment", "file"}
  BY <1>5
<1> QED
  BY <1>1, <1>2, <1>3, <1>4, <1>5 DEF Actions

(* The links of the todos of a tree name todos. *)
LEMMA ReworksAreTodos ==
    ASSUME NEW t \in Trees
    PROVE  LinksInside(t.todos)
BY DEF LinksInside, Trees, TodoFile, ReworksOf

(* An accepted request leaves the links without a cycle. *)
LEMMA RequestKeepsAcyclic ==
    ASSUME NEW t \in Trees, NEW r \in TodoRequests, NEW now, NEW s, Accepts(t, r, now, s),
           Acyclic(t.todos)
    PROVE  Acyclic(TreeAfter(t, r).todos)
<1> DEFINE new == TreeAfter(t, r).todos
<1> SUFFICES Acyclic(new)
  BY Zenon
<1>0. r.id \in Todos /\ r.reworks \in SUBSET Todos
  BY DEF TodoRequests
<1>1. CASE r.action = "file"
  <2>1. new = [t.todos EXCEPT ![r.id] = NewTodo(r)]
    BY <1>1, ZenonT(30) DEF TreeAfter, Trees
  <2>2. NewTodo(r) # Absent => NewTodo(r).reworks = {}
    BY DEF NewTodo
  <2>3. Relinked(t.todos, new, r.id, {})
    BY <1>0, <2>1, <2>2, Zenon DEF Relinked, ReworksOf, Trees
  <2>4. r.id \notin Below(t.todos, {})
    <3>1. {} \subseteq {} /\ {} \in SUBSET Todos
      OBVIOUS
    <3> QED
      BY <3>1, Zenon DEF Below
  <2> HIDE DEF new
  <2> QED
    BY <1>0, <2>3, <2>4, {} \in SUBSET Todos, ReworksAreTodos, NewReworksEnd, ZenonT(30)
<1>2. CASE r.action = "comment"
  <2>1. new = t.todos
    BY <1>2 DEF TreeAfter, Trees
  <2> QED
    BY <2>1, Zenon
<1>3. CASE r.action \notin {"file", "comment"}
  <2> DEFINE put == Rewritten(t.todos[r.id], r)
  <2>1. t.todos[r.id] \in TodoFile /\ t.todos[r.id] # Absent
    BY <1>0, <1>3 DEF Accepts, Trees
  <2>2. new = [t.todos EXCEPT ![r.id] = put]
    BY <1>3 DEF TreeAfter, Trees
  <2>3. put.reworks = IF r.action = "rework" THEN r.reworks ELSE t.todos[r.id].reworks
    BY <2>1, RewrittenReworks, ZenonT(30)
  <2>4. put # Absent
    BY <2>1, RewrittenTyped, NoFile, ZenonT(30)
  <2> HIDE DEF put
  <2>5. Relinked(t.todos, new, r.id, put.reworks)
    BY <1>0, <2>2, <2>4, ZenonT(30) DEF Relinked, ReworksOf, Trees
  <2>6. CASE r.action = "rework"
    <3>1. validate_reworks(t.todos, r.id, r.reworks)
      BY <2>6 DEF Accepts, Applies
    <3>2. r.id \notin Below(t.todos, r.reworks)
      BY <3>1, ZenonT(30) DEF validate_reworks
    <3>3. Relinked(t.todos, new, r.id, r.reworks)
      BY <2>3, <2>5, <2>6, ZenonT(30)
    <3> HIDE DEF new
    <3> QED
      BY <1>0, <3>2, <3>3, ReworksAreTodos, NewReworksEnd, Zenon
  <2>7. CASE r.action # "rework"
    <3>1. Relinked(t.todos, new, r.id, ReworksOf(t.todos, r.id))
      BY <2>1, <2>3, <2>5, <2>7, ZenonT(30) DEF ReworksOf
    <3> HIDE DEF new
    <3> QED
      BY <1>0, <3>1, SameReworksEnd, ZenonT(30)
  <2> QED
    BY <2>6, <2>7, Zenon
<1> QED
  BY <1>1, <1>2, <1>3, Zenon

(* A worker changes no link. *)
LEMMA WorkerKeepsAcyclic ==
    ASSUME NEW t \in Trees, NEW u, NEW x \in Todos, WorkerWrote(t, u, x), Acyclic(t.todos)
    PROVE  Acyclic(u.todos)
<1>1. PICK new \in TodoFile :
          /\ t.todos[x] \in TodoFile
          /\ u = [t EXCEPT !.todos[x] = new]
          /\ new.reworks = t.todos[x].reworks
  BY Zenon DEF WorkerWrote
<1>2. u.todos = [t.todos EXCEPT ![x] = new]
  BY <1>1 DEF Trees
<1>3. Relinked(t.todos, u.todos, x, ReworksOf(t.todos, x))
  BY <1>1, <1>2, NoFile DEF Relinked, ReworksOf, Trees
<1> QED
  BY <1>3, SameReworksEnd, Zenon

-----------------------------------------------------------------------------
(***************************************************************************)
(* The inductive invariant.  What a client has built was judged and built  *)
(* on the tree of the commit it names; branch numbers only grow, so if     *)
(* that commit is the head still, that tree is the board's.  A request to  *)
(* file has an id of its own, which no file has until it is answered.      *)
(***************************************************************************)
JudgedHere(c) ==
    /\ built[c].tree = TreeAfter(tree, call[c].request)
    /\ \E s \in Standings : Accepts(tree, call[c].request, call[c].now, s)

BuiltOnWhatItRead ==
    \A c \in Clients : built[c] # NoCommit =>
        /\ Waiting(c)
        /\ built[c].old <= head
        /\ built[c].old = head => JudgedHere(c)

Files(c) == call[c] # NoCall /\ call[c].request.action = "file"

FiledIdsAreFresh ==
    /\ \A c \in Clients :
          Files(c) /\ answer[c] = "none" => tree.todos[call[c].request.id] = Absent
    /\ \A c, d \in Clients :
          Files(c) /\ Files(d) /\ c # d => call[c].request.id # call[d].request.id

ClocksAreRead == \A c \in Clients : call[c] # NoCall => call[c].now <= clock

RacesAreCounted == \A c \in Clients : answer[c] = "none" => lost[c] < CasAttempts

ShiftInv ==
    /\ ShiftTypeOK /\ BuiltOnWhatItRead /\ FiledIdsAreFresh /\ ClocksAreRead
    /\ RacesAreCounted /\ ReworksEnd

(* A request changes one todo, which is there unless the request files it. *)
LEMMA TreeAfterElsewhere ==
    ASSUME NEW t \in Trees, NEW r \in TodoRequests, NEW now, NEW s, Accepts(t, r, now, s)
    PROVE  /\ r.action # "file" => t.todos[r.id] # Absent
           /\ \A x \in Todos : x # r.id => TreeAfter(t, r).todos[x] = t.todos[x]
           /\ r.action = "comment" => TreeAfter(t, r).todos = t.todos
<1>1. r.action # "file" => t.todos[r.id] # Absent
  BY DEF Accepts
<1>2. CASE r.action = "file"
  BY <1>1, <1>2 DEF TreeAfter, Trees
<1>3. CASE r.action = "comment"
  BY <1>1, <1>3 DEF TreeAfter, Trees
<1>4. CASE r.action \notin {"file", "comment"}
  <2>1. TreeAfter(t, r).todos = [t.todos EXCEPT ![r.id] = Rewritten(t.todos[r.id], r)]
    BY <1>4, ZenonT(30) DEF TreeAfter, Trees
  <2> QED
    BY <1>1, <1>4, <2>1, Zenon DEF Trees
<1> QED
  BY <1>2, <1>3, <1>4, Zenon

(* The first tree satisfies the invariant. *)
LEMMA ShiftStart == ShiftInit => ShiftInv
<1> SUFFICES ASSUME ShiftInit PROVE ShiftInv
  BY Zenon
<1> USE ShiftConstants DEF ShiftInit
<1>1. ShiftTypeOK
  BY DEF ShiftTypeOK
<1>2. BuiltOnWhatItRead /\ FiledIdsAreFresh /\ ClocksAreRead /\ RacesAreCounted
  <2>1. /\ call = [c \in Clients |-> NoCall] /\ built = [c \in Clients |-> NoCommit]
        /\ lost = [c \in Clients |-> 0]
    BY Zenon
  <2> HIDE ShiftConstants DEF ShiftInit
  <2>2. BuiltOnWhatItRead
    BY <2>1, Zenon DEF BuiltOnWhatItRead
  <2>3. FiledIdsAreFresh
    BY <2>1, Zenon DEF FiledIdsAreFresh, Files
  <2>4. ClocksAreRead
    BY <2>1, Zenon DEF ClocksAreRead
  <2>5. RacesAreCounted
    BY <2>1, ShiftConstants DEF RacesAreCounted
  <2> QED
    BY <2>2, <2>3, <2>4, <2>5
<1>3. ReworksEnd
  BY ZenonT(30) DEF ReworksEnd
<1> QED
  BY <1>1, <1>2, <1>3 DEF ShiftInv

(* A request keeps the invariant when it arrives. *)
LEMMA ArriveKeeps ==
    ASSUME ShiftInv, NEW c \in Clients, NEW r \in TodoAsks, Arrive(c, r)
    PROVE  ShiftInv'
<1> USE DEF ShiftInv, Arrive
<1>1. ShiftTypeOK'
  BY DEF ShiftTypeOK
<1>2. BuiltOnWhatItRead'
  <2>1. \A d \in Clients : built[d] # NoCommit => d # c
    BY ZenonT(30) DEF BuiltOnWhatItRead, Waiting
  <2> QED
    BY <2>1, ZenonT(30) DEF BuiltOnWhatItRead, Waiting, JudgedHere, ShiftTypeOK
<1>3. FiledIdsAreFresh'
  <2>1. \A d \in Clients \ {c} : call'[d] = call[d] /\ (Files(d)' <=> Files(d))
    BY ZenonT(30) DEF ShiftTypeOK, Files
  <2>2. call'[c].request = r /\ call[c] = NoCall /\ (Files(c)' => r.action = "file")
    BY DEF ShiftTypeOK, Files
  <2>3. UNCHANGED <<tree, answer>> /\ FreshId(r) /\ FiledIdsAreFresh
    BY Zenon
  <2> HIDE DEF ShiftInv, Arrive
  <2>4. ASSUME NEW d \in Clients, Files(d)', answer'[d] = "none"
        PROVE  tree'.todos[call'[d].request.id] = Absent
    <3>1. CASE d = c
      BY <2>2, <2>3, <2>4, <3>1, Zenon DEF FreshId
    <3>2. CASE d # c
      BY <2>1, <2>3, <2>4, <3>2, Zenon DEF FiledIdsAreFresh
    <3> QED
      BY <3>1, <3>2, Zenon
  <2>5. ASSUME NEW d \in Clients, NEW e \in Clients, Files(d)', Files(e)', d # e
        PROVE  call'[d].request.id # call'[e].request.id
    <3>1. CASE d # c /\ e # c
      BY <2>1, <2>3, <2>5, <3>1, Zenon DEF FiledIdsAreFresh
    <3>2. CASE d = c \/ e = c
      BY <2>1, <2>2, <2>3, <2>5, <3>2, ZenonT(30) DEF FreshId, Files
    <3> QED
      BY <3>1, <3>2, Zenon
  <2> QED
    BY <2>4, <2>5, Zenon DEF FiledIdsAreFresh
<1>4. ClocksAreRead' /\ RacesAreCounted'
  <2>1. \A n \in Nat : n <= n
    OBVIOUS
  <2>2. call'[c].now <= clock' /\ \A d \in Clients \ {c} : call'[d] = call[d]
    BY <2>1, ZenonT(30) DEF ShiftTypeOK
  <2>3. UNCHANGED <<clock, answer, lost>> /\ ClocksAreRead /\ RacesAreCounted
    BY Zenon
  <2> HIDE DEF ShiftInv, Arrive
  <2> QED
    BY <2>2, <2>3, ZenonT(30) DEF ClocksAreRead, RacesAreCounted
<1>5. ReworksEnd'
  BY DEF ReworksEnd
<1> QED
  BY <1>1, <1>2, <1>3, <1>4, <1>5, ZenonT(30)

(* So does a pass of its loop that moves the branch ... *)
LEMMA SwapKeeps ==
    ASSUME ShiftInv, NEW c \in Clients, Swap(c)
    PROVE  ShiftInv'
<1> DEFINE r == call[c].request
<1> USE DEF ShiftInv, Swap
<1>1. /\ r \in TodoRequests /\ JudgedHere(c)
      /\ call[c] \in [request : TodoAsks, now : Nat]
  BY ShiftConstants DEF BuiltOnWhatItRead, Current, Waiting, ShiftTypeOK
<1>2. PICK s \in Standings : Accepts(tree, r, call[c].now, s)
  BY <1>1, ZenonT(30) DEF JudgedHere
<1>3. tree' = TreeAfter(tree, r) /\ tree \in Trees
  BY <1>1, ZenonT(30) DEF JudgedHere, ShiftTypeOK
<1> HIDE DEF r
<1>4. ShiftTypeOK'
  <2>1. tree' \in Trees
    BY <1>1, <1>2, <1>3, TreeAfterTyped, ZenonT(30)
  <2> QED
    BY <2>1 DEF ShiftTypeOK
<1>5. BuiltOnWhatItRead'
  BY DEF BuiltOnWhatItRead, Waiting, JudgedHere, ShiftTypeOK
<1>6. FiledIdsAreFresh'
  <2>1. ASSUME NEW d \in Clients, Files(d)', answer'[d] = "none"
        PROVE  tree'.todos[call[d].request.id] = Absent
    <3>1. d # c /\ Files(d) /\ answer[d] = "none"
      BY <2>1, ZenonT(30) DEF Files, ShiftTypeOK
    <3>2. /\ tree.todos[call[d].request.id] = Absent
          /\ call[d].request.id \in Todos
      BY <3>1, ShiftConstants DEF FiledIdsAreFresh, Files, ShiftTypeOK, TodoRequests
    <3>3. r.action = "file" => r.id # call[d].request.id
      BY <3>1, Zenon DEF FiledIdsAreFresh, Files, r, Waiting
    <3>4. call[d].request.id # r.id
      <4>1. r.action # "file" => tree.todos[r.id] # Absent
        BY <1>1, <1>2, <1>3, TreeAfterElsewhere, Zenon
      <4> QED BY <3>2, <3>3, <4>1, Zenon
    <3>5. TreeAfter(tree, r).todos[call[d].request.id] = tree.todos[call[d].request.id]
      BY <1>1, <1>2, <1>3, <3>2, <3>4, TreeAfterElsewhere, Zenon
    <3> QED
      BY <1>3, <3>2, <3>5, Zenon
  <2> QED
    BY <2>1, Zenon DEF FiledIdsAreFresh, Files
<1>7. ClocksAreRead' /\ RacesAreCounted'
  BY DEF ClocksAreRead, RacesAreCounted, ShiftTypeOK
<1>8. ReworksEnd'
  BY <1>1, <1>2, <1>3, RequestKeepsAcyclic, ZenonT(30) DEF ReworksEnd, Acyclic
<1> QED
  BY <1>4, <1>5, <1>6, <1>7, <1>8, ZenonT(30)

(* ... and one that does not. *)
LEMMA PassKeeps ==
    ASSUME ShiftInv, NEW c \in Clients, Pass(c)
    PROVE  ShiftInv'
<1> USE DEF ShiftInv
<1>1. CASE Build(c)
  <2> USE <1>1 DEF Build
  <2>1. PICK s \in Standings : Accepts(tree, call[c].request, call[c].now, s)
    OBVIOUS
  <2>2. TreeAfter(tree, call[c].request) \in Trees
    BY <2>1, TreeAfterTyped, ShiftConstants, ZenonT(30) DEF ShiftTypeOK, Waiting
  <2>3. ShiftTypeOK'
    BY <2>2, ZenonT(30) DEF ShiftTypeOK
  <2>4. BuiltOnWhatItRead'
    <3>1. built'[c] = [old |-> head, tree |-> TreeAfter(tree, call[c].request)]
      BY Zenon DEF ShiftTypeOK
    <3>2. \A d \in Clients \ {c} : built'[d] = built[d]
      BY ZenonT(30) DEF ShiftTypeOK
    <3>3. head \in Nat /\ head <= head
      <4>1. \A n \in Nat : n <= n
        OBVIOUS
      <4> QED
        BY <4>1, Zenon DEF ShiftTypeOK
    <3>4. Waiting(c)' /\ UNCHANGED <<head, tree, call, answer>> /\ BuiltOnWhatItRead
      BY Zenon DEF Waiting
    <3> HIDE <1>1 DEF Build, ShiftInv
    <3>5. built'[c].old <= head' /\ JudgedHere(c)'
      <4>1. built'[c].old = head /\ built'[c].tree = TreeAfter(tree, call[c].request)
        <5>1. built'[c] = CommitOf(head, TreeAfter(tree, call[c].request))
          BY <3>1, Zenon DEF CommitOf
        <5>2. /\ CommitOf(head, TreeAfter(tree, call[c].request)).old = head
              /\ CommitOf(head, TreeAfter(tree, call[c].request)).tree
                    = TreeAfter(tree, call[c].request)
          BY BuiltFields, Zenon
        <5> QED
          BY <5>1, <5>2, Zenon
      <4>2. UNCHANGED <<head, tree, call>>
        BY <3>4, Zenon
      <4>3. built'[c].old <= head'
        BY <3>3, <4>1, <4>2, Zenon
      <4> QED
        BY <2>1, <4>1, <4>2, <4>3, ZenonT(30) DEF JudgedHere
    <3>6. ASSUME NEW d \in Clients \ {c}, built'[d] # NoCommit
          PROVE  Waiting(d)' /\ built'[d].old <= head' /\ (built'[d].old = head' => JudgedHere(d)')
      BY <3>2, <3>4, <3>6, ZenonT(30) DEF BuiltOnWhatItRead, JudgedHere, Waiting
    <3> QED
      BY <3>4, <3>5, <3>6, ZenonT(30) DEF BuiltOnWhatItRead
  <2>5. FiledIdsAreFresh' /\ ClocksAreRead' /\ RacesAreCounted' /\ ReworksEnd'
    BY Zenon DEF FiledIdsAreFresh, Files, ClocksAreRead, RacesAreCounted, ReworksEnd
  <2> QED
    BY <2>3, <2>4, <2>5, ZenonT(30)
<1>2. CASE Reject(c) \/ GitFails(c) \/ LosesRace(c) \/ SwapFails(c)
  <2> USE <1>2 DEF Reject, GitFails, LosesRace, SwapFails
  <2>1. UNCHANGED <<head, tree, clock, call, pushes>>
    OBVIOUS
  <2>2. /\ answer' \in [Clients -> {"none", "ok", "refused", "failed"}]
        /\ \A d \in Clients : answer'[d] = "none" => answer[d] = "none"
        /\ \A d \in Clients \ {c} : answer'[d] = answer[d]
    BY ZenonT(30) DEF ShiftTypeOK, Waiting
  <2>3. /\ built' \in [Clients -> [old : Nat, tree : Trees] \cup {NoCommit}]
        /\ built'[c] = NoCommit
        /\ \A d \in Clients \ {c} : built'[d] = built[d]
    BY ZenonT(30) DEF ShiftTypeOK
  <2>4. lost' \in [Clients -> 0..CasAttempts] /\ RacesAreCounted'
    <3>1. \A k \in Nat : \A n \in 0..k : n < k =>
             /\ n + 1 \in 0..k /\ (n + 1 = k \/ n + 1 < k)
      OBVIOUS
    <3>2. /\ lost[c] \in 0..CasAttempts /\ lost[c] < CasAttempts /\ CasAttempts \in Nat
          /\ lost \in [Clients -> 0..CasAttempts] /\ RacesAreCounted
      BY ShiftConstants, ZenonT(30) DEF ShiftTypeOK, RacesAreCounted, Waiting
    <3>3. \/ lost' = lost
          \/ /\ lost' = [lost EXCEPT ![c] = lost[c] + 1]
             /\ answer'[c] = IF lost[c] + 1 = CasAttempts THEN "failed" ELSE "none"
      BY ZenonT(30) DEF ShiftTypeOK
    <3> HIDE <1>2 DEF Reject, GitFails, LosesRace, SwapFails, ShiftInv
    <3>4. CASE lost' = lost
      BY <2>2, <3>2, <3>4, ZenonT(30) DEF RacesAreCounted
    <3>5. CASE /\ lost' = [lost EXCEPT ![c] = lost[c] + 1]
               /\ answer'[c] = IF lost[c] + 1 = CasAttempts THEN "failed" ELSE "none"
      <4>1. /\ lost[c] + 1 \in 0..CasAttempts
            /\ lost[c] + 1 = CasAttempts \/ lost[c] + 1 < CasAttempts
        BY <3>1, <3>2, Zenon
      <4>2. /\ lost' \in [Clients -> 0..CasAttempts] /\ lost'[c] = lost[c] + 1
            /\ \A d \in Clients \ {c} : lost'[d] = lost[d]
        BY <3>2, <3>5, <4>1, ZenonT(30)
      <4>3. answer'[c] = "none" => lost'[c] < CasAttempts
        BY <3>5, <4>1, <4>2, Zenon
      <4> QED
        BY <2>2, <3>2, <4>2, <4>3, ZenonT(30) DEF RacesAreCounted
    <3> QED
      BY <3>3, <3>4, <3>5, Zenon
  <2> HIDE <1>2 DEF Reject, GitFails, LosesRace, SwapFails
  <2>5. ShiftTypeOK'
    BY <2>1, <2>2, <2>3, <2>4, ZenonT(30) DEF ShiftTypeOK
  <2>6. BuiltOnWhatItRead'
    BY <2>1, <2>2, <2>3, ZenonT(30) DEF BuiltOnWhatItRead, JudgedHere, Waiting
  <2>7. FiledIdsAreFresh' /\ ClocksAreRead' /\ ReworksEnd'
    BY <2>1, <2>2, Zenon DEF FiledIdsAreFresh, Files, ClocksAreRead, ReworksEnd
  <2> QED
    BY <2>4, <2>5, <2>6, <2>7, ZenonT(30)
<1>3. CASE Swap(c)
  BY <1>3, SwapKeeps, ZenonT(30)
<1> QED
  BY <1>1, <1>2, <1>3, ZenonT(30) DEF Pass

(* A worker's push keeps the invariant. *)
LEMMA WorkerPushKeeps ==
    ASSUME ShiftInv, WorkerPush
    PROVE  ShiftInv'
<1> USE DEF ShiftInv, WorkerPush
<1>1. tree \in Trees /\ clock \in Nat /\ LeaseLength \in Nat
  BY ShiftConstants, ZenonT(30) DEF ShiftTypeOK
<1>2. tree' \in Trees /\ \E x \in Todos : WorkerWrote(tree, tree', x)
  BY <1>1, WorkerWrites
<1>3. PICK x \in Todos : WorkerWrote(tree, tree', x)
  BY <1>2, ZenonT(30)
<1>4. ShiftTypeOK'
  <2>1. \A n \in Nat : n + 1 \in Nat
    OBVIOUS
  <2>2. \A k \in Nat : \A n \in 0..k : n < k => n + 1 \in 0..k
    OBVIOUS
  <2>3. head' \in Nat /\ pushes' \in 0..MaxPushes
    BY <2>1, <2>2, ShiftConstants, ZenonT(30) DEF ShiftTypeOK
  <2> QED
    BY <1>2, <2>3, ZenonT(30) DEF ShiftTypeOK
<1>5. BuiltOnWhatItRead'
  BY DEF BuiltOnWhatItRead, JudgedHere, Waiting, ShiftTypeOK
<1>6. FiledIdsAreFresh'
  <2>1. \A y \in Todos : tree.todos[y] = Absent => tree'.todos[y] = Absent
    BY <1>1, <1>3, NoFile, ZenonT(30) DEF WorkerWrote, Trees
  <2>2. \A d \in Clients : Files(d) => call[d].request.id \in Todos
    BY ShiftConstants DEF Files, ShiftTypeOK, TodoRequests
  <2> QED
    BY <2>1, <2>2, Zenon DEF FiledIdsAreFresh, Files
<1>7. ClocksAreRead' /\ RacesAreCounted'
  BY ZenonT(30) DEF ClocksAreRead, RacesAreCounted
<1>8. ReworksEnd'
  BY <1>1, <1>3, WorkerKeepsAcyclic, Zenon DEF ReworksEnd, Acyclic
<1> QED
  BY <1>4, <1>5, <1>6, <1>7, <1>8, ZenonT(30)

(* Every step keeps the invariant. *)
LEMMA ShiftStep == ShiftInv /\ [ShiftNext]_shiftVars => ShiftInv'
<1> SUFFICES ASSUME ShiftInv, [ShiftNext]_shiftVars PROVE ShiftInv'
  OBVIOUS
<1>1. CASE ClockTicks
  <2> USE <1>1 DEF ShiftInv, ClockTicks
  <2>1. ShiftTypeOK' /\ ClocksAreRead'
    BY DEF ShiftTypeOK, ClocksAreRead
  <2>2. BuiltOnWhatItRead' /\ FiledIdsAreFresh' /\ RacesAreCounted' /\ ReworksEnd'
    BY ZenonT(30) DEF BuiltOnWhatItRead, JudgedHere, Waiting, FiledIdsAreFresh, Files, RacesAreCounted,
           ReworksEnd
  <2> QED
    BY <2>1, <2>2, ZenonT(30)
<1>2. CASE UNCHANGED shiftVars
  BY <1>2, Zenon DEF ShiftInv, shiftVars, ShiftTypeOK, BuiltOnWhatItRead, JudgedHere, Waiting,
              FiledIdsAreFresh, Files, ClocksAreRead, RacesAreCounted, ReworksEnd
<1> QED
  BY <1>1, <1>2, ArriveKeeps, PassKeeps, WorkerPushKeeps DEF ShiftNext

-----------------------------------------------------------------------------
(* The types, for any constants. *)
THEOREM ShiftTypeCorrect == ShiftSpec => []ShiftTypeOK
BY ShiftStart, ShiftStep, PTL DEF ShiftSpec, ShiftInv

(* Edits of rework links that race through the compare-and-swap never make *)
(* a cycle, in any number (commit_change_at with validate_reworks).        *)
THEOREM ReworksAlwaysEnd == ShiftSpec => []ReworksEnd
BY ShiftStart, ShiftStep, PTL DEF ShiftSpec, ShiftInv

-----------------------------------------------------------------------------
(* The abstract board: Board's operators are TodoActions' own. *)
LEMMA SameOperators ==
    /\ \A r : Board!MayAttempt(r) = MayAttempt(r)
    /\ \A t, r, now, s : Board!Accepts(t, r, now, s) = Accepts(t, r, now, s)
    /\ \A t, r : Board!TreeAfter(t, r) = TreeAfter(t, r)
    /\ \A t, now, n : Board!WorkerClaims(t, now, n) = WorkerClaims(t, now, n)
    /\ \A t, now : Board!WorkerEnds(t, now) = WorkerEnds(t, now)
    /\ Board!Standings = Standings
<1>1. \A r : Board!MayAttempt(r) = MayAttempt(r)
  BY DEF MayAttempt, Board!MayAttempt, PeopleActions, Board!PeopleActions
<1>2. \A t, r, now, s : Board!Accepts(t, r, now, s) = Accepts(t, r, now, s)
  BY DEF Accepts, Board!Accepts, authorize, Board!authorize, LeaseBars, Board!LeaseBars,
         Takes, Board!Takes, Forced, Board!Forced, lease_live, Board!lease_live, Applies,
         Board!Applies, allows, Board!allows, validate_reworks, Board!validate_reworks,
         Below, Board!Below, ReworksOf, Board!ReworksOf, Moves, Board!Moves,
         PeopleStatuses, Board!PeopleStatuses
<1>3. \A t, r : Board!TreeAfter(t, r) = TreeAfter(t, r)
  BY DEF TreeAfter, Board!TreeAfter, Commented, Board!Commented, Rewritten, Board!Rewritten,
         NewTodo, Board!NewTodo,
         Moves, Board!Moves
<1>4. \A t, now, n : Board!WorkerClaims(t, now, n) = WorkerClaims(t, now, n)
  BY DEF WorkerClaims, Board!WorkerClaims, Claimable, Board!Claimable, lease_live,
         Board!lease_live
<1>5. \A t, now : Board!WorkerEnds(t, now) = WorkerEnds(t, now)
  BY DEF WorkerEnds, Board!WorkerEnds, Outcomes, Board!Outcomes, lease_live,
         Board!lease_live
<1>6. Board!Standings = Standings
  BY ZenonT(30) DEF Standings, Board!Standings
<1> QED
  BY <1>1, <1>2, <1>3, <1>4, <1>5, <1>6, ZenonT(30)

(* Every step of the implementation is a step of the board, or none: a     *)
(* request takes effect when its swap moves the ref.                       *)
LEMMA ShiftStepSimulates ==
    ShiftInv /\ [ShiftNext]_shiftVars => [Board!BoardNext]_(Board!boardVars)
<1> SUFFICES ASSUME ShiftInv, [ShiftNext]_shiftVars
             PROVE  Board!BoardNext \/ UNCHANGED <<tree, clock, call, answer>>
  BY DEF Board!boardVars
<1>1. ASSUME NEW c \in Clients, NEW r \in TodoAsks, Arrive(c, r)
      PROVE  Board!Call(c)
  BY <1>1, SameOperators, ZenonT(30) DEF Arrive, Board!Call
<1>2. ASSUME NEW c \in Clients, Pass(c)
      PROVE  \/ Board!Perform(c) \/ Board!Refuse(c) \/ Board!Fail(c)
             \/ UNCHANGED <<tree, clock, call, answer>>
  <2>1. CASE Build(c)
    BY <2>1 DEF Build
  <2>2. CASE Reject(c)
    BY <2>2, SameOperators, Zenon DEF Reject, Waiting, Board!Refuse, Board!InFlight
  <2>3. CASE GitFails(c) \/ SwapFails(c)
    BY <2>3 DEF GitFails, SwapFails, Waiting, Board!Fail, Board!InFlight
  <2>4. CASE Swap(c)
    <3>1. JudgedHere(c)
      BY <2>4, Zenon DEF Swap, Current, ShiftInv, BuiltOnWhatItRead
    <3> QED
      BY <2>4, <3>1, SameOperators, ZenonT(30) DEF Swap, JudgedHere, Waiting, Board!Perform, Board!InFlight
  <2>5. CASE LosesRace(c)
    <3>1. CASE lost[c] + 1 = CasAttempts
      BY <2>5, <3>1 DEF LosesRace, Waiting, Board!Fail, Board!InFlight
    <3>2. CASE lost[c] + 1 # CasAttempts
      <4>1. answer' = answer
        BY <2>5, <3>2 DEF LosesRace, Waiting, ShiftInv, ShiftTypeOK
      <4> QED
        BY <2>5, <4>1, ZenonT(30) DEF LosesRace
    <3> QED
      BY <3>1, <3>2, ZenonT(30)
  <2> QED
    BY <1>2, <2>1, <2>2, <2>3, <2>4, <2>5, ZenonT(30) DEF Pass
<1>3. CASE WorkerPush
  <2>1. Board!WorkerWrites
    BY <1>3, SameOperators, ZenonT(30) DEF WorkerPush, Board!WorkerWrites
  <2> QED
    BY <2>1, ZenonT(30) DEF Board!BoardNext
<1>4. CASE ClockTicks
  <2>1. Board!TimePasses
    BY <1>4, ZenonT(30) DEF ClockTicks, Board!TimePasses
  <2> QED
    BY <2>1, ZenonT(30) DEF Board!BoardNext
<1>5. CASE UNCHANGED shiftVars
  BY <1>5 DEF shiftVars
<1> QED
  BY <1>1, <1>2, <1>3, <1>4, <1>5 DEF ShiftNext, Board!BoardNext

(* Whatever the clients, the workers and the retries do, commit_change_at   *)
(* acts on the board at one moment: no write is lost, and none is applied   *)
(* to a board other than the one that accepted it.                          *)
THEOREM WritesAreAlwaysAtomic == ShiftSpec => WritesAreAtomic
<1>1. ShiftInit => Board!BoardInit
  BY ZenonT(30) DEF ShiftInit, Board!BoardInit
<1> QED
  BY <1>1, ShiftStart, ShiftStep, ShiftStepSimulates, PTL
     DEF ShiftSpec, WritesAreAtomic, Board!BoardSpec

-----------------------------------------------------------------------------
(* The steps that may take a claim. *)
TakenFrom(t) ==
    /\ tree.todos[t] # Absent /\ tree'.todos[t] # tree.todos[t]
    /\ lease_live(tree.todos[t], clock)
    /\ \/ tree'.todos[t].status = "open"
       \/ tree'.todos[t].assignee \notin {tree.todos[t].assignee, NoOne}

ByForce == \E c \in Clients : answer'[c] # answer[c] /\ Forced(call[c].request)

(* A request whose action takes nothing opens nothing and gives nobody a    *)
(* todo: `takes' in todo_action leaves no such action out.                  *)
LEMMA OthersTakeNothing ==
    ASSUME NEW todo \in TodoFile, NEW r \in TodoRequests, ~Takes(r), todo.status # "open"
    PROVE  /\ Rewritten(todo, r).status # "open"
           /\ Rewritten(todo, r).assignee \in {todo.assignee, NoOne}
<1> r.action \in Actions
  BY DEF TodoRequests
<1> USE DEF Rewritten, TodoFile, Moves
<1>1. CASE r.action \in DOMAIN Moves \ {"release"}
  <2>1. Rewritten(todo, r) = Moved(todo, Moves[r.action], 0)
    BY <1>1 DEF Moved
  <2>2. Moves[r.action] \in Statuses \ {"open"}
    <3> HIDE DEF Rewritten, TodoFile, Moves
    <3> QED BY <1>1, OnlyReleaseOpens, Zenon
  <2> HIDE DEF Rewritten, TodoFile, Moves
  <2>3. /\ Moved(todo, Moves[r.action], 0).assignee = todo.assignee
        /\ Moved(todo, Moves[r.action], 0).status = Moves[r.action]
    <3>1. 0 \in Nat
      OBVIOUS
    <3> QED BY <2>2, <3>1, TodoMoved, Zenon
  <2> QED
    BY <2>1, <2>2, <2>3, Zenon
<1>2. CASE r.action = "unassign"
  BY <1>2
<1>3. CASE r.action = "rework"
  BY <1>3
<1>4. CASE r.action \in {"edit", "outcome_check", "comment", "file"}
  BY <1>4
<1> QED
  BY <1>1, <1>2, <1>3, <1>4, ZenonT(30) DEF Actions, AssignmentActions, Takes

(* No step takes a live claim without force. *)
LEMMA ShiftStepTakesByForce ==
    ShiftInv /\ [ShiftNext]_shiftVars => \A t \in Todos : TakenFrom(t) => ByForce
<1> SUFFICES ASSUME ShiftInv, [ShiftNext]_shiftVars, NEW t \in Todos, TakenFrom(t)
             PROVE  ByForce
  OBVIOUS
<1>1. tree' # tree /\ tree \in Trees
  BY ZenonT(30) DEF TakenFrom, ShiftInv, ShiftTypeOK
<1>2. ASSUME NEW c \in Clients, Swap(c)
      PROVE  ByForce
  <2> DEFINE r == call[c].request
  <2>1. /\ r \in TodoRequests /\ JudgedHere(c)
        /\ call[c].now \in Nat /\ clock \in Nat /\ call[c].now <= clock
    BY <1>2, ShiftConstants, ZenonT(30)
       DEF Swap, Current, Waiting, ShiftInv, BuiltOnWhatItRead, ShiftTypeOK, ClocksAreRead
  <2>2. tree' = TreeAfter(tree, r) /\ answer'[c] # answer[c]
    BY <1>2, <2>1 DEF Swap, JudgedHere, Waiting, ShiftInv, ShiftTypeOK
  <2>3. PICK s \in Standings : Accepts(tree, r, call[c].now, s)
    BY <2>1, ZenonT(30) DEF JudgedHere
  <2>4. r.action = "file" => tree.todos[r.id] = Absent
    BY <1>2, ZenonT(30) DEF Swap, Waiting, ShiftInv, FiledIdsAreFresh, Files
  <2> HIDE DEF r
  <2>5. t = r.id /\ r.action \notin {"file", "comment"}
    BY <1>1, <2>1, <2>2, <2>3, <2>4, TreeAfterElsewhere, Zenon DEF TakenFrom
  <2>6. ~LeaseBars(tree.todos[t], r, call[c].now)
    BY <2>3, <2>5, ZenonT(30) DEF Accepts
  <2>7. tree.todos[t] \in TodoFile
    BY <1>1, ZenonT(30) DEF TakenFrom, Trees
  <2>8. lease_live(tree.todos[t], call[c].now)
    <3>1. \A l, m, n \in Nat : l > m /\ n <= m => l > n
      OBVIOUS
    <3>2. /\ tree.todos[t].lease_until \in Nat /\ tree.todos[t].status = "claimed"
          /\ tree.todos[t].lease_until > clock
      BY <2>7, ZenonT(30) DEF TakenFrom, lease_live, TodoFile
    <3> QED
      BY <2>1, <3>1, <3>2, Zenon DEF lease_live
  <2>9. tree'.todos[t] = Rewritten(tree.todos[t], r)
    BY <1>1, <2>2, <2>5 DEF TreeAfter, Trees
  <2>10. Takes(r)
    <3>1. tree.todos[t].status # "open"
      BY Zenon DEF TakenFrom, lease_live
    <3> QED
      BY <2>1, <2>7, <2>9, <3>1, OthersTakeNothing, Zenon DEF TakenFrom
  <2>11. Forced(r)
    BY <2>6, <2>8, <2>10 DEF LeaseBars
  <2> QED
    BY <2>2, <2>11, ZenonT(30) DEF ByForce, r
<1>3. CASE WorkerPush
  <2>1. \E x \in Todos : WorkerWrote(tree, tree', x)
    BY <1>3, WorkerWrites, ShiftConstants, ZenonT(30) DEF WorkerPush, ShiftInv, ShiftTypeOK
  <2>2. PICK x \in Todos : WorkerWrote(tree, tree', x)
    BY <2>1
  <2> QED
    BY <1>1, <2>2, ZenonT(30) DEF WorkerWrote, TakenFrom, Trees
<1>4. ASSUME NEW c \in Clients, Pass(c)
      PROVE  ByForce
  BY <1>1, <1>2, <1>4, Zenon DEF Pass, Build, Reject, GitFails, LosesRace, SwapFails
<1> QED
  BY <1>1, <1>3, <1>4, Zenon DEF ShiftNext, Arrive, ClockTicks, shiftVars

(* A todo with a live lease is reopened or given to a person by a forced    *)
(* request only, for any delay between a request's check and its swap.      *)
THEOREM LiveClaimIsAlwaysTakenByForce == ShiftSpec => LiveClaimIsTakenByForce
<1>1. ShiftInv /\ [ShiftNext]_shiftVars =>
        [\A t \in Todos :
            LET was == tree.todos[t]
                is == tree'.todos[t]
            IN  (/\ was # Absent /\ is # was
                 /\ lease_live(was, clock)
                 /\ is.status = "open" \/ is.assignee \notin {was.assignee, NoOne}) =>
                   \E c \in Clients : answer'[c] # answer[c] /\ Forced(call[c].request)]_shiftVars
  BY ShiftStepTakesByForce, Zenon DEF TakenFrom, ByForce
<1> QED
  BY <1>1, ShiftStart, ShiftStep, PTL DEF ShiftSpec, LiveClaimIsTakenByForce

-----------------------------------------------------------------------------
(***************************************************************************)
(* The mirror.  Every push is a fast-forward or is refused, so no belief   *)
(* of a pass about GitHub is needed: only that what is pushed is a commit. *)
(***************************************************************************)
MirrorInv ==
    /\ forge \in Nat
    /\ github \in Tips \cup {NoTip}
    /\ githubTags = [t \in Tags |-> githubTags[t]]
    /\ pushing \in [1..MaxMerges -> Nat \cup {NoPush, Due}]
    /\ pass = [p \in Passes |-> pass[p]]
    /\ \A p \in Passes : pass[p] # NoPass => "head" \in DOMAIN pass[p] /\ pass[p].head \in Nat

NoRewind ==
    /\ github # NoTip => github' # NoTip /\ is_ancestor(github, github')
    /\ \A t \in Tags : githubTags[t] # NoTag => githubTags'[t] = githubTags[t]

(* The passes stay passes over a commit of the forge. *)
PassesTyped ==
    /\ pass' = [p \in Passes |-> pass'[p]]
    /\ \A p \in Passes : pass'[p] # NoPass => "head" \in DOMAIN pass'[p] /\ pass'[p].head \in Nat

(* A push that is not forced. *)
LEMMA PushIsForward ==
    ASSUME MirrorInv, NEW n \in Nat, FastForward(OurTip(n)), github' = OurTip(n)
    PROVE  /\ github' \in Tips
           /\ github # NoTip => github' # NoTip /\ is_ancestor(github, github')
BY MirrorConstants DEF MirrorInv, FastForward, OurTip, Tips

(* Nothing happens to the branch. *)
LEMMA BranchStays ==
    ASSUME MirrorInv, github' = github
    PROVE  /\ github' \in Tips \cup {NoTip}
           /\ github # NoTip => github' # NoTip /\ is_ancestor(github, github')
BY DEF MirrorInv, is_ancestor, Tips

(* One pass goes on, starts or ends. *)
LEMMA OnePass ==
    ASSUME MirrorInv, NEW p \in Passes, NEW r, pass' = [pass EXCEPT ![p] = r],
           r # NoPass => "head" \in DOMAIN r /\ r.head \in Nat
    PROVE  PassesTyped
BY ZenonT(30) DEF MirrorInv, PassesTyped

(* At the start GitHub has nothing of the branch and no tag. *)
LEMMA MirrorStart == MirrorInit => MirrorInv
BY DEF MirrorInit, MirrorInv, NoTags

(* Every step of the mirror keeps the invariant and rewinds nothing. *)
LEMMA MirrorStep ==
    ASSUME MirrorInv,
           MirrorNext \/ Merge \/ MirrorRestart \/ CallFails \/ UNCHANGED mirrorVars
    PROVE  MirrorInv' /\ NoRewind
<1> USE DEF MirrorInv
<1>1. CASE Merge
  <2>1. UNCHANGED <<github, githubTags, pass>>
    BY <1>1, ZenonT(30) DEF Merge
  <2>2. forge' \in Nat
    BY <1>1 DEF Merge
  <2>3. pushing' \in [1..MaxMerges -> Nat \cup {NoPush, Due}]
    <3>1. \A k \in 1..MaxMerges : pushing'[k] \in {pushing[k], Due}
      BY <1>1 DEF Merge
    <3>2. pushing' = [k \in 1..MaxMerges |-> pushing'[k]]
      BY <1>1, Zenon DEF Merge
    <3> QED
      BY <3>1, <3>2, ZenonT(30)
  <2> QED
    BY <2>1, <2>2, <2>3, BranchStays, ZenonT(30) DEF NoRewind
<1>2. CASE MirrorRestart
  <2>1. UNCHANGED <<forge, github, githubTags>>
    BY <1>2, ZenonT(30) DEF MirrorRestart
  <2>2. PassesTyped /\ pushing' \in [1..MaxMerges -> Nat \cup {NoPush, Due}]
    BY <1>2, ZenonT(30) DEF MirrorRestart, PassesTyped
  <2> QED
    BY <2>1, <2>2, BranchStays, ZenonT(30) DEF PassesTyped, NoRewind
<1>3. CASE CallFails \/ UNCHANGED mirrorVars
  <2>1. UNCHANGED <<forge, github, githubTags, pushing, pass>>
    BY <1>3, ZenonT(30) DEF CallFails, mirrorVars
  <2> QED
    BY <2>1, BranchStays, ZenonT(30) DEF NoRewind
<1>4. ASSUME NEW k \in 1..MaxMerges, ResolveTip(k) \/ PushBranch(k)
      PROVE  MirrorInv' /\ NoRewind
  <2>1. CASE ResolveTip(k)
    BY <2>1, BranchStays, ZenonT(30) DEF ResolveTip, NoRewind
  <2>2. CASE PushBranch(k)
    <3>1. pushing[k] \in Nat
      BY <2>2, ZenonT(30) DEF PushBranch
    <3>2. CASE github' = github
      BY <2>2, <3>2, BranchStays, ZenonT(30) DEF PushBranch, NoRewind
    <3>3. CASE FastForward(OurTip(pushing[k])) /\ github' = OurTip(pushing[k])
      BY <2>2, <3>1, <3>3, PushIsForward, ZenonT(30) DEF PushBranch, NoRewind
    <3> QED
      BY <2>2, <3>2, <3>3, ZenonT(30) DEF PushBranch
  <2> QED
    BY <1>4, <2>1, <2>2, ZenonT(30)
<1>5. ASSUME NEW p \in Passes, ReadRefs(p)
      PROVE  MirrorInv' /\ NoRewind
  <2>1. UNCHANGED <<forge, github, githubTags, pushing>>
    BY <1>5 DEF ReadRefs
  <2>2. PassesTyped
    <3> DEFINE old == pass[p]
    <3>1. "head" \in DOMAIN old /\ old.head \in Nat
      BY <1>5, ZenonT(30) DEF ReadRefs, At
    <3>2. CASE pass' = [pass EXCEPT !["reconcile"] = NoPass]
      BY <3>2, OnePass, ZenonT(30) DEF Passes
    <3>3. CASE pass' = [pass EXCEPT ![p] =
                   [@ EXCEPT !.at = "tags", !.tip = IF p = "reconcile" THEN github ELSE NoTip,
                             !.left = {}]]
      <4> DEFINE r == [old EXCEPT !.at = "tags",
                             !.tip = IF p = "reconcile" THEN github ELSE NoTip, !.left = {}]
      <4>1. "head" \in DOMAIN r /\ r.head \in Nat
        BY <3>1
      <4>2. pass' = [pass EXCEPT ![p] = r]
        BY <3>3
      <4> HIDE DEF r
      <4> QED
        BY <4>1, <4>2, OnePass
    <3>4. CASE pass' = [pass EXCEPT ![p] =
                   [@ EXCEPT !.at = "tags", !.tip = IF p = "reconcile" THEN github ELSE NoTip,
                             !.remote = githubTags, !.local = forgeTags]]
      <4> DEFINE r == [old EXCEPT !.at = "tags",
                             !.tip = IF p = "reconcile" THEN github ELSE NoTip,
                             !.remote = githubTags, !.local = forgeTags]
      <4>1. "head" \in DOMAIN r /\ r.head \in Nat
        BY <3>1
      <4>2. pass' = [pass EXCEPT ![p] = r]
        BY <3>4, ZenonT(30)
      <4> HIDE DEF r
      <4> QED
        BY <4>1, <4>2, OnePass
    <3> QED
      BY <1>5, <3>2, <3>3, <3>4 DEF ReadRefs, Found
  <2> QED
    BY <2>1, <2>2, BranchStays DEF PassesTyped, NoRewind
<1>6. ASSUME NEW p \in Passes, NEW t \in Tags, TagStep(p, t)
      PROVE  MirrorInv' /\ NoRewind
  <2>1. UNCHANGED <<forge, github, pushing>>
    BY <1>6 DEF TagStep
  <2>2. PassesTyped
    <3>1. "head" \in DOMAIN pass[p] /\ pass[p].head \in Nat
      BY <1>6 DEF TagStep, At
    <3>2. \A r \in {Compared(p, t), Drifted(p, t),
                     [Compared(p, t) EXCEPT !.pushed = @ \cup {t}]} :
             "head" \in DOMAIN r /\ r.head \in Nat
      BY <3>1, Zenon DEF Compared, Drifted
    <3>3. \E r \in {Compared(p, t), Drifted(p, t),
                     [Compared(p, t) EXCEPT !.pushed = @ \cup {t}]} :
             pass' = [pass EXCEPT ![p] = r]
      BY <1>6 DEF TagStep
    <3> QED
      BY <3>2, <3>3, OnePass, ZenonT(30)
  <2>3. /\ githubTags' = [x \in Tags |-> githubTags'[x]]
        /\ \A x \in Tags : githubTags[x] # NoTag => githubTags'[x] = githubTags[x]
    BY <1>6, ZenonT(30) DEF TagStep, TagIsFree
  <2> QED
    BY <2>1, <2>2, <2>3, BranchStays, ZenonT(30) DEF PassesTyped, NoRewind
<1>7. CASE ReconcileStart \/ CompareBranch \/ Alarm \/ HoldReport \/ MergeTags
  <2>1. UNCHANGED <<forge, github, githubTags, pushing>>
    BY <1>7, ZenonT(30) DEF ReconcileStart, CompareBranch, Alarm, HoldReport, MergeTags
  <2>2. PassesTyped
    <3> USE DEF PassesTyped, Passes, At, TagsCompared
    <3>1. CASE ReconcileStart
      BY <3>1, Zenon DEF ReconcileStart, NewPass
    <3>2. CASE CompareBranch
      BY <3>2 DEF CompareBranch, Found
    <3>3. CASE Alarm
      BY <3>3, Zenon DEF Alarm, Found
    <3>4. CASE HoldReport
      BY <3>4, Zenon DEF HoldReport
    <3>5. CASE MergeTags
      BY <3>5, Zenon DEF MergeTags
    <3> QED
      BY <1>7, <3>1, <3>2, <3>3, <3>4, <3>5
  <2> QED
    BY <2>1, <2>2, BranchStays DEF PassesTyped, NoRewind
<1>8. CASE CatchUp
  <2>1. UNCHANGED <<forge, githubTags, pushing>>
    BY <1>8, ZenonT(30) DEF CatchUp
  <2>2. PassesTyped /\ pass["reconcile"].head \in Nat
    BY <1>8, ZenonT(30) DEF CatchUp, Found, PassesTyped, At, Passes
  <2>3. CASE github' = github
    BY <2>1, <2>2, <2>3, BranchStays, ZenonT(30) DEF PassesTyped, NoRewind
  <2>4. CASE /\ FastForward(OurTip(pass["reconcile"].head))
             /\ github' = OurTip(pass["reconcile"].head)
    BY <2>1, <2>2, <2>4, PushIsForward, ZenonT(30) DEF PassesTyped, NoRewind
  <2> QED
    BY <1>8, <2>3, <2>4, Zenon DEF CatchUp
<1>9. ASSUME NEW t \in Tags, NEW oid \in TagOids, PushTag(t, oid) \/ OutsideTag(t, oid)
      PROVE  MirrorInv' /\ NoRewind
  <2>1. UNCHANGED <<forge, github, pushing>>
    BY <1>9, ZenonT(30) DEF PushTag, OutsideTag
  <2>2. PassesTyped
    <3>1. CASE pass' = pass
      BY <3>1 DEF PassesTyped
    <3>2. CASE pass' = [pass EXCEPT !["tags"] = NewPass(0, {t})]
      <4>1. "head" \in DOMAIN NewPass(0, {t}) /\ NewPass(0, {t}).head \in Nat
        BY ZenonT(30) DEF NewPass
      <4> QED
        BY <3>2, <4>1, OnePass, Zenon DEF Passes
    <3> QED
      BY <1>9, <3>1, <3>2, ZenonT(30) DEF PushTag, OutsideTag
  <2>3. /\ githubTags' = [x \in Tags |-> githubTags'[x]]
        /\ \A x \in Tags : githubTags[x] # NoTag => githubTags'[x] = githubTags[x]
    BY <1>9, ZenonT(30) DEF PushTag, OutsideTag
  <2> QED
    BY <2>1, <2>2, <2>3, BranchStays, ZenonT(30) DEF PassesTyped, NoRewind
<1>10. CASE OutsidePush
  <2>1. UNCHANGED <<forge, githubTags, pushing, pass>>
    BY <1>10 DEF OutsidePush
  <2>2. github \in Tips /\ github' = [github EXCEPT !.theirs = @ + 1]
    BY <1>10 DEF OutsidePush
  <2>3. github' \in Tips /\ is_ancestor(github, github')
    BY <2>2 DEF Tips, is_ancestor
  <2> QED
    BY <2>1, <2>3, MirrorConstants DEF NoRewind, Tips
<1>11. {"reconcile", "tags"} = Passes
  BY DEF Passes
<1> QED
  BY <1>1, <1>2, <1>3, <1>4, <1>5, <1>6, <1>7, <1>8, <1>9, <1>10, <1>11, ZenonT(30)
     DEF MirrorNext, PushStep, ReconcileStep, TagPushStep

(***************************************************************************)
(* Pull requests.  What GitHub has stays there, and a forge pull request   *)
(* that was merged stays merged as that commit: what was true when it was  *)
(* told stays true.                                                        *)
(***************************************************************************)
HasPull == DOMAIN forgePull = {"state", "head", "merge"} /\ forgePull.merge \in Nat

(* existing_pull found what is still there. *)
KnownIsThere ==
    /\ import = [i \in Importers |-> import[i]]
    /\ \A i \in Importers : import[i] # NoImport /\ import[i].was # 0 => HasPull

SyncInv ==
    /\ MirrorInv
    /\ forgePull # NoPull => HasPull
    /\ KnownIsThere
    /\ ToldMergedIsLanded

(* At the start nothing is imported and nobody was told anything. *)
LEMMA SyncStart == SyncInit => SyncInv
BY MirrorStart, Zenon DEF SyncInit, ImportInit, SyncInv, KnownIsThere, ToldMergedIsLanded

(* mirror_landed is right: GitHub's branch has the merge. *)
LEMMA LandedIsThere ==
    ASSUME MirrorInv, NEW k \in Nat, mirror_landed(k)
    PROVE  github # NoTip /\ github.ours >= k
BY DEF MirrorInv, mirror_landed, OurTip, is_ancestor, Tips

(* What GitHub was told stays true while the mirror moves and the forge     *)
(* pull request is not touched, or is not merged yet.                       *)
LEMMA ToldStaysTrue ==
    ASSUME SyncInv, MirrorInv', NoRewind, told' = told,
           \/ forgePull' = forgePull
           \/ forgePull = NoPull
           \/ forgePull.state # "merged"
    PROVE  ToldMergedIsLanded'
<1> SUFFICES ASSUME "merged" \in told
             PROVE  ToldMergedIsLanded'
  BY ZenonT(30) DEF ToldMergedIsLanded
<1>1. /\ forgePull # NoPull /\ forgePull.state = "merged" /\ forgePull' = forgePull
      /\ github \in Tips /\ github.ours >= forgePull.merge /\ forgePull.merge \in Nat
  BY ZenonT(30) DEF SyncInv, MirrorInv, HasPull, ToldMergedIsLanded
<1>2. github' \in Tips /\ github' # NoTip /\ is_ancestor(github, github')
  BY <1>1, MirrorConstants, ZenonT(30) DEF NoRewind, MirrorInv, Tips
<1>3. github'.ours >= github.ours
  BY <1>1, <1>2 DEF is_ancestor, Tips
<1>4. github'.ours >= forgePull.merge
  BY <1>1, <1>2, <1>3 DEF Tips
<1> QED
  BY <1>1, <1>2, <1>4 DEF ToldMergedIsLanded

(* A pass that goes on knows no pull request, or one that is there. *)
LEMMA PassKnows ==
    ASSUME KnownIsThere, HasPull => HasPull', NEW i \in Importers, NEW s, Goes(i, s),
           s # NoImport /\ s.was # 0 => HasPull'
    PROVE  KnownIsThere'
BY DEF KnownIsThere, Goes

(* Every step of mirror and importer keeps the invariant and rewinds nothing. *)
LEMMA SyncStep == SyncInv /\ [SyncNext]_syncVars => SyncInv' /\ NoRewind
<1> SUFFICES ASSUME SyncInv, [SyncNext]_syncVars PROVE SyncInv' /\ NoRewind
  OBVIOUS
<1>1. MirrorInv /\ KnownIsThere /\ (forgePull # NoPull => HasPull)
  BY DEF SyncInv
<1>2. MirrorInv' /\ NoRewind
  <2>1. MirrorNext \/ Merge \/ MirrorRestart \/ CallFails \/ UNCHANGED mirrorVars
    BY Zenon DEF SyncNext, ImportStep, ReadPull, Fetch, Carry, Mark, Post, ReportPut, SettleComment,
           NothingToSettle, SettleClose, MergeContribution, CloseContribution, MergeOther,
           GatePasses, ForcePush, CloseOnGithub, SyncRestart, syncVars
  <2> QED
    BY <1>1, <2>1, MirrorStep
<1>3. forgePull' = forgePull => (HasPull => HasPull')
  BY ZenonT(30) DEF HasPull
<1>4. /\ \A step, h : Importing(step, h).was = 0
      /\ Settling.was = 0
  BY ZenonT(30) DEF Importing, Settling
<1>5. CASE UNCHANGED <<forgePull, told>> /\ KnownIsThere'
  BY <1>1, <1>2, <1>3, <1>5, ToldStaysTrue DEF SyncInv
<1>6. ASSUME NEW i \in Importers, Fetch(i)
      PROVE  KnownIsThere'
  <2> DEFINE one == [Importing("carry", import[i].seen) EXCEPT
                       !.was = IF forgePull = NoPull THEN 0 ELSE forgePull.head]
             s == [one EXCEPT !.head = pull.head]
  <2>1. s.was # 0 => forgePull # NoPull
    BY DEF Importing
  <2>2. CASE Goes(i, Settling)
    BY <1>1, <1>3, <1>4, <1>6, <2>2, PassKnows, ZenonT(30) DEF Fetch
  <2>3. CASE Goes(i, s)
    <3> HIDE DEF s
    <3>1. forgePull' = forgePull
      BY <1>6, ZenonT(30) DEF Fetch
    <3> QED
      BY <1>1, <1>3, <2>1, <2>3, <3>1, PassKnows
  <2> QED
    BY <1>6, <2>2, <2>3 DEF Fetch
<1>7. ASSUME NEW i \in Importers,
             \/ ReadPull(i) \/ Mark(i) \/ Post(i) \/ ReportPut(i) \/ SettleComment(i)
             \/ NothingToSettle(i) \/ SettleClose(i)
      PROVE  KnownIsThere'
  <2>1. \A step, h : [Importing(step, h) EXCEPT !.failed = TRUE].was = 0
    BY DEF Importing
  <2>2. \A p, x : Putting(p).was = 0 /\ [Putting(p) EXCEPT !.kept.gate = x].was = 0
    BY ZenonT(30) DEF Putting, Importing
  <2>3. forgePull' = forgePull
    BY <1>7 DEF ReadPull, Mark, Post, ReportPut, SettleComment, NothingToSettle, SettleClose
  <2>4. \E s : Goes(i, s) /\ (s # NoImport => s.was = 0)
    <3>1. CASE Mark(i)
      <4> DEFINE one == [Importing("report", import[i].seen) EXCEPT !.line = gate[forgePull.head]]
                 s == [one EXCEPT !.kept = reported]
      <4>1. s.was = 0
        BY DEF Importing
      <4>2. Goes(i, s) \/ Goes(i, Settling)
        BY <3>1 DEF Mark
      <4> QED
        BY <1>4, <4>1, <4>2, Zenon
    <3>2. CASE Post(i)
      BY <2>2, <3>2, Zenon DEF Post
    <3> QED
      BY <1>4, <1>7, <2>1, <3>1, <3>2, Zenon
         DEF ReadPull, ReportPut, SettleComment, NothingToSettle, SettleClose
  <2> QED
    BY <1>1, <1>3, <2>3, <2>4, PassKnows
<1>8. ASSUME NEW i \in Importers, Carry(i)
      PROVE  SyncInv'
  <2>1. told' = told /\ (import[i].was # 0 => HasPull)
    BY <1>1, <1>8 DEF Carry, KnownIsThere, ImportAt
  <2>2. forgePull' # NoPull => HasPull'
    BY <1>1, <1>8, <2>1 DEF Carry, HasPull
  <2>3. HasPull => HasPull'
    BY <1>8 DEF Carry, HasPull
  <2>4. \/ forgePull' = forgePull
        \/ forgePull = NoPull
        \/ forgePull.state # "merged"
    BY <1>8 DEF Carry
  <2>5. \E s : Goes(i, s) /\ s.was = 0
    BY <1>4, <1>8 DEF Carry
  <2>6. KnownIsThere'
    BY <1>1, <2>3, <2>5, PassKnows, ZenonT(30)
  <2> QED
    BY <1>2, <2>1, <2>2, <2>4, <2>6, ToldStaysTrue DEF SyncInv
<1>9. CASE MergeContribution \/ CloseContribution
  <2>1. told' = told /\ forgePull.state # "merged" /\ forge \in Nat /\ HasPull /\ import' = import
    BY <1>1, <1>9 DEF MergeContribution, CloseContribution, MirrorInv
  <2>2. HasPull'
    <3>1. CASE CloseContribution
      BY <2>1, <3>1 DEF CloseContribution, HasPull
    <3>2. CASE MergeContribution
      <4> DEFINE one == [forgePull EXCEPT !.state = "merged"]
      <4>1. DOMAIN one = {"state", "head", "merge"}
        BY <2>1 DEF HasPull
      <4>2. forgePull' = [one EXCEPT !.merge = forge + 1]
        BY <3>2, ZenonT(30) DEF MergeContribution
      <4> HIDE DEF one
      <4> QED
        BY <2>1, <4>1, <4>2 DEF HasPull
    <3> QED
      BY <1>9, <3>1, <3>2
  <2>3. KnownIsThere'
    BY <1>1, <2>1, <2>2 DEF KnownIsThere
  <2> QED
    BY <1>2, <2>1, <2>2, <2>3, ToldStaysTrue DEF SyncInv
<1>10. ASSUME NEW i \in Importers, SettleComment(i)
       PROVE  SyncInv'
  <2>1. forgePull' = forgePull /\ KnownIsThere'
    BY <1>7, <1>10, ZenonT(30) DEF SettleComment
  <2>2. CASE told' = told
    BY <1>5, <2>1, <2>2, ZenonT(30)
  <2>3. CASE told' = told \cup {forgePull.state} /\ UNCHANGED mirrorVars
    <3>1. github' = github
      BY <2>3 DEF mirrorVars
    <3>2. /\ forgePull # NoPull
          /\ forgePull.state = "merged" => github # NoTip /\ github.ours >= forgePull.merge
      BY <1>1, <1>10, LandedIsThere, ZenonT(30) DEF SettleComment, ToSettle, HasPull
    <3>3. ToldMergedIsLanded'
      BY <2>1, <2>3, <3>1, <3>2, ZenonT(30) DEF SyncInv, ToldMergedIsLanded
    <3> QED
      BY <1>1, <1>2, <1>3, <2>1, <3>3, ZenonT(30) DEF SyncInv
  <2> QED
    BY <1>10, <2>2, <2>3 DEF SettleComment
<1>11. ASSUME NEW i \in Importers, ImportStep(i)
       PROVE  SyncInv'
  <2>1. CASE \/ ReadPull(i) \/ Fetch(i) \/ Mark(i) \/ Post(i) \/ ReportPut(i)
             \/ NothingToSettle(i) \/ SettleClose(i)
    <3>1. UNCHANGED <<forgePull, told>>
      BY <2>1, ZenonT(30) DEF ReadPull, Fetch, Mark, Post, ReportPut, NothingToSettle, SettleClose
    <3> QED
      BY <1>5, <1>6, <1>7, <2>1, <3>1, ZenonT(30)
  <2> QED
    BY <1>8, <1>10, <1>11, <2>1, ZenonT(30) DEF ImportStep
<1>12. CASE SyncRestart
  <2>1. UNCHANGED <<forgePull, told>> /\ KnownIsThere'
    BY <1>12, ZenonT(30) DEF SyncRestart, KnownIsThere
  <2> QED
    BY <1>5, <2>1
<1>13. CASE UNCHANGED <<forgePull, told, import>>
  BY <1>1, <1>5, <1>13 DEF KnownIsThere, HasPull
<1>14. SyncInv'
  BY <1>9, <1>11, <1>12, <1>13
     DEF SyncNext, importVars, MergeOther, GatePasses, ForcePush, CloseOnGithub, syncVars
<1> QED
  BY <1>2, <1>14

(* Whatever fails, restarts or is pushed from outside, the mirror takes no *)
(* commit off GitHub's branch and changes no tag there.                    *)
THEOREM MirrorNeverEverRewinds == SyncSpec => MirrorNeverRewinds
<1>1. SyncInv /\ [SyncNext]_syncVars =>
        [/\ github # NoTip => github' # NoTip /\ is_ancestor(github, github')
         /\ \A t \in Tags : githubTags[t] # NoTag => githubTags'[t] = githubTags[t]]_mirrorVars
  BY SyncStep DEF NoRewind
<1>2. SyncInv /\ [SyncNext]_syncVars => SyncInv'
  BY SyncStep
<1> QED
  BY <1>1, <1>2, SyncStart, PTL DEF SyncSpec, MirrorNeverRewinds

(* Nobody is told on GitHub of a merge that GitHub does not have.          *)
THEOREM ToldMergedHasLanded == SyncSpec => []ToldMergedIsLanded
<1>1. SyncInv /\ [SyncNext]_syncVars => SyncInv'
  BY SyncStep
<1> QED
  BY <1>1, SyncStart, PTL DEF SyncSpec, SyncInv
=============================================================================
