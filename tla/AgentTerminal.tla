---------------------------- MODULE AgentTerminal ----------------------------
(***************************************************************************)
(* The live terminal of one agent run (web/agent_runs.rs,                  *)
(* agent_runs/store.rs, agent_runs/attach.rs): the driver publishes events *)
(* into a bounded ring and a bounded broadcast, attached clients replay    *)
(* the ring and follow the broadcast, and one of them at a time drives the *)
(* terminal.  Every call of the store takes its lock once; a session's     *)
(* task makes several calls and awaits its socket between them.            *)
(*                                                                         *)
(* An event is its number: append_event numbers them 1, 2, ...  The ring   *)
(* holds the last TTY_RING_CAP of them and the broadcast the last          *)
(* TTY_BROADCAST_CAP.                                                      *)
(***************************************************************************)
EXTENDS Naturals

CONSTANTS
    Viewers,                \* attach sessions (each a socket)
    NoViewer,               \* nobody holds control
    TTY_RING_CAP, TTY_BROADCAST_CAP,
    MAX_VIEWERS_PER_RUN,
    Cursors,                \* the after_seq of the clients
    MaxEvents,              \* bound: events published
    MaxTakes                \* bound: how often control is taken

ASSUME TerminalConstants ==
    /\ TTY_RING_CAP \in Nat \ {0} /\ TTY_BROADCAST_CAP \in Nat \ {0}
    /\ MAX_VIEWERS_PER_RUN \in Nat \ {0}
    /\ Cursors \subseteq Nat /\ MaxEvents \in Nat /\ MaxTakes \in Nat
    /\ NoViewer \notin Viewers

VARIABLES
    running,    \* AgentRunState::Running
    published,  \* the number of the last event
    lease,      \* control_lease: holder, epoch
    viewers,    \* control_lease.viewers
    session,    \* by viewer: its attach session
    driven      \* epoch of the last input an attached client had delivered

terminalVars == <<running, published, lease, viewers, session, driven>>

Stages == {"new", "counted", "steering", "replaying", "live", "typing", "draining", "closed"}

(* A session: what its client has (cursor), where its receiver stands (rx), *)
(* the end of its replay, its epoch of control (0: none), and whether the   *)
(* client was told to resync since its last event.                          *)
Sessions == [stage : Stages, cursor : Nat, rx : Nat, until : Nat, epoch : Nat, told : BOOLEAN]

Session(stage) ==
    [stage |-> stage, cursor |-> 0, rx |-> 0, until |-> 0, epoch |-> 0, told |-> FALSE]

TerminalInit ==
    /\ running = TRUE
    /\ published = 0
    /\ lease = [holder |-> NoViewer, epoch |-> 0]
    /\ viewers = 0
    /\ session = [v \in Viewers |-> Session("new")]
    /\ driven = 0

Stage(v) == session[v].stage

(* TtyRing: the oldest retained event (0 while empty), and lagged. *)
OldestRetained ==
    IF published = 0 THEN 0
    ELSE IF published > TTY_RING_CAP THEN published - TTY_RING_CAP + 1 ELSE 1

Lagged(after) == after + 1 < OldestRetained

(* append_event: the ring and the broadcast get the event under one lock.  *)
Publish ==
    /\ running /\ published < MaxEvents
    /\ published' = published + 1
    /\ UNCHANGED <<running, lease, viewers, session, driven>>

(* complete; a run that is exported later is not running either. *)
Complete ==
    /\ running
    /\ running' = FALSE
    /\ UNCHANGED <<published, lease, viewers, session, driven>>

(* A full run answers with an error and closes; nothing was counted. *)
AttachViewer(v) ==
    /\ Stage(v) = "new"
    /\ IF viewers < MAX_VIEWERS_PER_RUN
       THEN /\ viewers' = viewers + 1
            /\ session' = [session EXCEPT ![v].stage = "counted"]
       ELSE /\ session' = [session EXCEPT ![v] = Session("closed")]
            /\ UNCHANGED viewers
    /\ UNCHANGED <<running, published, lease, driven>>

(* take_control: a new epoch, unless the run has finished. *)
TakeControl(v, stage) ==
    /\ IF running
       THEN /\ lease.epoch < MaxTakes
            /\ lease' = [holder |-> v, epoch |-> lease.epoch + 1]
            /\ session' = [session EXCEPT ![v].stage = stage, ![v].epoch = lease.epoch + 1]
       ELSE /\ session' = [session EXCEPT ![v].stage = stage, ![v].epoch = 0]
            /\ UNCHANGED lease
    /\ UNCHANGED <<running, published, viewers, driven>>

AttachWithControl(v) == Stage(v) = "counted" /\ TakeControl(v, "steering")

TakeControlFrame(v) == Stage(v) = "live" /\ TakeControl(v, "live")

(* tty_stream_start: the receiver and the replay are cut at one moment.    *)
StreamStart(v, after) ==
    /\ Stage(v) \in {"counted", "steering"}
    /\ session' = [session EXCEPT ![v] =
          [@ EXCEPT !.stage = "replaying", !.cursor = after, !.rx = published,
                    !.until = IF after < published THEN published ELSE after,
                    !.told = Lagged(after)]]
    /\ UNCHANGED <<running, published, lease, viewers, driven>>

(* The next event of the replay: the first retained one past the cursor    *)
(* that the snapshot holds.                                                *)
ReplayNext(v) ==
    IF session[v].cursor + TTY_RING_CAP < session[v].until
    THEN session[v].until - TTY_RING_CAP + 1
    ELSE session[v].cursor + 1

ReplayEvent(v) ==
    /\ Stage(v) = "replaying" /\ session[v].cursor < session[v].until
    /\ session' = [session EXCEPT ![v].cursor = ReplayNext(v), ![v].told = FALSE]
    /\ UNCHANGED <<running, published, lease, viewers, driven>>

ReplayDone(v) ==
    /\ Stage(v) = "replaying" /\ session[v].cursor = session[v].until
    /\ session' = [session EXCEPT ![v].stage = "live"]
    /\ UNCHANGED <<running, published, lease, viewers, driven>>

(***************************************************************************)
(* External (tokio broadcast): a receiver more than the channel's capacity *)
(* behind is told so once and goes on at the oldest event the channel has. *)
(***************************************************************************)
Overflown(v) == published - session[v].rx > TTY_BROADCAST_CAP

Pending(v) == session[v].rx < published

(* The client gets the receiver's next event, unless it has it already.    *)
Received(s) ==
    LET e == s.rx + 1 IN
    IF e > s.cursor THEN [s EXCEPT !.rx = e, !.cursor = e, !.told = FALSE] ELSE [s EXCEPT !.rx = e]

LiveEvent(v) ==
    /\ Stage(v) = "live" /\ Pending(v) /\ ~Overflown(v)
    /\ session' = [session EXCEPT ![v] = Received(@)]
    /\ UNCHANGED <<running, published, lease, viewers, driven>>

MutantSkipped(s) == [s EXCEPT !.rx = published - TTY_BROADCAST_CAP]

Skipped(s) == [s EXCEPT !.rx = published - TTY_BROADCAST_CAP, !.told = TRUE]

(* RecvError::Lagged: the client is sent a resync marker. *)
LiveLagged(v) ==
    /\ Stage(v) = "live" /\ Pending(v) /\ Overflown(v)
    /\ session' = [session EXCEPT ![v] = Skipped(@)]
    /\ UNCHANGED <<running, published, lease, viewers, driven>>

HoldsControl(v) == lease.holder = v /\ lease.epoch = session[v].epoch

(* tick, first half: a displaced controller is told control_lost. *)
TickLease(v) ==
    /\ Stage(v) = "live" /\ session[v].epoch # 0 /\ ~HoldsControl(v)
    /\ session' = [session EXCEPT ![v].epoch = 0]
    /\ UNCHANGED <<running, published, lease, viewers, driven>>

(* tick, second half: a finished run is drained and said to have ended.    *)
TickEnded(v) ==
    /\ Stage(v) = "live" /\ ~running
    /\ session' = [session EXCEPT ![v].stage = "draining"]
    /\ UNCHANGED <<running, published, lease, viewers, driven>>

DrainEvent(v) ==
    /\ Stage(v) = "draining" /\ Pending(v) /\ ~Overflown(v)
    /\ session' = [session EXCEPT ![v] = Received(@)]
    /\ UNCHANGED <<running, published, lease, viewers, driven>>

MutantSlotsAfter(v) == IF Stage(v) = "draining" THEN viewers ELSE viewers - 1

(* detach_viewer: a session that was counted gives its slot back. *)
SlotsAfter(v) == viewers - 1

(* release_control: only the lease this session still holds. *)
LeaseWithout(v) ==
    IF session[v].epoch # 0 /\ HoldsControl(v) THEN [lease EXCEPT !.holder = NoViewer] ELSE lease

(* finish: release control, give the slot back. *)
EndSession(v) ==
    /\ lease' = LeaseWithout(v)
    /\ viewers' = SlotsAfter(v)
    /\ session' = [session EXCEPT ![v] = Session("closed")]
    /\ UNCHANGED <<running, published, driven>>

(* The drain stops at an empty channel and at an overflow alike. *)
DrainDone(v) ==
    /\ Stage(v) = "draining" /\ (Pending(v) => Overflown(v))
    /\ EndSession(v)

(* The client closes or does not read for five seconds. *)
Disconnect(v) ==
    /\ Stage(v) \in {"counted", "steering", "replaying", "live", "draining"}
    /\ EndSession(v)

ReleaseControl(v) ==
    /\ Stage(v) = "live"
    /\ lease' = LeaseWithout(v)
    /\ session' = [session EXCEPT ![v].epoch = 0]
    /\ UNCHANGED <<running, published, viewers, driven>>

(* control: holds_control and run_state first ... *)
InputCheck(v) ==
    /\ Stage(v) = "live" /\ session[v].epoch # 0 /\ HoldsControl(v) /\ running
    /\ session' = [session EXCEPT ![v].stage = "typing"]
    /\ UNCHANGED <<running, published, lease, viewers, driven>>

MutantMayDrive(v) == running

(* ... and send_control_by once more, under the lock that delivers. *)
MayDrive(v) == running /\ HoldsControl(v)

InputSend(v) ==
    /\ Stage(v) = "typing"
    /\ driven' = IF MayDrive(v) THEN session[v].epoch ELSE driven
    /\ session' = [session EXCEPT ![v].stage = "live"]
    /\ UNCHANGED <<running, published, lease, viewers>>

SessionStep(v) ==
    \/ AttachWithControl(v) \/ (\E after \in Cursors : StreamStart(v, after))
    \/ ReplayEvent(v) \/ ReplayDone(v) \/ LiveEvent(v) \/ LiveLagged(v)
    \/ TickLease(v) \/ TickEnded(v) \/ DrainEvent(v) \/ DrainDone(v) \/ InputSend(v)

ClientStep(v) ==
    \/ AttachViewer(v) \/ TakeControlFrame(v) \/ ReleaseControl(v) \/ InputCheck(v) \/ Disconnect(v)

TerminalNext ==
    \/ Publish \/ Complete
    \/ \E v \in Viewers : SessionStep(v) \/ ClientStep(v)

TerminalSpec == TerminalInit /\ [][TerminalNext]_terminalVars

(* A session's task runs, its tick among its steps, and the run ends.      *)
TerminalFairness ==
    /\ WF_terminalVars(Complete)
    /\ \A v \in Viewers : WF_terminalVars(SessionStep(v))

-----------------------------------------------------------------------------
TerminalTypeOK ==
    /\ running \in BOOLEAN /\ published \in 0..MaxEvents
    /\ lease \in [holder : Viewers \cup {NoViewer}, epoch : 0..MaxTakes]
    /\ viewers \in 0..MAX_VIEWERS_PER_RUN
    /\ session \in [Viewers -> Sessions]
    /\ driven \in 0..MaxTakes

Following(v) == Stage(v) \in {"replaying", "live", "typing", "draining"}

(* "no event slips between the replay snapshot and the live feed": a       *)
(* client's events come in order, once each, and an event is missing only  *)
(* where a resync marker said so before the next one.                      *)
NoSilentGap ==
    [][\A v \in Viewers :
          (Following(v) /\ Following(v)' /\ session'[v].cursor # session[v].cursor) =>
              \/ session'[v].cursor = session[v].cursor + 1
              \/ session'[v].cursor > session[v].cursor /\ session[v].told]_terminalVars

(* "a displaced controller cannot slip one in": what an attached client    *)
(* has delivered comes from the session that holds control at that moment, *)
(* although it checked before and the lease may have moved meanwhile.      *)
InputIsTheControllers ==
    [][driven' # driven =>
          \E v \in Viewers :
              lease.holder = v /\ lease.epoch = driven' /\ Stage(v) = "typing"]_terminalVars

(* Whatever way the sessions end, every slot is given back: a finished run *)
(* ends up with nobody counted, and never refuses a client for a socket    *)
(* that is gone.                                                           *)
SlotsAreReturned == []<>(running \/ viewers = 0)
=============================================================================
