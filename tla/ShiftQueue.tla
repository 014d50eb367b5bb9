----------------------------- MODULE ShiftQueue -----------------------------
(***************************************************************************)
(* The shift queue's writes (web/shift/queue.rs, commit_change_at): a      *)
(* request reads the head of refs/heads/queue, judges and builds its       *)
(* commit on it, and moves the ref with a compare-and-swap, again from the *)
(* new head when it lost the race.  Other requests, the workers' pushes    *)
(* and the clock run between its steps.                                    *)
(*                                                                         *)
(* A commit is a number, the place of its push on the branch; `tree` is    *)
(* the tree of the head.  A request's clock is read once, before the loop. *)
(***************************************************************************)
EXTENDS TodoActions

CONSTANTS
    Clients, NoCall, LeaseLength, FirstTree,
    TodoAsks,       \* what the clients may ask
    NoCommit,       \* a client that has built no commit
    CasAttempts,    \* CAS_ATTEMPTS
    MaxPushes,      \* bound: writes of workers
    MaxTime         \* bound: the clock

ASSUME ShiftConstants ==
    /\ TodoAsks \subseteq TodoRequests
    /\ FirstTree \in Trees
    /\ \A t \in Todos : t \notin Below(FirstTree.todos, ReworksOf(FirstTree.todos, t))
    /\ CasAttempts \in Nat \ {0}
    /\ LeaseLength \in Nat \ {0}
    /\ MaxPushes \in Nat
    /\ MaxTime \in Nat

VARIABLES
    head,       \* the commit refs/heads/queue names
    tree,       \* its tree
    clock,
    call,       \* by client: its request and the clock when it arrived
    answer,     \* by client: what it was told
    built,      \* by client: the head it read and the tree it built on it
    lost,       \* by client: passes of the loop that lost their race
    pushes      \* worker pushes so far

shiftVars == <<head, tree, clock, call, answer, built, lost, pushes>>

Board == INSTANCE TodoBoard WITH board <- tree

ShiftInit ==
    /\ head = 0
    /\ tree = FirstTree
    /\ clock = 0
    /\ call = [c \in Clients |-> NoCall]
    /\ answer = [c \in Clients |-> "none"]
    /\ built = [c \in Clients |-> NoCommit]
    /\ lost = [c \in Clients |-> 0]
    /\ pushes = 0

Waiting(c) == call[c] # NoCall /\ answer[c] = "none"

(* new_id: a filed todo gets an id that no todo and no other request has.  *)
FreshId(r) ==
    r.action = "file" =>
        /\ tree.todos[r.id] = Absent
        /\ \A d \in Clients : call[d] # NoCall => call[d].request.id # r.id

(* A request passes the checks that need no todo. *)
Arrive(c, r) ==
    /\ call[c] = NoCall
    /\ MayAttempt(r)
    /\ FreshId(r)
    /\ call' = [call EXCEPT ![c] = [request |-> r, now |-> clock]]
    /\ UNCHANGED <<head, tree, clock, answer, built, lost, pushes>>

(***************************************************************************)
(* One pass up to the swap: resolve the head, read its todos, judge the    *)
(* request and build a commit.  A refusal ends the loop.  All of it is     *)
(* read from one immutable commit, so it happens when the head is read.    *)
(***************************************************************************)
Build(c) ==
    /\ Waiting(c) /\ built[c] = NoCommit
    /\ \E s \in Standings : Accepts(tree, call[c].request, call[c].now, s)
    /\ built' = [built EXCEPT ![c] = [old |-> head, tree |-> TreeAfter(tree, call[c].request)]]
    /\ UNCHANGED <<head, tree, clock, call, answer, lost, pushes>>

Reject(c) ==
    /\ Waiting(c) /\ built[c] = NoCommit
    /\ \E s \in Standings : ~Accepts(tree, call[c].request, call[c].now, s)
    /\ answer' = [answer EXCEPT ![c] = "refused"]
    /\ UNCHANGED <<head, tree, clock, call, built, lost, pushes>>

(* git cannot read the branch or write the objects. *)
GitFails(c) ==
    /\ Waiting(c) /\ built[c] = NoCommit
    /\ answer' = [answer EXCEPT ![c] = "failed"]
    /\ UNCHANGED <<head, tree, clock, call, built, lost, pushes>>

MutantCurrent(c) == TRUE

(* The ref still names what the request read (update_ref's `old`). *)
Current(c) == head = built[c].old

(* update_ref moves the ref. *)
Swap(c) ==
    /\ Waiting(c) /\ built[c] # NoCommit
    /\ Current(c)
    /\ head' = head + 1
    /\ tree' = built[c].tree
    /\ answer' = [answer EXCEPT ![c] = "ok"]
    /\ built' = [built EXCEPT ![c] = NoCommit]
    /\ UNCHANGED <<clock, call, lost, pushes>>

(* update_ref fails on a moved ref: another pass, or none is left. *)
LosesRace(c) ==
    /\ Waiting(c) /\ built[c] # NoCommit
    /\ head # built[c].old
    /\ built' = [built EXCEPT ![c] = NoCommit]
    /\ lost' = [lost EXCEPT ![c] = @ + 1]
    /\ answer' = [answer EXCEPT ![c] = IF lost[c] + 1 = CasAttempts THEN "failed" ELSE "none"]
    /\ UNCHANGED <<head, tree, clock, call, pushes>>

MutantSwapFails(c) ==
    /\ Waiting(c) /\ built[c] # NoCommit
    /\ head = built[c].old
    /\ built' = [built EXCEPT ![c] = NoCommit]
    /\ UNCHANGED <<head, tree, clock, call, answer, lost, pushes>>

(* update_ref fails and the ref is where it was: no retry would help. *)
SwapFails(c) ==
    /\ Waiting(c) /\ built[c] # NoCommit
    /\ head = built[c].old
    /\ built' = [built EXCEPT ![c] = NoCommit]
    /\ answer' = [answer EXCEPT ![c] = "failed"]
    /\ UNCHANGED <<head, tree, clock, call, lost, pushes>>

WorkerPush ==
    /\ pushes < MaxPushes
    /\ tree' \in WorkerClaims(tree, clock, LeaseLength) \cup WorkerEnds(tree, clock)
    /\ head' = head + 1
    /\ pushes' = pushes + 1
    /\ UNCHANGED <<clock, call, answer, built, lost>>

ClockTicks ==
    /\ clock < MaxTime
    /\ clock' = clock + 1
    /\ UNCHANGED <<head, tree, call, answer, built, lost, pushes>>

Pass(c) == Build(c) \/ Reject(c) \/ GitFails(c) \/ Swap(c) \/ LosesRace(c) \/ SwapFails(c)

ShiftNext ==
    \/ \E c \in Clients, r \in TodoAsks : Arrive(c, r)
    \/ \E c \in Clients : Pass(c)
    \/ WorkerPush
    \/ ClockTicks

ShiftSpec == ShiftInit /\ [][ShiftNext]_shiftVars

(* The server finishes the requests it serves.  Nothing is asked of the    *)
(* clients, the workers or the winner of a race.                           *)
ShiftFairness == \A c \in Clients : WF_shiftVars(Pass(c))

-----------------------------------------------------------------------------
ShiftTypeOK ==
    /\ head \in Nat /\ clock \in Nat /\ pushes \in 0..MaxPushes
    /\ tree \in Trees
    /\ call \in [Clients -> [request : TodoAsks, now : Nat] \cup {NoCall}]
    /\ answer \in [Clients -> {"none", "ok", "refused", "failed"}]
    /\ built \in [Clients -> [old : Nat, tree : Trees] \cup {NoCommit}]
    /\ lost \in [Clients -> 0..CasAttempts]

(* Requests that read, judge and swap in separate steps, beside workers    *)
(* who push, act on the board as if each acted at one moment: no update is *)
(* lost, and an accepted one was accepted by the board it changed.         *)
WritesAreAtomic == Board!BoardSpec

(* "reworks must not form a cycle": although each edit is checked against  *)
(* a snapshot and two of them may race, no todo ever reworks itself        *)
(* through others.                                                         *)
ReworksEnd == \A t \in Todos : t \notin Below(tree.todos, ReworksOf(tree.todos, t))

(* "Only an administrator may take work back from a live worker": a todo   *)
(* whose lease is live now is not reopened and not given to a person,      *)
(* unless by a forced request, however late the request's swap comes after *)
(* its check and although it judges with the clock of its arrival.         *)
LiveClaimIsTakenByForce ==
    [][\A t \in Todos :
          LET was == tree.todos[t]
              is == tree'.todos[t]
          IN  (/\ was # Absent /\ is # was
               /\ lease_live(was, clock)
               /\ is.status = "open" \/ is.assignee \notin {was.assignee, NoOne}) =>
                 \E c \in Clients : answer'[c] # answer[c] /\ Forced(call[c].request)]_shiftVars

(* The retry loop is bounded and every way out of it answers: a request    *)
(* that the server took is answered, whoever else writes the branch.       *)
RequestIsAnswered == \A c \in Clients : []<>(~Waiting(c))
=============================================================================
