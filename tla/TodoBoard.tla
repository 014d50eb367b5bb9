------------------------------ MODULE TodoBoard ------------------------------
(***************************************************************************)
(* What the shift queue promises: the board is one tree, and every request *)
(* takes effect on it at one moment between its arrival and its answer, or *)
(* leaves it alone.  Refused means that the board of that moment refuses   *)
(* the request; no write is lost and none is applied to a board that has   *)
(* changed since it was judged.                                            *)
(***************************************************************************)
EXTENDS TodoActions

CONSTANTS
    Clients,        \* the requests in flight, one per client
    TodoAsks,       \* what the clients may ask
    NoCall,         \* a client that has not called yet
    LeaseLength,    \* a worker's lease, in units of time
    FirstTree       \* the board at the start

VARIABLES board, clock, call, answer

boardVars == <<board, clock, call, answer>>

Answers == {"none", "ok", "refused", "failed"}

InFlight(c) == call[c] # NoCall /\ answer[c] = "none"

BoardInit ==
    /\ board = FirstTree
    /\ clock = 0
    /\ call = [c \in Clients |-> NoCall]
    /\ answer = [c \in Clients |-> "none"]

Call(c) ==
    \E r \in TodoAsks :
        /\ call[c] = NoCall /\ MayAttempt(r)
        /\ call' = [call EXCEPT ![c] = [request |-> r, now |-> clock]]
        /\ UNCHANGED <<board, clock, answer>>

Perform(c) ==
    /\ InFlight(c)
    /\ \E s \in Standings : Accepts(board, call[c].request, call[c].now, s)
    /\ board' = TreeAfter(board, call[c].request)
    /\ answer' = [answer EXCEPT ![c] = "ok"]
    /\ UNCHANGED <<clock, call>>

Refuse(c) ==
    /\ InFlight(c)
    /\ \E s \in Standings : ~Accepts(board, call[c].request, call[c].now, s)
    /\ answer' = [answer EXCEPT ![c] = "refused"]
    /\ UNCHANGED <<board, clock, call>>

Fail(c) ==
    /\ InFlight(c)
    /\ answer' = [answer EXCEPT ![c] = "failed"]
    /\ UNCHANGED <<board, clock, call>>

WorkerWrites ==
    /\ board' \in WorkerClaims(board, clock, LeaseLength) \cup WorkerEnds(board, clock)
    /\ UNCHANGED <<clock, call, answer>>

TimePasses ==
    /\ clock' = clock + 1
    /\ UNCHANGED <<board, call, answer>>

BoardNext ==
    \/ \E c \in Clients : Call(c) \/ Perform(c) \/ Refuse(c) \/ Fail(c)
    \/ WorkerWrites
    \/ TimePasses

BoardSpec == BoardInit /\ [][BoardNext]_boardVars
=============================================================================
