----------------------------- MODULE MCServices -----------------------------
(***************************************************************************)
(* Instances of the services beside the merge queue, for TLC.  They share  *)
(* no state, so one run checks them one after the other: `part' says which *)
(* of them acts, and the others stay in their initial states.              *)
(***************************************************************************)
EXTENDS GateClaims, ShiftQueue, ReleaseActions, AgentTerminal, PullImport

CONSTANTS r1, r2, h1, hostA, q1, q2, t1, t2, t3, root, ada, old, new, c1, c2, c3

VARIABLE part

-----------------------------------------------------------------------------
(* Leases: no repository requires a capability, so no beat matters. *)
NoPolicy == {{}}

NoBeats == {}

(***************************************************************************)
(* The shift queue: a claimed todo whose lease ends at time 1, a blocked   *)
(* one, and an id that is not filed yet.                                   *)
(***************************************************************************)
Admin == [login |-> root, admin |-> TRUE, person |-> TRUE]

Person == [login |-> ada, admin |-> FALSE, person |-> TRUE]

Bot == [login |-> ada, admin |-> FALSE, person |-> FALSE]

TwoTodos ==
    [todos |-> [t \in Todos |-> IF t = t3 THEN Absent ELSE
        [status |-> IF t = t1 THEN "claimed" ELSE "blocked",
         lease_until |-> IF t = t1 THEN 1 ELSE 0, assignee |-> NoOne,
         requested_by |-> ada, reworks |-> {}, text |-> old]],
     threads |-> [t \in Todos |-> <<>>]]

Wants(caller, action, id) ==
    [action |-> action, id |-> id, caller |-> caller, force |-> FALSE,
     target |-> ada, reworks |-> {}, text |-> new]

SomeRequests ==
    {[Wants(Admin, "release", t1) EXCEPT !.force = TRUE], Wants(Admin, "assign", t1),
     [Wants(Admin, "rework", t1) EXCEPT !.reworks = {t2}],
     [Wants(Admin, "rework", t2) EXCEPT !.reworks = {t1}],
     Wants(Person, "claim", t2), Wants(Bot, "file", t3)}

-----------------------------------------------------------------------------
Parts == {"leases", "shift", "release", "terminal", "tags", "status", "import", "recovery"}

allVars == <<part, vars, shiftVars, releaseVars, terminalVars, syncVars>>

(* Four parts share the model of the mirror. *)
Mirrors == {"tags", "status", "import", "recovery"}

ServicesInit ==
    /\ part \in Parts
    /\ Init /\ ShiftInit /\ ReleaseInit /\ TerminalInit /\ SyncInit
    /\ pull.open <=> part \in {"status", "import", "recovery"}

(* "tags": nobody contributes and nothing is merged.  "status": the gate    *)
(* answers, and nothing else moves.  "import": both importers (the poll     *)
(* alone at a second merge), and a mirror that only merges push to.         *)
(* "recovery": the poll, the reconcile loop, faults and people who push to  *)
(* GitHub.                                                                  *)
SyncPart ==
    /\ SyncNext
    /\ part \in {"tags", "status"} => forge' = forge
    /\ part = "tags" => importVars' = importVars
    /\ part # "tags" => forgeTags' = forgeTags /\ githubTags' = githubTags
    /\ part # "status" => gate' = gate
    /\ part \in {"status", "import"} => pass' = pass /\ mirrorFaults' = mirrorFaults
    /\ part # "recovery" => (github' # NoTip => github'.theirs = 0)
    /\ import'["hook"] # NoImport => part = "import" /\ forge' <= 1
    /\ part = "recovery" => forge' <= 1 /\ pull'.head = 1
                               /\ (forgePull' # NoPull => forgePull'.state # "closed")

(* The third client comes to a finished run that has all its viewers. *)
TerminalPart ==
    /\ TerminalNext
    /\ session'[c3].stage \in {"new", "closed"}
    /\ session'[c3].stage = "closed" => ~running /\ published = 0

ServicesNext ==
    \/ part = "leases" /\ Next /\ UNCHANGED <<part, shiftVars, releaseVars, terminalVars, syncVars>>
    \/ part = "shift" /\ ShiftNext /\ UNCHANGED <<part, vars, releaseVars, terminalVars, syncVars>>
    \/ part = "release" /\ ReleaseNext /\ UNCHANGED <<part, vars, shiftVars, terminalVars, syncVars>>
    \/ part = "terminal" /\ TerminalPart /\ UNCHANGED <<part, vars, shiftVars, releaseVars, syncVars>>
    \/ part \in Mirrors /\ SyncPart /\ UNCHANGED <<part, vars, shiftVars, releaseVars, terminalVars>>

(* The fairness of each module, asked of the part that acts. *)
ServicesFairness ==
    /\ WF_vars(part = "leases" /\ Tick)
    /\ \A q \in Requests : WF_vars(part = "leases" /\ Finish(q))
    /\ \A r \in Runners, h \in Heads :
          SF_vars(part = "leases" /\ \E q \in Requests, a \in Hosts : Ask(q, r, h, a))
    /\ ShiftFairness /\ ReleaseFairness
    /\ WF_terminalVars(part = "terminal" /\ Complete)
    /\ \A v \in Viewers : WF_terminalVars(part = "terminal" /\ SessionStep(v))
    /\ WF_syncVars(part = "import" /\ PushStep /\ UNCHANGED importVars)
    /\ WF_syncVars(part = "recovery" /\ ReconcileStep /\ UNCHANGED importVars)
    /\ WF_syncVars(part \in Mirrors \ {"tags"} /\ ImportStep("poll"))

ServicesSpec == ServicesInit /\ [][ServicesNext]_allVars /\ ServicesFairness
=============================================================================
