----------------------------- MODULE TodoActions -----------------------------
(***************************************************************************)
(* The todo files of a shift queue and what one request makes of them      *)
(* (web/shift.rs, web/shift/assignment.rs).  Everything here is a function *)
(* of one tree of the queue branch: which requests that tree accepts, and  *)
(* the tree an accepted request leaves.                                    *)
(*                                                                         *)
(* A todo keeps its status, the end of its lease (0: none), its assignee,  *)
(* its requester, the todos it reworks and its text, which stands for      *)
(* title, body, repositories, priority, mode and outcome check.  Notes,    *)
(* attempts and the date a parked todo comes back are left out.            *)
(***************************************************************************)
EXTENDS Naturals, Sequences

CONSTANTS
    Todos,      \* the ids of todos, filed or yet to be filed
    Cards,      \* the ids whose file is an external task card (tasks/...)
    Logins,     \* the accounts a request may come from or name
    Texts,      \* what an edit may write
    NoOne,      \* no assignee
    Absent      \* no file of that id

ASSUME TodoConstants ==
    /\ Cards \subseteq Todos
    /\ NoOne \notin Logins

Statuses == {"open", "claimed", "done", "blocked", "handoff", "parked", "closed"}

TodoFile ==
    [status : Statuses, lease_until : Nat, assignee : Logins \cup {NoOne},
     requested_by : Logins, reworks : SUBSET Todos, text : Texts]

ASSUME NoFile == Absent \notin TodoFile

\* The branch's tree: todo files, and a thread of comments for each id.
Trees == [todos : [Todos -> TodoFile \cup {Absent}], threads : [Todos -> Seq(Logins)]]

(***************************************************************************)
(* The caller: an account, whether it is an administrator, and whether it  *)
(* is a person (not a bot, not an automation account).  A request names an *)
(* action, a todo and the action's value.  "edit" stands for the actions   *)
(* that only administrators run and that change no state the rules read    *)
(* (edit, priority, mode); "rework" is an edit that sets `reworks`.        *)
(***************************************************************************)
Callers == [login : Logins, admin : BOOLEAN, person : BOOLEAN]

Moves == [release |-> "open", block |-> "blocked", done |-> "done",
          close |-> "closed", park |-> "parked"]

AssignmentActions == {"claim", "assign", "unassign"}

Actions == DOMAIN Moves \cup AssignmentActions
              \cup {"edit", "outcome_check", "rework", "comment", "file"}

PeopleActions == {"claim", "assign", "unassign", "done", "outcome_check"}

PeopleStatuses == {"blocked", "handoff"}

TodoRequests ==
    {r \in [action : Actions, id : Todos, caller : Callers, force : BOOLEAN,
            target : Logins, reworks : SUBSET Todos, text : Texts] :
        r.action = "claim" => r.target = r.caller.login}

(* may_attempt, and the rule of file_todos; anyone signed in comments.     *)
MayAttempt(r) ==
    /\ r.action = "claim" => r.caller.person
    /\ \/ r.caller.admin
       \/ r.caller.person /\ r.action \in PeopleActions
       \/ ~r.caller.person /\ r.action = "file"
       \/ r.action = "comment"

(***************************************************************************)
(* What the accounts say while the request is judged: whether the caller   *)
(* can write to the todo's code, whether its assignee is still an active   *)
(* person, and whether the target is one who can work on it.  Accounts     *)
(* change at any time, so every pass may find any of these.                *)
(***************************************************************************)
Standings == [works_here : BOOLEAN, holder_active : BOOLEAN, assignable : BOOLEAN]

(* TodoFile::lease_live *)
lease_live(todo, now) == todo.status = "claimed" /\ todo.lease_until > now

(* TodoStatus::allows: nothing leaves done. *)
allows(from, to) == from = to \/ from # "done"

(* assignment::authorize *)
authorize(todo, r, s) ==
    LET held == todo.assignee # NoOne /\ s.holder_active
        holds == held /\ todo.assignee = r.caller.login
    IN  /\ r.action = "claim" => r.caller.person
        /\ \/ r.caller.admin
           \/ /\ r.caller.person
              /\ s.works_here
              /\ r.action \in {"claim", "assign", "done"} => todo.status \in PeopleStatuses
              /\ \/ r.action \in {"claim", "assign"} /\ (~held \/ holds)
                 \/ r.action \in {"unassign", "done"} /\ holds
                 \/ /\ r.action = "outcome_check"
                    /\ holds \/ (~held /\ todo.requested_by = r.caller.login)

(***************************************************************************)
(* A worker is on a todo with a live lease: taking it on, reopening it, or *)
(* finishing it as a person waits, unless an administrator forces it.      *)
(***************************************************************************)
Takes(r) ==
    r.action \in {"release", "claim", "assign"} \/ (r.action = "done" /\ ~r.caller.admin)

Forced(r) == r.force /\ r.caller.admin

MutantLeaseBars(todo, r, now) == r.action = "release" /\ ~Forced(r) /\ lease_live(todo, now)

LeaseBars(todo, r, now) == Takes(r) /\ ~Forced(r) /\ lease_live(todo, now)

(***************************************************************************)
(* validate_reworks walks the rework links from the targets: every todo on *)
(* the way is in the queue, none is the todo itself, none is met again     *)
(* below itself.  Below(todos, S) is what the walk from S visits.          *)
(***************************************************************************)
ReworksOf(todos, t) == IF todos[t] = Absent THEN {} ELSE todos[t].reworks

Below(todos, S) ==
    {x \in Todos : \A C \in SUBSET Todos :
        (S \subseteq C /\ \A y \in C : ReworksOf(todos, y) \subseteq C) => x \in C}

MutantValidateReworks(todos, id, targets) == id \notin targets

validate_reworks(todos, id, targets) ==
    \A x \in Below(todos, targets) :
        /\ x # id
        /\ todos[x] # Absent
        /\ x \notin Below(todos, ReworksOf(todos, x))

(* What the state of the todo rules out: apply and apply_action. *)
Applies(todos, r, s) ==
    LET todo == todos[r.id] IN
    /\ r.action \in DOMAIN Moves => allows(todo.status, Moves[r.action])
    /\ r.action \in {"claim", "assign"} => todo.status \notin {"done", "closed"} /\ s.assignable
    /\ r.action = "unassign" => todo.assignee # NoOne
    /\ r.action = "rework" => validate_reworks(todos, r.id, r.reworks)

(* The mutation of todo_action, of post_comment and of file_todos: whether *)
(* the tree accepts the request.                                           *)
Accepts(tree, r, now, s) ==
    CASE r.action = "file" -> TRUE
      [] r.action = "comment" -> tree.todos[r.id] # Absent
      [] OTHER -> /\ tree.todos[r.id] # Absent
                  /\ r.id \notin Cards
                  /\ authorize(tree.todos[r.id], r, s)
                  /\ ~LeaseBars(tree.todos[r.id], r, now)
                  /\ Applies(tree.todos, r, s)

NewTodo(r) ==
    [status |-> "open", lease_until |-> 0, assignee |-> NoOne,
     requested_by |-> r.caller.login, reworks |-> {}, text |-> r.text]

(* The todo file an accepted action writes. *)
Rewritten(todo, r) ==
    CASE r.action = "release" ->
            [todo EXCEPT !.status = "open", !.lease_until = 0, !.assignee = NoOne]
      [] r.action \in DOMAIN Moves \ {"release"} ->
            [todo EXCEPT !.status = Moves[r.action], !.lease_until = 0]
      [] r.action \in {"claim", "assign"} -> [todo EXCEPT !.assignee = r.target]
      [] r.action = "unassign" -> [todo EXCEPT !.assignee = NoOne]
      [] r.action = "rework" -> [todo EXCEPT !.reworks = r.reworks]
      [] OTHER -> [todo EXCEPT !.text = r.text]

(* post_comment appends to the thread of the commit its pass builds on. *)
Commented(thread, r) == Append(thread, r.caller.login)

(* The tree of the new commit: one path of the old one is replaced. *)
TreeAfter(tree, r) ==
    CASE r.action = "file" -> [tree EXCEPT !.todos[r.id] = NewTodo(r)]
      [] r.action = "comment" -> [tree EXCEPT !.threads[r.id] = Commented(@, r)]
      [] OTHER -> [tree EXCEPT !.todos[r.id] = Rewritten(@, r)]

(***************************************************************************)
(* External: todoq workers write the queue branch themselves, by a push    *)
(* that is refused unless it is a fast-forward.  A worker claims an open   *)
(* todo, or one whose lease ran out, that nobody is assigned to, and       *)
(* finishes one whose lease it holds.                                      *)
(***************************************************************************)
Claimable(todo, now) ==
    /\ todo # Absent
    /\ todo.assignee = NoOne
    /\ todo.status = "open" \/ (todo.status = "claimed" /\ ~lease_live(todo, now))

WorkerClaims(tree, now, length) ==
    {[tree EXCEPT !.todos[t] = [@ EXCEPT !.status = "claimed", !.lease_until = now + length]] :
        t \in {u \in Todos \ Cards : Claimable(tree.todos[u], now)}}

Outcomes(tree, t) ==
    {[tree EXCEPT !.todos[t] = [@ EXCEPT !.status = s, !.lease_until = 0]] :
        s \in {"done", "blocked", "handoff"}}

WorkerEnds(tree, now) ==
    UNION {Outcomes(tree, t) :
              t \in {u \in Todos \ Cards : tree.todos[u] # Absent /\ lease_live(tree.todos[u], now)}}
=============================================================================
