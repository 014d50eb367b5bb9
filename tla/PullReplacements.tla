-------------------------- MODULE PullReplacements --------------------------
(***************************************************************************)
(* What replaced a pull request (github/pull_replacements.rs), and the     *)
(* call that closes a pull request as replaced: close_as_replaced of       *)
(* github/pulls.rs, and of web/pulls.rs, which takes the same steps.       *)
(*                                                                         *)
(* The call checks the link, posts the pointer comment, closes the pull    *)
(* request, checks the link again, writes it to the store and then to the  *)
(* map, and reopens the pull request when the link was not recorded.  No   *)
(* lock spans two of these, so they are steps of their own: calls          *)
(* interleave, writes fail and the process stops between them.  At its     *)
(* start the forge loads the store and reads the pointers of the pull      *)
(* requests that have no link (backfill).                                  *)
(*                                                                         *)
(* One repository.  Pull requests are numbered in the order they were      *)
(* opened.  A walk along the links is one step, although the code takes    *)
(* the map's lock once for each link.                                      *)
(***************************************************************************)
EXTENDS Naturals, SequencesExt

CONSTANTS
    Pulls,          \* numbers of pull requests
    Siblings,       \* pull requests of one base and source, none of them imported
    OwnText,        \* <<p, q>>: p's own text says it replaces q, and may_claim
    Closers,        \* calls of close_as_replaced served at one time
    MaxChain,       \* MAX_CHAIN
    MaxMishaps,     \* bound: failed writes and restarts
    Nothing

ASSUME ReplacementConstants ==
    /\ Pulls \subseteq Nat /\ Siblings \subseteq Pulls
    /\ OwnText \subseteq Pulls \X Pulls
    /\ MaxChain \in Nat \ {0} /\ MaxMishaps \in Nat
    /\ Nothing \notin Pulls

VARIABLES
    pulls,      \* the state of each pull request
    pointers,   \* the pull request its newest pointer comment names
    links,      \* the map in memory: replaced -> replacing
    stored,     \* pull_request_replacements
    closers,    \* the calls in the server
    closedFor,  \* history: what the last call that closed it closed it for
    mishaps     \* failed writes and restarts so far

replacedVars == <<pulls, pointers, links, stored, closers, closedFor, mishaps>>

NoCloser == [at |-> "idle"]

Closer == [at : {"commenting", "closing", "checking", "storing", "inserting", "undoing"},
           replaced : Pulls, replacing : Pulls]

Links == [Pulls -> Pulls \cup {Nothing}]

ReplacedTypeOK ==
    /\ pulls \in [Pulls -> {"open", "closed", "merged"}]
    /\ pointers \in Links /\ links \in Links /\ stored \in Links /\ closedFor \in Links
    /\ closers \in [Closers -> {NoCloser} \cup Closer]
    /\ mishaps \in 0 .. MaxMishaps

NoLinks == [p \in Pulls |-> Nothing]

ReplacedInit ==
    /\ pulls = [p \in Pulls |-> "open"]
    /\ pointers = NoLinks /\ links = NoLinks /\ stored = NoLinks /\ closedFor = NoLinks
    /\ closers = [c \in Closers |-> NoCloser]
    /\ mishaps = 0

Mishap ==
    /\ mishaps < MaxMishaps
    /\ mishaps' = mishaps + 1

----------------------------------------------------------------------------
(* The links. *)

\* superseded_by, followed up to MAX_CHAIN times.
Chain(ls, p) ==
    LET hop[n \in 0 .. MaxChain] ==
          IF n = 0 THEN p ELSE IF hop[n - 1] = Nothing THEN Nothing ELSE ls[hop[n - 1]]
    IN  hop

closes_a_cycle(ls, replaced, replacing) ==
    \E n \in 1 .. MaxChain : Chain(ls, replacing)[n] = replaced

refusal(ls, replaced, replacing) ==
    \/ replaced = replacing
    \/ closes_a_cycle(ls, replaced, replacing)

\* may_point: a closing comment is believed of a later pull request of the same
\* base and source.  The comment is the call's own, of somebody who may write.
may_point(replacing, replaced) ==
    /\ {replacing, replaced} \subseteq Siblings
    /\ replacing > replaced

\* The second half of backfill's turn for p: a closed pull request without a
\* link is given the one its newest pointer names.
Pointed(ls, p) ==
    IF /\ pulls[p] = "closed"
       /\ ls[p] = Nothing
       /\ pointers[p] # Nothing
       /\ may_point(pointers[p], p)
       /\ ~refusal(ls, p, pointers[p])
    THEN [ls EXCEPT ![p] = pointers[p]] ELSE ls

\* The first half: what p's own title and body say it replaces.
Claimed(ls, p) ==
    [q \in Pulls |-> IF <<p, q>> \in OwnText /\ ls[q] = Nothing /\ ~refusal(ls, q, p)
                     THEN p ELSE ls[q]]

\* The order in which jeryu-core lists pull requests is not this code's.
backfill(ls, order) == FoldLeft(LAMBDA found, p : Pointed(Claimed(found, p), p), ls, order)

----------------------------------------------------------------------------
(* close_as_replaced. *)

StepTo(c, at) == closers' = [closers EXCEPT ![c].at = at]

Leave(c) == closers' = [closers EXCEPT ![c] = NoCloser]

\* The caller names a replacement, and the forge finds neither a merged pull
\* request nor a link to refuse.
CloseAsReplaced(c, p, q) ==
    /\ closers[c] = NoCloser
    /\ pulls[p] # "merged"
    /\ ~refusal(links, p, q)
    /\ closers' = [closers EXCEPT ![c] = [at |-> "commenting", replaced |-> p, replacing |-> q]]
    /\ UNCHANGED <<pulls, pointers, links, stored, closedFor, mishaps>>

\* Mutant: the close goes on when the comment was not posted.
MutantComment(c) ==
    /\ closers[c].at = "commenting"
    /\ \E posted \in BOOLEAN :
          pointers' = IF posted THEN [pointers EXCEPT ![closers[c].replaced] = closers[c].replacing]
                      ELSE pointers
    /\ StepTo(c, "closing")
    /\ UNCHANGED <<pulls, links, stored, closedFor, mishaps>>

\* create_review posts the pointer, or is refused: the head moved, say.
Comment(c) ==
    /\ closers[c].at = "commenting"
    /\ \/ /\ pointers' = [pointers EXCEPT ![closers[c].replaced] = closers[c].replacing]
          /\ StepTo(c, "closing")
       \/ Leave(c) /\ UNCHANGED pointers
    /\ UNCHANGED <<pulls, links, stored, closedFor, mishaps>>

\* update_pull_request closes a pull request that has not merged meanwhile, or
\* fails: the call is answered with the error.
Close(c) ==
    /\ closers[c].at = "closing"
    /\ LET p == closers[c].replaced
       IN  \/ /\ pulls[p] # "merged"
              /\ pulls' = [pulls EXCEPT ![p] = "closed"]
              /\ closedFor' = [closedFor EXCEPT ![p] = closers[c].replacing]
              /\ StepTo(c, "checking")
              /\ UNCHANGED mishaps
           \/ pulls[p] = "merged" /\ Leave(c) /\ UNCHANGED <<pulls, closedFor, mishaps>>
           \/ Mishap /\ Leave(c) /\ UNCHANGED <<pulls, closedFor>>
    /\ UNCHANGED <<pointers, links, stored>>

\* record asks refusal once more.
Check(c) ==
    /\ closers[c].at = "checking"
    /\ StepTo(c, IF refusal(links, closers[c].replaced, closers[c].replacing)
                 THEN "undoing" ELSE "storing")
    /\ UNCHANGED <<pulls, pointers, links, stored, closedFor, mishaps>>

\* record writes the row.
StoreLink(c) ==
    /\ closers[c].at = "storing"
    /\ stored' = [stored EXCEPT ![closers[c].replaced] = closers[c].replacing]
    /\ StepTo(c, "inserting")
    /\ UNCHANGED <<pulls, pointers, links, closedFor, mishaps>>

StoreFails(c) ==
    /\ closers[c].at = "storing"
    /\ Mishap
    /\ StepTo(c, "undoing")
    /\ UNCHANGED <<pulls, pointers, links, stored, closedFor>>

\* record inserts the link, and the call is answered.
InsertLink(c) ==
    /\ closers[c].at = "inserting"
    /\ links' = [links EXCEPT ![closers[c].replaced] = closers[c].replacing]
    /\ Leave(c)
    /\ UNCHANGED <<pulls, pointers, stored, closedFor, mishaps>>

\* A pull request is opened again.
Opened(p) ==
    /\ pulls' = [pulls EXCEPT ![p] = "open"]
    /\ closedFor' = [closedFor EXCEPT ![p] = Nothing]

\* The close is rolled back; the answer of that write is ignored.
Undo(c) ==
    /\ closers[c].at = "undoing"
    /\ LET p == closers[c].replaced
       IN  \/ pulls[p] # "merged" /\ Opened(p) /\ UNCHANGED mishaps
           \/ pulls[p] = "merged" /\ UNCHANGED <<pulls, closedFor, mishaps>>
           \/ Mishap /\ UNCHANGED <<pulls, closedFor>>
    /\ Leave(c)
    /\ UNCHANGED <<pointers, links, stored>>

----------------------------------------------------------------------------
(* The rest of the forge. *)

\* A pull request is merged, or opened again by a plain update.
Merge(p) ==
    /\ pulls[p] = "open"
    /\ pulls' = [pulls EXCEPT ![p] = "merged"]
    /\ UNCHANGED <<pointers, links, stored, closers, closedFor, mishaps>>

Reopen(p) ==
    /\ pulls[p] = "closed"
    /\ Opened(p)
    /\ UNCHANGED <<pointers, links, stored, closers, mishaps>>

\* The process stops; its successor loads the store (with_store) and reads the
\* pointers before it serves a request.
RestartForge ==
    /\ Mishap
    /\ \E order \in SetToSeqs(Pulls) : stored' = backfill(stored, order)
    /\ links' = stored'
    /\ closers' = [c \in Closers |-> NoCloser]
    /\ UNCHANGED <<pulls, pointers, closedFor>>

ReplacedNext ==
    \/ \E c \in Closers :
          \/ \E p, q \in Pulls : CloseAsReplaced(c, p, q)
          \/ Comment(c) \/ Close(c) \/ Check(c)
          \/ StoreLink(c) \/ StoreFails(c) \/ InsertLink(c) \/ Undo(c)
    \/ \E p \in Pulls : Merge(p) \/ Reopen(p)
    \/ RestartForge

ReplacedSpec == ReplacedInit /\ [][ReplacedNext]_replacedVars

----------------------------------------------------------------------------
(* Properties. *)

\* "A link to itself and a link that closes a cycle are refused too, so
\* following the chain always ends" (pull_replacements.rs): no pull request is
\* reached again from itself.
ChainsEnd == \A p \in Pulls : Chain(links, p)[MaxChain] = Nothing

\* close_as_replaced may be cut off anywhere, its store write may fail and so
\* may its rollback: "the pointer comment stands either way, so the startup
\* backfill records the link even if the rollback fails too".  After a start, a
\* pull request that a call closed is linked, unless the link it was closed for
\* is one that a pointer may not make or that would close a cycle, or another
\* call has pointed it elsewhere.
RestartLinksTheClosed ==
    [][RestartForge =>
          \A p \in Pulls :
             /\ pulls[p] = "closed"
             /\ closedFor[p] # Nothing
             /\ pointers[p] \in {closedFor[p], Nothing}
             /\ may_point(closedFor[p], p)
             => links'[p] # Nothing \/ refusal(links', p, closedFor[p])]_replacedVars
=============================================================================
