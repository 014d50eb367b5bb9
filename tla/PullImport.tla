----------------------------- MODULE PullImport -----------------------------
(***************************************************************************)
(* Pull requests of the mirror, carried to the forge and answered there    *)
(* (web/pull_import.rs, github_pull_import.rs), beside the mirror that     *)
(* carries the merge back.  One pull request of GitHub and its forge pull  *)
(* request.  The poll and a webhook delivery run the same code at the same *)
(* time, and others act between their GitHub calls and store accesses.     *)
(*                                                                         *)
(* A head is its number in the order of the contributor's pushes.  Of what *)
(* report_back posts, one commit status stands for both: the gate's (the   *)
(* sign-off status is compared, posted and kept in the same way).  What it *)
(* says is "waiting" or "passed".  The review comment is left out.         *)
(***************************************************************************)
EXTENDS GithubMirror

CONSTANTS
    MaxHeads,       \* bound: pushes of the contributor
    NoPull,         \* no forge pull request yet
    NoImport,       \* an importer between two passes
    Importers       \* the passes that may run: "poll", "hook"

ASSUME ImportConstants ==
    /\ MaxHeads \in Nat \ {0}
    /\ Importers \subseteq {"poll", "hook"}

VARIABLES
    pull,       \* the pull request on GitHub
    forgePull,  \* its forge pull request, and the commit it was merged as
    marked,     \* pull_origin: contributed, by the importer
    gate,       \* by head: what gate_status says of it
    shown,      \* by head: the commit status on GitHub
    told,       \* the fates the importer told on GitHub
    reported,   \* ImportReportStore: the last status, and settled
    import      \* by importer: the pass it makes

importVars == <<pull, forgePull, marked, gate, shown, told, reported, import>>

syncVars == <<mirrorVars, importVars>>

PullHeads == 1..MaxHeads

Fates == {"merged", "closed"}

GateLines == {"none", "waiting", "passed"}

Reported == [gate : GateLines, settled : BOOLEAN]

NothingReported == [gate |-> "none", settled |-> FALSE]

(* A pass: its step, the head GitHub listed, the head of the forge pull    *)
(* request existing_pull found (0: none), the fetched head, the status to  *)
(* report and the record to put back, and whether the last comment failed. *)
ImportStates ==
    [at : {"find", "carry", "mark", "report", "put", "settle", "close"},
     seen : 0..MaxHeads, was : 0..MaxHeads, head : 0..MaxHeads,
     line : GateLines, kept : Reported, failed : BOOLEAN]

ImportInit ==
    /\ pull \in {[open |-> o, head |-> 1] : o \in BOOLEAN}
    /\ forgePull = NoPull
    /\ marked = FALSE
    /\ gate = [h \in PullHeads |-> "waiting"]
    /\ shown = [h \in PullHeads |-> "none"]
    /\ told = {}
    /\ reported = NothingReported
    /\ import = [i \in Importers |-> NoImport]

SyncInit == MirrorInit /\ ImportInit

ImportAt(i, step) == import[i] # NoImport /\ import[i].at = step

Importing(step, seen) ==
    [at |-> step, seen |-> seen, was |-> 0, head |-> 0,
     line |-> "none", kept |-> NothingReported, failed |-> FALSE]

Settling == Importing("settle", 0)

Putting(p) == [Importing("put", 0) EXCEPT !.kept = p.kept]

Goes(i, s) == import' = [import EXCEPT ![i] = s]

(* A call of the importer fails. *)
CallFails ==
    /\ Faulty
    /\ UNCHANGED <<forge, github, forgeTags, githubTags, compare, pushing, pass, report, retags>>

-----------------------------------------------------------------------------
(* list_open_pulls or get_pull.  A pull request that is closed on GitHub   *)
(* is not imported; the poll settles even when it cannot list.             *)
ReadPull(i) ==
    /\ import[i] = NoImport
    /\ \/ /\ Goes(i, IF pull.open THEN Importing("find", pull.head) ELSE Settling)
          /\ UNCHANGED mirrorVars
       \/ CallFails /\ i = "poll" /\ Goes(i, Settling)
    /\ UNCHANGED <<pull, forgePull, marked, gate, shown, told, reported>>

(* existing_pull and fetch_contribution, which brings the head GitHub has  *)
(* now.  Nothing is fetched for what the forge has settled.                *)
Fetch(i) ==
    /\ ImportAt(i, "find")
    /\ \/ /\ forgePull # NoPull => forgePull.state = "open"
          /\ Goes(i, [Importing("carry", import[i].seen) EXCEPT
                         !.was = IF forgePull = NoPull THEN 0 ELSE forgePull.head,
                         !.head = pull.head])
          /\ UNCHANGED mirrorVars
       \/ /\ forgePull # NoPull /\ forgePull.state # "open"
          /\ Goes(i, Settling)
          /\ UNCHANGED mirrorVars
       \/ /\ forgePull # NoPull => forgePull.state = "open"
          /\ CallFails
          /\ Goes(i, Settling)
    /\ UNCHANGED <<pull, forgePull, marked, gate, shown, told, reported>>

(***************************************************************************)
(* The forge pull request is opened at the fetched head, or follows it     *)
(* when its head was another one.                                          *)
(* External (jeryu-core): a second pull request for the same branch is not *)
(* opened, and only an open one follows its branch.                        *)
(***************************************************************************)
Carry(i) ==
    /\ ImportAt(i, "carry")
    /\ \/ /\ import[i].was = 0 /\ forgePull = NoPull
          /\ forgePull' = [state |-> "open", head |-> import[i].head, merge |-> 0]
          /\ Goes(i, Importing("mark", import[i].seen))
       \/ /\ import[i].was = 0 /\ forgePull # NoPull
          /\ Goes(i, Settling)
          /\ UNCHANGED forgePull
       \/ /\ import[i].was # 0
          /\ forgePull' = IF forgePull.state = "open" /\ import[i].was # import[i].head
                          THEN [forgePull EXCEPT !.head = import[i].head] ELSE forgePull
          /\ Goes(i, Importing("mark", import[i].seen))
    /\ UNCHANGED <<mirrorVars, pull, marked, gate, shown, told, reported>>

(* pull_origin.set; then report_back reads the forge pull request, what    *)
(* the gate says of its head, and what GitHub was told before.             *)
Mark(i) ==
    /\ ImportAt(i, "mark")
    /\ \/ /\ marked' = TRUE
          /\ Goes(i, [Importing("report", import[i].seen) EXCEPT
                         !.line = gate[forgePull.head], !.kept = reported])
          /\ UNCHANGED mirrorVars
       \/ CallFails /\ Goes(i, Settling) /\ UNCHANGED marked
    /\ UNCHANGED <<pull, forgePull, gate, shown, told, reported>>

(* A status that reads as the last one did is not posted.  Another one is  *)
(* posted on the head that GitHub listed.                                  *)
Post(i) ==
    /\ ImportAt(i, "report")
    /\ LET p == import[i] IN
       \/ /\ p.kept.gate = p.line
          /\ Goes(i, Putting(p))
          /\ UNCHANGED <<mirrorVars, shown>>
       \/ /\ p.kept.gate # p.line
          /\ shown' = [shown EXCEPT ![p.seen] = p.line]
          /\ Goes(i, [Putting(p) EXCEPT !.kept.gate = p.line])
          /\ UNCHANGED mirrorVars
       \/ /\ p.kept.gate # p.line /\ CallFails
          /\ Goes(i, Putting(p))
          /\ UNCHANGED shown
    /\ UNCHANGED <<pull, forgePull, marked, gate, told, reported>>

ReportPut(i) ==
    /\ ImportAt(i, "put")
    /\ reported' = import[i].kept
    /\ Goes(i, Settling)
    /\ UNCHANGED <<mirrorVars, pull, forgePull, marked, gate, shown, told>>

-----------------------------------------------------------------------------
MutantLanded(k) == github # NoTip

(* mirror_landed: GitHub's head is asked for, and ancestry is decided in   *)
(* the forge's repository, which has to have that head.                    *)
mirror_landed(k) ==
    /\ github # NoTip
    /\ \/ github = OurTip(k)
       \/ (github.theirs = 0 \/ github = compare) /\ is_ancestor(OurTip(k), github)

(* settle_finished: what the forge has finished and GitHub was not told.   *)
ToSettle ==
    /\ forgePull # NoPull /\ marked /\ ~reported.settled
    /\ forgePull.state # "open"
    /\ forgePull.state = "merged" => mirror_landed(forgePull.merge)

SettleComment(i) ==
    /\ ImportAt(i, "settle") /\ ToSettle
    /\ \/ /\ told' = told \cup {forgePull.state}
          /\ Goes(i, Importing("close", 0))
          /\ UNCHANGED mirrorVars
       \/ /\ CallFails
          /\ Goes(i, [Importing("close", 0) EXCEPT !.failed = TRUE])
          /\ UNCHANGED told
    /\ UNCHANGED <<pull, forgePull, marked, gate, shown, reported>>

NothingToSettle(i) ==
    /\ ImportAt(i, "settle") /\ ~ToSettle
    /\ Goes(i, NoImport)
    /\ UNCHANGED <<mirrorVars, pull, forgePull, marked, gate, shown, told, reported>>

(* close_pull, and `settled` when both calls worked. *)
SettleClose(i) ==
    /\ ImportAt(i, "close")
    /\ \/ /\ pull' = [pull EXCEPT !.open = FALSE]
          /\ reported' = [reported EXCEPT !.settled = ~import[i].failed]
          /\ UNCHANGED mirrorVars
       \/ /\ CallFails
          /\ reported' = [reported EXCEPT !.settled = FALSE]
          /\ UNCHANGED pull
    /\ Goes(i, NoImport)
    /\ UNCHANGED <<forgePull, marked, gate, shown, told>>

ImportStep(i) ==
    \/ ReadPull(i) \/ Fetch(i) \/ Carry(i) \/ Mark(i) \/ Post(i) \/ ReportPut(i)
    \/ SettleComment(i) \/ NothingToSettle(i) \/ SettleClose(i)

-----------------------------------------------------------------------------
(* The contribution is merged (MergeQueue says when), or closed. *)
MergeContribution ==
    /\ forgePull # NoPull /\ forgePull.state = "open"
    /\ Merge
    /\ forgePull' = [forgePull EXCEPT !.state = "merged", !.merge = forge + 1]
    /\ UNCHANGED <<pull, marked, gate, shown, told, reported, import>>

CloseContribution ==
    /\ forgePull # NoPull /\ forgePull.state = "open"
    /\ forgePull' = [forgePull EXCEPT !.state = "closed"]
    /\ UNCHANGED <<mirrorVars, pull, marked, gate, shown, told, reported, import>>

MergeOther == Merge /\ UNCHANGED importVars

(* The gate passes on the forge pull request's head. *)
GatePasses ==
    /\ forgePull # NoPull
    /\ gate' = [gate EXCEPT ![forgePull.head] = "passed"]
    /\ UNCHANGED <<mirrorVars, pull, forgePull, marked, shown, told, reported, import>>

(* External: the contributor pushes again, or the pull request is closed   *)
(* on GitHub (which GitHub does itself when its commits land).             *)
ForcePush ==
    /\ pull.open /\ pull.head < MaxHeads
    /\ pull' = [pull EXCEPT !.head = @ + 1]
    /\ UNCHANGED <<mirrorVars, forgePull, marked, gate, shown, told, reported, import>>

CloseOnGithub ==
    /\ pull.open
    /\ pull' = [pull EXCEPT !.open = FALSE]
    /\ UNCHANGED <<mirrorVars, forgePull, marked, gate, shown, told, reported, import>>

(* Reported are kept in memory only. *)
SyncRestart ==
    /\ MirrorRestart
    /\ reported' = NothingReported
    /\ import' = [i \in Importers |-> NoImport]
    /\ UNCHANGED <<pull, forgePull, marked, gate, shown, told>>

SyncNext ==
    \/ MirrorNext /\ UNCHANGED importVars
    \/ \E i \in Importers : ImportStep(i)
    \/ MergeContribution \/ CloseContribution \/ MergeOther \/ GatePasses
    \/ ForcePush \/ CloseOnGithub
    \/ SyncRestart

SyncSpec == SyncInit /\ [][SyncNext]_syncVars

(* The poll and the reconcile loop tick and their passes end; the push a   *)
(* merge owes GitHub is made, unless the process stops.                    *)
PollFairness == WF_syncVars(\E i \in Importers \cap {"poll"} : ImportStep(i))

ReconcileFairness == WF_syncVars(ReconcileStep /\ UNCHANGED importVars)

PushFairness == WF_syncVars(PushStep /\ UNCHANGED importVars)

-----------------------------------------------------------------------------
ImportTypeOK ==
    /\ pull \in [open : BOOLEAN, head : PullHeads]
    /\ forgePull \in [state : Fates \cup {"open"}, head : PullHeads, merge : 0..MaxMerges] \cup {NoPull}
    /\ marked \in BOOLEAN
    /\ told \subseteq Fates
    /\ gate \in [PullHeads -> GateLines] /\ shown \in [PullHeads -> GateLines]
    /\ reported \in Reported
    /\ import \in [Importers -> ImportStates \cup {NoImport}]

(* "Nothing is said there until the commits are there": the contributor is *)
(* told that the contribution was merged only once GitHub's branch has the *)
(* merge, however the merge, its push, the reconcile and two importers     *)
(* interleave and fail.                                                    *)
ToldMergedIsLanded ==
    "merged" \in told =>
        /\ forgePull # NoPull /\ forgePull.state = "merged"
        /\ github # NoTip /\ github.ours >= forgePull.merge

HasMerged == forgePull # NoPull /\ forgePull.state = "merged"

Follows(h) == forgePull # NoPull /\ (forgePull.state # "open" \/ forgePull.head >= h)

(* "Post the forge gate's answer as a commit status on the GitHub head":    *)
(* while the contribution is open on both sides, the head it has on GitHub *)
(* comes to show what the gate says of it.                                 *)
HeadShowsTheGate ==
    []<>(pull.open /\ forgePull # NoPull /\ forgePull.state = "open" =>
            shown[pull.head] = gate[pull.head])

(* A contribution is answered.  Its last head is followed although an      *)
(* older one may be fetched before and carried after it.  Once it is       *)
(* merged, it is closed on GitHub as merged, although pushes fail and a    *)
(* restart forgets them; or others have pushed to the mirror, and the      *)
(* attention inbox says that a person is needed.                           *)
ContributionIsAnswered ==
    /\ []<>(pull.open => Follows(pull.head))
    /\ []<>(HasMerged /\ marked =>
               \/ "merged" \in told /\ ~pull.open
               \/ github # NoTip /\ github.theirs > 0 /\ needs_a_person)
=============================================================================
