---------------------------- MODULE GithubMirror ----------------------------
(***************************************************************************)
(* The GitHub mirror of one repository (github_mirror.rs, and              *)
(* web/mirror_reconcile.rs): a merge pushes the default branch, a tag push *)
(* mirrors its tags, and a reconcile pass every ten minutes catches up and *)
(* reports what only a person can settle.  Each of them compares the forge *)
(* with GitHub and pushes in separate git commands; others, and people who *)
(* push to GitHub directly, act between them.                              *)
(*                                                                         *)
(* A commit of the branch is [ours, theirs]: the forge's first commits,    *)
(* and the commits somebody put on top of them on GitHub.  Check runs and  *)
(* times of the pass are left out.                                         *)
(***************************************************************************)
EXTENDS Naturals

CONSTANTS
    Tags,           \* names of tags that the mirror does not exclude
    TagOids,        \* what a tag may point to
    NoTag,          \* no tag of that name
    NoTip,          \* GitHub has no such branch
    NoPass,         \* a pass that is not running
    NoReport,       \* no reconcile has been recorded since the start
    NoPush, Due,    \* a merge whose push to GitHub is over, or still to start
    MaxMerges,      \* bound: merges on the forge
    MaxTheirs,      \* bound: commits pushed to GitHub by others
    MaxRetags,      \* bound: tags pushed to the forge, or to GitHub by others
    MaxMirrorFaults \* bound: failures and restarts

ASSUME MirrorConstants ==
    /\ MaxMerges \in Nat /\ MaxTheirs \in Nat /\ MaxRetags \in Nat /\ MaxMirrorFaults \in Nat
    /\ NoTag \notin TagOids
    /\ NoTip \notin [ours : Nat, theirs : Nat]
    /\ NoPush \notin Nat /\ Due \notin Nat

VARIABLES
    forge,          \* commits on the forge's branch
    github,         \* GitHub's branch
    forgeTags, githubTags,
    compare,        \* COMPARE_REF: what a pass fetched from GitHub last
    pushing,        \* by merge: its push to GitHub
    pass,           \* the reconcile pass and the tag push
    report,         \* MirrorStateStore: what the last pass found
    retags,         \* tags pushed so far
    mirrorFaults    \* faults so far

mirrorVars ==
    <<forge, github, forgeTags, githubTags, compare, pushing, pass, report, retags, mirrorFaults>>

Tips == [ours : Nat, theirs : Nat]

Passes == {"reconcile", "tags"}

Syncs == {"unknown", "in_sync", "behind", "ahead", "diverged"}

Reports == [sync : Syncs, drift : SUBSET Tags]

TagsOf == [Tags -> TagOids \cup {NoTag}]

(* A pass: its step, the forge's head and tags and GitHub's refs as it read *)
(* them, the tags still to compare, what came of the others, and the report *)
(* a tag push read back.                                                    *)
PassStates ==
    [at : {"remote", "tags", "judge", "put"},
     head : Nat, tip : Tips \cup {NoTip}, remote : TagsOf, local : TagsOf,
     left : SUBSET Tags, pushed : SUBSET Tags, drift : SUBSET Tags,
     held : Reports \cup {NoReport}]

NoTags == [t \in Tags |-> NoTag]

NewPass(head, tags) ==
    [at |-> "remote", head |-> head, tip |-> NoTip, remote |-> NoTags, local |-> NoTags,
     left |-> tags, pushed |-> {}, drift |-> {}, held |-> NoReport]

OurTip(n) == [ours |-> n, theirs |-> 0]

MirrorInit ==
    /\ forge = 0
    /\ github = NoTip
    /\ forgeTags = NoTags /\ githubTags = NoTags
    /\ compare = NoTip
    /\ pushing = [k \in 1..MaxMerges |-> NoPush]
    /\ pass = [p \in Passes |-> NoPass]
    /\ report = NoReport
    /\ retags = 0 /\ mirrorFaults = 0

(* git merge-base --is-ancestor *)
is_ancestor(a, b) ==
    \/ a.theirs = 0 /\ a.ours <= b.ours
    \/ a.ours = b.ours /\ a.theirs <= b.theirs

MutantFastForward(tip) == TRUE

(* git push without --force: the branch is created or goes forward. *)
FastForward(tip) == github # NoTip => is_ancestor(github, tip)

(* ... and a tag is created, or is there already.                          *)
TagIsFree(t, oid) == githubTags[t] \in {NoTag, oid}

Faulty == mirrorFaults < MaxMirrorFaults /\ mirrorFaults' = mirrorFaults + 1

-----------------------------------------------------------------------------
(* The default branch gets a merge; its push to GitHub is still to come.   *)
Merge ==
    /\ forge < MaxMerges
    /\ forge' = forge + 1
    /\ pushing' = [pushing EXCEPT ![forge + 1] = Due]
    /\ UNCHANGED <<github, forgeTags, githubTags, compare, pass, report, retags, mirrorFaults>>

(* push_branch resolves the tip of the branch, which may be a later merge, *)
ResolveTip(k) ==
    /\ pushing[k] = Due
    /\ pushing' = [pushing EXCEPT ![k] = forge]
    /\ UNCHANGED <<forge, github, forgeTags, githubTags, compare, pass, report, retags, mirrorFaults>>

(* and pushes it.  Every failure ends the push. *)
PushBranch(k) ==
    /\ pushing[k] \notin {NoPush, Due}
    /\ pushing' = [pushing EXCEPT ![k] = NoPush]
    /\ \/ /\ FastForward(OurTip(pushing[k]))
          /\ github' = OurTip(pushing[k])
          /\ UNCHANGED mirrorFaults
       \/ /\ ~FastForward(OurTip(pushing[k]))
          /\ UNCHANGED <<github, mirrorFaults>>
       \/ Faulty /\ UNCHANGED github
    /\ UNCHANGED <<forge, forgeTags, githubTags, compare, pass, report, retags>>

-----------------------------------------------------------------------------
At(p, step) == pass[p] # NoPass /\ pass[p].at = step

ReconcileStart ==
    /\ pass["reconcile"] = NoPass
    /\ pass' = [pass EXCEPT !["reconcile"] = NewPass(forge, Tags)]
    /\ UNCHANGED <<forge, github, forgeTags, githubTags, compare, pushing, report, retags, mirrorFaults>>

(* A push creates or moves a tag of the forge, and mirrors that tag.       *)
PushTag(t, oid) ==
    /\ retags < MaxRetags /\ pass["tags"] = NoPass
    /\ forgeTags[t] # oid
    /\ forgeTags' = [forgeTags EXCEPT ![t] = oid]
    /\ pass' = [pass EXCEPT !["tags"] = NewPass(0, {t})]
    /\ retags' = retags + 1
    /\ UNCHANGED <<forge, github, githubTags, compare, pushing, report, mirrorFaults>>

(* What reconcile_once records at the end of its pass.  A merge or a push   *)
(* that comes between the last git command and the record changes neither. *)
Found(sync) ==
    /\ report' = [sync |-> sync, drift |-> pass["reconcile"].drift]
    /\ pass' = [pass EXCEPT !["reconcile"] = NoPass]

(* remote_refs and local_tags.  When GitHub cannot be read a reconcile     *)
(* knows nothing, and a tag push writes the report back as it is.  When    *)
(* the forge's tags cannot be read, no tag is compared.                    *)
ReadRefs(p) ==
    /\ At(p, "remote")
    /\ \/ /\ pass' = [pass EXCEPT ![p] =
                         [@ EXCEPT !.at = "tags", !.tip = IF p = "reconcile" THEN github ELSE NoTip,
                                   !.remote = githubTags, !.local = forgeTags]]
          /\ UNCHANGED <<report, mirrorFaults>>
       \/ Faulty /\ p = "reconcile" /\ Found("unknown")
       \/ /\ Faulty
          /\ pass' = [pass EXCEPT ![p] =
                         [@ EXCEPT !.at = "tags", !.tip = IF p = "reconcile" THEN github ELSE NoTip,
                                   !.left = {}]]
          /\ UNCHANGED report
    /\ UNCHANGED <<forge, github, forgeTags, githubTags, compare, pushing, retags>>

(* tag_pass, one tag: a tag GitHub lacks is pushed, any difference is drift. *)
Compared(p, t) == [pass[p] EXCEPT !.left = @ \ {t}]

Drifted(p, t) == [Compared(p, t) EXCEPT !.drift = @ \cup {t}]

TagStep(p, t) ==
    LET here == pass[p].local[t]
        there == pass[p].remote[t]
    IN  /\ At(p, "tags") /\ t \in pass[p].left
        /\ \/ /\ here = there
              /\ pass' = [pass EXCEPT ![p] = Compared(p, t)]
              /\ UNCHANGED <<githubTags, mirrorFaults>>
           \/ /\ here # there /\ there # NoTag
              /\ pass' = [pass EXCEPT ![p] = Drifted(p, t)]
              /\ UNCHANGED <<githubTags, mirrorFaults>>
           \/ /\ here # there /\ there = NoTag /\ TagIsFree(t, here)
              /\ githubTags' = [githubTags EXCEPT ![t] = here]
              /\ pass' = [pass EXCEPT ![p] = [Compared(p, t) EXCEPT !.pushed = @ \cup {t}]]
              /\ UNCHANGED mirrorFaults
           \/ /\ here # there /\ there = NoTag /\ ~TagIsFree(t, here)
              /\ pass' = [pass EXCEPT ![p] = Drifted(p, t)]
              /\ UNCHANGED <<githubTags, mirrorFaults>>
           \/ /\ here # there /\ there = NoTag /\ Faulty
              /\ pass' = [pass EXCEPT ![p] = Drifted(p, t)]
              /\ UNCHANGED githubTags
        /\ UNCHANGED <<forge, github, forgeTags, compare, pushing, report, retags>>

TagsCompared(p) == At(p, "tags") /\ pass[p].left = {}

-----------------------------------------------------------------------------
(* GitHub's head equals the forge's, or is fetched to decide ancestry.  A  *)
(* head that cannot be fetched, or a forge head that did not resolve, says *)
(* nothing.                                                                *)
CompareBranch ==
    LET r == pass["reconcile"] IN
    /\ TagsCompared("reconcile")
    /\ \/ /\ r.tip = OurTip(r.head)
          /\ Found("in_sync")
          /\ UNCHANGED <<compare, mirrorFaults>>
       \/ /\ r.tip = NoTip
          /\ pass' = [pass EXCEPT !["reconcile"].at = "judge"]
          /\ UNCHANGED <<compare, report, mirrorFaults>>
       \/ /\ r.tip \notin {NoTip, OurTip(r.head)}
          /\ compare' = github
          /\ pass' = [pass EXCEPT !["reconcile"].at = "judge"]
          /\ UNCHANGED <<report, mirrorFaults>>
       \/ /\ Faulty
          /\ Found("unknown")
          /\ UNCHANGED compare
    /\ UNCHANGED <<forge, github, forgeTags, githubTags, pushing, retags>>

MutantIsBehind(r) == r.tip = NoTip

IsBehind(r) == r.tip # NoTip => is_ancestor(r.tip, OurTip(r.head))

(* A GitHub that is behind is pushed to; GitHub may have moved since. *)
CatchUp ==
    LET r == pass["reconcile"] IN
    /\ At("reconcile", "judge") /\ IsBehind(r)
    /\ \/ /\ FastForward(OurTip(r.head))
          /\ github' = OurTip(r.head)
          /\ Found("in_sync")
          /\ UNCHANGED mirrorFaults
       \/ /\ ~FastForward(OurTip(r.head))
          /\ Found("behind")
          /\ UNCHANGED <<github, mirrorFaults>>
       \/ Faulty /\ Found("behind") /\ UNCHANGED github
    /\ UNCHANGED <<forge, forgeTags, githubTags, compare, pushing, retags>>

(* GitHub has commits the forge has not: nothing is pushed. *)
Alarm ==
    LET r == pass["reconcile"] IN
    /\ At("reconcile", "judge") /\ ~IsBehind(r)
    /\ Found(IF is_ancestor(OurTip(r.head), r.tip) THEN "ahead" ELSE "diverged")
    /\ UNCHANGED <<forge, github, forgeTags, githubTags, compare, pushing, retags, mirrorFaults>>

(* The tag push reads the report, and writes it back with its own tags.    *)
HoldReport ==
    /\ TagsCompared("tags")
    /\ pass' = [pass EXCEPT !["tags"] =
                   IF report = NoReport THEN NoPass ELSE [@ EXCEPT !.at = "put", !.held = report]]
    /\ UNCHANGED <<forge, github, forgeTags, githubTags, compare, pushing, report, retags, mirrorFaults>>

merge_tags(held, pushed, drift) == [held EXCEPT !.drift = (@ \ pushed) \cup drift]

MergeTags ==
    /\ At("tags", "put")
    /\ report' = merge_tags(pass["tags"].held, pass["tags"].pushed, pass["tags"].drift)
    /\ pass' = [pass EXCEPT !["tags"] = NoPass]
    /\ UNCHANGED <<forge, github, forgeTags, githubTags, compare, pushing, retags, mirrorFaults>>

-----------------------------------------------------------------------------
(* External: somebody pushes to GitHub's branch, or creates a tag there.   *)
OutsidePush ==
    /\ github # NoTip /\ github.theirs < MaxTheirs
    /\ github' = [github EXCEPT !.theirs = @ + 1]
    /\ UNCHANGED <<forge, forgeTags, githubTags, compare, pushing, pass, report, retags, mirrorFaults>>

OutsideTag(t, oid) ==
    /\ retags < MaxRetags /\ githubTags[t] = NoTag
    /\ githubTags' = [githubTags EXCEPT ![t] = oid]
    /\ retags' = retags + 1
    /\ UNCHANGED <<forge, github, forgeTags, compare, pushing, pass, report, mirrorFaults>>

(* The process stops: pushes and passes are lost, and so is the report.    *)
MirrorRestart ==
    /\ Faulty
    /\ pushing' = [k \in 1..MaxMerges |-> NoPush]
    /\ pass' = [p \in Passes |-> NoPass]
    /\ report' = NoReport
    /\ UNCHANGED <<forge, github, forgeTags, githubTags, compare, retags>>

ReconcileStep ==
    \/ ReconcileStart \/ ReadRefs("reconcile")
    \/ \E t \in Tags : TagStep("reconcile", t)
    \/ CompareBranch \/ CatchUp \/ Alarm

TagPushStep ==
    \/ ReadRefs("tags")
    \/ \E t \in Tags : TagStep("tags", t)
    \/ HoldReport \/ MergeTags

PushStep == \E k \in 1..MaxMerges : ResolveTip(k) \/ PushBranch(k)

MirrorNext ==
    \/ PushStep
    \/ ReconcileStep
    \/ \E t \in Tags, oid \in TagOids : PushTag(t, oid) \/ OutsideTag(t, oid)
    \/ TagPushStep
    \/ OutsidePush

-----------------------------------------------------------------------------
MirrorTypeOK ==
    /\ forge \in 0..MaxMerges
    /\ github \in Tips \cup {NoTip} /\ compare \in Tips \cup {NoTip}
    /\ forgeTags \in TagsOf /\ githubTags \in TagsOf
    /\ pushing \in [1..MaxMerges -> 0..MaxMerges \cup {NoPush, Due}]
    /\ pass \in [Passes -> PassStates \cup {NoPass}]
    /\ report \in Reports \cup {NoReport}

(* MirrorRepoState::needs_a_person, what the attention inbox lists. *)
needs_a_person == report # NoReport /\ (report.sync \in {"ahead", "diverged"} \/ report.drift # {})

(* "Never forces", "never moves or deletes a GitHub tag": whatever a pass  *)
(* or a merge believes about GitHub when it pushes, no commit that GitHub  *)
(* has is taken off its branch, and no tag it has is changed.              *)
MirrorNeverRewinds ==
    [][/\ github # NoTip => github' # NoTip /\ is_ancestor(github, github')
       /\ \A t \in Tags : githubTags[t] # NoTag => githubTags'[t] = githubTags[t]]_mirrorVars
=============================================================================
