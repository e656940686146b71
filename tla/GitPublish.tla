---------------------------- MODULE GitPublish ----------------------------
(***************************************************************************)
(* Publication of Git snapshots over a sequence of runs: preparing the     *)
(* repository, one snapshot commit, the push, the pull request, and what   *)
(* the state document remembers of it (_prepare_git_repo,                  *)
(* _git_backup_one_file, _finalize_git_repo, _ensure_github_pull_request   *)
(* and _rollback_git_repo of engine/configbackup.py).                      *)
(*                                                                         *)
(* The remote belongs to others as well: they merge and close pull         *)
(* requests, delete the branch, push to it and move the base.  Any call    *)
(* over the network may fail, before or after it took effect; the process  *)
(* may die at any point.  The run journal is the head it has recorded: as  *)
(* TransactionJournal shows, it is undone if that is still the head and    *)
(* left to the operator otherwise.                                         *)
(*                                                                         *)
(* A commit is the sequence of the numbers of all commits up to it; the    *)
(* snapshot is one file.                                                   *)
(***************************************************************************)
EXTENDS Naturals, Sequences, SequencesExt

CONSTANTS Contents,    \* contents of the source file
          First,       \* content of the file before the first run
          Modes,       \* ways publication may be configured
          None,        \* no branch, no journal, no worktree
          MaxCommits,  \* bound: commits ever made, by anyone
          MaxFaults    \* bound: failed calls and crashes

\* With pull requests, with an automation branch only (pull_request.enabled
\* is off), or the direct mode with git.push.
AllModes == {"pull_request", "branch", "direct"}

Commits == 1..MaxCommits
History == Seq(Commits) \ {<<>>}

ASSUME GitPublishAssumption ==
    /\ Modes \subseteq AllModes
    /\ First \in Contents
    /\ None \notin Contents \cup History
    /\ MaxCommits \in Nat \ {0}
    /\ MaxFaults \in Nat

VARIABLES
  mode,
  text,       \* the snapshot in each commit, for those made so far
  foreign,    \* the commits others made on the published branch
  remote,     \* base and published branch, and the pull request
  tracking,   \* both branches as last fetched
  local,      \* the local branch, head of the worktree
  tree,       \* the snapshot in the worktree
  pub,        \* state.data["publication"]
  saved,      \* the same in state.json
  journal,    \* the head recorded in the pending run journal
  pc,         \* how far the run is
  force,      \* git_force_push
  found,      \* git_open_pr_url is known
  abandoned,  \* auxiliary: a journal was reset, and no head recorded since
  faults

git  == <<text, foreign, remote, tracking, local>>
run  == <<pc, force, found, journal, abandoned>>
vars == <<mode, git, tree, pub, saved, run, faults>>

Made == Len(text)
Content(h) == text[Last(h)]

Init ==
    /\ mode \in Modes
    /\ text = <<First>>
    /\ foreign = {}
    /\ remote = [base |-> <<1>>, branch |-> None, pr |-> FALSE]
    /\ tracking = [base |-> <<1>>, branch |-> None]
    /\ local = IF mode = "direct" THEN <<1>> ELSE None
    /\ tree = IF mode = "direct" THEN First ELSE None
    /\ pub = [local |-> None, pushed |-> None, url |-> FALSE, force |-> FALSE,
              pending |-> FALSE]
    /\ saved = pub
    /\ journal = None
    /\ pc = "idle"
    /\ force = FALSE
    /\ found = FALSE
    /\ abandoned = FALSE
    /\ faults = 0

-----------------------------------------------------------------------------
(* What others do *)

NewCommit(content) == text' = Append(text, content)

\* One number is left for a commit of the run.
TheirCommit(content) ==
    /\ Made + 1 < MaxCommits
    /\ NewCommit(content)

Others == UNCHANGED <<mode, tracking, local, tree, pub, saved, run, faults>>

\* A commit of another file, in the branch that is published or in the base.  A
\* deleted branch may be created anew, though not in the moment between the push
\* of a run and its pull request.
PushElsewhere ==
    /\ \/ LET parent == IF remote.branch = None THEN remote.base ELSE remote.branch
          IN  /\ remote.branch = None => pc # "pr"
              /\ TheirCommit(Content(parent))
              /\ foreign' = foreign \cup {Made + 1}
              /\ remote' = [remote EXCEPT !.branch = Append(parent, Made + 1)]
       \/ /\ mode # "direct"
          /\ TheirCommit(Content(remote.base))
          /\ remote' = [remote EXCEPT !.base = Append(@, Made + 1)]
          /\ UNCHANGED foreign
    /\ Others

\* A pull request needs a commit that the base lacks.
Creatable == remote.branch # None /\ ~IsPrefix(remote.branch, remote.base)

OpenPr ==
    /\ mode # "direct"
    /\ ~remote.pr
    /\ Creatable
    /\ remote' = [remote EXCEPT !.pr = TRUE]
    /\ UNCHANGED <<text, foreign>>
    /\ Others

\* Merged by moving the base, or squashed into one commit of it.
MergePr ==
    /\ remote.pr
    /\ IF IsPrefix(remote.base, remote.branch)
       THEN /\ remote' = [remote EXCEPT !.base = remote.branch, !.pr = FALSE]
            /\ UNCHANGED text
       ELSE /\ TheirCommit(Content(remote.branch))
            /\ remote' = [remote EXCEPT !.base = Append(@, Made + 1), !.pr = FALSE]
    /\ UNCHANGED foreign
    /\ Others

ClosePr ==
    /\ remote.pr
    /\ remote' = [remote EXCEPT !.pr = FALSE]
    /\ UNCHANGED <<text, foreign>>
    /\ Others

DeleteBranch ==
    /\ mode # "direct"
    /\ ~remote.pr
    /\ remote.branch # None
    /\ remote' = [remote EXCEPT !.branch = None]
    /\ UNCHANGED <<text, foreign>>
    /\ Others

-----------------------------------------------------------------------------
(* Starting a run *)

Fault ==
    /\ faults < MaxFaults
    /\ faults' = faults + 1

\* A git call fails, with the network or without it.
GitFails == Fault

\* A gh call fails: no program, no login, no repository named by the remote, or
\* an error of the service.  Only pull requests need one.
GhFails == mode = "pull_request" /\ Fault

\* The worktree is discarded; the checkout of direct mode stays.
Discarded(content) == IF mode = "direct" THEN content ELSE None

Refused == journal # None /\ local # journal

\* The start undoes a run whose head is still the recorded one, and stops
\* with a configuration error at any other journal.
Recover ==
    /\ pc = "idle"
    /\ journal # None
    /\ ~Refused
    /\ tree' = Discarded(Content(local))
    /\ journal' = None
    /\ UNCHANGED <<mode, git, pub, saved, pc, force, found, abandoned, faults>>

\* journal_recovery --reset, by the operator.
ResetJournal ==
    /\ pc = "idle"
    /\ journal # None
    /\ journal' = None
    /\ abandoned' = TRUE
    /\ UNCHANGED <<mode, git, tree, pub, saved, pc, force, found, faults>>

\* What direct mode asks of the operator before it starts again.
CleanCheckout ==
    /\ pc = "idle"
    /\ journal = None
    /\ mode = "direct"
    /\ tree # Content(local)
    /\ tree' = Content(local)
    /\ UNCHANGED <<mode, git, pub, saved, run, faults>>

\* What is fetched: the published branch, if it is there, and the base, which
\* the configuration names or the remote calls its default.
Fetched == [base |-> remote.base, branch |-> remote.branch]

\* git fetch --prune
Fetch ==
    /\ pc = "idle"
    /\ journal = None
    /\ mode # "direct"
    /\ tracking' = Fetched
    /\ pc' = "fetched"
    /\ UNCHANGED <<mode, text, foreign, remote, local, tree, pub, saved, force,
                   found, journal, abandoned, faults>>

\* Variant: the commit is resumed only if there is no pull request for it.
ResumedUnoffered ==
    /\ local # None
    /\ local = pub.local
    /\ ~pub.url

\* What the last run could not publish is still the head of the branch.
Resumed ==
    /\ local # None
    /\ local = pub.local
    /\ pub.local # pub.pushed \/ ~pub.url

OpenPrFound == mode = "pull_request" /\ remote.pr

StartRef == IF Resumed THEN local
            ELSE IF OpenPrFound THEN tracking.branch ELSE tracking.base

\* Variant: the journal is begun before the branch is moved.
PrepareBranchJournalFirst ==
    /\ pc = "fetched"
    /\ OpenPrFound => tracking.branch # None
    /\ local' = StartRef
    /\ tree' = Content(StartRef)
    /\ force' = IF Resumed THEN pub.force ELSE ~OpenPrFound /\ tracking.branch # None
    /\ found' = OpenPrFound
    /\ journal' = local
    /\ pc' = "tasks"
    /\ UNCHANGED <<mode, text, foreign, remote, tracking, pub, saved, abandoned, faults>>

\* The branch is moved to where this run starts from, checked out in a new
\* worktree, and its head recorded in the new run journal.
PrepareBranch ==
    /\ pc = "fetched"
    /\ OpenPrFound => tracking.branch # None
    /\ local' = StartRef
    /\ tree' = Content(StartRef)
    /\ force' = IF Resumed THEN pub.force ELSE ~OpenPrFound /\ tracking.branch # None
    /\ found' = OpenPrFound
    /\ journal' = StartRef
    /\ pc' = "tasks"
    /\ UNCHANGED <<mode, text, foreign, remote, tracking, pub, saved, abandoned, faults>>

\* Direct mode wants a clean checkout.
PrepareDirect ==
    /\ pc = "idle"
    /\ journal = None
    /\ mode = "direct"
    /\ tree = Content(local)
    /\ journal' = local
    /\ pc' = "tasks"
    /\ UNCHANGED <<mode, git, tree, pub, saved, force, found, abandoned, faults>>

\* An error before the journal is begun ends the run, with the branch moved or
\* not; nothing is recorded.
PrepareFails ==
    /\ pc = "fetched"
    /\ \/ OpenPrFound /\ tracking.branch = None /\ UNCHANGED <<local, faults>>
       \/ (GhFails \/ GitFails) /\ UNCHANGED local
       \/ GitFails /\ StartRef # None /\ local' = StartRef
    /\ pc' = "idle"
    /\ UNCHANGED <<mode, text, foreign, remote, tracking, tree, pub, saved, force, found,
                   journal, abandoned>>

-----------------------------------------------------------------------------
(* The snapshot and its publication *)

\* The archive task stores what the source holds now, or fails or is not due.
Store ==
    /\ pc = "tasks"
    /\ tree' \in Contents \cup {tree}
    /\ tree' # tree => Made < MaxCommits
    /\ pc' = "commit"
    /\ UNCHANGED <<mode, git, pub, saved, force, found, journal, abandoned, faults>>

Recorded(head) ==
    [pub EXCEPT !.local = head, !.url = found, !.force = force]

\* An unchanged snapshot makes no commit, and publication is tried again.
Commit ==
    /\ pc = "commit"
    /\ IF tree = Content(local)
       THEN UNCHANGED <<text, local>>
       ELSE NewCommit(tree) /\ local' = Append(local, Made + 1)
    /\ pub' = Recorded(local')
    /\ pc' = "push"
    /\ UNCHANGED <<mode, foreign, remote, tracking, tree, saved, force, found,
                   journal, abandoned, faults>>

\* The secret scan finds something, or a git command fails.
CommitFails ==
    /\ pc = "commit"
    /\ GitFails
    /\ pc' = "failed"
    /\ UNCHANGED <<mode, git, tree, pub, saved, force, found, journal, abandoned>>

\* Variant: --force.
AcceptedForced ==
    ~force /\ remote.branch # None => IsPrefix(remote.branch, local)

\* A forced push has a lease on the branch as it was fetched.
Accepted ==
    IF force THEN remote.branch = tracking.branch
             ELSE remote.branch # None => IsPrefix(remote.branch, local)

Arrive ==
    /\ remote' = [remote EXCEPT !.branch = local]
    /\ UNCHANGED <<text, foreign, local>>

Push ==
    /\ pc = "push"
    /\ Accepted
    /\ Arrive
    /\ tracking' = [tracking EXCEPT !.branch = local]
    /\ pub' = [pub EXCEPT !.pushed = pub.local]
    /\ pc' = IF mode = "pull_request" THEN "pr" ELSE "done"
    /\ UNCHANGED <<mode, tree, saved, force, found, journal, abandoned, faults>>

\* Rejected, or reported as failed, whether it arrived or not.
PushFails ==
    /\ pc = "push"
    /\ \/ ~Accepted /\ UNCHANGED <<git, faults>>
       \/ GitFails /\ UNCHANGED git
       \/ GitFails /\ Accepted /\ Arrive /\ UNCHANGED tracking
    /\ pc' = "failed"
    /\ UNCHANGED <<mode, tree, pub, saved, force, found, journal, abandoned>>

\* Variant: the pull request found at the start of the run is still there.
EnsurePrFound ==
    /\ pc = "pr"
    /\ found \/ remote.pr \/ Creatable
    /\ remote' = [remote EXCEPT !.pr = ~found \/ @]
    /\ pub' = [pub EXCEPT !.url = TRUE]
    /\ pc' = "done"
    /\ UNCHANGED <<mode, text, foreign, tracking, local, tree, saved, force, found,
                   journal, abandoned, faults>>

EnsurePr ==
    /\ pc = "pr"
    /\ remote.pr \/ Creatable
    /\ remote' = [remote EXCEPT !.pr = TRUE]
    /\ pub' = [pub EXCEPT !.url = TRUE]
    /\ pc' = "done"
    /\ UNCHANGED <<mode, text, foreign, tracking, local, tree, saved, force, found,
                   journal, abandoned, faults>>

EnsurePrFails ==
    /\ pc = "pr"
    /\ \/ /\ ~remote.pr
          /\ ~Creatable
          /\ UNCHANGED <<remote, faults>>
       \/ GhFails /\ UNCHANGED remote
       \/ /\ GhFails
          /\ ~remote.pr
          /\ Creatable
          /\ remote' = [remote EXCEPT !.pr = TRUE]
    /\ pc' = "failed"
    /\ UNCHANGED <<mode, text, foreign, tracking, local, tree, pub, saved, force,
                   found, journal, abandoned>>

-----------------------------------------------------------------------------
(* The end of a run *)

\* git reset --hard and git clean, in direct mode; a worktree goes as a whole.
RolledBack == Discarded(Content(local))

\* Variant: direct mode leaves what was staged.
FinishUnreset ==
    /\ pc \in {"done", "failed"}
    /\ pub' = [pub EXCEPT !.pending = (pc = "failed")]
    /\ saved' = pub'
    /\ tree' = Discarded(tree)
    /\ journal' = None
    /\ force' = FALSE
    /\ found' = FALSE
    /\ abandoned' = (abandoned /\ pub.local # local)
    /\ pc' = "idle"
    /\ UNCHANGED <<mode, git, faults>>

\* A failed finalization is recorded and direct mode reset to its head; then
\* the state is saved, the journal committed and the worktree removed.
Finish ==
    /\ pc \in {"done", "failed"}
    /\ pub' = [pub EXCEPT !.pending = (pc = "failed")]
    /\ saved' = pub'
    /\ tree' = RolledBack
    /\ journal' = None
    /\ force' = FALSE
    /\ found' = FALSE
    /\ abandoned' = (abandoned /\ pub.local # local)
    /\ pc' = "idle"
    /\ UNCHANGED <<mode, git, faults>>

\* Before the journal is committed, which ends the run: one with an unmoved
\* head is undone, state document included.
Crash ==
    /\ pc \notin {"idle", "fetched"}
    /\ Fault
    /\ tree' = Discarded(tree)
    /\ pub' = saved
    /\ force' = FALSE
    /\ found' = FALSE
    /\ pc' = "idle"
    /\ UNCHANGED <<mode, git, saved, journal, abandoned>>

Engine ==
    \/ Recover \/ Fetch \/ PrepareBranch \/ PrepareDirect \/ PrepareFails
    \/ Store \/ Commit \/ CommitFails \/ Push \/ PushFails
    \/ EnsurePr \/ EnsurePrFails \/ Finish

Environment ==
    \/ PushElsewhere \/ OpenPr \/ MergePr \/ ClosePr \/ DeleteBranch
    \/ ResetJournal \/ CleanCheckout \/ Crash

Next == Engine \/ Environment

\* The scheduler starts runs again and again, and a run that is not killed goes
\* on; that calls stop failing is the bound on faults.
Spec == Init /\ [][Next]_vars /\ WF_vars(Engine)

-----------------------------------------------------------------------------
(* Properties *)

Branches == History \cup {None}
Publication == [local : Branches, pushed : Branches, url : BOOLEAN, force : BOOLEAN,
                pending : BOOLEAN]

TypeOK ==
    /\ mode \in Modes
    /\ text \in Seq(Contents) /\ Made <= MaxCommits
    /\ foreign \subseteq 1..Made
    /\ remote \in [base : History, branch : Branches, pr : BOOLEAN]
    /\ tracking \in [base : History, branch : Branches]
    /\ local \in Branches
    /\ tree \in Contents \cup {None}
    /\ pub \in Publication
    /\ saved \in Publication
    /\ journal \in Branches
    /\ pc \in {"idle", "fetched", "tasks", "commit", "push", "pr", "done", "failed"}
    /\ force \in BOOLEAN /\ found \in BOOLEAN /\ abandoned \in BOOLEAN
    /\ faults \in 0..MaxFaults
    /\ pc \in {"tasks", "commit"} => journal = local

Ids(h) == IF h = None THEN {} ELSE {h[i] : i \in DOMAIN h}

\* A snapshot that was committed and not yet pushed stays on the local branch
\* until it is, whatever becomes of the pull request, whatever fails and
\* whichever branch the next runs start from ("failures remain pending and are
\* retried", docs/monitoring-and-inventory.md:13); an operator who abandons a
\* journal gives this up.
UnpublishedKept ==
    saved.local # saved.pushed /\ ~abandoned =>
        local # None /\ Ids(saved.local) \subseteq Ids(local)

\* The same, over the domains of all variables.
WorkKept == TypeOK /\ UnpublishedKept

\* A push takes nothing off the branch that this run has not fetched: what
\* somebody pushes while the tasks are running survives the forced push.
NothingUnseenOverwritten ==
    [][pc = "push" /\ remote'.branch # None =>
         Ids(remote.branch) \ Ids(remote'.branch) \subseteq Ids(tracking.branch)]_vars

\* A run counts as published only if the remote offers what its tasks have
\* stored: the commit is on the branch, and the pull request is open then, not
\* when the run looked for it first.
PublishedMeansOffered ==
    [][pc # "done" /\ pc' = "done" =>
         /\ tree = Content(local)
         /\ remote'.branch # None /\ IsPrefix(local, remote'.branch)
         /\ mode = "pull_request" => remote'.pr]_vars

\* The published branch has commits that the local one lacks.
Ahead == remote.branch # None /\ local # None /\ ~IsPrefix(remote.branch, local)

\* Publication waits for an operator: to review a journal, to integrate what was
\* pushed elsewhere, to commit what an abandoned run left in the checkout, or
\* because there is nothing a pull request could contain.
Blocked ==
    \/ Refused
    \/ ~saved.force /\ Ahead
    \/ mode = "direct" /\ abandoned /\ tree # Content(local)
    \/ mode = "pull_request" /\ local # None /\ IsPrefix(local, remote.base)

\* Publication does not stay pending while runs go on and the network works,
\* unless an operator is needed: a journal that was refused, a branch that
\* somebody else has moved on, or nothing to make a pull request of; or unless
\* somebody deletes the branch again and again.
PublicationRecovers ==
    []<>~saved.pending \/ <>[]Blocked \/ []<><<DeleteBranch>>_vars
=============================================================================
