---------------------------- MODULE GitWorktrees ----------------------------
(***************************************************************************)
(* The linked worktrees of one Git clone, in which several configurations  *)
(* build their snapshot branches while somebody works in worktrees of      *)
(* their own (_prepare_git_pull_request_repo, _cleanup_git_worktree,       *)
(* _cleanup_registered_branch_worktree, _sync_gitignore and                *)
(* _finalize_git_repo of engine/configbackup.py).  A configuration has the *)
(* run lock of its own archive, so runs of two of them meet here.  Git may *)
(* fail to remove what is in use, and a run may die anywhere.              *)
(***************************************************************************)
EXTENDS FiniteSets, Naturals, Common

CONSTANTS
    Engines,                           \* configurations that use the clone
    Branch,                            \* engine -> its branch; the worktree's place is a hash of it
    Place,                             \* engine -> its worktree
    Theirs,                            \* worktrees of other people
    StoredFiles,                       \* files a run stores
    BaseFiles,                         \* files of the base branch
    Ignored,                           \* engine -> files its git.ignore patterns match
    MaxGitRuns, MaxGitFaults, MaxMoves \* bounds: runs, failed calls and deaths, others' moves

AllFiles == StoredFiles \cup BaseFiles
Places   == {Place[e] : e \in Engines} \cup Theirs
Branches == {Branch[e] : e \in Engines}

(* Two configurations of one clone have a branch each, and with it a place *)
(* of its own.                                                             *)
WorktreesAssumption ==
    /\ \A e, f \in Engines : e # f => Branch[e] # Branch[f] /\ Place[e] # Place[f]
    /\ \A e \in Engines : Place[e] \notin Theirs /\ Branch[e] # None
    /\ \A files \in SUBSET AllFiles : files # None

VARIABLES
    registered, \* place -> the branch Git has a worktree for there, or None
    content,    \* place -> the files there, None if there is no directory
    head,       \* branch -> files of its last commit
    stage,      \* engine -> how far its run is
    start,      \* engine -> files its branch began with
    stored,     \* engine -> files this run has stored
    outcome,    \* engine -> "none", "published", "refused", "failed"
    excused,    \* auxiliary: engines whose run has met a failure or a move of others
    runs, gitFaults, moves

gvars == <<registered, content, head, stage, start, stored, outcome, excused, runs, gitFaults, moves>>
clone == <<registered, content>>

WorktreesInit ==
    /\ registered = [p \in Places |-> None] /\ content = [p \in Places |-> None]
    /\ head = [b \in Branches |-> BaseFiles]
    /\ stage = [e \in Engines |-> "idle"] /\ outcome = [e \in Engines |-> "none"]
    /\ start = [e \in Engines |-> {}] /\ stored = [e \in Engines |-> {}]
    /\ excused = {} /\ runs = 0 /\ gitFaults = 0 /\ moves = 0

To(e, where) == stage' = [stage EXCEPT ![e] = where]
Ends(e, how) == To(e, "idle") /\ outcome' = [outcome EXCEPT ![e] = how]

Fault(e) == gitFaults < MaxGitFaults /\ gitFaults' = gitFaults + 1 /\ excused' = excused \cup {e}
NoFault  == UNCHANGED <<gitFaults, excused>>

(* git worktree prune: directories that are gone are forgotten.            *)
Pruned(reg, dirs) == [p \in Places |-> IF dirs[p] = None THEN None ELSE reg[p]]

Holding(reg, b) == {p \in Places : reg[p] = b}

BeginRun(e) ==
    /\ stage[e] = "idle" /\ runs < MaxGitRuns /\ runs' = runs + 1
    /\ To(e, "clear") /\ stored' = [stored EXCEPT ![e] = {}]
    /\ outcome' = [outcome EXCEPT ![e] = "none"]
    /\ excused' = excused \ {e}
    /\ UNCHANGED <<clone, head, start, gitFaults, moves>>

(* _cleanup_git_worktree: git worktree remove --force, prune, and what is  *)
(* still there deleted; or part of it stays, still registered.             *)
Cleared(e) ==
    \/ /\ registered' = [Pruned(registered, content) EXCEPT ![Place[e]] = None]
       /\ content' = [content EXCEPT ![Place[e]] = None] /\ NoFault
    \/ /\ Fault(e)
       /\ \E reg \in {Pruned(registered, content)[Place[e]], None}, left \in {None, content[Place[e]]} :
            /\ registered' = [Pruned(registered, content) EXCEPT ![Place[e]] = reg]
            /\ content' = [content EXCEPT ![Place[e]] = left]

(* Variant: the place is taken as it is found.                             *)
ClearSkipped(e) == stage[e] = "clear" /\ To(e, "release")
    /\ UNCHANGED <<clone, head, start, stored, outcome, excused, runs, gitFaults, moves>>

Clear(e) ==
    /\ stage[e] = "clear" /\ Cleared(e) /\ To(e, "release")
    /\ UNCHANGED <<head, start, stored, outcome, runs, moves>>

(* Variant: whoever holds the branch must give it up.                      *)
OwnedAll(p) == TRUE

(* _is_configbackup_owned_worktree_path                                    *)
Owned(p) == p \notin Theirs

(* _cleanup_registered_branch_worktree                                     *)
Release(e) ==
    /\ stage[e] = "release"
    /\ LET known   == Pruned(registered, content)
           holding == Holding(known, Branch[e])
       IN  \/ /\ \E p \in holding : ~Owned(p)
              /\ registered' = known /\ Ends(e, "refused") /\ UNCHANGED content /\ NoFault
           \/ /\ \A p \in holding : Owned(p)
              /\ registered' = [p \in Places |-> IF p \in holding THEN None ELSE known[p]]
              /\ content' = [p \in Places |-> IF p \in holding THEN None ELSE content[p]]
              /\ To(e, "branch") /\ UNCHANGED outcome /\ NoFault
           \/ /\ \A p \in holding : Owned(p)
              /\ holding # {} /\ Fault(e)
              /\ registered' = known /\ Ends(e, "failed") /\ UNCHANGED content
    /\ UNCHANGED <<head, start, stored, runs, moves>>

(* git branch -f refuses a branch that a worktree holds.                   *)
ResetBranch(e) ==
    /\ stage[e] = "branch"
    /\ IF Holding(registered, Branch[e]) = {}
       THEN /\ head' = [head EXCEPT ![Branch[e]] = BaseFiles]
            /\ start' = [start EXCEPT ![e] = BaseFiles] /\ To(e, "add") /\ UNCHANGED outcome
       ELSE Ends(e, "failed") /\ UNCHANGED <<head, start>>
    /\ UNCHANGED <<clone, stored, excused, runs, gitFaults, moves>>

(* Variant: files that are tracked stay, whatever is ignored now.          *)
WithoutTracked(e, files) == files

(* _sync_gitignore: what is ignored now is no longer part of the snapshot. *)
Without(e, files) == files \ Ignored[e]

(* git worktree add refuses a place where something is, and a branch held. *)
AddWorktree(e) ==
    /\ stage[e] = "add"
    /\ IF content[Place[e]] = None /\ Holding(registered, Branch[e]) = {}
       THEN /\ registered' = [registered EXCEPT ![Place[e]] = Branch[e]]
            /\ content' = [content EXCEPT ![Place[e]] = Without(e, head[Branch[e]])]
            /\ To(e, "store") /\ UNCHANGED outcome
       ELSE Ends(e, "failed") /\ UNCHANGED clone
    /\ UNCHANGED <<head, start, stored, excused, runs, gitFaults, moves>>

(* _git_backup_one_file: the directories it needs are made if need be.     *)
StoreFile(e, f) ==
    /\ stage[e] = "store" /\ f \notin stored[e]
    /\ stored' = [stored EXCEPT ![e] = @ \cup {f}]
    /\ content' = [content EXCEPT ![Place[e]] =
          (IF @ = None THEN {} ELSE @) \cup ({f} \ Ignored[e])]
    /\ UNCHANGED <<registered, head, stage, start, outcome, excused, runs, gitFaults, moves>>

(* _finalize_git_repo: what is in the worktree becomes the branch.         *)
Finalize(e) ==
    /\ stage[e] = "store"
    /\ IF registered[Place[e]] = Branch[e] /\ content[Place[e]] # None
       THEN /\ head' = [head EXCEPT ![Branch[e]] = content[Place[e]]]
            /\ outcome' = [outcome EXCEPT ![e] = "published"]
       ELSE outcome' = [outcome EXCEPT ![e] = "failed"] /\ UNCHANGED head
    /\ To(e, "end")
    /\ UNCHANGED <<clone, start, stored, excused, runs, gitFaults, moves>>

EndRun(e) ==
    /\ stage[e] = "end" /\ Cleared(e) /\ To(e, "idle")
    /\ UNCHANGED <<head, start, stored, outcome, runs, moves>>

Die(e) ==
    /\ stage[e] # "idle" /\ Fault(e)
    /\ To(e, "idle") /\ outcome' = [outcome EXCEPT ![e] = "failed"]
    /\ UNCHANGED <<clone, head, start, stored, runs, moves>>

(* Other people add and remove worktrees of their own.                     *)
TheyMove(p) ==
    /\ moves < MaxMoves /\ moves' = moves + 1 /\ excused' = Engines
    /\ \/ \E b \in Branches :
            /\ content[p] = None /\ Holding(registered, b) = {}
            /\ registered' = [registered EXCEPT ![p] = b]
            /\ content' = [content EXCEPT ![p] = head[b]]
       \/ /\ content[p] # None
          /\ registered' = [registered EXCEPT ![p] = None]
          /\ content' = [content EXCEPT ![p] = None]
    /\ UNCHANGED <<head, stage, start, stored, outcome, runs, gitFaults>>

EngineStep(e) ==
    \/ Clear(e) \/ Release(e) \/ ResetBranch(e) \/ AddWorktree(e) \/ Finalize(e) \/ EndRun(e)
    \/ \E f \in StoredFiles : StoreFile(e, f)

WorktreesNext ==
    \/ \E e \in Engines : BeginRun(e) \/ EngineStep(e) \/ Die(e)
    \/ \E p \in Theirs : TheyMove(p)

-----------------------------------------------------------------------------
(* docs/git-storage.md:72-74, _cleanup_registered_branch_worktree: a run   *)
(* takes no worktree of other people, nor moves the branch it holds.       *)
TheirsKept ==
    \A p \in Theirs : registered[p] # None /\ moves' = moves =>
        /\ registered'[p] = registered[p] /\ content'[p] = content[p]
        /\ head'[registered[p]] = head[registered[p]]

(* _finalize_git_repo: what a run publishes is the base without what is    *)
(* ignored, and all that this very run has stored, whatever runs that died *)
(* and worktrees half removed have left behind.  Engines with one branch   *)
(* share one worktree, and then it fails.                                  *)
OwnWork ==
    \A e \in Engines : stage[e] = "end" /\ outcome[e] = "published" =>
        head[Branch[e]] = (start[e] \cup stored[e]) \ Ignored[e]

(* _prepare_git_pull_request_repo: a run fails only for what happens while *)
(* it runs; whatever an earlier run left, half removed or still            *)
(* registered, is out of the way by then.                                  *)
FailsForCause ==
    \A e \in Engines :
        /\ outcome[e] = "refused" => moves > 0
        /\ outcome[e] = "failed" => e \in excused

RunsSound == OwnWork /\ FailsForCause
=============================================================================
