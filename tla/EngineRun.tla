----------------------------- MODULE EngineRun -----------------------------
(***************************************************************************)
(* The scheduling of BackupEngine: a run takes the configured tasks phase  *)
(* by phase and dependency by dependency, decides for each whether to      *)
(* attempt it, finalizes Git, applies retention, saves what the next run   *)
(* has to know and reports an exit code.  Runs follow one another; a run   *)
(* killed on the way is undone by the next start, as TransactionJournal    *)
(* shows, and the clock may be set in between.                             *)
(*                                                                         *)
(* What a task does to files is TaskArchive's subject: an attempt is its   *)
(* outcome.  Tasks are collectors (execute) and archives (directory);      *)
(* Git is the direct mode.                                                 *)
(***************************************************************************)
EXTENDS Naturals, FiniteSets

CONSTANTS Tasks,     \* task names
          Configs,   \* configurations an operator may write, valid or not
          Times,     \* what the clock may show
          Interval,  \* collection_interval_hours of a task with a cadence
          Never      \* no last_success

Phases   == 1..5     \* pre_run, pre_backup, backup, post_backup, post_run
PostRun  == 5
Statuses == {"success", "failed", "partial"}
Results  == Statuses \cup {"none", "disabled", "not_due", "skipped"}

Config ==
    [deps        : [Tasks -> SUBSET Tasks],
     phase       : [Tasks -> Phases],
     type        : [Tasks -> {"execute", "directory"}],
     storage     : [Tasks -> {"filesystem", "git", "both"}],
     enabled     : SUBSET Tasks,
     required    : SUBSET Tasks,
     always      : SUBSET Tasks,    \* run_on_failure
     certified   : SUBSET Tasks,    \* collection_manifest
     cadenced    : SUBSET Tasks,    \* with a collection interval
     git         : BOOLEAN,         \* git.enabled
     budgeted    : BOOLEAN,         \* options.run_budget_seconds
     stopOnError : BOOLEAN]         \* options.stop_on_error

ASSUME EngineRunAssumption ==
    /\ IsFiniteSet(Tasks)
    /\ Configs \subseteq Config
    /\ Times \subseteq Nat
    /\ Interval \in Nat
    /\ Never \notin Times

(***************************************************************************)
(* _validate and _validate_dependencies.  A set of tasks of which each     *)
(* depends on another of the set is what a cycle leaves behind.            *)
(***************************************************************************)
\* Variant: only a task naming itself is a cycle.
AcyclicSelfOnly(c) ==
    \A t \in Tasks : t \notin c.deps[t]

Acyclic(c) ==
    \A S \in (SUBSET Tasks) \ {{}} : \E t \in S : c.deps[t] \cap S = {}

\* Variant: dependencies need only exist.
PhaseUnchecked(c) ==
    \A t \in Tasks : c.deps[t] \subseteq Tasks

PhaseOrdered(c) ==
    \A t \in Tasks : \A d \in c.deps[t] : c.phase[d] <= c.phase[t]

ValidConfigs == {c \in Configs : Acyclic(c) /\ PhaseOrdered(c)}

VARIABLES
  cfg,      \* the configuration in use
  now,      \* the clock
  stage,    \* "idle", or how far the run is
  phase,    \* phase being worked on
  waiting,  \* its tasks without a result
  results,  \* task -> its result in this run
  abort,    \* abort_normal_tasks
  spent,    \* the collection budget is used up
  problem,  \* a required result that is not a task's failed
  exit,     \* exit code of the last run
  book,     \* state: last success and status of each task, publication.pending
  owed,     \* what archives and Git still lack; see Attempt and Finalize
  saved     \* book and owed as an undo restores them

progress == <<phase, waiting, results, abort, spent, problem>>
vars     == <<cfg, now, stage, progress, exit, book, owed, saved>>

TasksIn(p) == {t \in Tasks : cfg.phase[t] = p}

Unsettled == [t \in Tasks |-> "none"]

Init ==
    /\ cfg \in ValidConfigs
    /\ now \in Times
    /\ stage = "idle"
    /\ phase = 1
    /\ waiting = {}
    /\ results = Unsettled
    /\ abort = FALSE
    /\ spent = FALSE
    /\ problem = FALSE
    /\ exit = "none"
    /\ book = [success |-> [t \in Tasks |-> Never],
               status  |-> [t \in Tasks |-> "none"],
               pending |-> FALSE]
    /\ owed = [captures |-> {}, git |-> {}]
    /\ saved = [book |-> book, owed |-> owed]

(* The nested function depends() of _run_task. *)
DependsOn(t, w) ==
    \A S \in SUBSET Tasks :
        (cfg.deps[t] \subseteq S /\ \A x \in S : cfg.deps[x] \subseteq S)
            => w \in S

Children(c) ==
    {t \in cfg.enabled : cfg.type[t] # "execute" /\ DependsOn(t, c)}

InGit(t) == cfg.storage[t] \in {"git", "both"}

(* The task and all it depends on: task_enabled, and enabled() of         *)
(* retention_planning.                                                    *)
EnabledWithDeps(t) ==
    t \in cfg.enabled /\ \A d \in Tasks : DependsOn(t, d) => d \in cfg.enabled

UsesGit ==
    cfg.git /\ \E t \in Tasks : EnabledWithDeps(t) /\ cfg.type[t] # "execute" /\ InGit(t)

\* Variant: a partial archive counts as done.
OutstandingFailedOnly(c) ==
    \/ \E t \in Children(c) : book.success[t] = Never \/ book.status[t] = "failed"
    \/ UsesGit /\ book.pending /\ \E t \in Children(c) : InGit(t)

(* An enabled dependent has something left to publish. *)
Outstanding(c) ==
    \/ \E t \in Children(c) : \/ book.success[t] = Never
                              \/ book.status[t] \in {"failed", "partial", "skipped"}
    \/ UsesGit /\ book.pending /\ \E t \in Children(c) : InGit(t)

(* The last success is no older than the interval, and not in the future. *)
Recent(c) ==
    /\ book.success[c] # Never
    /\ book.success[c] <= now
    /\ now < book.success[c] + Interval

Due(c) ==
    \/ c \notin cfg.cadenced
    \/ cfg.type[c] # "execute"
    \/ Outstanding(c)
    \/ ~Recent(c)

Accepted(t) ==
    {"success"} \cup IF t \in cfg.certified /\ cfg.type[t] = "directory"
                       THEN {"partial"} ELSE {}

\* Variant: a skipped dependency is no failure.
FailedDepsByFailure(t) ==
    {d \in cfg.deps[t] : results[d] = "failed"}

FailedDeps(t) == {d \in cfg.deps[t] : results[d] \notin Accepted(t)}

(* The early returns of _run_task, in their order; "none": attempt it. *)
EarlyResult(t) ==
    IF t \notin cfg.enabled THEN "disabled"
    ELSE IF ~Due(t) THEN "not_due"
    ELSE IF cfg.budgeted /\ spent /\ cfg.type[t] = "execute" THEN "skipped"
    ELSE IF ~cfg.git /\ cfg.storage[t] = "git" THEN "disabled"
    ELSE IF \E d \in cfg.deps[t] : results[d] = "not_due" THEN "not_due"
    ELSE IF \E d \in FailedDeps(t) : results[d] = "disabled" THEN "disabled"
    ELSE IF FailedDeps(t) # {} /\ t \notin cfg.always THEN "skipped"
    ELSE "none"

-----------------------------------------------------------------------------

(* What a process holds goes with it. *)
ProcessEnds ==
    /\ stage' = "idle"
    /\ phase' = 1
    /\ waiting' = {}
    /\ results' = Unsettled
    /\ abort' = FALSE
    /\ spent' = FALSE
    /\ problem' = FALSE

Start(time) ==
    /\ stage = "idle"
    /\ now' = time
    /\ stage' = "tasks"
    /\ waiting' = TasksIn(1)
    /\ exit' = "none"
    /\ UNCHANGED <<cfg, phase, results, abort, spent, problem, book, owed, saved>>

SpendBudget ==
    /\ stage = "tasks"
    /\ cfg.budgeted
    /\ ~spent
    /\ spent' = TRUE
    /\ UNCHANGED <<cfg, now, stage, phase, waiting, results, abort, problem,
                   exit, book, owed, saved>>

SamePhaseDeps(t) == {d \in cfg.deps[t] : cfg.phase[d] = phase}

Ready(t) ==
    /\ t \in waiting
    /\ \A d \in SamePhaseDeps(t) : results[d] # "none"

\* Variant: cleanup is aborted too.
VetoedAll(t) == abort /\ t \in waiting

Vetoed(t) == abort /\ ~(phase = PostRun /\ t \in cfg.always)

\* Variant: the task stays pending.
SettleKeepingPending(t, result) ==
    /\ results' = [results EXCEPT ![t] = result]
    /\ UNCHANGED <<cfg, now, stage, phase, waiting, spent, problem, exit, saved>>

Settle(t, result) ==
    /\ waiting' = waiting \ {t}
    /\ results' = [results EXCEPT ![t] = result]
    /\ UNCHANGED <<cfg, now, stage, phase, spent, problem, exit, saved>>

(* stop_on_error: no call of _run_task, no record of the skip. *)
SkipAfterError(t) ==
    /\ stage = "tasks"
    /\ Ready(t)
    /\ Vetoed(t)
    /\ Settle(t, "skipped")
    /\ UNCHANGED <<abort, book, owed>>

(* _run_task returns before the attempt; the record stays as it was. *)
ReturnEarly(t) ==
    /\ stage = "tasks"
    /\ Ready(t)
    /\ ~Vetoed(t)
    /\ EarlyResult(t) # "none"
    /\ Settle(t, EarlyResult(t))
    /\ UNCHANGED <<abort, book, owed>>

(* owed.captures: pairs <<a, c>> of an enabled archive and a collector it  *)
(* depends on, once c has succeeded and until a succeeds.                  *)
OwedAfter(t, outcome) ==
    IF outcome # "success" THEN owed.captures
    ELSE IF cfg.type[t] = "execute"
           THEN owed.captures \cup {<<a, t>> : a \in Children(t)}
           ELSE {p \in owed.captures : p[1] # t}

Attempt(t, outcome) ==
    /\ stage = "tasks"
    /\ Ready(t)
    /\ ~Vetoed(t)
    /\ EarlyResult(t) = "none"
    /\ Settle(t, outcome)
    /\ abort' = (abort \/ (outcome = "failed" /\ cfg.stopOnError /\ t \in cfg.required))
    /\ book' = [book EXCEPT !.status[t] = outcome,
                            !.success[t] = IF outcome = "success" THEN now ELSE @]
    /\ owed' = [owed EXCEPT !.captures = OwedAfter(t, outcome)]

\* Variant: one phase too many.
NextPhaseUnbounded ==
    /\ stage = "tasks"
    /\ waiting = {}
    /\ phase <= PostRun
    /\ phase' = phase + 1
    /\ waiting' = TasksIn(phase + 1)
    /\ UNCHANGED <<cfg, now, stage, results, abort, spent, problem, exit, book,
                   owed, saved>>

NextPhase ==
    /\ stage = "tasks"
    /\ waiting = {}
    /\ phase < PostRun
    /\ phase' = phase + 1
    /\ waiting' = TasksIn(phase + 1)
    /\ UNCHANGED <<cfg, now, stage, results, abort, spent, problem, exit, book,
                   owed, saved>>

EndTasks ==
    /\ stage = "tasks"
    /\ waiting = {}
    /\ phase = PostRun
    /\ stage' = IF UsesGit THEN "finalize" ELSE "retention"
    /\ UNCHANGED <<cfg, now, progress, exit, book, owed, saved>>

Stored == {t \in Tasks : cfg.type[t] # "execute" /\ InGit(t) /\ results[t] \in {"success", "partial"}}

\* Variant: the failure is only logged.
FinalizeUnreported(outcome) ==
    /\ stage = "finalize"
    /\ book' = [book EXCEPT !.pending = (outcome # "pushed")]
    /\ owed' = [owed EXCEPT !.git = IF outcome = "reset" THEN @ \cup Stored
                                                         ELSE @ \ Stored]
    /\ stage' = "retention"
    /\ UNCHANGED <<cfg, now, progress, exit, saved>>

(* The push succeeds, fails after the local commit, or nothing is          *)
(* committed and the work tree is reset.  owed.git: archives whose         *)
(* snapshot a reset has thrown away, until they are stored and committed.  *)
Finalize(outcome) ==
    /\ stage = "finalize"
    /\ book' = [book EXCEPT !.pending = (outcome # "pushed")]
    /\ problem' = (problem \/ outcome # "pushed")
    /\ owed' = [owed EXCEPT !.git = IF outcome = "reset" THEN @ \cup Stored
                                                         ELSE @ \ Stored]
    /\ stage' = "retention"
    /\ UNCHANGED <<cfg, now, phase, waiting, results, abort, spent, exit, saved>>

Pruned == {t \in Tasks : results[t] \in {"success", "partial"} /\ EnabledWithDeps(t)}

\* Variant: partial is good enough.
RequiredFailure ==
    problem \/ \E t \in cfg.required : results[t] \in {"failed", "skipped"}

RequiredProblem ==
    \/ problem
    \/ \E t \in cfg.required : results[t] \in {"failed", "skipped", "partial"}

Retain(failed) ==
    /\ stage = "retention"
    /\ failed => Pruned # {}
    /\ problem' = (problem \/ failed)
    /\ stage' = "save"
    /\ UNCHANGED <<cfg, now, phase, waiting, results, abort, spent, exit, book,
                   owed, saved>>

(* state.save and commit, then the reports: a required one may fail too. *)
Finish(reportFailed) ==
    /\ stage = "save"
    /\ exit' = IF RequiredProblem \/ reportFailed THEN "4" ELSE "0"
    /\ saved' = [book |-> book, owed |-> owed]
    /\ ProcessEnds
    /\ UNCHANGED <<cfg, now, book, owed>>

(* --prune: retention without tasks; the book is saved as it was read. *)
PruneOnly(time, failed) ==
    /\ stage = "idle"
    /\ now' = time
    /\ exit' = IF failed THEN "4" ELSE "pruned"
    /\ UNCHANGED <<cfg, stage, progress, book, owed, saved>>

(* The process dies before the commit, and the next start undoes it. *)
Crash ==
    /\ stage # "idle"
    /\ exit' = "killed"
    /\ ProcessEnds
    /\ book' = saved.book
    /\ owed' = saved.owed
    /\ UNCHANGED <<cfg, now, saved>>

Engine ==
    \/ \E t \in Tasks : \/ SkipAfterError(t)
                        \/ ReturnEarly(t)
                        \/ \E outcome \in Statuses : Attempt(t, outcome)
    \/ NextPhase
    \/ EndTasks
    \/ \E outcome \in {"pushed", "unpushed", "reset"} : Finalize(outcome)
    \/ \E failed \in BOOLEAN : Retain(failed)
    \/ \E failed \in BOOLEAN : Finish(failed)

Next ==
    \/ Engine
    \/ \E time \in Times : Start(time)
    \/ \E time \in Times, failed \in BOOLEAN : PruneOnly(time, failed)
    \/ SpendBudget
    \/ Crash

(* The process keeps running until it ends or dies. *)
Spec == Init /\ [][Next]_vars /\ WF_vars(Engine)

-----------------------------------------------------------------------------

(* Every variable keeps to its domain; in particular only a running        *)
(* process holds results and what a record says is something an attempt    *)
(* can have left (_run_with_journal, _run_task).                           *)
TypeOK ==
    /\ cfg \in ValidConfigs
    /\ now \in Times
    /\ stage \in {"idle", "tasks", "finalize", "retention", "save"}
    /\ phase \in Phases
    /\ waiting \subseteq Tasks
    /\ results \in [Tasks -> Results]
    /\ abort \in BOOLEAN /\ spent \in BOOLEAN /\ problem \in BOOLEAN
    /\ exit \in {"none", "0", "4", "pruned", "killed"}
    /\ book \in [success : [Tasks -> Times \cup {Never}],
                status  : [Tasks -> Statuses \cup {"none"}],
                pending : BOOLEAN]
    /\ owed \in [captures : SUBSET (Tasks \X Tasks), git : SUBSET Tasks]
    /\ saved \in [book : [success : [Tasks -> Times \cup {Never}],
                         status  : [Tasks -> Statuses \cup {"none"}],
                         pending : BOOLEAN],
                 owed : [captures : SUBSET (Tasks \X Tasks), git : SUBSET Tasks]]
    /\ stage = "idle" => results = Unsettled /\ ~abort /\ ~problem

(* The loop of _run_with_journal never ends in "Could not resolve task     *)
(* ordering": what the loader accepted can always be ordered.              *)
NeverStuck ==
    stage = "tasks" /\ waiting # {} => \E t \in waiting : Ready(t)

(* The loop looks at dependencies of the same phase only; still _run_task  *)
(* finds a result for every dependency of the task it is given.            *)
DependenciesSettled ==
    stage = "tasks" =>
        \A t \in waiting : Ready(t) => \A d \in cfg.deps[t] : results[d] # "none"

(* No task works on what an earlier run left in staging: it has run in     *)
(* this run only if everything it depends on, at any distance, has,        *)
(* unless run_on_failure on the way says otherwise.                        *)
FreshCapturesOnly ==
    \A t \in Tasks, w \in Tasks :
        /\ results[t] \in Statuses
        /\ DependsOn(t, w)
        /\ t \notin cfg.always
        /\ \A m \in Tasks : DependsOn(t, m) => m \notin cfg.always
        => results[w] \in {"success", "partial"}

(* "post_run cleanup may still run": whatever failed before, a cleanup     *)
(* task is passed over only for the budget.                                *)
CleanupRuns ==
    stage \in {"finalize", "retention", "save"} =>
        \A t \in cfg.always :
            cfg.phase[t] = PostRun /\ results[t] = "skipped" => spent

(* The loop over tasks is sound: it always finds a task it may take, hands *)
(* _run_task none with an unsettled dependency, and passes a cleanup task  *)
(* over for the budget only (_run_with_journal).                           *)
LoopSound == NeverStuck /\ DependenciesSettled /\ CleanupRuns

(* A run that reports success leaves no publication pending, not even one  *)
(* that an earlier run left.                                               *)
ZeroMeansPublished == exit = "0" => ~book.pending

(* "Never hide an outstanding backup behind cadence" (the comment in       *)
(* _run_task): between runs, a collector whose capture an enabled archive  *)
(* has not published yet is due, whatever the clock shows.                 *)
NeverHidden ==
    stage = "idle" => \A p \in owed.captures : Due(p[2])

(* A run that reports success has published every capture there was for a  *)
(* required archive, those of earlier runs included.                       *)
ZeroMeansCurrent ==
    exit = "0" => \A p \in owed.captures : p[1] \notin cfg.required

(* Errors stop nothing, and an archive waits for one task at most, which   *)
(* waits for none, and is not switched off with Git.  Anywhere else a task *)
(* that succeeded leaves an archive skipped, and no record says so.        *)
OneCollectorEach(c) ==
    /\ ~c.stopOnError
    /\ \A t \in Tasks : \A d \in c.deps[t] :
           c.type[t] # "execute" => c.deps[t] = {d} /\ c.deps[d] = {}
    /\ c.git \/ \A t \in Tasks : c.storage[t] # "git"

(* There, no capture an archive owes is hidden by the cadence, and exit    *)
(* code 0 says that no required archive owes one (_run_task, "Never hide   *)
(* an outstanding backup behind cadence").                                 *)
CadenceHonest == OneCollectorEach(cfg) => NeverHidden /\ ZeroMeansCurrent

(* "Publication remains pending until a successful retry": no snapshot a   *)
(* failed finalization has thrown away is missing while nothing is pending. *)
PendingUntilRetried ==
    stage = "idle" /\ owed.git # {} => book.pending

(* Every run ends: the loop over tasks and phases makes progress.          *)
RunEnds == stage # "idle" ~> stage = "idle"

=============================================================================
