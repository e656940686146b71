-------------------------- MODULE EngineRunProofs --------------------------
(***************************************************************************)
(* Theorems about EngineRun, for every set of tasks and every set of       *)
(* configurations: the loop can always order what the loader accepts, a    *)
(* task finds all its dependencies settled, nothing runs on captures of an *)
(* earlier run, cleanup survives an abort, and a reported success leaves   *)
(* nothing unpublished.                                                    *)
(***************************************************************************)
EXTENDS EngineRun, TLAPS

-----------------------------------------------------------------------------
(* The inductive invariant *)

Stages == {"idle", "tasks", "finalize", "retention", "save"}
Ran    == {"success", "partial"}

\* The process state is what the loop over phases can have reached.
LoopInv ==
    /\ cfg \in ValidConfigs
    /\ stage \in Stages
    /\ phase \in Phases
    /\ results \in [Tasks -> Results]
    /\ abort \in BOOLEAN /\ spent \in BOOLEAN /\ problem \in BOOLEAN
    /\ waiting \subseteq TasksIn(phase)
    /\ stage = "idle" => /\ phase = 1
                         /\ waiting = {}
                         /\ results = Unsettled
                         /\ ~abort /\ ~problem

\* Exactly the tasks the loop has passed have a result.
PassedInv ==
    stage = "tasks" =>
        \A t \in Tasks :
            results[t] # "none" <=> \/ cfg.phase[t] < phase
                                    \/ cfg.phase[t] = phase /\ t \notin waiting

\* A task without run_on_failure runs on dependencies that ran.
DirectInv ==
    \A t \in Tasks \ cfg.always :
        results[t] \in Statuses => \A d \in cfg.deps[t] : results[d] \in Ran

\* A cleanup task is skipped for the budget only.
SkipInv ==
    \A t \in Tasks \cap cfg.always :
        cfg.phase[t] = PostRun /\ results[t] = "skipped" => spent

\* A pending publication is a problem of the run, and needs Git.
PublicationInv ==
    /\ UsesGit \/ (~book.pending /\ ~saved.book.pending)
    /\ stage = "finalize" => UsesGit
    /\ stage \in {"retention", "save"} /\ book.pending => problem
    /\ exit = "0" => stage = "idle" /\ ~book.pending

\* What the runs leave behind is well typed.
BookType ==
    [success : [Tasks -> Times \cup {Never}],
     status  : [Tasks -> Statuses \cup {"none"}],
     pending : BOOLEAN]

OwedType == [captures : SUBSET (Tasks \X Tasks), git : SUBSET Tasks]

RecordInv ==
    /\ now \in Times
    /\ exit \in {"none", "0", "4", "pruned", "killed"}
    /\ book \in BookType
    /\ owed \in OwedType
    /\ saved \in [book : BookType, owed : OwedType]

IInv ==
    /\ LoopInv
    /\ PassedInv
    /\ DirectInv
    /\ SkipInv
    /\ PublicationInv
    /\ RecordInv

-----------------------------------------------------------------------------
(* Facts about valid configurations and results *)

\* A configuration the loader accepts has the declared shape (_validate).
LEMMA ConfigShape ==
    ASSUME cfg \in ValidConfigs
    PROVE  /\ cfg \in Config
           /\ cfg.deps \in [Tasks -> SUBSET Tasks]
           /\ cfg.phase \in [Tasks -> Phases]
           /\ cfg.always \subseteq Tasks /\ cfg.enabled \subseteq Tasks
           /\ Acyclic(cfg)
           /\ PhaseOrdered(cfg)
<1>1. cfg \in Configs /\ Acyclic(cfg) /\ PhaseOrdered(cfg)
  BY DEF ValidConfigs
<1>2. cfg \in Config
  BY <1>1, EngineRunAssumption
<1> QED
  BY <1>1, <1>2 DEF Config

\* An early return is one of four results (_run_task, lines before the attempt).
LEMMA EarlyResultType ==
    ASSUME NEW t \in Tasks
    PROVE  EarlyResult(t) \in {"none", "disabled", "not_due", "skipped"}
BY DEF EarlyResult

\* A dependency at any distance is reached by following direct ones.
LEMMA DirectDependsOn ==
    ASSUME NEW t \in Tasks, NEW d \in cfg.deps[t]
    PROVE  DependsOn(t, d)
BY DEF DependsOn

\* One more direct step keeps a dependency (the recursion of depends()).
LEMMA FurtherDependsOn ==
    ASSUME NEW t \in Tasks, NEW m \in Tasks, DependsOn(t, m),
           NEW d \in cfg.deps[m]
    PROVE  DependsOn(t, d)
<1> SUFFICES ASSUME NEW S \in SUBSET Tasks,
                    cfg.deps[t] \subseteq S,
                    \A x \in S : cfg.deps[x] \subseteq S
             PROVE  d \in S
  BY DEF DependsOn
<1>1. m \in S
  BY DEF DependsOn
<1> QED
  BY <1>1

\* What a run that ends or dies leaves of the process (run, main).
LEMMA EndedProcess ==
    ASSUME IInv, ProcessEnds, UNCHANGED cfg
    PROVE  LoopInv' /\ PassedInv' /\ DirectInv' /\ SkipInv'
<1>1. /\ stage' = "idle" /\ phase' = 1 /\ waiting' = {}
      /\ results' = [t \in Tasks |-> "none"]
      /\ abort' = FALSE /\ spent' = FALSE /\ problem' = FALSE
  BY DEF ProcessEnds, Unsettled
<1>2. LoopInv'
  <2>1. results' \in [Tasks -> Results]
    BY <1>1 DEF Results
  <2>2. phase' \in Phases
    BY <1>1 DEF Phases
  <2> QED
    BY <1>1, <2>1, <2>2 DEF IInv, LoopInv, Stages, Unsettled
<1>3. PassedInv'
  BY <1>1 DEF PassedInv
<1>4. DirectInv' /\ SkipInv'
  BY <1>1 DEF DirectInv, SkipInv, Statuses
<1> QED
  BY <1>2, <1>3, <1>4

-----------------------------------------------------------------------------
(* Settling one task *)

\* A result for a task in waiting keeps the loop's account of the tasks.
LEMMA SettleStep ==
    ASSUME IInv, stage = "tasks",
           NEW t \in Tasks, Ready(t),
           NEW r \in Results \ {"none"}, Settle(t, r),
           abort' \in BOOLEAN
    PROVE  LoopInv' /\ PassedInv'
<1> USE DEF IInv, LoopInv
<1>1. cfg.phase[t] = phase /\ t \in waiting
  BY DEF Ready, TasksIn
<1>2. /\ waiting' = waiting \ {t}
      /\ results' = [results EXCEPT ![t] = r]
      /\ UNCHANGED <<cfg, now, stage, phase, spent, problem, exit, saved>>
  BY DEF Settle
<1>3. LoopInv'
  BY <1>2 DEF TasksIn, Unsettled
<1>4. PassedInv'
  BY <1>1, <1>2 DEF PassedInv
<1> QED
  BY <1>3, <1>4

\* A result that is no attempt disturbs no task that ran before it.
LEMMA PassOverStep ==
    ASSUME IInv, stage = "tasks",
           NEW t \in Tasks, Ready(t),
           NEW r \in {"disabled", "not_due", "skipped"}, Settle(t, r)
    PROVE  DirectInv'
<1> USE DEF IInv, LoopInv
<1>1. results[t] = "none"
  BY DEF Ready, PassedInv, TasksIn, Phases
<1>2. results' = [results EXCEPT ![t] = r] /\ UNCHANGED cfg
  BY DEF Settle
<1>3. cfg.deps \in [Tasks -> SUBSET Tasks]
  BY ConfigShape
<1> QED
  BY <1>1, <1>2, <1>3 DEF DirectInv, Statuses, Ran

\* Nothing about publication changes while tasks run.
LEMMA PublicationStep ==
    ASSUME IInv, stage = "tasks", stage' = "tasks", exit' = exit,
           book'.pending = book.pending, UNCHANGED <<cfg, saved>>
    PROVE  PublicationInv'
BY DEF IInv, PublicationInv, UsesGit, InGit, EnabledWithDeps, DependsOn

-----------------------------------------------------------------------------

\* The invariant holds initially (a fresh state.json, no run yet).
LEMMA InitIInv == Init => IInv
<1> SUFFICES ASSUME Init PROVE IInv
  OBVIOUS
<1> USE DEF Init
<1>1. LoopInv
  <2>1. results \in [Tasks -> Results]
    BY DEF Results, Unsettled
  <2>2. phase \in Phases
    BY DEF Phases
  <2> QED
    BY <2>1, <2>2 DEF LoopInv, Stages
<1>2. PassedInv /\ DirectInv /\ SkipInv
  BY DEF PassedInv, DirectInv, SkipInv, Unsettled, Statuses
<1>3. PublicationInv
  BY DEF PublicationInv
<1>4. RecordInv
  BY DEF RecordInv, BookType, OwedType
<1> QED
  BY <1>1, <1>2, <1>3, <1>4 DEF IInv

\* Every step of a run keeps the invariant (_run_with_journal, _run_task).
LEMMA NextIInv == IInv /\ [Next]_vars => IInv'
<1> SUFFICES ASSUME IInv, [Next]_vars PROVE IInv'
  OBVIOUS
<1>1. CASE UNCHANGED vars
  BY <1>1 DEF vars, progress, IInv, LoopInv, PassedInv, DirectInv, SkipInv,
              PublicationInv, RecordInv, UsesGit, InGit, EnabledWithDeps,
              DependsOn, TasksIn, Unsettled
<1>2. ASSUME NEW t \in Tasks, SkipAfterError(t) PROVE IInv'
  <2> USE <1>2 DEF SkipAfterError
  <2>1. LoopInv' /\ PassedInv'
    BY SettleStep DEF Results, IInv, LoopInv
  <2>2. DirectInv'
    BY PassOverStep
  <2>3. SkipInv'
    <3>1. ~(cfg.phase[t] = PostRun /\ t \in cfg.always)
      BY DEF Vetoed, Ready, IInv, LoopInv, TasksIn
    <3>2. results' = [results EXCEPT ![t] = "skipped"] /\ UNCHANGED <<cfg, spent>>
      BY DEF Settle
    <3> QED
      BY <3>1, <3>2 DEF SkipInv, IInv, LoopInv
  <2>4. PublicationInv'
    BY PublicationStep DEF Settle
  <2>5. RecordInv'
    BY DEF RecordInv, IInv, Settle
  <2> QED
    BY <2>1, <2>2, <2>3, <2>4, <2>5 DEF IInv
<1>3. ASSUME NEW t \in Tasks, ReturnEarly(t) PROVE IInv'
  <2> USE <1>3 DEF ReturnEarly
  <2>0. EarlyResult(t) \in {"disabled", "not_due", "skipped"}
    BY EarlyResultType
  <2>1. LoopInv' /\ PassedInv'
    BY <2>0, SettleStep DEF Results, IInv, LoopInv
  <2>2. DirectInv'
    BY <2>0, PassOverStep
  <2>3. SkipInv'
    <3>1. EarlyResult(t) = "skipped" /\ t \in cfg.always => spent
      BY DEF EarlyResult
    <3>2. results' = [results EXCEPT ![t] = EarlyResult(t)] /\ UNCHANGED <<cfg, spent>>
      BY DEF Settle
    <3> QED
      BY <3>1, <3>2 DEF SkipInv, IInv, LoopInv
  <2>4. PublicationInv'
    BY PublicationStep DEF Settle
  <2>5. RecordInv'
    BY DEF RecordInv, IInv, Settle
  <2> QED
    BY <2>1, <2>2, <2>3, <2>4, <2>5 DEF IInv
<1>4. ASSUME NEW t \in Tasks, NEW outcome \in Statuses, Attempt(t, outcome)
      PROVE  IInv'
  <2> USE <1>4 DEF Attempt
  <2>0. cfg.deps \in [Tasks -> SUBSET Tasks]
    BY ConfigShape DEF IInv, LoopInv
  <2>1. LoopInv' /\ PassedInv'
    <3>1. outcome \in Results \ {"none"}
      BY DEF Results, Statuses
    <3>2. abort' \in BOOLEAN
      BY DEF IInv, LoopInv
    <3> QED
      BY <3>1, <3>2, SettleStep
  <2>2. results' = [results EXCEPT ![t] = outcome] /\ UNCHANGED <<cfg, spent>>
    BY DEF Settle
  <2>3. DirectInv'
    <3>1. results[t] = "none"
      BY DEF Ready, IInv, LoopInv, PassedInv, TasksIn, Phases
    <3>2. t \notin cfg.always => FailedDeps(t) = {}
      BY DEF EarlyResult
    <3>3. t \notin cfg.always => \A d \in cfg.deps[t] : results[d] \in Ran
      BY <3>2 DEF FailedDeps, Accepted, Ran
    <3>4. \A d \in Tasks : results[d] \in Ran => results'[d] \in Ran
      BY <3>1, <2>2 DEF Ran, IInv, LoopInv
    <3> QED
      BY <2>0, <2>2, <3>3, <3>4 DEF DirectInv, IInv, LoopInv
  <2>4. SkipInv'
    BY <2>2 DEF SkipInv, IInv, LoopInv, Statuses
  <2>5. PublicationInv'
    <3>1. book'.pending = book.pending
      BY DEF IInv, RecordInv, BookType
    <3> QED
      BY <3>1, PublicationStep DEF Settle
  <2>6. RecordInv'
    <3>1. book' \in BookType
      BY DEF IInv, RecordInv, BookType
    <3>2. OwedAfter(t, outcome) \subseteq Tasks \X Tasks
      <4>1. Children(t) \subseteq Tasks
        BY ConfigShape DEF Children, IInv, LoopInv
      <4> QED
        BY <4>1 DEF OwedAfter, IInv, RecordInv, OwedType
    <3>3. owed' \in OwedType
      BY <3>2 DEF IInv, RecordInv, OwedType
    <3> QED
      BY <3>1, <3>3 DEF RecordInv, IInv, Settle
  <2> QED
    BY <2>1, <2>3, <2>4, <2>5, <2>6 DEF IInv
<1>5. CASE NextPhase
  <2> USE <1>5 DEF NextPhase
  <2>0. cfg.phase \in [Tasks -> Phases]
    BY ConfigShape DEF IInv, LoopInv
  <2>1. LoopInv'
    BY DEF IInv, LoopInv, TasksIn, Phases, PostRun, Stages
  <2>2. PassedInv'
    BY <2>0 DEF IInv, LoopInv, PassedInv, TasksIn, Phases
  <2>3. DirectInv' /\ SkipInv'
    BY DEF IInv, DirectInv, SkipInv
  <2>4. PublicationInv'
    BY PublicationStep
  <2>5. RecordInv'
    BY DEF IInv, RecordInv
  <2> QED
    BY <2>1, <2>2, <2>3, <2>4, <2>5 DEF IInv
<1>6. CASE EndTasks
  <2> USE <1>6 DEF EndTasks, progress
  <2>1. LoopInv' /\ PassedInv'
    BY DEF IInv, LoopInv, PassedInv, TasksIn, Stages, Unsettled
  <2>2. DirectInv' /\ SkipInv'
    BY DEF IInv, DirectInv, SkipInv
  <2>3. PublicationInv'
    BY DEF IInv, PublicationInv, UsesGit, InGit, EnabledWithDeps, DependsOn
  <2>4. RecordInv'
    BY DEF IInv, RecordInv
  <2> QED
    BY <2>1, <2>2, <2>3, <2>4 DEF IInv
<1>7. ASSUME NEW outcome \in {"pushed", "unpushed", "reset"}, Finalize(outcome)
      PROVE  IInv'
  <2> USE <1>7 DEF Finalize
  <2>1. LoopInv' /\ PassedInv'
    BY DEF IInv, LoopInv, PassedInv, TasksIn, Stages, Unsettled
  <2>2. DirectInv' /\ SkipInv'
    BY DEF IInv, DirectInv, SkipInv
  <2>3. book'.pending = (outcome # "pushed") /\ book' \in BookType
    BY DEF IInv, RecordInv, BookType
  <2>4. PublicationInv'
    BY <2>3 DEF IInv, LoopInv, PublicationInv, UsesGit, InGit, EnabledWithDeps, DependsOn
  <2>5. RecordInv'
    <3>1. Stored \subseteq Tasks
      BY DEF Stored
    <3>2. owed' \in OwedType
      BY <3>1 DEF IInv, RecordInv, OwedType
    <3> QED
      BY <2>3, <3>2 DEF IInv, RecordInv
  <2> QED
    BY <2>1, <2>2, <2>4, <2>5 DEF IInv
<1>8. ASSUME NEW failed \in BOOLEAN, Retain(failed) PROVE IInv'
  <2> USE <1>8 DEF Retain
  <2>1. LoopInv' /\ PassedInv'
    BY DEF IInv, LoopInv, PassedInv, TasksIn, Stages, Unsettled
  <2>2. DirectInv' /\ SkipInv'
    BY DEF IInv, DirectInv, SkipInv
  <2>3. PublicationInv'
    BY DEF IInv, LoopInv, PublicationInv, UsesGit, InGit, EnabledWithDeps, DependsOn
  <2>4. RecordInv'
    BY DEF IInv, RecordInv
  <2> QED
    BY <2>1, <2>2, <2>3, <2>4 DEF IInv
<1>9. ASSUME NEW failed \in BOOLEAN, Finish(failed) PROVE IInv'
  <2> USE <1>9 DEF Finish
  <2>1. LoopInv' /\ PassedInv' /\ DirectInv' /\ SkipInv'
    BY EndedProcess
  <2>2. PublicationInv'
    <3>1. exit' = "0" => ~problem
      BY DEF RequiredProblem
    <3> QED
      BY <3>1 DEF IInv, PublicationInv, UsesGit, InGit, EnabledWithDeps, DependsOn, ProcessEnds
  <2>3. RecordInv'
    BY DEF IInv, RecordInv
  <2> QED
    BY <2>1, <2>2, <2>3 DEF IInv
<1>10. ASSUME NEW time \in Times, Start(time) PROVE IInv'
  <2> USE <1>10 DEF Start
  <2>0. cfg.phase \in [Tasks -> Phases]
    BY ConfigShape DEF IInv, LoopInv
  <2>1. LoopInv'
    BY DEF IInv, LoopInv, TasksIn, Stages
  <2>2. PassedInv'
    BY <2>0 DEF IInv, LoopInv, PassedInv, TasksIn, Phases, Unsettled
  <2>3. DirectInv' /\ SkipInv'
    BY DEF IInv, DirectInv, SkipInv
  <2>4. PublicationInv'
    BY DEF IInv, PublicationInv, UsesGit, InGit, EnabledWithDeps, DependsOn
  <2>5. RecordInv'
    BY DEF IInv, RecordInv
  <2> QED
    BY <2>1, <2>2, <2>3, <2>4, <2>5 DEF IInv
<1>11. ASSUME NEW time \in Times, NEW failed \in BOOLEAN, PruneOnly(time, failed)
       PROVE  IInv'
  <2> USE <1>11 DEF PruneOnly, progress
  <2>1. LoopInv' /\ PassedInv'
    BY DEF IInv, LoopInv, PassedInv, TasksIn, Unsettled
  <2>2. DirectInv' /\ SkipInv'
    BY DEF IInv, DirectInv, SkipInv
  <2>3. PublicationInv'
    BY DEF IInv, PublicationInv, UsesGit, InGit, EnabledWithDeps, DependsOn
  <2>4. RecordInv'
    BY DEF IInv, RecordInv
  <2> QED
    BY <2>1, <2>2, <2>3, <2>4 DEF IInv
<1>12. CASE SpendBudget
  <2> USE <1>12 DEF SpendBudget
  <2>1. LoopInv' /\ PassedInv'
    BY DEF IInv, LoopInv, PassedInv, TasksIn, Unsettled
  <2>2. DirectInv' /\ SkipInv'
    BY DEF IInv, DirectInv, SkipInv
  <2>3. PublicationInv'
    BY PublicationStep
  <2>4. RecordInv'
    BY DEF IInv, RecordInv
  <2> QED
    BY <2>1, <2>2, <2>3, <2>4 DEF IInv
<1>13. CASE Crash
  <2> USE <1>13 DEF Crash
  <2>1. LoopInv' /\ PassedInv' /\ DirectInv' /\ SkipInv'
    BY EndedProcess
  <2>2. PublicationInv'
    BY DEF IInv, PublicationInv, UsesGit, InGit, EnabledWithDeps, DependsOn, ProcessEnds
  <2>3. RecordInv'
    BY DEF IInv, RecordInv
  <2> QED
    BY <2>1, <2>2, <2>3 DEF IInv
<1> QED
  BY <1>1, <1>2, <1>3, <1>4, <1>5, <1>6, <1>7, <1>8, <1>9, <1>10, <1>11, <1>12, <1>13
  DEF Next, Engine

\* The inductive invariant holds in every reachable state.
THEOREM Invariance == Spec => []IInv
<1>1. Init => IInv
  BY InitIInv
<1>2. IInv /\ [Next]_vars => IInv'
  BY NextIInv
<1> QED
  BY <1>1, <1>2, PTL DEF Spec

-----------------------------------------------------------------------------

\* Every variable keeps to its domain (_run_with_journal, _run_task).
THEOREM TypeCorrect == Spec => []TypeOK
<1>1. IInv => TypeOK
  BY DEF IInv, LoopInv, RecordInv, BookType, OwedType, TypeOK, Stages, TasksIn
<1> QED
  BY <1>1, Invariance, PTL

\* The loop over pending tasks always finds one it may take, whatever graph
\* the loader accepted: its error "Could not resolve task ordering" is dead code.
THEOREM OrderingNeverStuck == Spec => []NeverStuck
<1>1. IInv => NeverStuck
  <2> SUFFICES ASSUME IInv, stage = "tasks", waiting # {}
               PROVE  \E t \in waiting : Ready(t)
    BY DEF NeverStuck
  <2>1. /\ waiting \subseteq Tasks
        /\ cfg.deps \in [Tasks -> SUBSET Tasks]
        /\ Acyclic(cfg)
    BY ConfigShape DEF IInv, LoopInv, TasksIn
  <2>2. PICK t \in waiting : cfg.deps[t] \cap waiting = {}
    BY <2>1 DEF Acyclic
  <2>3. \A d \in SamePhaseDeps(t) : results[d] # "none"
    BY <2>1, <2>2 DEF SamePhaseDeps, IInv, PassedInv
  <2> QED
    BY <2>2, <2>3 DEF Ready
<1> QED
  BY <1>1, Invariance, PTL

\* A task the loop takes has a result for every dependency, although the
\* loop looks at those of its own phase only.
THEOREM DependenciesAreSettled == Spec => []DependenciesSettled
<1>1. IInv => DependenciesSettled
  <2> SUFFICES ASSUME IInv, stage = "tasks", NEW t \in waiting, Ready(t),
                      NEW d \in cfg.deps[t]
               PROVE  results[d] # "none"
    BY DEF DependenciesSettled
  <2>1. /\ t \in Tasks /\ cfg.phase[t] = phase /\ phase \in Phases
        /\ cfg.deps \in [Tasks -> SUBSET Tasks]
        /\ cfg.phase \in [Tasks -> Phases]
        /\ PhaseOrdered(cfg)
    BY ConfigShape DEF IInv, LoopInv, TasksIn
  <2>2. d \in Tasks /\ cfg.phase[d] <= phase
    BY <2>1 DEF PhaseOrdered
  <2>3. CASE cfg.phase[d] = phase
    BY <2>3 DEF Ready, SamePhaseDeps
  <2>4. CASE cfg.phase[d] # phase
    BY <2>1, <2>2, <2>4 DEF IInv, PassedInv, Phases
  <2> QED
    BY <2>3, <2>4
<1> QED
  BY <1>1, Invariance, PTL

\* A task that ran, ran on captures of this run: all it depends on, at any
\* distance, ran too (the dependency checks of _run_task are only direct).
THEOREM NoStaleCaptures == Spec => []FreshCapturesOnly
<1>1. IInv => FreshCapturesOnly
  <2> SUFFICES ASSUME IInv, NEW t \in Tasks, NEW w \in Tasks,
                      results[t] \in Statuses, DependsOn(t, w),
                      t \notin cfg.always,
                      \A m \in Tasks : DependsOn(t, m) => m \notin cfg.always
               PROVE  results[w] \in Ran
    BY DEF FreshCapturesOnly, Ran
  <2>1. cfg.deps \in [Tasks -> SUBSET Tasks]
    BY ConfigShape DEF IInv, LoopInv
  <2> DEFINE S == {m \in Tasks : DependsOn(t, m) /\ results[m] \in Ran}
  <2>2. cfg.deps[t] \subseteq S
    <3> SUFFICES ASSUME NEW d \in cfg.deps[t] PROVE d \in S
      OBVIOUS
    <3>1. d \in Tasks /\ DependsOn(t, d)
      BY <2>1, DirectDependsOn
    <3>2. results[d] \in Ran
      BY DEF IInv, DirectInv
    <3> QED
      BY <3>1, <3>2
  <2>3. ASSUME NEW x \in S PROVE cfg.deps[x] \subseteq S
    <3> SUFFICES ASSUME NEW d \in cfg.deps[x] PROVE d \in S
      OBVIOUS
    <3>1. x \in Tasks /\ DependsOn(t, x) /\ x \notin cfg.always
      OBVIOUS
    <3>2. results[x] \in Statuses
      BY DEF Ran, Statuses
    <3>3. d \in Tasks /\ DependsOn(t, d)
      BY <2>1, <3>1, FurtherDependsOn
    <3>4. results[d] \in Ran
      BY <3>1, <3>2 DEF IInv, DirectInv
    <3> QED
      BY <3>3, <3>4
  <2>4. w \in S
    <3>1. S \in SUBSET Tasks
      OBVIOUS
    <3> HIDE DEF S
    <3> QED
      BY <2>2, <2>3, <3>1 DEF DependsOn
  <2> QED
    BY <2>4
<1> QED
  BY <1>1, Invariance, PTL

\* A post_run task with run_on_failure is passed over only for the budget.
THEOREM CleanupSurvivesAbort == Spec => []CleanupRuns
<1>1. IInv => CleanupRuns
  BY ConfigShape DEF IInv, LoopInv, SkipInv, CleanupRuns
<1> QED
  BY <1>1, Invariance, PTL

\* The loop over tasks never stops short, never hands _run_task a task too
\* early, and never gives a cleanup up (_run_with_journal).
THEOREM LoopIsSound == Spec => []LoopSound
<1>1. NeverStuck /\ DependenciesSettled /\ CleanupRuns => LoopSound
  BY DEF LoopSound
<1> QED
  BY <1>1, OrderingNeverStuck, DependenciesAreSettled, CleanupSurvivesAbort, PTL

\* Exit code 0 leaves no publication pending.
THEOREM SuccessIsPublished == Spec => []ZeroMeansPublished
<1>1. IInv => ZeroMeansPublished
  BY DEF IInv, PublicationInv, ZeroMeansPublished
<1> QED
  BY <1>1, Invariance, PTL

-----------------------------------------------------------------------------
(* Captures and the cadence *)

\* The record of t says that it has something left to do.
Open(b, t) == b.success[t] = Never \/ b.status[t] \in {"failed", "partial"}

\* A task is settled after all it depends on, and all are at the end.
OrderInv ==
    /\ \A t \in Tasks : \A d \in cfg.deps[t] :
           results[t] # "none" => results[d] # "none"
    /\ stage \in {"finalize", "retention", "save"} =>
           \A t \in Tasks : results[t] # "none"
    /\ abort => cfg.stopOnError

\* Between runs the record is the saved one.
SavedInv ==
    /\ stage = "idle" => book = saved.book /\ owed = saved.owed
    /\ \A p \in saved.owed.captures : Open(saved.book, p[1])

\* What is owed, an archive of a collector owes: it says so in its record,
\* or the collector has just succeeded and the archive is still to come.
OwedInv ==
    /\ \A p \in owed.captures \cup saved.owed.captures :
           cfg.type[p[2]] = "execute" /\ p[2] \in cfg.enabled /\ p[1] \in Children(p[2])
    /\ \A p \in owed.captures :
           /\ results[p[2]] \notin {"not_due", "disabled"}
           /\ results[p[1]] \notin {"success", "not_due", "disabled"}
           /\ \/ Open(book, p[1])
              \/ results[p[2]] = "success" /\ results[p[1]] = "none"

ZeroInv ==
    exit = "0" => stage = "idle" /\ ZeroMeansCurrent

CaptureInv == OneCollectorEach(cfg) => OrderInv /\ SavedInv /\ OwedInv /\ ZeroInv

\* An archive that waits at most for one task, which waits for none, depends
\* on no other at any distance.
LEMMA OneDependency ==
    ASSUME cfg \in ValidConfigs, OneCollectorEach(cfg),
           NEW t \in Tasks, NEW w \in Tasks,
           cfg.type[t] # "execute", DependsOn(t, w)
    PROVE  cfg.deps[t] = {w} /\ cfg.deps[w] = {}
<1>1. cfg.deps \in [Tasks -> SUBSET Tasks]
  BY ConfigShape
<1>2. \A d \in cfg.deps[t] : cfg.deps[t] = {d} /\ cfg.deps[d] = {}
  BY DEF OneCollectorEach
<1>3. w \in cfg.deps[t]
  BY <1>1, <1>2 DEF DependsOn
<1> QED
  BY <1>2, <1>3

\* What a pair that is owed says of its archive and its collector.
LEMMA OwedPair ==
    ASSUME IInv, OneCollectorEach(cfg), OwedInv,
           NEW p \in owed.captures
    PROVE  /\ p[1] \in Tasks /\ p[2] \in Tasks /\ p[1] # p[2]
           /\ p[1] \in Children(p[2])
           /\ p[1] \in cfg.enabled /\ p[2] \in cfg.enabled
           /\ cfg.type[p[1]] # "execute" /\ cfg.type[p[2]] = "execute"
           /\ cfg.deps[p[1]] = {p[2]} /\ cfg.deps[p[2]] = {}
<1>1. p[1] \in Tasks /\ p[2] \in Tasks
  BY DEF IInv, RecordInv, OwedType
<1>2. /\ p[1] \in Children(p[2]) /\ p[2] \in cfg.enabled
      /\ cfg.type[p[2]] = "execute"
  BY DEF OwedInv
<1>3. /\ p[1] \in cfg.enabled /\ cfg.type[p[1]] # "execute"
      /\ DependsOn(p[1], p[2])
  BY <1>2 DEF Children
<1>4. cfg \in ValidConfigs
  BY DEF IInv, LoopInv
<1> QED
  BY <1>1, <1>2, <1>3, <1>4, OneDependency

\* An archive that is owed a capture is passed over only when its collector
\* failed, which the run reports (the early returns of _run_task).
LEMMA EarlyArchive ==
    ASSUME IInv, OneCollectorEach(cfg), OwedInv,
           NEW p \in owed.captures
    PROVE  /\ EarlyResult(p[1]) \in {"none", "skipped"}
           /\ results[p[2]] = "success" => EarlyResult(p[1]) = "none"
<1>1. /\ p[1] \in Tasks /\ p[1] \in cfg.enabled /\ cfg.type[p[1]] # "execute"
      /\ cfg.deps[p[1]] = {p[2]}
  BY OwedPair
<1>2. Due(p[1])
  BY <1>1 DEF Due
<1>3. cfg.git \/ cfg.storage[p[1]] # "git"
  BY <1>1 DEF OneCollectorEach
<1>4. results[p[2]] \notin {"not_due", "disabled"}
  BY DEF OwedInv
<1>5. \A d \in cfg.deps[p[1]] : results[d] \notin {"not_due", "disabled"}
  BY <1>1, <1>4
<1>6. \A d \in FailedDeps(p[1]) : results[d] # "disabled"
  BY <1>5 DEF FailedDeps
<1>7. EarlyResult(p[1]) = IF FailedDeps(p[1]) # {} /\ p[1] \notin cfg.always
                            THEN "skipped" ELSE "none"
  BY <1>1, <1>2, <1>3, <1>5, <1>6 DEF EarlyResult
<1>8. results[p[2]] = "success" => FailedDeps(p[1]) = {}
  BY <1>1 DEF FailedDeps, Accepted
<1> QED
  BY <1>7, <1>8

\* A collector is due while the record of an archive it owes a capture to
\* says so ("Never hide an outstanding backup behind cadence", _run_task).
LEMMA EarlyCollector ==
    ASSUME IInv, OneCollectorEach(cfg), OwedInv,
           NEW p \in owed.captures, Open(book, p[1])
    PROVE  Due(p[2]) /\ EarlyResult(p[2]) \in {"none", "skipped"}
<1>1. /\ p[2] \in Tasks /\ p[2] \in cfg.enabled /\ p[1] \in Children(p[2])
      /\ cfg.deps[p[2]] = {}
  BY OwedPair
<1>2. Due(p[2])
  BY <1>1 DEF Due, Outstanding, Open
<1>3. cfg.git \/ cfg.storage[p[2]] # "git"
  BY <1>1 DEF OneCollectorEach
<1>4. FailedDeps(p[2]) = {}
  BY <1>1 DEF FailedDeps
<1> QED
  BY <1>1, <1>2, <1>3, <1>4 DEF EarlyResult

\* A step that leaves results and records alone leaves what is owed as it was.
LEMMA OwedSteady ==
    ASSUME OwedInv, UNCHANGED <<cfg, results>>,
           owed'.captures = owed.captures, saved'.owed.captures = saved.owed.captures,
           book'.success = book.success, book'.status = book.status
    PROVE  OwedInv'
<1>1. \A t \in Tasks : Open(book', t) = Open(book, t)
  BY DEF Open
<1>2. \A w : Children(w)' = Children(w)
  BY DEF Children, DependsOn
<1>3. \A p \in owed.captures : (Open(book, p[1]) => Open(book', p[1]))
  BY DEF Open
<1> QED
  BY <1>2, <1>3 DEF OwedInv

\* Settling a task keeps the order, and clears the way of those behind it.
LEMMA SettleOrder ==
    ASSUME IInv, OrderInv, stage = "tasks",
           NEW t \in Tasks, Ready(t),
           NEW r \in Results \ {"none"}, Settle(t, r),
           abort' => cfg.stopOnError
    PROVE  /\ OrderInv'
           /\ results[t] = "none"
           /\ \A u \in Tasks : t \in cfg.deps[u] => results[u] = "none"
<1>1. /\ cfg.phase[t] = phase /\ t \in waiting /\ phase \in Phases
      /\ results \in [Tasks -> Results]
      /\ cfg.deps \in [Tasks -> SUBSET Tasks]
      /\ cfg.phase \in [Tasks -> Phases]
      /\ PhaseOrdered(cfg)
  BY ConfigShape DEF Ready, TasksIn, IInv, LoopInv
<1>2. results' = [results EXCEPT ![t] = r] /\ UNCHANGED <<cfg, stage>>
  BY DEF Settle
<1>3. results[t] = "none"
  BY <1>1 DEF IInv, PassedInv, Phases
<1>4. \A d \in cfg.deps[t] : results[d] # "none"
  <2> SUFFICES ASSUME NEW d \in cfg.deps[t] PROVE results[d] # "none"
    OBVIOUS
  <2>1. d \in Tasks /\ cfg.phase[d] <= phase
    BY <1>1 DEF PhaseOrdered
  <2>2. CASE cfg.phase[d] = phase
    BY <2>2 DEF Ready, SamePhaseDeps
  <2>3. CASE cfg.phase[d] # phase
    BY <1>1, <2>1, <2>3 DEF IInv, PassedInv, Phases
  <2> QED
    BY <2>2, <2>3
<1>5. \A u \in Tasks : t \in cfg.deps[u] => results[u] = "none"
  BY <1>3 DEF OrderInv
<1>6. OrderInv'
  BY <1>1, <1>2, <1>4 DEF OrderInv
<1> QED
  BY <1>3, <1>5, <1>6

\* What is owed after an attempt (the end of _run_task).
LEMMA AttemptOwed ==
    ASSUME IInv, OneCollectorEach(cfg), OrderInv, OwedInv,
           NEW t \in Tasks, NEW outcome \in Statuses, Attempt(t, outcome)
    PROVE  OwedInv'
<1>1. /\ stage = "tasks" /\ Ready(t) /\ EarlyResult(t) = "none"
      /\ Settle(t, outcome) /\ owed'.captures = OwedAfter(t, outcome)
      /\ results' = [results EXCEPT ![t] = outcome]
      /\ UNCHANGED <<cfg, saved>>
  BY DEF Attempt, Settle, IInv, RecordInv, OwedType
<1>2. /\ results \in [Tasks -> Results]
      /\ cfg \in ValidConfigs
      /\ cfg.enabled \subseteq Tasks
      /\ book \in BookType
  BY ConfigShape DEF IInv, LoopInv, RecordInv
<1>3. outcome \in Results \ {"none"}
  BY DEF Statuses, Results
<1>4. /\ results[t] = "none"
      /\ \A u \in Tasks : t \in cfg.deps[u] => results[u] = "none"
  <2>1. abort' => cfg.stopOnError
    BY DEF Attempt, OrderInv
  <2> QED
    BY <1>1, <1>3, <2>1, SettleOrder
<1>5. t \in cfg.enabled
  BY <1>1 DEF EarlyResult
<1>6. /\ \A u \in Tasks : u # t => Open(book', u) = Open(book, u)
      /\ outcome # "success" => Open(book', t)
  <2>1. /\ book'.status = [book.status EXCEPT ![t] = outcome]
        /\ book'.success = [book.success EXCEPT ![t] =
                               IF outcome = "success" THEN now ELSE @]
    BY <1>2 DEF Attempt, BookType
  <2> QED
    BY <1>2, <2>1 DEF Open, BookType, Statuses
<1>7. \A w : Children(w)' = Children(w)
  BY <1>1 DEF Children, DependsOn
<1>8. ASSUME NEW p \in owed'.captures
      PROVE  \/ p \in owed.captures
                /\ ~(outcome = "success" /\ cfg.type[t] # "execute" /\ p[1] = t)
                /\ ~(outcome = "success" /\ cfg.type[t] = "execute" /\ p[2] = t)
             \/ outcome = "success" /\ cfg.type[t] = "execute"
                /\ p[2] = t /\ p[1] \in Children(t)
  <2>1. p \in OwedAfter(t, outcome)
    BY <1>1, <1>8
  <2>2. p \in owed.captures /\ p[2] = t => p[1] \in Children(t)
    BY DEF OwedInv
  <2> QED
    BY <2>1, <2>2 DEF OwedAfter
<1>9. ASSUME NEW p \in owed'.captures \cup saved'.owed.captures
      PROVE  cfg'.type[p[2]] = "execute" /\ p[2] \in cfg'.enabled /\ p[1] \in Children(p[2])'
  <2>1. CASE p \in owed.captures \cup saved.owed.captures
    BY <1>1, <1>7, <2>1 DEF OwedInv
  <2>2. CASE p \in owed'.captures \ owed.captures
    BY <1>1, <1>5, <1>7, <1>8, <2>2
  <2> QED
    BY <1>1, <2>1, <2>2
<1>10. ASSUME NEW p \in owed'.captures
       PROVE  /\ results'[p[2]] \notin {"not_due", "disabled"}
              /\ results'[p[1]] \notin {"success", "not_due", "disabled"}
              /\ \/ Open(book', p[1])
                 \/ results'[p[2]] = "success" /\ results'[p[1]] = "none"
  <2>1. CASE /\ outcome = "success" /\ cfg.type[t] = "execute"
             /\ p[2] = t /\ p[1] \in Children(t)
    <3>1. p[1] \in Tasks /\ cfg.type[p[1]] # "execute" /\ DependsOn(p[1], t)
      BY <1>2, <2>1 DEF Children
    <3>2. cfg.deps[p[1]] = {t}
      BY <1>2, <3>1, OneDependency
    <3>3. results'[p[1]] = "none" /\ results'[p[2]] = "success"
      BY <1>1, <1>2, <1>4, <2>1, <3>1, <3>2
    <3> QED
      BY <3>3
  <2>2. CASE /\ p \in owed.captures
             /\ ~(outcome = "success" /\ cfg.type[t] # "execute" /\ p[1] = t)
             /\ ~(outcome = "success" /\ cfg.type[t] = "execute" /\ p[2] = t)
    <3>1. /\ p[1] \in Tasks /\ p[2] \in Tasks /\ p[1] # p[2]
          /\ cfg.type[p[1]] # "execute" /\ cfg.type[p[2]] = "execute"
      BY <2>2, OwedPair
    <3>2. /\ results[p[2]] \notin {"not_due", "disabled"}
          /\ results[p[1]] \notin {"success", "not_due", "disabled"}
          /\ \/ Open(book, p[1])
             \/ results[p[2]] = "success" /\ results[p[1]] = "none"
      BY <2>2 DEF OwedInv
    <3>3. CASE p[1] = t
      BY <1>1, <1>2, <1>6, <2>2, <3>1, <3>2, <3>3 DEF Statuses
    <3>4. CASE p[2] = t
      BY <1>1, <1>2, <1>4, <1>6, <2>2, <3>1, <3>2, <3>4 DEF Statuses
    <3>5. CASE p[1] # t /\ p[2] # t
      BY <1>1, <1>2, <1>6, <3>1, <3>2, <3>5
    <3> QED
      BY <3>3, <3>4, <3>5
  <2> QED
    BY <1>8, <2>1, <2>2
<1> QED
  BY <1>9, <1>10 DEF OwedInv

\* What is owed after a task was passed over (the early returns of _run_task).
LEMMA ReturnOwed ==
    ASSUME IInv, OneCollectorEach(cfg), OrderInv, OwedInv,
           NEW t \in Tasks, ReturnEarly(t)
    PROVE  OwedInv'
<1>1. /\ stage = "tasks" /\ Ready(t) /\ EarlyResult(t) # "none"
      /\ results' = [results EXCEPT ![t] = EarlyResult(t)]
      /\ UNCHANGED <<cfg, saved, book, owed>>
  BY DEF ReturnEarly, Settle
<1>2. results \in [Tasks -> Results]
  BY DEF IInv, LoopInv
<1>3. results[t] = "none"
  BY <1>1 DEF IInv, LoopInv, PassedInv, Ready, TasksIn, Phases
<1>4. \A w : Children(w)' = Children(w)
  BY <1>1 DEF Children, DependsOn
<1>5. ASSUME NEW p \in owed.captures
      PROVE  /\ results'[p[2]] \notin {"not_due", "disabled"}
             /\ results'[p[1]] \notin {"success", "not_due", "disabled"}
             /\ \/ Open(book, p[1])
                \/ results'[p[2]] = "success" /\ results'[p[1]] = "none"
  <2>1. p[1] \in Tasks /\ p[2] \in Tasks /\ p[1] # p[2]
    BY OwedPair
  <2>2. /\ results[p[2]] \notin {"not_due", "disabled"}
        /\ results[p[1]] \notin {"success", "not_due", "disabled"}
        /\ \/ Open(book, p[1])
           \/ results[p[2]] = "success" /\ results[p[1]] = "none"
    BY DEF OwedInv
  <2>3. CASE p[1] = t
    <3>1. EarlyResult(t) = "skipped" /\ results[p[2]] # "success"
      BY <1>1, <2>3, EarlyArchive
    <3> QED
      BY <1>1, <1>2, <2>1, <2>2, <2>3, <3>1
  <2>4. CASE p[2] = t
    <3>1. Open(book, p[1])
      BY <1>3, <2>2, <2>4
    <3>2. EarlyResult(t) = "skipped"
      BY <1>1, <2>4, <3>1, EarlyCollector
    <3> QED
      BY <1>1, <1>2, <2>1, <2>2, <2>4, <3>1, <3>2
  <2>5. CASE p[1] # t /\ p[2] # t
    BY <1>1, <1>2, <2>1, <2>2, <2>5
  <2> QED
    BY <2>3, <2>4, <2>5
<1>6. \A u \in Tasks : Open(book', u) = Open(book, u)
  BY <1>1 DEF Open
<1>7. owed.captures \subseteq Tasks \X Tasks
  BY DEF IInv, RecordInv, OwedType
<1> QED
  BY <1>1, <1>4, <1>5, <1>6, <1>7 DEF OwedInv

\* The process has ended and the record is back at, or has become, the saved
\* one: nothing is in progress, and the record says what is owed.
LEMMA OwedBetweenRuns ==
    ASSUME IInv, OwedInv, ProcessEnds, UNCHANGED cfg,
           book' = saved'.book, owed' = saved'.owed,
           owed'.captures \in {owed.captures, saved.owed.captures},
           \A p \in owed'.captures : Open(book', p[1])
    PROVE  OrderInv' /\ SavedInv' /\ OwedInv'
<1>1. /\ stage' = "idle" /\ abort' = FALSE
      /\ results' = [t \in Tasks |-> "none"]
  BY DEF ProcessEnds, Unsettled
<1>2. \A w : Children(w)' = Children(w)
  BY DEF Children, DependsOn
<1>3. owed.captures \cup saved.owed.captures \subseteq Tasks \X Tasks
  BY DEF IInv, RecordInv, OwedType
<1>4. cfg.deps \in [Tasks -> SUBSET Tasks]
  BY ConfigShape DEF IInv, LoopInv
<1>5. OrderInv'
  BY <1>1, <1>4 DEF OrderInv
<1>6. SavedInv'
  BY DEF SavedInv
<1>7. \A p \in owed'.captures : results'[p[1]] = "none" /\ results'[p[2]] = "none"
  BY <1>1, <1>3
<1>8. \A p \in owed'.captures \cup saved'.owed.captures :
          cfg'.type[p[2]] = "execute" /\ p[2] \in cfg'.enabled /\ p[1] \in Children(p[2])'
  BY <1>2 DEF OwedInv
<1>9. OwedInv'
  BY <1>7, <1>8 DEF OwedInv
<1> QED
  BY <1>5, <1>6, <1>9

\* The four parts hold initially: nothing has been captured.
LEMMA InitCapture == Init => CaptureInv
<1> SUFFICES ASSUME Init PROVE OrderInv /\ SavedInv /\ OwedInv /\ ZeroInv
  BY DEF CaptureInv
<1>1. OrderInv
  <2>1. cfg.deps \in [Tasks -> SUBSET Tasks]
    BY ConfigShape DEF Init
  <2> QED
    BY <2>1 DEF Init, OrderInv, Unsettled
<1>2. SavedInv /\ OwedInv /\ ZeroInv
  BY DEF Init, SavedInv, OwedInv, ZeroInv
<1> QED
  BY <1>1, <1>2

\* Every step keeps account of what is owed (_run_with_journal, _run_task).
LEMMA NextCapture == IInv /\ CaptureInv /\ [Next]_vars => CaptureInv'
<1> SUFFICES ASSUME IInv, CaptureInv, [Next]_vars, OneCollectorEach(cfg)'
             PROVE  OrderInv' /\ SavedInv' /\ OwedInv' /\ ZeroInv'
  BY DEF CaptureInv
<1>1. UNCHANGED cfg
  BY DEF Next, Engine, vars, SkipAfterError, ReturnEarly, Attempt, Settle,
         NextPhase, EndTasks, Finalize, Retain, Finish, Start, PruneOnly,
         SpendBudget, Crash
<1>2. OneCollectorEach(cfg)
  BY <1>1 DEF OneCollectorEach
<1>3. OrderInv /\ SavedInv /\ OwedInv /\ ZeroInv
  BY <1>2 DEF CaptureInv
<1>4. exit' # "0" => ZeroInv'
  BY DEF ZeroInv
<1>5. /\ results \in [Tasks -> Results]
      /\ cfg.deps \in [Tasks -> SUBSET Tasks]
      /\ cfg.phase \in [Tasks -> Phases]
  BY ConfigShape DEF IInv, LoopInv
<1>6. CASE UNCHANGED vars
  <2>1. OwedInv'
    BY <1>3, <1>6, OwedSteady DEF vars, progress
  <2> QED
    BY <1>3, <1>6, <2>1 DEF vars, progress, OrderInv, SavedInv, Open, ZeroInv,
                            ZeroMeansCurrent
<1>7. ASSUME NEW t \in Tasks, SkipAfterError(t) PROVE FALSE
  BY <1>2, <1>3, <1>7 DEF SkipAfterError, Vetoed, OrderInv, OneCollectorEach
<1>8. ASSUME NEW t \in Tasks, ReturnEarly(t)
      PROVE  OrderInv' /\ SavedInv' /\ OwedInv' /\ ZeroInv'
  <2>1. /\ stage = "tasks" /\ Ready(t) /\ Settle(t, EarlyResult(t))
        /\ UNCHANGED <<abort, book, owed, stage, exit, saved>>
    BY <1>8 DEF ReturnEarly, Settle
  <2>2. EarlyResult(t) \in Results \ {"none"}
    BY <1>8, EarlyResultType DEF ReturnEarly, Results
  <2>3. OrderInv'
    BY <1>3, <2>1, <2>2, SettleOrder DEF OrderInv
  <2>4. OwedInv'
    BY <1>2, <1>3, <1>8, ReturnOwed
  <2> QED
    BY <1>3, <1>4, <2>1, <2>3, <2>4 DEF SavedInv, Open, ZeroInv
<1>9. ASSUME NEW t \in Tasks, NEW outcome \in Statuses, Attempt(t, outcome)
      PROVE  OrderInv' /\ SavedInv' /\ OwedInv' /\ ZeroInv'
  <2>1. /\ stage = "tasks" /\ Ready(t) /\ Settle(t, outcome)
        /\ abort' => cfg.stopOnError
        /\ UNCHANGED <<stage, exit, saved>>
    BY <1>3, <1>9 DEF Attempt, Settle, OrderInv
  <2>2. outcome \in Results \ {"none"}
    BY DEF Statuses, Results
  <2>3. OrderInv'
    BY <1>3, <2>1, <2>2, SettleOrder
  <2>4. OwedInv'
    BY <1>2, <1>3, <1>9, AttemptOwed
  <2> QED
    BY <1>3, <1>4, <2>1, <2>3, <2>4 DEF SavedInv, Open, ZeroInv
<1>10. CASE NextPhase
  <2>1. /\ stage = "tasks"
        /\ UNCHANGED <<stage, results, abort, exit, book, owed, saved>>
    BY <1>10 DEF NextPhase
  <2>2. OwedInv'
    BY <1>1, <1>3, <2>1, OwedSteady
  <2> QED
    BY <1>1, <1>3, <1>4, <2>1, <2>2 DEF OrderInv, SavedInv, Open, ZeroInv
<1>11. CASE EndTasks
  <2>1. /\ stage = "tasks" /\ stage' # "idle" /\ waiting = {} /\ phase = PostRun
        /\ UNCHANGED <<results, abort, exit, book, owed, saved>>
    BY <1>11 DEF EndTasks, progress
  <2>2. \A t \in Tasks : results[t] # "none"
    BY <1>5, <2>1 DEF IInv, PassedInv, PostRun, Phases
  <2>3. OwedInv'
    BY <1>1, <1>3, <2>1, OwedSteady
  <2> QED
    BY <1>1, <1>3, <1>4, <2>1, <2>2, <2>3 DEF OrderInv, SavedInv, Open, ZeroInv
<1>12. ASSUME NEW outcome \in {"pushed", "unpushed", "reset"}, Finalize(outcome)
       PROVE  OrderInv' /\ SavedInv' /\ OwedInv' /\ ZeroInv'
  <2>1. /\ stage = "finalize" /\ stage' = "retention"
        /\ UNCHANGED <<results, abort, exit, saved>>
    BY <1>12 DEF Finalize
  <2>2. /\ book'.success = book.success /\ book'.status = book.status
        /\ owed'.captures = owed.captures
    BY <1>12 DEF Finalize, IInv, RecordInv, BookType, OwedType
  <2>3. OwedInv'
    BY <1>1, <1>3, <2>1, <2>2, OwedSteady
  <2> QED
    BY <1>1, <1>3, <1>4, <2>1, <2>3 DEF OrderInv, SavedInv, Open, ZeroInv
<1>13. ASSUME NEW failed \in BOOLEAN, Retain(failed)
       PROVE  OrderInv' /\ SavedInv' /\ OwedInv' /\ ZeroInv'
  <2>1. /\ stage = "retention" /\ stage' = "save"
        /\ UNCHANGED <<results, abort, exit, book, owed, saved>>
    BY <1>13 DEF Retain
  <2>2. OwedInv'
    BY <1>1, <1>3, <2>1, OwedSteady
  <2> QED
    BY <1>1, <1>3, <1>4, <2>1, <2>2 DEF OrderInv, SavedInv, Open, ZeroInv
<1>14. ASSUME NEW failed \in BOOLEAN, Finish(failed)
       PROVE  OrderInv' /\ SavedInv' /\ OwedInv' /\ ZeroInv'
  <2>1. /\ stage = "save" /\ saved' = [book |-> book, owed |-> owed]
        /\ exit' = "0" => ~RequiredProblem
        /\ ProcessEnds
        /\ UNCHANGED <<book, owed>>
    BY <1>14 DEF Finish
  <2>2. \A p \in owed.captures : p[1] \in Tasks
    BY DEF IInv, RecordInv, OwedType
  <2>3. \A p \in owed.captures : results[p[1]] # "none"
    BY <1>3, <2>1, <2>2 DEF OrderInv
  <2>4. \A p \in owed.captures : Open(book, p[1])
    BY <1>3, <2>3 DEF OwedInv
  <2>5. OrderInv' /\ SavedInv' /\ OwedInv'
    BY <1>1, <1>3, <2>1, <2>4, OwedBetweenRuns DEF Open
  <2>6. ASSUME exit' = "0", NEW p \in owed.captures
        PROVE  p[1] \notin cfg.required
    <3>1. results[p[1]] \in {"failed", "skipped", "partial"}
      BY <1>3, <1>5, <2>2, <2>3 DEF OwedInv, Results, Statuses
    <3> QED
      BY <2>1, <2>6, <3>1 DEF RequiredProblem
  <2>7. ZeroInv'
    BY <1>1, <2>1, <2>6 DEF ZeroInv, ZeroMeansCurrent, ProcessEnds
  <2> QED
    BY <2>5, <2>7
<1>15. ASSUME NEW time \in Times, Start(time)
       PROVE  OrderInv' /\ SavedInv' /\ OwedInv' /\ ZeroInv'
  <2>1. /\ stage' = "tasks" /\ exit' = "none"
        /\ UNCHANGED <<results, abort, book, owed, saved>>
    BY <1>15 DEF Start
  <2>2. OwedInv'
    BY <1>1, <1>3, <2>1, OwedSteady
  <2> QED
    BY <1>1, <1>3, <1>4, <2>1, <2>2 DEF OrderInv, SavedInv, Open
<1>16. ASSUME NEW time \in Times, NEW failed \in BOOLEAN, PruneOnly(time, failed)
       PROVE  OrderInv' /\ SavedInv' /\ OwedInv' /\ ZeroInv'
  <2>1. /\ exit' # "0"
        /\ UNCHANGED <<stage, results, abort, book, owed, saved>>
    BY <1>16 DEF PruneOnly, progress
  <2>2. OwedInv'
    BY <1>1, <1>3, <2>1, OwedSteady
  <2> QED
    BY <1>1, <1>3, <1>4, <2>1, <2>2 DEF OrderInv, SavedInv, Open
<1>17. CASE SpendBudget
  <2>1. /\ stage = "tasks"
        /\ UNCHANGED <<stage, results, abort, exit, book, owed, saved>>
    BY <1>17 DEF SpendBudget
  <2>2. OwedInv'
    BY <1>1, <1>3, <2>1, OwedSteady
  <2> QED
    BY <1>1, <1>3, <1>4, <2>1, <2>2 DEF OrderInv, SavedInv, Open, ZeroInv
<1>18. CASE Crash
  <2>1. /\ exit' # "0" /\ book' = saved.book /\ owed' = saved.owed
        /\ ProcessEnds /\ UNCHANGED saved
    BY <1>18 DEF Crash
  <2>2. OrderInv' /\ SavedInv' /\ OwedInv'
    BY <1>1, <1>3, <2>1, OwedBetweenRuns DEF SavedInv, Open
  <2> QED
    BY <1>4, <2>1, <2>2
<1> QED
  BY <1>6, <1>7, <1>8, <1>9, <1>10, <1>11, <1>12, <1>13, <1>14, <1>15, <1>16,
     <1>17, <1>18
  DEF Next, Engine

\* What is owed is on record in every reachable state.
THEOREM CapturesOnRecord == Spec => []CaptureInv
<1>1. Init => CaptureInv
  BY InitCapture
<1>2. IInv /\ CaptureInv /\ [Next]_vars => CaptureInv'
  BY NextCapture
<1> QED
  BY <1>1, <1>2, Invariance, PTL DEF Spec

\* Where errors stop nothing and an archive waits for one collector, the
\* cadence hides no capture that is owed, whatever the clock shows, and exit
\* code 0 says that no required archive owes one (due, _run_task).
THEOREM CadenceIsHonest == Spec => []CadenceHonest
<1>1. IInv /\ CaptureInv => CadenceHonest
  <2> SUFFICES ASSUME IInv, CaptureInv, OneCollectorEach(cfg)
               PROVE  NeverHidden /\ ZeroMeansCurrent
    BY DEF CadenceHonest
  <2>1. SavedInv /\ OwedInv /\ ZeroInv
    BY DEF CaptureInv
  <2>2. NeverHidden
    <3> SUFFICES ASSUME stage = "idle", NEW p \in owed.captures
                 PROVE  Due(p[2])
      BY DEF NeverHidden
    <3>1. Open(book, p[1])
      BY <2>1 DEF SavedInv
    <3> QED
      BY <2>1, <3>1, EarlyCollector
  <2>3. ZeroMeansCurrent
    BY <2>1 DEF ZeroInv, ZeroMeansCurrent
  <2> QED
    BY <2>2, <2>3
<1> QED
  BY <1>1, Invariance, CapturesOnRecord, PTL

=============================================================================
