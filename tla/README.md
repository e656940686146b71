# ConfigBackup: specifications, model checking and proofs

ConfigBackup collects configuration (SQL Server, PostgreSQL, host, schedules, plain
files) and keeps it as dated versions in an archive, as snapshots in a Git repository,
or both. A scheduler starts it; each start takes a lock, reconciles what an interrupted
start left, runs collectors and archive tasks phase by phase, finalizes Git, applies
retention, saves `state.json` and ends. Other programs scrub and repair the archive,
export what a recovery needs and rehearse it, record performance and send alerts.
Everything that makes this hard is in what happens *between* the steps: a process killed
anywhere, a write that fails after it took effect, a section that fails half way, an undo
that fails, a second program that starts meanwhile, and decisions of one run that rest on
what an earlier run recorded.

This directory models those parts in TLA+ (`src/configbackup_lib` and `src/collectors`,
Python), checks them with TLC on small instances and proves the most important results
with TLAPS.

Line numbers below refer to `src/configbackup_lib/engine/configbackup.py` unless a file
is named. `PROJECT.json` maps every definition to the lines it stands for, lists every
component of the repository with the reason for each part left out, and every hazard at
its line with the properties aimed at it.

## 1. Inventory

| component | state it keeps | operations | what is hard | what makes it correct |
|---|---|---|---|---|
| undo journal, `recovery/transaction_journal.py` | `transaction/pending.json`, `entry-N.json`, `before-N` | begin, remember, save, commit, recover, cleanup, assess | death between any two steps, `fsync` failing after the rename, HEAD moved, Git switched on or off | files change as one unit; a restart can always undo; nothing is touched when HEAD moved |
| run lock and programs on one archive: `single_instance_lock` (337), `main` (3183), `recovery/recovery.py`, `engine/task_lifecycle.py` | `configbackup.lock`, `state.json` in memory and on disk | backup, verify/restore, migrate | state read before the lock; checks repeated under it | nothing acknowledged is lost; no false alarm |
| task archive: `_run_task`, `_backup_scopes`, `_backup_one_file`, `_process_missing`, `_mark_deleted` | version files, `_deleted/`, records per file | store, confirm missing, move aside, undo a section, a task, a run | three nested journals; sections committed one by one; counters over runs | records and files agree; failed sections untouched; deletions confirmed |
| source scan: `_validate_scan_roots`, `_discover_sources`, `_walk_files`, `_store_discovered` | none beyond the run | validate, walk, glob, filter, compare | the tree changes while it is read; links in circles and into the archive; names that differ in case | what was there all the time is found; the archive never swallows itself |
| engine: `run`, `_run_with_journal`, the head of `_run_task` | results, `last_success`, `last_status`, `publication.pending` | order, skip, attempt, abort, finalize, retain, finish | phases, dependencies, cadence, budget, abort, Git failing, all over several runs | no stale capture archived; nothing owed is hidden; exit 0 means published |
| configuration loading: `ConfigLoader`, `configuration_profiles.py`, `config_schema.py` | none | merge, resolve, validate, order | layers of defaults, profiles and policies; cycles; two tasks in one place | what is accepted can be ordered; the most specific setting counts; one writer per output |
| retention: `_retention_candidates`, `_apply_task_size_limit`, `recovery/retention_planning.py` | versions and deleted generations | plan, validate survivors, remove, roll back, purge | ceilings, tiers and floor in different passes; thinning repeated by every run | floor and last good copy survive; coverage of periods; repeated runs agree |
| Git snapshots and publication: `_prepare_git_repo`, `_finalize_git_repo`, `_ensure_github_pull_request`, `_rollback_git_repo` | local branch, remote branches, `publication.*` | prepare, snapshot, commit, push, pull request, reset | push fails after the commit or after it arrived; branch reused, deleted or forced; others work on it | nothing committed is lost; nothing unseen is overwritten; published means offered |
| Git worktrees: `_prepare_git_pull_request_repo`, `_cleanup_registered_branch_worktree`, `_sync_gitignore` | registered worktrees, ignore rules | add, adopt, reset, remove, prune | dead runs' leftovers; several engines and people in one clone | a run offers its own work; nobody's worktree is taken |
| collector coverage, `engine/completeness.py`, `engine/sections.py` | manifest, staging directory, sealed copy | certify, publish, validate, seal | an abandoned collector goes on writing | only what was certified in this run is archived |
| PostgreSQL collector, `collectors/postgresql` | files, sections, checkpoints | read, certify, take back | any query may fail, of any database | "complete" means read whole |
| host collector, `collectors/system` | the same | read, survey, certify | commands missing, refused or torn, per output; reads that fail unnoticed | "complete" means written whole, but for the outputs known to be thinned |
| integrity scrub and repair, `recovery/archive_integrity.py` | evidence, quarantine | scrub in bounded passes, plan, repair | budgets, deferral, plan out of date, archive changing | every version is checked again and again; repair never loses bytes |
| journal review, `recovery/journal_recovery.py` | plan bound to hashes | inspect, plan, apply | plan applied to a changed journal | only what was reviewed is applied |
| recovery exports and secondary copies, `recovery/recovery_maintenance.py`, `recovery_assets.py` | bundles, `latest.json` | refresh, publish by rename, copy, prune | inputs edited while copied; which copy may go | the selected inputs of a bundle belong together; the last good one survives |
| setup recovery, `recovery/setup_recovery.py` | marker, results of drills | verify, relocate, rehearse | bundle changed between verification and rehearsal; clock set back | a rehearsal counts only while the bundle has the bytes its call began with |
| monitoring and notifications, `reporting/monitoring.py`, `notifications.py` | alert states, outbox | evaluate, enqueue, deliver, retry | bounded outbox and batches shared by all channels, backoff, duplicates, death between sending and recording | a problem that stays is told while a channel that is down leaves room; nothing is dropped silently |
| native recorder, `engine/native_recording.py` | captures, index, note; registration with the system | record, reconcile, prune; plan, apply | death between note, files and index; clock set back; others edit what is registered | every sample accounted for; the registration is what the anchor says |
| task lifecycle, `engine/task_lifecycle.py`, `configuration/configuration_links.py` | identities in `state.json` | rename, retire, migrate | configuration saved, runs and moves in any order; a move interrupted half way | a history belongs to one task; nothing is laid over it; a retired one rests |
| configuration editor, launchers, reporting, telemetry, discovery, secret scan, recovery packs, other collectors | derived output, YAML, scripts | edit, generate, report | mostly sequential and pure | |

Interactions: the engine calls the journal for every file it changes (`_remember_file`,
2038); the task archive runs inside an engine attempt and uses the journal as its outer
undo; a source scan decides what the task archive stores and what it takes for missing;
retention runs in the same transaction after finalization; verify, restore, scrub, repair
and migration are separate programs that share the lock, `state.json` and the journal
directory; a collector hands its result to an archive task through the staging directory
and a manifest; two configurations may share one Git clone though each has its own lock;
monitoring reads what runs record.

## 2. The modules

`AtomicStore` is what a transaction promises. `TransactionJournal` implements it, at the
level of file system steps. The modules above it take that promise as given: a run
journal there is one variable, the image a restart would bring back. So each level is
checked with the interleavings that matter to it. `Ledger` is what an archive root promises
to whoever starts programs one after another: each happens at once, when it reports
success, or not at all. `SharedState` implements it.

 Ledger          AtomicStore  <- refined by -  TransactionJournal
    ^                                    |  "the run journal"
    | refined by                         |
    |  +---------------+-----------------+------------------+
    SharedState    TaskArchive       Retention          EngineRun
                       | "a scope"                          | "finalization"
        +--------------+------------+                 +-----+--------+
     Handover      SourceScan       |             GitPublish   GitWorktrees
        | "the manifest"            |
     PostgresCollector, SystemCollector (over HostReadings)      ConfigLoading

    beside them: ArchiveIntegrity, RecoveryCopies, RecoveryDrill, Recorder,
    RecorderControl, Monitoring, TaskIdentity

`Stages` and `Upkeep` put modules side by side: the stages of a run (`Retention`,
`Handover`, `PostgresCollector`, `SystemCollector`, `SourceScan`, `GitWorktrees`,
`ConfigLoading`) and the programs beside it (`RecoveryCopies`, `RecoveryDrill`,
`TaskIdentity`, `ArchiveIntegrity`, `Recorder`, `RecorderControl`, `Monitoring`) share no
variables, so each is taken on its own, and the variable `subject` says which one a
behaviour is about. This adds no behaviour and takes none away: the state graph is the
disjoint union of those of the parts. The properties of the parts are stated together there,
for the runs and for the theorems. `Common` and `SectionPaths` hold what several modules
share: the absent value, and the paths of a collection manifest.

The modules with proofs are `TransactionJournalProofs`, `SharedStateProofs`,
`TaskArchiveProofs`, `EngineRunProofs`, `GitPublishProofs`, `UpkeepProofs`,
`CollectorProofs` (lemmas about the handover and both collectors) and `StagesProofs`.
`MCTransactionJournal`, `MCSharedState`, `MCTaskArchive`, `MCEngineRun`, `MCGitPublish`,
`MCStages` and `MCUpkeep` give a module its constants for TLC.

### AtomicStore, TransactionJournal

State: the contents of every path (`file`), `head` of the worktree, whether Git storage is
configured (`gitOn`), the three kinds of journal files (`manifest`, `entry`, `before`), and
the process: where it is (`pc`), the rows it holds (`n`), the paths it may change (`known`)
and the poison flag. One action per durable step: a row is `Remember`, `CopyImage`,
`SaveEntry`, `SaveCount`; an undo is `StartUndo`, `UndoRow`s, `MarkUndone`; a cleanup is
`SweepSlot`s, `SweepManifest`. Each durable write ends "ok", "lost" (failed without effect)
or "late" (failed after the rename: `atomic()` raised from its directory sync, 26-38 of the
file). `Die` may strike anywhere. `HeadOf`, `IdentityOK`, `Rows`, `RowsValid` and
`HeadUnchanged` are the checks of `assess()` and `read()`.

Abstracted: contents are values; a row's hash, mode and before-image are one `image`;
HEAD is a counter of commits. Not modelled: loss of power between a rename and its sync
(processes die, the operating system does not; `cleanup()` unlinks entries and manifest
and syncs the directory once, 189 of the file, so a power loss may persist the removals in
another order), the pull-request worktree that is missing at restart, and the limit of
1,000,000 rows (`read()` refuses a larger journal, 201, and `remember()` has no such limit).

### SharedState, Ledger

Processes that launch a backup, a verification or a migration. `Launch` reads `state.json`
(the engine is constructed before the lock is taken, 3195), then `Precheck`, `Lock` or
`LockBusy`, `Reconcile`, `Inspect` or `PlanMigration`, and the transaction: `Begin`,
`StoreVersion`, `PruneVersion`, `SaveState`, `Commit`. `scheduler` says whether programs
may overlap; the properties that need them not to are stated for "serial".

`Found` is what a program started now and alone would work on: state document and archive,
or what the undo of a pending transaction makes of them. It is the `books` of `Ledger`, in
which a backup, a verification or a migration is one step: it adds its record to those of
the programs that reported success, and document and archive agree. The stages of a run and
a death anywhere are stutters there. Where programs overlap the mapping is constant: the
code keeps no such promise then, which is what `state_lost_update` shows.

### TaskArchive

One task, chosen in the initial state, over several runs with a host that changes
between them. A section is processed key by key: `KeepVersion`, `StoreVersion`, then
`ProcessMissing`, `MoveVersion`, `MarkDeleted`, `CompleteScope`; or it fails and is undone
row by row (`Fail`, `UndoFile`, `ScopeUndone`), or the undo fails (`UndoFails`) with the two
outcomes the code has: fatal for a plain task, caught one level up (2144) for a certified
one. `absent` is an auxiliary variable that counts complete scans without a source
independently of `missing_runs`.

### SourceScan

One scan of a directory or a glob while others add, remove and link entries:
`ValidateRoots` and the refusals of `_validate_scan_roots`, the walk directory by directory with the set of
places already visited, filters, the exclusion of what lies in the archive, and
`_store_discovered` with its check for names one file system would confuse. A directory
or file is known by its real place; a symbolic link is another slot that holds it.
`steady` and `reads` are auxiliary: the paths that led to the same file all through the scan,
and the directories the scan has read, each with the name it was read under and whether
that name has led to it ever since.

### EngineRun

A configuration is one record of a set the loader may be given; `ValidConfigs` are the
ones it accepts. A run is `Start`, then for each ready task `SkipAfterError`,
`ReturnEarly` (the chain of early returns of `_run_task`, in order, as `EarlyResult`) or
`Attempt`; `NextPhase`, `EndTasks`, `Finalize`, `Retain`, `Finish`; `Crash` at any point,
after which the next start is back at `saved`. `book` is what `state.json` records;
`owed` is an auxiliary variable: the captures archives have not published yet and the
snapshots a failed finalization has thrown away. Ready tasks are taken in any order, which
includes the order of the configuration file. `SpendBudget` stands for the moment
`run_budget_seconds` is used up. Git is the direct mode.

### ConfigLoading

What a configuration file becomes: each task resolved from its profile, the defaults and
a retention policy (`Inherited`, `Normalized`), identities and phases, the search for
cycles with its explicit stack, dependencies across phases, and collectors that would
write into each other's or the archive's directories. Retention is reduced to a floor and a
ceiling per section, the shorthand for "active" included, because that is where the
layers meet.

### Handover, PostgresCollector, SystemCollector, HostReadings

`Handover` is the engine's side: a collector publishes a manifest once its sections are
done, the engine judges the manifest and every file it lists, seals what it trusts into
copies of its own, and stores those. A collector that times out is abandoned but may go on
writing into the staging directory, and publish, in the middle of a later run.

`PostgresCollector` and `SystemCollector` are the other side: the order in which they
read, what each reading certifies, what a failure takes back (`checkpoint`, `uncertain`)
and what it leaves. A path is the sequence of its parts, a file stands for the rows of one
successful query or command. In a group of object files a read that fails is noted and the
others go on, while a write that fails ends the group (`Group`; 1088-1098 of
`collect_postgresql.py`); any other error, up to the measurements that follow the sections,
takes back the whole database (`DatabaseFails`).

`HostReadings` is the table of outputs of Linux, macOS and Windows with the ways each may
fail: the reading of the host ends ("aborts"); the output is left out, with a note ("left")
or without ("silent"); it is written empty ("emptied") or half ("torn") and the failure only
noted; or one of several reads behind it fails, and it is written with what the others gave
and nothing said ("thinned"). Of the inventories that certify themselves it has the scopes,
the sections, and those that may be thinned. `SystemCollector` keeps what was written `whole`
and what was written in `partial` apart. Nothing in the code reads these two; they are what
`HostCompleteIsWhole` is stated with.

### Retention

`Doomed` is the pure decision: `Protected`, `OverLimit`, `InTier`, `KeptByTier`,
`Candidates`, `SizeLimited`, purge and grace, each the corresponding part of
`_retention_candidates`, `_apply_task_size_limit` and `_apply_task_retention`. Around it
versions are stored, deleted and damaged, and a run carries the plan out scope by scope:
`BeginScope` after `Validated`, `RemoveFile`, `EndScope`, or `PreserveScope`,
`RollBackScope`, `UndoFails`. The clock only moves forward here: a clock set back
reorders versions by their stamps, which this module does not cover. Time stamps are
days; weeks and months are given as functions so that the short calendar of the runs has
a week in two months.

### GitPublish, GitWorktrees

`GitPublish` is publication over a sequence of runs. A commit is the history that leads to
it, so that fast-forward, lease and merge are statements about prefixes. State: the remote
(base, branch, whether a pull request is open), both branches as last fetched, the local
branch, the snapshot in the worktree, `publication` in memory and in `state.json`, and the
head in the run journal. A run is `Fetch`, `PrepareBranch` (or `PrepareDirect`), `Store`,
`Commit`, `Push`, `EnsurePr`, `Finish`, each with its failure; a failed push or creation may
have taken effect. `Recover`, `ResetJournal` and `CleanCheckout` are what happens between
runs. Others push to the branch or the base, open, merge (by moving the base or squashed)
and close pull requests and delete the branch (`Environment`); these actions stand for
GitHub and are not translated from the repository. One thing they may not do is to
delete the branch and create it anew between the push of a run and its pull request, which
would then offer the work of somebody else: the two calls are not one, and no code between
them could tell. `StartRef`, `Resumed` and the lease in `Accepted` are the decisions of
1572-1591 and 1998-2000 that the properties test. The repository has its first commit; the
secret scan is one way for `Commit` to fail.

`GitWorktrees` is the clone below it: which worktrees are registered, what lies in them,
where their heads are; engines that share the clone but not a lock, each with its branch;
people who work in a worktree of their own; Git failing to remove what is in use; and runs
that die and leave theirs behind.

### ArchiveIntegrity, RecoveryCopies, RecoveryDrill

`ArchiveIntegrity`: a `Scrub` checks the versions that are due, longest unchecked first,
within its budgets and defers the rest; a repair is planned, reviewed and carried out file
by file (`RepairStep`), each with its quarantine and its transaction, while the archive
changes.

`RecoveryCopies`: a refresh lists the selected inputs with their hashes, copies them one by
one while others edit them, back and forth, and checks each against the list; it copies the
program's own files, which are neither listed nor checked; it publishes the bundle under the
hash of its inventory, copies it to a second place and moves `latest.json`. Retention deletes
bundles beyond the newest few: `CheckSurvivor` and `DeleteBundle` are two steps, between which
the survivor may be damaged. `returned` (the inputs that were edited since they were listed
and edited back), `moment` and `stood` are auxiliary.

`RecoveryDrill`: each call verifies the bundle, and rehearses it unless an earlier rehearsal
that began with the same bytes still counts. The fingerprint, the second verification
(`VerifyAgain`) and the relocation, which verifies once more (`Relocate`), are three steps, and
the bundle may change between any two of them. `stood` is auxiliary: the bundle a call began
with, the one it relocated, and whether it was changed in between.

### TaskIdentity

Records of `state.json` under their identities. The operator renames tasks, sets a `state_id`,
a destination or `enabled` at any moment; a run (`BeginRun`, `RunTask`, `Prune`) and the
lifecycle tool (`BeginTool`, `PlanMove`) work with the configuration each loaded when it
started, save the state and close the transaction (`Save`, `Commit`), or die. Programs do not
overlap here: `SharedState` is about those that do. The operator gives a task identities
that no other task ever has, as the documentation's example does.

### Recorder, RecorderControl, Monitoring

`Recorder` is the worker: a durable note of the files it is about to make, the files, the
index, then retention; a service manager restarts it, and `reconcile_capture` sorts out what
a death left. `RecorderControl` is `plan` and `apply`: the operator reviews a plan, which is
refused if anything it rests on has changed; what the tool owns is in an anchor file,
written after every step that succeeds. `Monitoring` is one run after the other: evaluate
every rule, commit the alert states, drain the outbox, queue one message per channel, drain
again; each message is sent before the database records that it was. A drain takes at most
`Batch` rows of all channels together, by age; every delivery to a channel in `Dead` fails.
`RoomLeft` says of the constants whether the growing delay of failing rows leaves room for
the others. Times are ages that saturate.

## 3. The runs

| run | asks | result |
|---|---|---|
| `journal` | every crash, failed write, commit and toggle between two steps: `TypeOK`, `NoOrphanFiles`, `RestartCanUndo`, `ChangedHeadPreserved`, `AtomicUpdate` (the refinement of `AtomicStore`), and `JournalCloses` under fairness | holds |
| `state` | programs one after another and at any time: `BooksSound` (types, the archive is tracked, what was acknowledged is kept, verification sees a settled archive), `NoFalseAlarm`, `LedgerKept` (the refinement of `Ledger`) | holds |
| `state_lost_update` | overlapping backups: `OverlapKept` | violated: the state document is read before the lock and written back whole |
| `archive` | a certified task with two sections and a plain one, with sections that fail, are undone, crash: `BooksMatchArchive`, `FailedScopePreserved`, `CompleteScopeStored`, `DeletionsGuarded` | holds |
| `archive_undo_failure` | an undo that fails: `TrackedVersionsExist` | violated: a certified task catches the error, and the run commits |
| `engine_schedule` | every graph over three tasks, aborts, budgets, Git failures: `TypeOK`, `LoopSound` (never stuck, dependencies settled, cleanup runs), `FreshCapturesOnly`, `ZeroMeansPublished` | holds |
| `engine_cadence` | a cadence and a clock: `CadenceHonest` (nothing owed is hidden, exit 0 means nothing is owed, where `OneCollectorEach`), `RunEnds` | holds |
| `engine_hidden` | the same with `stop_on_error`: `NeverHidden` | violated: a skip is not recorded |
| `git_publish` | three configurations, others on the remote, calls that fail before or after their effect, crashes: `WorkKept`, `NothingUnseenOverwritten`, `PublishedMeansOffered`, and `PublicationRecovers` under fairness | holds |
| `stages` | the stages of a run, each on its own: retention (`BooksMatchArchive`, `BucketsCovered`, `NeverTooLittle`, `SecondRunRemovesNothing`), the handover and both collectors (`CollectionsHonest`), the source scan (`FilesFound`), the worktrees (`WorktreesSound`, `OthersKept`), loading (`LoadingSound`) | holds |
| `shorthand` | loading: `TaskFloorCounts` | violated: a task's shorthand floor is ignored beside a named policy |
| `upkeep` | the programs beside a run: exports, drills and the histories of tasks (`RecoveryHolds`), the recorder and its registration (`RecordingHolds`, `RecorderResumes`), last copies, repairs and retired histories (`NothingLastLost`), scrubbing (`EveryVersionChecked`), alerts (`NothingDropped`, `EvidenceDecides`, `ProblemTold`) | holds |

Each passing property has a mutant in `PROJECT.json`, and a property made of several parts
one for each: a plausible bug (a `\* Variant:` next to the definition it replaces) under
which TLC finds the property violated.

### What the code does otherwise than it says

The four violated runs are findings with their quotations in `PROJECT.json`. The following
have no run of their own, because the definitions show them.

Engine and archive:

- `max_items_per_run` is counted per section (`Guarded`, 2704) although it is named and
  documented per run.
- An interrupted run's archive file is removed by the undo of the next start, where
  `docs/state-and-recovery.md:49` says it remains.
- Retention is applied to the tasks that succeeded although a required one failed (`Retain`,
  `Pruned`; 1162), where `docs/retention.md:249` says it is skipped.
- A failed retry of a collector inside its interval is not due again once its archive has
  succeeded (`Recent`, 2081), where `docs/discovery-and-review-details.md:85` says failed
  attempts remain due.
- A pending publication is cleared by a finalization with nothing in it (1142), where
  `docs/integrity-profiles-and-deployment.md:10` says that it remains pending until a
  successful retry: with the configurations `Published` of `MCEngineRun`,
  `PendingUntilRetried` of `EngineRun` fails.
- With weeks followed by months, the policy of `docs/retention.md:79` (`Documented` in
  `MCStages`), a week in two months leaves the earlier month empty: `BucketsCovered` fails.
  It holds for tiers whose intervals nest.

- A scheduled run between saving a new `state_id` and `--apply` opens a record under the new
  identity, and the migration is then refused ("Choose an unused target identity"); a run
  that still has the former configuration after `--apply` opens a second history under the
  former identity (`Opened`, 896; `docs/discovery-and-review-details.md:55` gives the order
  of the two steps and no warning). Nothing is lost (`NewestKept`), but the history of the
  task is in two records, which is why `OneHistoryPerTask` leaves such a task out.

Scanning and loading:

- A directory reached through a symbolic link is passed over when its real place has been
  visited under another name, be it one whose files the filters exclude: `LinksFollowed` of
  `SourceScan` (`docs/configuration.md:237`) fails.
- The same with a tree that changes: a directory that was read through a link which is turned
  elsewhere before the walk gets to the directory's own name. It has been visited, so it is
  not entered again, and what was found under the link is stored under names that now
  lead elsewhere or nowhere. A file that was there all the time under its own name is
  then taken for missing (`Misled`, the exception in `NothingOverlooked`; 2548-2580). This
  came out of the proof: without the exception the invariant is not inductive, and TLC finds
  the behaviour in the instance of `MCStages`, a link in the root and a directory two levels
  down.
- A base of a glob that vanishes or becomes unreadable between `_validate_scan_roots` and
  `_discover_sources` is taken for the deletion of everything below it
  (`docs/configuration.md:249`); the deletion guard is what stands in between.
- A source file renamed in case only blocks its task from then on (2412-2424).
- `defaults.retention` is ignored without a word.
- With `staging_root` configured around `backup.root`, the default output of a collector
  lies in the archive; only cleaning and scanning refuse it.

Publication:

- `force_push` is saved when a pull request could not be created and used again by the next
  run, although one may be open by then: the push is forced with a lease on what was just
  fetched and drops commits reviewers have added to it (`Resumed`, `PrepareBranch`; 1591).
- `pr_required` is true in pull request mode even with the creation of pull requests off, so
  publication counts as pending for ever and the branch never restarts from the base, where
  `docs/git-storage.md:108` says it does after a merge (1586).
- When a push that had not been forced fails and somebody pushes to the branch of the open
  pull request in between, every later run resumes the same commit and its push is rejected
  until an operator integrates it (`Ahead`).
- When a pull request was merged and nothing has changed since, a new one is attempted for
  a branch without commits of its own, and the run fails (`Blocked`, last case).
- When an operator abandons the journal of a run that died after its commit, the next run no
  longer knows of that commit (`abandoned`).
- Two configurations with different archives that use the same clone and the same branch
  take each other's worktree for stale (`docs/git-storage.md:72`); the instance of
  `GitWorktrees` gives each engine a branch of its own.

Collectors:

- On Windows the files of hardware, BIOS and operating system are written empty, and
  certified, when the query for them failed (`or {}`, `or []`, 497-514 of
  `collect_system.py`), where `docs/host-coverage.md:5` says unavailable commands do not
  certify an empty inventory ("emptied").
- Some outputs are certified complete with parts silently missing ("thinned"), where
  `docs/host-coverage.md:5` says that permission errors preserve earlier files:
  `hardware/cpu.json` without its core count when `lscpu` fails or cannot be parsed (165-176
  of `collect_system.py`); `scheduling/systemd-timers.csv` without the timers whose
  `systemctl cat` failed (332-334); Windows queries that silence errors of single objects
  (`-ErrorAction SilentlyContinue`: storage spaces and virtual disks 538-551, installed
  software 625-631, members of local groups 676); lists made by `glob` and `rglob`, which
  pass over what they may not enter (module parameters, firewall and NFS definitions; drivers,
  huge pages and automounts are read the same way); and drive identities of a `smartctl` that
  reports that some command failed, which only telemetry is told (129 of `drive_health.py`).
  No failure is recorded, so a run with nothing but these ends with 0, and what they left out is archived as removed. `HostCompleteIsWhole`
  therefore says "whole or partial", and `partial` holds nothing but the ways listed
  in `HostReadings`.
- Sections that overlap make the engine refuse the whole manifest: the failure of all of
  `storage` beside drive identities, of Windows components or certificates beside telemetry,
  two devices of one name in `smartctl --scan`, and PostgreSQL databases whose names differ
  in case only. `collect_system.py:827` means independent adapters not to prevent each
  other.
- Outputs of macOS and `fstab` may be certified though their write was torn, which is noted as a
  failure of the reading and nowhere else ("torn"). An inventory that raises as a whole fails
  its own scope; files it wrote outside that scope (those of the kernel inventory under
  `hardware`, those of the optional inventory) may be torn and are then certified one by one
  (853-859, 888-890): `InventoryRaises`. The optional inventory may also leave its temporary
  files in the staging directory.

Upkeep:

- An alert that opens is told once or not at all by a process that dies between its commit
  and its outbox, where `docs/operations.md:45` promises at least once; the alert is told
  again only when it stays (`ProblemTold`).
- A channel that is down, unlike a disabled one (`docs/operations.md:53`), can starve the others:
  its rows are older and come first in each batch whenever they are due. A row that has
  failed often waits min(86400, 60 * 2^10) = 61,440 seconds, so one dead channel with its 1000
  pending rows leaves room if the monitor runs every hour (17 runs with two drains of 50 rows
  each), and does not if it runs every two hours (8 runs, 800 rows), nor with two dead
  channels. `ProblemTold` is stated for configurations that leave room, `RoomLeft`.
- Messages of one channel may arrive out of order.
- A rule that is switched off and on again opens on a single observation.
- The recorder refuses every index that is out of the order of time, so after a clock has
  been set back between two chunks it does not record again (`docs/release-1.0.0.md:9`).
- A drill records the fingerprint it took at its start (273-278 of `setup_recovery.py`) with a
  rehearsal that verifies and relocates what is there later (284-289): a bundle that is
  changed in between and changed back counts as rehearsed though other bytes were.
- Equal hashes do not tell an input that was edited between its two readings and edited back:
  the bundle then holds it as it was listed, which need not be what it was when the others
  were (206-208 of `recovery_assets.py`). The program's own files are copied once and recorded
  as copied (211-217): an upgrade during a refresh leaves files of two releases in a bundle
  that verifies.
- Retention rechecks a survivor before each deletion (`docs/recovery-and-scheduling-details.md:54`),
  and not after it: a survivor damaged between the two leaves no verified copy.
- After a repair, a scrub sees nothing due until its interval is over: "re-run scrub" needs
  `--force`.

### Bounds

- `journal`: two paths, one of them in the worktree, two contents each, as many journal
  rows, four faults, two commits. Every row order and every pair of faults in run and undo
  occurs; the theorems remove the bounds.
- `state`: two processes, five starts, two versions, two crashes (2.0 million states). A
  lost update needs two starts, a false alarm three (store, crash, verify).
- `archive`, `archive_undo_failure`: two keys, in two sections of a certified task or the
  one of a plain task, four runs (three in `archive_undo_failure`), three versions, one
  fault, and one failing undo (of the plain task, or of the certified one in
  `archive_undo_failure`). A deletion needs two complete scans, a reappearance in between a
  fourth run.
- `engine_*`: three tasks, or two where a clock is involved; `engine_schedule` has every
  dependency graph over them. A hidden capture needs two runs inside one interval.
- `git_publish`: two contents, four commits by anyone, one failure or crash, which is
  enough for a commit that was not pushed, another on the base, one by a reviewer and a run
  that comes after them. With two faults (1.8 million states) it holds as well.
- `stages` (1.6 million states, less than three minutes). Retention: two files, three versions, four days, one
  fault, three policies; a month is lost with three versions, the newest of them protected.
  Handover: three sections, one required and one disabled, two runs, so that the collector of
  the first publishes in the second. Collectors: two faults, which is one that takes
  back a checkpoint and one beside it, or a read that thins an output and an error that
  ends the reading; every output of the three systems; switches of a section, of a group, of
  a database and of everything. Scan: three directories
  below one another, a link up, a link that is turned to any of them, to a file or to the
  archive, two names that differ in case, two changes, two scans; a directory task with and without a filter and a glob. Worktrees: two engines and
  one foreign worktree, three runs, one fault, two moves of others. Loading: every graph over
  three tasks, and families of files for identities, outputs and layers of retention.
- `upkeep` (0.8 million states, two minutes). Exports: two inputs and one file of the program,
  each with two texts, two edits, one damage or death, retention of one. A mixed bundle needs
  two inputs and an edit, an input edited back two edits. Drill: two files, four changes or
  calls. A differing file and a missing one are alike to a drill, so one content is enough.
  Recorder: two chunks, three steps, a clock set back once, two deaths, the second
  one during the reconciliation after the first. Control: four calls, three upsets. Integrity:
  two versions, one of them with the larger file, budgets for one. Monitoring: one rule and
  two channels, of which one is dead, with a `Limit` of two rows and a `Batch` of one, so that
  either of its rows displaces the row of the other channel; delays up to three runs, which just
  leaves room (`RoomLeft`); one failing send on the live channel or one death. With delays that
  do not grow the live channel is never told (a mutant of the run). Identities: two tasks,
  one of them with an identity to move to, a spare name, two destinations, two edits, a
  source that changes once, one death: enough to swap two names, to run between a save and
  its migration, and to enable a task that is being retired.

Deadlock is checked for `journal`, `git_publish` and the engine runs. `state*`, `archive*`,
`stages`, `shorthand` and `upkeep` switch the check off: they stop when their bounds on
starts, runs or changes are used up, or when the one thing they do is done.

### Fairness

- `TransactionJournal!FairSpec`: the scheduler starts the program again and again, and a
  started program that is not killed goes on through an undo, a cleanup, a journal write
  and to the end of its run. Nothing is assumed about the operator or about faults.
  `JournalCloses` leaves out the two cases in which the program waits for the operator.
- `EngineRun!Spec`: weak fairness of the engine's own steps, a process that runs keeps
  running until it ends or dies. Nothing makes a run start.
- `GitPublish!Spec`: weak fairness of the engine: the scheduler starts runs again and
  again, and a run that is not killed ends. Others and operators owe nothing. That faults
  are bounded says that the network works again some day. `PublicationRecovers` leaves out
  the cases in which an operator has to act (`Blocked`) and a branch that somebody deletes
  again and again.
- `Upkeep!Spec`: weak fairness of the recorder's worker (its service manager starts it
  again), of scrubs and the steps of a repair (the scheduler starts them), and of the steps of
  a monitor run. `RecorderResumes` is conditional on an index in the order of time,
  `EveryVersionChecked` on a version that fits the budget of bytes, `ProblemTold` on a problem
  that stays, a channel that is not dead, and room in the batches (`RoomLeft`).
- The other runs are about safety only.

## 4. The proofs

All theorems hold for every value of the constants under the named assumptions of the
modules, which only keep sentinels apart, constants well typed and names unambiguous
where the system they come from guarantees it (one catalogue never names a database twice;
no output of a host lies under another). `StagesAssumption` and `UpkeepAssumption`
collect those of their parts. TLC evaluates each assumption. Each module of proofs states
an inductive invariant as a conjunction of named parts, has one lemma for each action,
the invariance from them, and the theorems from that. Each invariant was checked with TLC
on the instance of its run before it was proved.

**TransactionJournalProofs.** `PhaseInv` (what each program counter says of the process),
`DiskInv` (entries are dense and at most one beyond the anchored count, images are intact,
paths are not repeated), `MemoryInv` (rows in memory against rows on disk, poisoned or not),
`UndoInv` (how far an undo has come) and `FreshMemory` (a process that is off or has just
started holds nothing). `NoOrphanFiles` and `RestartCanUndo` are not inductive: that a row on
disk restores what the file held when the journal was opened depends on all of them.
Theorems: `TypeCorrect`, `NeverOrphaned`, `AlwaysUndoable`, `HeadChangePreserves`, and
`ImplementsAtomicStore`: under the mapping `Reconciled` (what a restart would find in each
file) every step is a step of `AtomicStore` or a stutter.

**SharedStateProofs.** `LockInv`, `JournalInv` (a transaction is open exactly while a process
works in one, or died in one), `AloneInv`, `DiskInv` and `MemoryInv`. What makes
`AcknowledgedKept`, a part of `BooksSound`, inductive is the pair: the image a restart would
bring back is tracked even while the books on disk are not, and a process that works holds
in memory what the archive holds. `TurnInv` is what the refinement needs beyond that: the
one program that runs is the last that was started and has not reported yet, and what a
later one would find records exactly those that have, while the document on disk is ahead
of it between `SaveState` and `Commit`. `QuietSteps` shows that no action but `Commit` and
`Verify` changes `Found`, and `SuccessCounts` that those two are a step of the ledger.
Theorems: `BooksAreSound`, `NothingForgotten`, `AlarmsAreTrue` and `ImplementsLedger`.

**TaskArchiveProofs.** `BooksInv` (records and files, now and as a restart would have them),
`UndoInv` (for every file the oldest row of the undo list says whether the section began with
it, so that undoing in reverse restores the beginning whatever the rows between say),
`SectionInv`, `JudgeInv` (what a complete section made of each key) and `GuardInv`. Theorems:
`BooksAlwaysMatch`, `FailuresPreserve`, `CompletionStores` and `DeletionsStayGuarded`. The
condition `SectionsUndone` (no undo of a section of a certified task fails) is where
`archive_undo_failure` shows the code to break; a failing undo of a plain task is covered.

**EngineRunProofs.** `LoopInv`, `PassedInv` (exactly the tasks the loop has passed have a
result), `DirectInv` (a task that ran had every direct dependency run, or ran on failure),
`SkipInv`, `PublicationInv` and `RecordInv`. `FreshCapturesOnly` speaks of dependencies at
any distance; the argument is that the tasks it fails for would be a set closed under
`DirectInv`. Theorems: `TypeCorrect`, `OrderingNeverStuck`, `DependenciesAreSettled`,
`CleanupSurvivesAbort` and the three together as `LoopIsSound`, `NoStaleCaptures`,
`SuccessIsPublished`.

`CadenceHonest` is about several runs and deaths between them, under `OneCollectorEach`:
errors stop nothing, an archive waits for one task, which waits for none, and none is kept
from Git because `git.enabled` is off. Anywhere else a task that succeeds may leave an
archive skipped, of which no record says anything; `engine_hidden` shows it with
`stop_on_error`. The strengthening is `CaptureInv`: a capture that is owed stands in the
record of its archive (never published, failed or partial), in the book of the run and in
the one a restart would read (`SavedInv`), or its collector has just succeeded and the
archive is still to come (`OwedInv`), which is no longer possible when the loop is through
(`OrderInv`). So the next run that asks whether the collector is due finds an open record.
Theorems: `CapturesOnRecord`, `CadenceIsHonest`.

**GitPublishProofs.** Types, `KnownInv` (every commit known has a snapshot), `RunInv`,
`OfferInv` (what was pushed stays on the branch for as long as there is one) and `BookInv`: an
unpublished commit in the state document is the head the next run starts from, `Basis`, the
journal's head while a journal is open and the local branch otherwise. That is the whole reason
why a commit that was not pushed survives the reset of its branch. Theorems:
`CommitsAreKept`, `NothingUnseenIsLost`, `PublishedIsOffered`.

**UpkeepProofs.** One invariant for each program, `UpkeepInv` their conjunction.
- `CopiesInv`: an input that was listed and not copied yet holds what was listed, or was edited
  after the listing ended, or has returned (`MomentInv`); copying it as listed leaves only the
  first and the last. That a newest good bundle exists is by well-foundedness of the naturals.
- `DrillInv`: a call carries the print of the bundle it verified at its start, and the marker that
  of the bundle its own call began with, whatever the bundle has become since; what was
  relocated is that bundle unless something was changed in between.
- `IdentityInv`: the records of `state.json`, on disk and in the memory of a program that
  works, belong to the histories that were kept under them, and a death in the middle of a
  move leaves the one or the other whole.
- `IntegrityInv`: evidence of intact bytes is never older than the check that found them,
  and a repair under way has the bytes it is about to replace where they were, in quarantine
  or in its journal.
- `RecorderInv` (chunks are indexed in the order they were captured, and the note names the
  one being captured) and `ControlInv` (what is registered is noted in the anchor or was
  left there by others, and the commands still ahead of a plan make or remove the rest).
- `MonitorInv`: an event decided is in the outbox for each channel it is routed to, in the
  list of the process, or due again; an alert's streak counts distinct observations.

Theorems: `RecoveryStands`, `NothingLost`, `RecordingStands`, `NoEventDropped` and
`EvidenceAlways`, which state `RecoveryHolds`, `NothingLastLost`, `RecordingHolds`,
`NothingDropped` and `EvidenceDecides`.

**StagesProofs, CollectorProofs.** `StagesInv` is again one invariant for each stage.
- `RetentionInv`: `OwnInv` (versions are numbered as they are stored; each is in one
  history of its key), `FileInv` (files are those of the records, less what the scope has
  removed so far), `BaseInv` (the same of what a restart brings back), `DoomInv` (the plan
  spares every floor, and purges a generation as a whole in each key it touches), `StepInv` (the
  plan has been carried out for a key as a whole or not at all, and what is left is intact)
  and `CheckedInv`. `PlanSpares` shows that the three passes that doom versions respect the
  floors of all histories, for any policy: what a pass takes from one history is not in
  another. `FloorSpares` shows that a floor of at least one is not empty (the version with
  the fewest newer ones, by well-foundedness of the naturals), so that a history thinned is
  never emptied.
  `PlanInv`: what is doomed is what the policies take of the records the run began with
  (`Planned`), and unless something failed each key has been cut accordingly, has nothing to
  be cut, or is in a scope still to come. So after a run without failures the records are
  those of the beginning less the plan, and that a second plan takes nothing of them is a
  fact about plans alone. `FloorStays`: removing versions outside the floor does not move
  the floor, and ranks only shrink. `ThinnedOnce`: the newest of each bucket stays, so what
  is left is again the newest of its bucket. `SizeAdds`: sizes are those of disjoint
  unions, so that a version which was spared the limit of size fits it again, since what has
  been removed before it counts in the total as well. `TakenOnce` puts them together for all
  histories of a policy at once, `NothingMore` for both policies and the purge.
  `CoverInv`: between runs every version ever stored has one of its own history in its
  bucket of the last tier; during a run that holds of the records a restart would find, and
  the plan leaves one as well. `BucketSurvives` is the step that matters: every version is in
  one of the tiers, which keeps the newest in its bucket, and that bucket lies in one of the
  last tier.
- `HandoverInv`: a run has one collector, and a manifest with the run's number is the one
  this collector published, whatever abandoned collectors do (`OriginInv`); what is trusted
  was certified and stays so until it is stored (`VouchInv`).
- `PgInv`: every section and every file entered so far has its place among those of its
  database (`Entered`), everything a database has told belongs to a step it has reached
  (`CurrentInv`), and a failure is always on record, if only as a file that was
  expected and is not there. That sections do not overlap rests on the shape of paths, one
  level at a time.
- `HostInv`: `WrittenInv` and `CertifiedInv` say of each file and section which of the two
  passes, the broad reading and the inventories, may have made it; the manifest at the end
  takes from the first only what the second does not certify; what is not `whole` is `partial`
  or uncertain or lies in a section that failed.
- `ScanInv`: the walk starts at the root and goes on from every directory it has read
  (`GoesOn`: the next directory on a steady path has been read as well, or is pending under
  the name the last one was read under), and takes the files in it (`TakesFiles`). At the end
  nothing is pending, so the last directory on a steady path that was read is the one that
  holds the file. Paths are of any length and the tree is any
  function, so that what a path leads to (`Trail`, a recursive function) is unfolded once and
  for all in `TrailIs`, whose existence part is by minimal counterexample.
- `WorktreesInv`: no two worktrees hold one branch (`HoldInv`), and what a run has prepared,
  stored and committed is its own for as long as its stage says so (`RunInv`).

- `LoadInv`: a task resolved says what the file says of it (`TasksInv`); the tasks being
  visited are a path of dependencies without repetition, of which what is not left has been
  visited (`PathInv`); and what has been visited has a rank that decreases along every
  dependency (`DoneInv`), so that no path returns to where it began (`NoCycle`), while a
  dependency that is met on the path closes one (`CycleMet`). The same rank makes the
  recursion over a task's dependencies well-founded: it has a solution (`OnIs`), and a task
  is active if it and all it depends on at any distance are enabled (`AwakeIsOn`). The rest is
  about prefixes of paths and about records of retention, one section at a time.

Theorems: `BooksStayTrue`, `EnoughStays`, `BucketsStayCovered`, `RetentionComesToRest`,
`CollectionsStayHonest`, `ScansFindFiles`, `PullRequestsStayOwn`, `OthersStayOthers` and
`LoadingStaysSound`, which state `BooksMatchArchive`, `NeverTooLittle`, `BucketsCovered`,
`SecondRunRemovesNothing`, `CollectionsHonest`, `FilesFound`, `WorktreesSound`, `OthersKept`
and `LoadingSound`.

Some operators are parsed differently by the provers' front end and by SANY (`UNION` and
`SUBSET` before a binary operator of the same precedence); the modules use parentheses there,
so that what is proved is what is checked.

Only model-checked: the liveness properties (`JournalCloses`, `RunEnds`,
`PublicationRecovers`, `EveryVersionChecked`, `RecorderResumes`, `ProblemTold`), since
fairness and ENABLED are out of the prover's reach. Every safety property that a passing run
checks is stated by a theorem.

## 5. Not modelled

- Of the modelled parts: loss of power; dry runs; a Git repository without any commit;
  the naming of versions and collisions of names in one second; drives
  and shares of Windows as scan roots; the SQL and the commands of collectors, and telemetry;
  text decoded with `errors="replace"`, account databases that answer partially, the fallback of
  network interfaces to text, the scope of all Windows components together, the names a failed
  PostgreSQL write leaves registered;
  includes and variables of configuration files; the text of reports. In EngineRun a report
  is its success or failure and an attempt is its outcome.
- Read-only or derived, without state whose interleavings could go wrong: recovery status and
  readiness, reporting, performance and change reports, discovery, exposure and schedule
  reviews, database connections and PowerShell policy.
- Interactive menus and generated scripts around one file saved whole: the configuration
  editor, the launchers, the console.
- Pattern matching and encryption, whose properties are those of text and of libraries: the
  secret gate, sensitive data, deployment packs.
- The plan of the journal review (GitPublish has its effect), and of a task migration the
  spelling of paths and the scopes of the moved record.
- The SQL Server scripts and the analysis of schedules: reads that end in the same manifest as
  those of the collectors that are modelled; `Handover` has what the engine sees of them.

Three hazards of the list have no property. `force_push` after a pull request has been opened
(1591), the retry inside an interval (2081) and `publication.pending` cleared by a
finalization with nothing in it (1142): the models contain the behaviour, the sentences of
the documentation about it are quoted above.

## 6. Plan

Done: the journal and its refinement, shared state, task archive, scan, engine, loading,
retention, publication, worktrees, handover and collectors, integrity, exports, drills,
recorder, monitoring, identities; proofs of all safety properties the passing runs check,
and the refinements of `AtomicStore` and `Ledger`.

What would add most next:

1. `GitPublish` as a refinement of what `Finalize` of `EngineRun` says of
   `publication.pending`, and `TaskArchive` of what it says of an attempt.
2. The staged plan of the journal review, bound to the hashes of the journal.
