---------------------------- MODULE TaskArchive ----------------------------
(***************************************************************************)
(* One file-storage task of the backup engine over a sequence of runs:     *)
(* storing changed sources as new versions, confirming missing sources,    *)
(* moving the versions of a deleted source aside, and taking a failed      *)
(* section back (_run_task, _backup_scopes, _store_discovered,             *)
(* _backup_one_file, _process_missing and _mark_deleted of                 *)
(* engine/configbackup.py, Coverage of engine/completeness.py).            *)
(*                                                                         *)
(* A certified task copies the sections of a collector manifest, each with *)
(* a file journal of its own; any other task is one section, undone by     *)
(* _run_task.  The durable run journal, whose atomicity is the subject of  *)
(* TransactionJournal, is the state and the files a later start would      *)
(* bring back.  A version is a number; its file lies under its active or   *)
(* its deleted path.                                                       *)
(***************************************************************************)
EXTENDS Naturals, FiniteSets, Sequences, FiniteSetsExt

CONSTANTS Keys,           \* logical paths of the task
          Scopes,         \* sections of the manifest
          Tasks,          \* tasks an operator may configure, see Task
          Contents,       \* contents of a source file
          None,           \* no source file, no scope, no journal
          Threshold,      \* deletion.missing_runs
          MaxItems,       \* deletion.max_items_per_run
          MinItems,       \* deletion.min_items_for_percent
          MaxPercent,     \* deletion.max_percent_per_run
          MaxVersions,    \* bound: versions ever stored
          MaxRuns,        \* bound: runs started
          MaxFaults,      \* bound: errors, crashes and damaged files
          MaxUndoFaults   \* bound: errors while a section of such a task is undone

(***************************************************************************)
(* A certified task consumes a collector manifest and copies its sections; *)
(* of any other task all files are one section.                            *)
(***************************************************************************)
Task == [certified : BOOLEAN, scopeOf : [Keys -> Scopes]]

ASSUME TaskArchiveAssumption ==
    /\ Tasks \subseteq Task
    /\ \A t \in Tasks : ~t.certified => \A k, l \in Keys : t.scopeOf[k] = t.scopeOf[l]
    /\ None \notin Contents \cup Scopes
    /\ IsFiniteSet(Keys)
    /\ Threshold \in Nat \ {0}
    /\ {MaxItems, MinItems, MaxPercent, MaxVersions, MaxRuns, MaxFaults} \subseteq Nat
    /\ MaxUndoFaults \in [BOOLEAN -> Nat]

Versions == 1..MaxVersions
Files    == Versions \X {"active", "deleted"}
Record   == [versions : SUBSET Versions, deleted : SUBSET Versions,
             active : BOOLEAN, missing : Nat]
Records  == [Keys -> Record]

VARIABLES
  task,     \* the task
  src,       \* key -> content of the source, or None
  rec,       \* key -> its record in the state document
  hash,      \* version -> the hash its record holds
  disk,      \* version files that exist
  bad,       \* versions whose file was damaged
  stored,    \* versions ever stored
  pc,        \* "idle", "task", "store", "delete" or "undo"
  reported,  \* section -> its status after Coverage() and seal()
  left,      \* sections still to be processed
  scope,     \* the section being processed
  todo,      \* keys still to be stored, then keys to be deleted
  undo,      \* the file journal: files touched, with whether they existed
  before,    \* the records when the section began
  committed, \* _task_has_committed_scopes
  outcome,   \* section -> "none", "complete" or "failed"
  base,      \* what a start after a crash brings back, None between runs
  runs, faults, undoFaults,
  absent     \* auxiliary: complete scans in a row that did not see the key

storage == <<rec, hash, disk, stored>>
section == <<scope, todo, undo, before>>
bounds  == <<runs, faults, undoFaults>>
vars    == <<task, src, storage, bad, pc, reported, left, section, committed, outcome,
             base, bounds, absent>>

NewRecord == [versions |-> {}, deleted |-> {}, active |-> TRUE, missing |-> 0]

Init ==
    /\ task \in Tasks
    /\ src \in [Keys -> Contents]
    /\ rec = [k \in Keys |-> NewRecord]
    /\ hash = [v \in Versions |-> None]
    /\ disk = {}
    /\ bad = {}
    /\ stored = 0
    /\ pc = "idle"
    /\ reported = [s \in Scopes |-> "complete"]
    /\ left = {}
    /\ scope = None
    /\ todo = {}
    /\ undo = <<>>
    /\ before = rec
    /\ committed = FALSE
    /\ outcome = [s \in Scopes |-> "none"]
    /\ base = None
    /\ runs = 0
    /\ faults = 0
    /\ undoFaults = 0
    /\ absent = [k \in Keys |-> 0]

-----------------------------------------------------------------------------
(* Helpers *)

ScopesUsed == {task.scopeOf[k] : k \in Keys}
KeysOf(s) == {k \in Keys : task.scopeOf[k] = s}
Present   == {k \in Keys : src[k] # None}

\* _latest_version() of a key that has versions.
Latest(k) == Max(rec[k].versions)

\* check_version(): the file is there and still has the recorded hash.
Verified(v) == <<v, "active">> \in disk /\ v \notin bad

UpToDate(k) == rec[k].versions # {} /\ hash[Latest(k)] = src[k]

ActiveIn(s)  == {k \in KeysOf(s) : rec[k].active /\ rec[k].versions # {}}
MissingIn(s) == ActiveIn(s) \ Present

\* Variant: only the percentage counts.
GuardedByPercent(s) ==
    LET missing == Cardinality(MissingIn(s))
    IN  missing >= MinItems /\ 100 * missing > MaxPercent * Cardinality(ActiveIn(s))

\* The guard looks at the keys of the section only.
Guarded(s) ==
    LET missing == Cardinality(MissingIn(s))
    IN  \/ missing > MaxItems
        \/ missing >= MinItems /\ 100 * missing > MaxPercent * Cardinality(ActiveIn(s))

\* The process is gone; the next start brings back what the run journal holds.
Restart ==
    /\ rec' = base.rec
    /\ disk' = base.disk
    /\ pc' = "idle"
    /\ base' = None
    /\ left' = {}
    /\ scope' = None
    /\ todo' = {}
    /\ undo' = <<>>
    /\ UNCHANGED <<task, src, hash, bad, stored, reported, before, committed, outcome, absent>>

-----------------------------------------------------------------------------
(* Between runs *)

\* A source file is created, changed or removed.
Change(k, c) ==
    /\ pc = "idle"
    /\ src[k] # c
    /\ src' = [src EXCEPT ![k] = c]
    /\ UNCHANGED <<task, storage, bad, pc, reported, left, section, committed, outcome,
                   base, bounds, absent>>

\* An archived file is damaged.
Damage(v) ==
    /\ pc = "idle"
    /\ faults < MaxFaults
    /\ faults' = faults + 1
    /\ v \notin bad
    /\ \E place \in {"active", "deleted"} : <<v, place>> \in disk
    /\ bad' = bad \cup {v}
    /\ UNCHANGED <<task, src, storage, pc, reported, left, section, committed, outcome,
                   base, runs, undoFaults, absent>>

\* Variant: the run journal covers the state document only.
StartStateOnly(status) ==
    /\ pc = "idle"
    /\ runs < MaxRuns
    /\ ~task.certified => \A s \in Scopes : status[s] = "complete"
    /\ runs' = runs + 1
    /\ base' = [rec |-> rec]
    /\ reported' = status
    /\ left' = ScopesUsed
    /\ committed' = FALSE
    /\ outcome' = [s \in Scopes |-> "none"]
    /\ pc' = "task"
    /\ UNCHANGED <<task, src, storage, bad, section, faults, undoFaults, absent>>

\* Journal.begin(), then _run_task(): a collector may fail some sections.
Start(status) ==
    /\ pc = "idle"
    /\ runs < MaxRuns
    /\ ~task.certified => \A s \in Scopes : status[s] = "complete"
    /\ runs' = runs + 1
    /\ base' = [rec |-> rec, disk |-> disk]
    /\ reported' = status
    /\ left' = ScopesUsed
    /\ committed' = FALSE
    /\ outcome' = [s \in Scopes |-> "none"]
    /\ pc' = "task"
    /\ UNCHANGED <<task, src, storage, bad, section, faults, undoFaults, absent>>

-----------------------------------------------------------------------------
(* One section *)

\* A failed section is left exactly as it was.
SkipScope(s) ==
    /\ pc = "task"
    /\ s \in left
    /\ reported[s] = "failed"
    /\ left' = left \ {s}
    /\ outcome' = [outcome EXCEPT ![s] = "failed"]
    /\ UNCHANGED <<task, src, storage, bad, pc, reported, section, committed, base, bounds,
                   absent>>

BeginScope(s) ==
    /\ pc = "task"
    /\ s \in left
    /\ reported[s] = "complete"
    /\ left' = left \ {s}
    /\ scope' = s
    /\ todo' = KeysOf(s) \cap Present
    /\ undo' = <<>>
    /\ before' = rec
    /\ pc' = "store"
    /\ UNCHANGED <<task, src, storage, bad, reported, committed, outcome, base, bounds, absent>>

\* Variant: a key seen again keeps its count of missing runs.
SeenStillMissing(k) == [rec[k] EXCEPT !.active = TRUE]

Seen(k) == [rec[k] EXCEPT !.active = TRUE, !.missing = 0]

\* Variant: unchanged content is accepted without a look at the archived file.
KeepVersionUnverified(k) ==
    /\ pc = "store"
    /\ k \in todo
    /\ UpToDate(k)
    /\ rec' = [rec EXCEPT ![k] = Seen(k)]
    /\ todo' = todo \ {k}
    /\ UNCHANGED <<task, src, hash, disk, bad, stored, pc, reported, left, scope, undo, before,
                   committed, outcome, base, bounds, absent>>

\* The newest version already has this content, and its file is intact.
KeepVersion(k) ==
    /\ pc = "store"
    /\ k \in todo
    /\ UpToDate(k)
    /\ Verified(Latest(k))
    /\ rec' = [rec EXCEPT ![k] = Seen(k)]
    /\ todo' = todo \ {k}
    /\ UNCHANGED <<task, src, hash, disk, bad, stored, pc, reported, left, scope, undo, before,
                   committed, outcome, base, bounds, absent>>

\* Otherwise the content becomes a version of its own.
StoreVersion(k) ==
    LET v == stored + 1
    IN  /\ pc = "store"
        /\ k \in todo
        /\ ~UpToDate(k)
        /\ stored < MaxVersions
        /\ stored' = v
        /\ hash' = [hash EXCEPT ![v] = src[k]]
        /\ undo' = Append(undo, [file |-> <<v, "active">>, existed |-> FALSE])
        /\ disk' = disk \cup {<<v, "active">>}
        /\ rec' = [rec EXCEPT ![k] = [Seen(k) EXCEPT !.versions = @ \cup {v}]]
        /\ todo' = todo \ {k}
        /\ UNCHANGED <<task, src, bad, pc, reported, left, scope, before, committed, outcome,
                       base, bounds, absent>>

\* _process_missing(): one more run without the source, unless too many are
\* missing at once; at the threshold the source counts as deleted.
ProcessMissing ==
    LET missing == IF Guarded(scope) THEN {} ELSE MissingIn(scope)
    IN  /\ pc = "store"
        /\ todo = {}
        /\ rec' = [k \in Keys |-> IF k \in missing
                                  THEN [rec[k] EXCEPT !.missing = @ + 1]
                                  ELSE rec[k]]
        /\ todo' = {k \in missing : rec[k].missing + 1 >= Threshold}
        /\ pc' = "delete"
        /\ UNCHANGED <<task, src, hash, disk, bad, stored, reported, left, scope, undo, before,
                       committed, outcome, base, bounds, absent>>

\* Variant: the move is not entered in the file journal.
MoveVersionUnjournaled(k, v) ==
    /\ pc = "delete"
    /\ k \in todo
    /\ v \in rec[k].versions
    /\ disk' = IF <<v, "active">> \in disk
               THEN (disk \ {<<v, "active">>}) \cup {<<v, "deleted">>} ELSE disk
    /\ rec' = [rec EXCEPT ![k].versions = @ \ {v}, ![k].deleted = @ \cup {v}]
    /\ UNCHANGED <<task, src, hash, bad, stored, pc, reported, left, scope, todo, undo, before,
                   committed, outcome, base, bounds, absent>>

\* _mark_deleted(): source and destination are remembered, the file is moved.
\* A version whose file is gone is entered under its new path all the same.
MoveVersion(k, v) ==
    /\ pc = "delete"
    /\ k \in todo
    /\ v \in rec[k].versions
    /\ IF <<v, "active">> \in disk
       THEN /\ undo' = Append(Append(undo, [file |-> <<v, "active">>, existed |-> TRUE]),
                              [file |-> <<v, "deleted">>, existed |-> FALSE])
            /\ disk' = (disk \ {<<v, "active">>}) \cup {<<v, "deleted">>}
       ELSE UNCHANGED <<undo, disk>>
    /\ rec' = [rec EXCEPT ![k].versions = @ \ {v}, ![k].deleted = @ \cup {v}]
    /\ UNCHANGED <<task, src, hash, bad, stored, pc, reported, left, scope, todo, before,
                   committed, outcome, base, bounds, absent>>

MarkDeleted(k) ==
    /\ pc = "delete"
    /\ k \in todo
    /\ rec[k].versions = {}
    /\ rec' = [rec EXCEPT ![k].active = FALSE, ![k].missing = 0]
    /\ todo' = todo \ {k}
    /\ UNCHANGED <<task, src, hash, disk, bad, stored, pc, reported, left, scope, undo, before,
                   committed, outcome, base, bounds, absent>>

CompleteScope ==
    /\ pc = "delete"
    /\ todo = {}
    /\ committed' = TRUE
    /\ outcome' = [outcome EXCEPT ![scope] = "complete"]
    /\ undo' = <<>>
    /\ scope' = None
    /\ pc' = "task"
    /\ UNCHANGED <<task, src, storage, bad, reported, left, todo, before, base, bounds, absent>>

-----------------------------------------------------------------------------
(* A section fails *)

\* Retained current content that is damaged or gone.
Refused(k) == UpToDate(k) /\ ~Verified(Latest(k))

\* An error of the file system, a source that changes while it is copied, or
\* a retained version that does not verify.
Fail ==
    /\ pc \in {"store", "delete"}
    /\ \/ /\ pc = "store"
          /\ \E k \in todo : Refused(k)
          /\ UNCHANGED faults
       \/ /\ faults < MaxFaults
          /\ faults' = faults + 1
    /\ pc' = "undo"
    /\ todo' = {}
    /\ UNCHANGED <<task, src, storage, bad, reported, left, scope, undo, before, committed,
                   outcome, base, runs, undoFaults, absent>>

\* Newest row first, the file is removed or copied back.
UndoFile ==
    LET row == undo[Len(undo)]
    IN  /\ pc = "undo"
        /\ undo # <<>>
        /\ disk' = IF row.existed THEN disk \cup {row.file} ELSE disk \ {row.file}
        /\ undo' = SubSeq(undo, 1, Len(undo) - 1)
        /\ UNCHANGED <<task, src, rec, hash, bad, stored, pc, reported, left, scope, todo,
                       before, committed, outcome, base, bounds, absent>>

\* Variant: the files are put back, the records are not.
ScopeUndoneFilesOnly ==
    /\ pc = "undo"
    /\ undo = <<>>
    /\ outcome' = [outcome EXCEPT ![scope] = "failed"]
    /\ scope' = None
    /\ pc' = "task"
    /\ UNCHANGED <<task, src, storage, bad, reported, left, todo, undo, before, committed,
                   base, bounds, absent>>

ScopeUndone ==
    /\ pc = "undo"
    /\ undo = <<>>
    /\ rec' = before
    /\ outcome' = [outcome EXCEPT ![scope] = "failed"]
    /\ scope' = None
    /\ pc' = "task"
    /\ UNCHANGED <<task, src, hash, disk, bad, stored, reported, left, todo, undo, before,
                   committed, base, bounds, absent>>

\* A file cannot be put back.  For an uncertified task the error leaves
\* _run_task and ends the program, with the run journal pending.  For a
\* certified one _run_task catches it: the section's journal is gone, the
\* records are taken back unless an earlier section was committed, and the
\* run goes on.
UndoFails ==
    /\ pc = "undo"
    /\ undo # <<>>
    /\ undoFaults < MaxUndoFaults[task.certified]
    /\ undoFaults' = undoFaults + 1
    /\ IF task.certified
       THEN /\ rec' = IF committed THEN rec ELSE base.rec
            /\ outcome' = [outcome EXCEPT ![scope] = "failed"]
            /\ undo' = <<>>
            /\ scope' = None
            /\ left' = {}
            /\ pc' = "task"
            /\ UNCHANGED <<task, src, hash, disk, bad, stored, reported, todo, before, committed,
                           base, absent>>
       ELSE Restart
    /\ UNCHANGED <<runs, faults>>

-----------------------------------------------------------------------------
(* The end of the run *)

\* state.save() and Journal.commit().
Finish ==
    /\ pc = "task"
    /\ left = {}
    /\ base' = None
    /\ pc' = "idle"
    /\ absent' = [k \in Keys |-> IF outcome[task.scopeOf[k]] # "complete" THEN absent[k]
                                 ELSE IF k \in Present THEN 0 ELSE absent[k] + 1]
    /\ UNCHANGED <<task, src, storage, bad, reported, left, section, committed, outcome, bounds>>

Crash ==
    /\ pc # "idle"
    /\ faults < MaxFaults
    /\ faults' = faults + 1
    /\ Restart
    /\ UNCHANGED <<runs, undoFaults>>

Next ==
    \/ \E k \in Keys, c \in Contents \cup {None} : Change(k, c)
    \/ \E v \in Versions : Damage(v)
    \/ \E status \in [Scopes -> {"complete", "failed"}] : Start(status)
    \/ \E s \in Scopes : SkipScope(s) \/ BeginScope(s)
    \/ \E k \in Keys : KeepVersion(k) \/ StoreVersion(k) \/ MarkDeleted(k)
    \/ \E k \in Keys, v \in Versions : MoveVersion(k, v)
    \/ ProcessMissing \/ CompleteScope
    \/ Fail \/ UndoFile \/ ScopeUndone \/ UndoFails
    \/ Finish \/ Crash

Spec == Init /\ [][Next]_vars

-----------------------------------------------------------------------------
(* Properties *)

TypeOK ==
    /\ task \in Tasks
    /\ src \in [Keys -> Contents \cup {None}]
    /\ rec \in Records
    /\ hash \in [Versions -> Contents \cup {None}]
    /\ disk \subseteq Files
    /\ bad \subseteq Versions
    /\ stored \in 0..MaxVersions
    /\ pc \in {"idle", "task", "store", "delete", "undo"}
    /\ reported \in [Scopes -> {"complete", "failed"}]
    /\ left \subseteq Scopes
    /\ scope \in Scopes \cup {None}
    /\ todo \subseteq Keys
    /\ undo \in Seq([file : Files, existed : BOOLEAN])
    /\ before \in Records
    /\ committed \in BOOLEAN
    /\ outcome \in [Scopes -> {"none", "complete", "failed"}]
    /\ base = None \/ base \in [rec : Records, disk : SUBSET Files]
    /\ bounds \in Nat \X Nat \X Nat
    /\ absent \in [Keys -> Nat]

FilesOf(r) == (r.versions \X {"active"}) \cup (r.deleted \X {"deleted"})

\* Between runs the state document tracks exactly the version files that
\* exist, each under the path it records (docs/state-and-recovery.md:21),
\* whatever sections failed, in whichever step, and whatever crashed.
ArchiveMatchesState ==
    pc = "idle" => disk = UNION {FilesOf(rec[k]) : k \in Keys}

\* The state document and the archive agree between runs, over the domains of
\* all variables (_backup_one_file, _mark_deleted and the undo of a section).
BooksMatchArchive == TypeOK /\ ArchiveMatchesState

\* Nothing the state document tracks is lost, not even when an error strikes
\* while a section is undone: "Failure to undo is fatal: keep the durable run
\* journal for startup" (retention_planning.py:52).
TrackedVersionsExist ==
    pc = "idle" => \A k \in Keys : FilesOf(rec[k]) \subseteq disk

\* "Prior snapshot preserved": a section that was not collected, or that failed
\* while it was stored, ends the run with the records and the files it had,
\* whatever the other sections did (docs/collection-reliability.md:7).
FailedScopePreserved ==
    pc = "task" =>
        \A k \in Keys : outcome[task.scopeOf[k]] = "failed" =>
            rec[k] = base.rec[k] /\ FilesOf(rec[k]) \subseteq disk

\* A section counts as complete only when every source it has now is the
\* newest version of its key, in an archived file that verifies.
CompleteScopeStored ==
    pc = "task" =>
        \A k \in Present : outcome[task.scopeOf[k]] = "complete" =>
            /\ rec[k].active
            /\ UpToDate(k)
            /\ Verified(Latest(k))

\* A source is declared deleted only after deletion.missing_runs complete
\* scans in a row without it, the current one included; failed sections, undone
\* sections and crashed runs do not count.
DeletionConfirmed ==
    [][(pc = "task" /\ pc' = "idle") =>
          \A k \in Keys : (base.rec[k].active /\ ~rec'[k].active)
                             => absent'[k] >= Threshold]_vars

\* "max_items_per_run is an independent absolute guard"
\* (docs/configuration.md:128): no run of a task of one section declares more
\* sources deleted.  With a manifest the guard counts each section by itself.
DeletionsPerRunBounded ==
    [][(~task.certified /\ pc = "task" /\ pc' = "idle") =>
          Cardinality({k \in Keys : base.rec[k].active /\ ~rec'[k].active}) <= MaxItems]_vars

\* A source is taken for deleted only when confirmed, and no more of them in one
\* run than the guard allows (_process_missing).
DeletionsGuarded == DeletionConfirmed /\ DeletionsPerRunBounded
=============================================================================
