------------------------ MODULE TransactionJournal ------------------------
(***************************************************************************)
(* The durable undo journal of configbackup_lib/recovery/                  *)
(* transaction_journal.py, as the backup engine drives it while it holds   *)
(* the run lock.  One process at a time runs: it reconciles what an        *)
(* earlier process left, begins a transaction, remembers each file before  *)
(* the first change to it, and commits.  The process can die between any   *)
(* two file system steps, and each durable write can fail with or without  *)
(* having taken effect (an fsync error after the rename).                  *)
(*                                                                         *)
(* A row's "image" stands for its "backup", "sha256" and "mode" fields:    *)
(* None when the file did not exist.  Slot s stands for the pair           *)
(* before-<s> and entry-<s>.json.                                          *)
(***************************************************************************)
EXTENDS Naturals

CONSTANTS Paths,       \* files a transaction may change
          RepoPaths,   \* those inside the Git worktree
          Contents,    \* contents of a file
          None,        \* no file, no row, no manifest
          Torn,        \* an incomplete before-image
          MaxSlot,     \* bound: rows of one journal are numbered 0..MaxSlot
          MaxFaults,   \* bound: crashes and failed writes of a behaviour
          MaxCommits   \* bound: Git commits of a behaviour

Slots  == 0..MaxSlot
Images == Contents \cup {None}
Row    == [path : Paths, image : Images]

\* pending.json.  "repo" is whether the journal covers a Git worktree,
\* "archive" the scope marker of a prune-only transaction.
Manifest == [status : {"pending", "committed"}, count : Nat, repo : BOOLEAN,
             archive : BOOLEAN, head : Nat]

ASSUME ConstantsAssumption ==
    /\ RepoPaths \subseteq Paths
    /\ MaxSlot \in Nat
    /\ MaxFaults \in Nat
    /\ MaxCommits \in Nat
    /\ None \notin Contents
    /\ None \notin Paths
    /\ None \notin Manifest
    /\ None \notin Row
    /\ Torn \notin Images

\* Outcome of a durable write: done, failed without effect ("lost"), or
\* failed after the rename ("late").
Outcomes == {"ok", "lost", "late"}

VARIABLES
  file,      \* contents of every path
  head,      \* HEAD of the Git worktree
  gitOn,     \* the configuration uses Git storage
  manifest,  \* pending.json
  entry,     \* slot -> entry-<slot>.json
  before,    \* slot -> before-<slot>
  pc,        \* where the running process is, "off" when none runs
  next,      \* where it goes after the cleanup
  cur,       \* the path being remembered
  n,         \* rows held in memory, len(data['entries'])
  left,      \* rows an undo has still to restore
  known,     \* paths remembered, _paths
  poisoned,  \* a journal write failed
  faults     \* crashes and failed writes so far

world   == <<file, head, gitOn>>
disk    == <<manifest, entry, before>>
process == <<pc, next, cur, n, left, known, poisoned>>
vars    == <<world, disk, process, faults>>

Init ==
    /\ file \in [Paths -> Images]
    /\ head = 0
    /\ gitOn \in BOOLEAN
    /\ manifest = None
    /\ entry = [s \in Slots |-> None]
    /\ before = [s \in Slots |-> None]
    /\ pc = "off"
    /\ next = "off"
    /\ cur = None
    /\ n = 0
    /\ left = 0
    /\ known = {}
    /\ poisoned = FALSE
    /\ faults = 0

-----------------------------------------------------------------------------
(* Helpers *)

Open == manifest # None /\ manifest.status = "pending"

Charge(outcome) ==
    \/ outcome = "ok" /\ faults' = faults
    \/ outcome # "ok" /\ faults < MaxFaults /\ faults' = faults + 1

\* The process ends: what it held in memory is gone.
Exit ==
    /\ pc' = "off"
    /\ next' = "off"
    /\ cur' = None
    /\ n' = 0
    /\ left' = 0
    /\ known' = {}
    /\ poisoned' = FALSE

\* head(): None for a journal that covers no repository, written 0 here.
HeadOf(repo) == IF repo THEN head ELSE 0

\* for_engine(): an archive-scoped journal is opened without the repository
\* whatever the configuration says now; then read()'s repo must match.
OpenedWithRepo == gitOn /\ ~(manifest.archive /\ ~manifest.repo)
IdentityOK     == manifest.repo = OpenedWithRepo

\* Variant: read() takes only as many entries as the manifest anchors.
RowsExactCount(k) ==
    /\ k = manifest.count
    /\ \A s \in Slots : entry[s] # None <=> s < k

\* read(): the entries are numbered densely and at most one of them is newer
\* than the count the manifest anchors.
Rows(k) ==
    /\ k \in manifest.count..(manifest.count + 1)
    /\ \A s \in Slots : entry[s] # None <=> s < k

\* validate_pending(): no path twice, every before-image intact.
RowsValid ==
    \A s \in {t \in Slots : entry[t] # None} :
        /\ entry[s].image # None => before[s] = entry[s].image
        /\ \A t \in Slots :
              entry[t] # None /\ entry[t].path = entry[s].path => t = s

HeadUnchanged == HeadOf(manifest.repo) = manifest.head

\* Variant: an undo without the comparison of HEAD.
UndoableAnyHead(k) == Open /\ IdentityOK /\ Rows(k) /\ RowsValid

Undoable(k) == Open /\ IdentityOK /\ Rows(k) /\ RowsValid /\ HeadUnchanged

-----------------------------------------------------------------------------
(* Start of a process: recover() *)

StartClean ==
    /\ pc = "off"
    /\ manifest = None
    /\ pc' = "ready"
    /\ UNCHANGED <<world, disk, next, cur, n, left, known, poisoned, faults>>

\* Variant: a committed journal is recognised but not cleaned up.
StartCleanupSkipped ==
    /\ pc = "off"
    /\ manifest # None
    /\ manifest.status = "committed"
    /\ IdentityOK
    /\ pc' = "ready"
    /\ UNCHANGED <<world, disk, next, cur, n, left, known, poisoned, faults>>

StartCleanup ==
    /\ pc = "off"
    /\ manifest # None
    /\ manifest.status = "committed"
    /\ IdentityOK
    /\ pc' = "sweep"
    /\ next' = "ready"
    /\ UNCHANGED <<world, disk, cur, n, left, known, poisoned, faults>>

StartUndo ==
    /\ pc = "off"
    /\ \E k \in 0..(MaxSlot + 1) :
          /\ Undoable(k)
          /\ n' = k
          /\ left' = k
    /\ pc' = "undo"
    /\ UNCHANGED <<world, disk, next, cur, known, poisoned, faults>>

\* recover() raises: nothing on disk changes and the process ends.
StartRefused ==
    /\ pc = "off"
    /\ manifest # None
    /\ ~IdentityOK \/ (Open /\ \A k \in 0..(MaxSlot + 1) : ~Undoable(k))
    /\ UNCHANGED vars

\* One row, newest first: the file is put back through a sibling and a
\* rename, or removed when the transaction had created it.
UndoRow ==
    /\ pc = "undo"
    /\ left > 0
    /\ LET row == entry[left - 1]
           saved == IF row.image = None THEN None ELSE before[left - 1]
       IN  file' = [file EXCEPT ![row.path] = saved]
    /\ left' = left - 1
    /\ UNCHANGED <<head, gitOn, disk, pc, next, cur, n, known, poisoned, faults>>

\* After the Git index is reset the journal is marked committed.  A failed
\* save ends the process like any other error of recover().
MarkUndone ==
    /\ pc = "undo"
    /\ left = 0
    /\ \E outcome \in Outcomes :
          /\ Charge(outcome)
          /\ manifest' = IF outcome = "lost" THEN manifest
                         ELSE [manifest EXCEPT !.status = "committed", !.count = n]
          /\ IF outcome = "ok"
             THEN /\ pc' = "sweep"
                  /\ next' = "ready"
                  /\ UNCHANGED <<cur, n, left, known, poisoned>>
             ELSE Exit
    /\ UNCHANGED <<world, entry, before>>

-----------------------------------------------------------------------------
(* cleanup(): before-images and entries in any order, the manifest last *)

SweepSlot(s) ==
    /\ pc = "sweep"
    /\ \/ /\ before[s] # None
          /\ before' = [before EXCEPT ![s] = None]
          /\ UNCHANGED entry
       \/ /\ entry[s] # None
          /\ entry' = [entry EXCEPT ![s] = None]
          /\ UNCHANGED before
    /\ UNCHANGED <<world, manifest, process, faults>>

\* Variant: the manifest goes first.
SweepManifestFirst ==
    /\ pc = "sweep"
    /\ manifest' = None
    /\ pc' = next
    /\ next' = "off"
    /\ cur' = None
    /\ n' = 0
    /\ left' = 0
    /\ known' = {}
    /\ poisoned' = FALSE
    /\ UNCHANGED <<world, entry, before, faults>>

SweepManifest ==
    /\ pc = "sweep"
    /\ \A s \in Slots : before[s] = None /\ entry[s] = None
    /\ manifest' = None
    /\ pc' = next
    /\ next' = "off"
    /\ cur' = None
    /\ n' = 0
    /\ left' = 0
    /\ known' = {}
    /\ poisoned' = FALSE
    /\ UNCHANGED <<world, entry, before, faults>>

-----------------------------------------------------------------------------
(* A transaction *)

\* begin(): a prune-only run opens an archive-scoped journal.
Begin(pruneOnly) ==
    LET repo == gitOn /\ ~pruneOnly
    IN  /\ pc = "ready"
        /\ manifest = None
        /\ \A s \in Slots : before[s] = None /\ entry[s] = None
        /\ \E outcome \in Outcomes :
              /\ Charge(outcome)
              /\ manifest' = IF outcome = "lost" THEN None
                             ELSE [status |-> "pending", count |-> 0, repo |-> repo,
                                   archive |-> pruneOnly, head |-> HeadOf(repo)]
              /\ IF outcome = "ok"
                 THEN pc' = "run" /\ UNCHANGED <<next, cur, n, left, known, poisoned>>
                 ELSE Exit
        /\ UNCHANGED <<world, entry, before>>

\* remember(), first part: the before-image is created, still incomplete.
Remember(p) ==
    /\ pc = "run"
    /\ ~poisoned
    /\ p \notin known
    /\ p \in RepoPaths => manifest.repo
    /\ n \in Slots
    /\ cur' = p
    /\ IF file[p] = None
       THEN pc' = "entry" /\ UNCHANGED before
       ELSE pc' = "copy" /\ before' = [before EXCEPT ![n] = Torn]
    /\ UNCHANGED <<world, manifest, entry, next, n, left, known, poisoned, faults>>

\* Variant: the row is recorded before the copy of the file is complete.
CopyImageTorn ==
    /\ pc = "copy"
    /\ pc' = "entry"
    /\ UNCHANGED <<world, disk, next, cur, n, left, known, poisoned, faults>>

\* The copy is complete and synced, or it failed and is removed again.
CopyImage ==
    /\ pc = "copy"
    /\ \E outcome \in {"ok", "lost"} :
          /\ Charge(outcome)
          /\ IF outcome = "ok"
             THEN /\ before' = [before EXCEPT ![n] = file[cur]]
                  /\ pc' = "entry"
                  /\ UNCHANGED cur
             ELSE /\ before' = [before EXCEPT ![n] = None]
                  /\ pc' = "run"
                  /\ cur' = None
    /\ UNCHANGED <<world, manifest, entry, next, n, left, known, poisoned>>

\* The row joins the list in memory; save() writes it as entry-<n>.json.
SaveEntry ==
    /\ pc = "entry"
    /\ \E outcome \in Outcomes :
          /\ Charge(outcome)
          /\ entry' = IF outcome = "lost" THEN entry
                      ELSE [entry EXCEPT ![n] = [path |-> cur, image |-> before[n]]]
          /\ poisoned' = (outcome # "ok")
          /\ pc' = IF outcome = "ok" THEN "count" ELSE "run"
          /\ cur' = IF outcome = "ok" THEN cur ELSE None
    /\ n' = n + 1
    /\ UNCHANGED <<world, manifest, before, next, left, known>>

\* save() anchors the new count in the manifest; only then is the path one
\* that may be changed.
SaveCount ==
    /\ pc = "count"
    /\ \E outcome \in Outcomes :
          /\ Charge(outcome)
          /\ manifest' = IF outcome = "lost" THEN manifest
                         ELSE [manifest EXCEPT !.count = n]
          /\ poisoned' = (outcome # "ok")
          /\ known' = IF outcome = "ok" THEN known \cup {cur} ELSE known
    /\ pc' = "run"
    /\ cur' = None
    /\ UNCHANGED <<world, entry, before, next, n, left>>

\* Variant: a file is changed while its row is still being written.
MutateEarly(p, c) ==
    /\ pc \in {"run", "copy", "entry", "count"}
    /\ p \in known \cup {cur}
    /\ file' = [file EXCEPT ![p] = c]
    /\ UNCHANGED <<head, gitOn, disk, process, faults>>

\* The engine creates, replaces or removes a file it has remembered.
Mutate(p, c) ==
    /\ pc = "run"
    /\ p \in known
    /\ file' = [file EXCEPT ![p] = c]
    /\ UNCHANGED <<head, gitOn, disk, process, faults>>

\* The engine commits to the worktree the journal covers.
GitCommit ==
    /\ pc = "run"
    /\ manifest.repo
    /\ head < MaxCommits
    /\ head' = head + 1
    /\ UNCHANGED <<file, gitOn, disk, process, faults>>

\* commit(): the final bytes are synced (an error there ends the process as
\* Die does), then the committed marker is saved.
Commit ==
    /\ pc = "run"
    /\ ~poisoned
    /\ \E outcome \in Outcomes :
          /\ Charge(outcome)
          /\ manifest' = IF outcome = "lost" THEN manifest
                         ELSE [manifest EXCEPT !.status = "committed", !.count = n]
          /\ IF outcome = "ok"
             THEN pc' = "sweep" /\ UNCHANGED <<next, cur, n, left, known, poisoned>>
             ELSE Exit
    /\ UNCHANGED <<world, entry, before>>

\* commit() of a poisoned journal raises and keeps the pending journal.
CommitRefused ==
    /\ pc = "run"
    /\ poisoned
    /\ Exit
    /\ UNCHANGED <<world, disk, faults>>

-----------------------------------------------------------------------------
(* The environment *)

\* The process is killed, or an error it does not handle ends it.
Die ==
    /\ pc # "off"
    /\ faults < MaxFaults
    /\ faults' = faults + 1
    /\ Exit
    /\ UNCHANGED <<world, disk>>

\* Between runs the operator enables or disables Git storage.
ToggleGit ==
    /\ pc = "off"
    /\ gitOn' = ~gitOn
    /\ UNCHANGED <<file, head, disk, process, faults>>

Recover == StartClean \/ StartCleanup \/ StartUndo \/ UndoRow \/ MarkUndone
Cleanup == (\E s \in Slots : SweepSlot(s)) \/ SweepManifest
Work ==
    \/ \E pruneOnly \in BOOLEAN : Begin(pruneOnly)
    \/ \E p \in Paths : Remember(p)
    \/ CopyImage \/ SaveEntry \/ SaveCount
    \/ \E p \in Paths, c \in Images : Mutate(p, c)
    \/ GitCommit
    \/ Commit \/ CommitRefused
Environment == Die \/ ToggleGit

Next == Recover \/ StartRefused \/ Cleanup \/ Work \/ Environment

Spec == Init /\ [][Next]_vars

(***************************************************************************)
(* The scheduler starts the program again and again, and a started program *)
(* that is not killed goes on: it finishes an undo, a cleanup and a        *)
(* journal write, and a run ends (commit() is its last storage step).      *)
(***************************************************************************)
Fairness ==
    /\ WF_vars(Recover)
    /\ WF_vars(Cleanup)
    /\ WF_vars(\E pruneOnly \in BOOLEAN : Begin(pruneOnly))
    /\ WF_vars(CopyImage \/ SaveEntry \/ SaveCount)
    /\ WF_vars(Commit \/ CommitRefused)

FairSpec == Spec /\ Fairness

-----------------------------------------------------------------------------
(* Properties *)

TypeOK ==
    /\ file \in [Paths -> Images]
    /\ head \in Nat
    /\ gitOn \in BOOLEAN
    /\ manifest \in Manifest \cup {None}
    /\ entry \in [Slots -> Row \cup {None}]
    /\ before \in [Slots -> Contents \cup {Torn, None}]
    /\ pc \in {"off", "ready", "undo", "sweep", "run", "copy", "entry", "count"}
    /\ next \in {"off", "ready"}
    /\ cur \in Paths \cup {None}
    /\ n \in Nat
    /\ left \in Nat
    /\ known \subseteq Paths
    /\ poisoned \in BOOLEAN
    /\ faults \in 0..MaxFaults

\* Without a manifest the journal directory holds no before-image and no
\* entry: begin() never finds the orphan files it refuses to start over
\* (transaction_journal.py:125), whatever crash or failed write came before.
NoOrphanFiles ==
    manifest = None => \A s \in Slots : before[s] = None /\ entry[s] = None

\* A start that finds an interrupted transaction of the same storage and the
\* same HEAD can undo it: read() and validate_pending() do not refuse the
\* journal because of a crash or of a failed write.
RestartCanUndo ==
    pc = "off" /\ Open /\ IdentityOK /\ HeadUnchanged
        => \E k \in 0..(MaxSlot + 1) : Undoable(k)

\* While an interrupted transaction's HEAD has moved on, no start changes a
\* file, a before-image or an entry: all three are kept for the reconciliation.
ChangedHeadPreserved ==
    [][(pc \in {"off", "undo"} /\ Open /\ ~HeadUnchanged)
          => UNCHANGED <<file, disk>>]_vars

\* The row that restores path p, if the journal on disk has one.
RowsFor(p) == {s \in Slots : entry[s] # None /\ entry[s].path = p}

\* What a later start finds in each file once it has reconciled the journal.
Reconciled ==
    [p \in Paths |->
        IF Open /\ RowsFor(p) # {}
        THEN entry[CHOOSE s \in RowsFor(p) : TRUE].image
        ELSE file[p]]

\* The files of a transaction are replaced as one unit: what a later start
\* finds changes only when the committed marker becomes durable, and then to
\* exactly what is on disk; an undone transaction leaves every file as it was.
Atomic == INSTANCE AtomicStore WITH Values <- Images, store <- Reconciled,
                                    work <- file, open <- Open
AtomicUpdate == Atomic!Spec

\* Every journal is eventually closed, however often the process died, unless
\* it waits for the operator: the storage it was opened with is no longer the
\* configured one, or HEAD has moved.
JournalCloses ==
    []<>(manifest = None \/ ~IdentityOK \/ ~HeadUnchanged)
=============================================================================
