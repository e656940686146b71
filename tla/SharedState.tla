---------------------------- MODULE SharedState ----------------------------
(***************************************************************************)
(* Processes that share one archive root: the backup run, the verify or    *)
(* restore command and the task migration, each with its own moment of     *)
(* reading state.json, of taking the non-blocking run lock                 *)
(* (single_instance_lock) and of looking for an unreconciled transaction.  *)
(*                                                                         *)
(* The state document is reduced to the archived versions it tracks and    *)
(* the operations it records; the journal, whose atomicity is the subject  *)
(* of TransactionJournal, to the image it would restore.                   *)
(***************************************************************************)
EXTENDS Naturals, FiniteSets

CONSTANTS Procs,        \* processes that may run at the same time
          Tools,        \* subset of {"backup", "verify", "migrate"}
          Schedulers,   \* subset of {"serial", "any"}
          None,         \* no lock holder, no journal
          MaxOps,       \* bound: programs started
          MaxVersions,  \* bound: archive versions ever stored
          MaxCrashes    \* bound: processes killed

Versions == 1..MaxVersions
Ops      == 1..MaxOps
Doc      == [tracked : SUBSET Versions, recorded : SUBSET Ops]
Image    == [state : Doc, archive : SUBSET Versions]

ASSUME SharedStateAssumption ==
    /\ Tools \subseteq {"backup", "verify", "migrate"}
    /\ Schedulers \subseteq {"serial", "any"}
    /\ None \notin Procs \cup Image
    /\ {MaxOps, MaxVersions, MaxCrashes} \subseteq Nat

VARIABLES
  scheduler, \* "serial": starts no program while one runs; "any": at any time
  lock,     \* holder of configbackup.lock
  state,    \* state.json
  archive,  \* version files on disk
  journal,  \* what an undo restores, None without a pending journal
  pc,       \* process -> where it is
  tool,     \* process -> the program it runs
  op,       \* process -> the number of this start
  mem,      \* process -> the state document it holds
  started,  \* programs started so far
  stored,   \* versions stored so far
  crashes,  \* processes killed so far
  done,     \* operations that reported success
  alarm     \* a verification reported a missing version

files == <<state, archive, journal>>
vars  == <<scheduler, lock, files, pc, tool, op, mem, started, stored, crashes, done, alarm>>

Nothing == [tracked |-> {}, recorded |-> {}]

Init ==
    /\ scheduler \in Schedulers
    /\ lock = None
    /\ state = Nothing
    /\ archive = {}
    /\ journal = None
    /\ pc = [p \in Procs |-> "idle"]
    /\ tool = [p \in Procs |-> "backup"]
    /\ op = [p \in Procs |-> 0]
    /\ mem = [p \in Procs |-> Nothing]
    /\ started = 0
    /\ stored = 0
    /\ crashes = 0
    /\ done = {}
    /\ alarm = FALSE

Pending == journal # None

GoTo(p, there) == pc' = [pc EXCEPT ![p] = there]

\* The process ends; the operating system drops a lock it holds.
Leave(p) ==
    /\ GoTo(p, "idle")
    /\ mem' = [mem EXCEPT ![p] = Nothing]
    /\ lock' = IF lock = p THEN None ELSE lock

-----------------------------------------------------------------------------
(* Start-up *)

\* main() constructs the engine, which reads state.json, before anything else.
Launch(p, t) ==
    /\ pc[p] = "idle"
    /\ scheduler = "serial" => \A q \in Procs : pc[q] = "idle"
    /\ started < MaxOps
    /\ started' = started + 1
    /\ op' = [op EXCEPT ![p] = started + 1]
    /\ tool' = [tool EXCEPT ![p] = t]
    /\ mem' = [mem EXCEPT ![p] = state]
    /\ GoTo(p, IF t = "verify" THEN "precheck" ELSE "unlocked")
    /\ UNCHANGED <<lock, files, stored, crashes, done, alarm>>

\* --verify and --restore look for a pending transaction before the lock.
Precheck(p) ==
    /\ pc[p] = "precheck"
    /\ IF Pending THEN Leave(p) ELSE GoTo(p, "unlocked") /\ UNCHANGED <<mem, lock>>
    /\ UNCHANGED <<files, tool, op, started, stored, crashes, done, alarm>>

Lock(p) ==
    /\ pc[p] = "unlocked"
    /\ lock = None
    /\ lock' = p
    /\ GoTo(p, "locked")
    /\ UNCHANGED <<files, tool, op, mem, started, stored, crashes, done, alarm>>

\* LockError: another instance is running, exit code 3.
LockBusy(p) ==
    /\ pc[p] = "unlocked"
    /\ lock # None
    /\ Leave(p)
    /\ UNCHANGED <<files, tool, op, started, stored, crashes, done, alarm>>

-----------------------------------------------------------------------------
(* Under the lock *)

\* run() undoes what an interrupted run left, and reads state.json again only
\* if there was something to undo.
Reconcile(p) ==
    /\ pc[p] = "locked"
    /\ tool[p] = "backup"
    /\ IF Pending
       THEN /\ state' = journal.state
            /\ archive' = journal.archive
            /\ journal' = None
            /\ mem' = [mem EXCEPT ![p] = journal.state]
       ELSE UNCHANGED <<files, mem>>
    /\ GoTo(p, "clean")
    /\ UNCHANGED <<lock, tool, op, started, stored, crashes, done, alarm>>

\* Variant: verify trusts the check it made before it held the lock.
InspectOnce(p) ==
    /\ pc[p] = "locked"
    /\ tool[p] = "verify"
    /\ GoTo(p, "verifying")
    /\ UNCHANGED <<lock, files, tool, op, mem, started, stored, crashes, done, alarm>>

\* --verify and --restore look again under the lock, and go on with the state
\* they read before it.
Inspect(p) ==
    /\ pc[p] = "locked"
    /\ tool[p] = "verify"
    /\ IF Pending THEN Leave(p) ELSE GoTo(p, "verifying") /\ UNCHANGED <<mem, lock>>
    /\ UNCHANGED <<files, tool, op, started, stored, crashes, done, alarm>>

\* The migration reads state.json again and refuses a pending transaction.
PlanMigration(p) ==
    /\ pc[p] = "locked"
    /\ tool[p] = "migrate"
    /\ IF Pending
       THEN Leave(p)
       ELSE /\ GoTo(p, "clean")
            /\ mem' = [mem EXCEPT ![p] = state]
            /\ UNCHANGED lock
    /\ UNCHANGED <<files, tool, op, started, stored, crashes, done, alarm>>

\* Variant: the journal remembers state.json and nothing else.
BeginStateOnly(p) ==
    /\ pc[p] = "clean"
    /\ journal' = [state |-> state]
    /\ GoTo(p, "working")
    /\ UNCHANGED <<lock, state, archive, tool, op, mem, started, stored, crashes, done, alarm>>

\* Journal.begin() and the rows of state.json and state.json.bak.
Begin(p) ==
    /\ pc[p] = "clean"
    /\ journal' = [state |-> state, archive |-> archive]
    /\ GoTo(p, "working")
    /\ UNCHANGED <<lock, state, archive, tool, op, mem, started, stored, crashes, done, alarm>>

\* Variant: the version file is written but not entered in the state.
StoreVersionUntracked(p) ==
    /\ pc[p] = "working"
    /\ tool[p] = "backup"
    /\ stored < MaxVersions
    /\ stored' = stored + 1
    /\ archive' = archive \cup {stored + 1}
    /\ UNCHANGED <<lock, state, journal, pc, tool, op, mem, started, crashes, done, alarm>>

\* A changed source becomes a new version file under a name of its own.
StoreVersion(p) ==
    /\ pc[p] = "working"
    /\ tool[p] = "backup"
    /\ stored < MaxVersions
    /\ stored' = stored + 1
    /\ archive' = archive \cup {stored + 1}
    /\ mem' = [mem EXCEPT ![p].tracked = @ \cup {stored + 1}]
    /\ UNCHANGED <<lock, state, journal, pc, tool, op, started, crashes, done, alarm>>

\* Variant: retention removes the file but its record stays.
PruneVersionFileOnly(p, v) ==
    /\ pc[p] = "working"
    /\ tool[p] = "backup"
    /\ v \in mem[p].tracked
    /\ archive' = archive \ {v}
    /\ UNCHANGED <<lock, state, journal, pc, tool, op, mem, started, stored, crashes,
                   done, alarm>>

\* Retention removes a version this process tracks.
PruneVersion(p, v) ==
    /\ pc[p] = "working"
    /\ tool[p] = "backup"
    /\ v \in mem[p].tracked
    /\ archive' = archive \ {v}
    /\ mem' = [mem EXCEPT ![p].tracked = @ \ {v}]
    /\ UNCHANGED <<lock, state, journal, pc, tool, op, started, stored, crashes, done, alarm>>

\* state.save(): the whole document this process holds replaces the file.
SaveState(p) ==
    /\ pc[p] = "working"
    /\ state' = [mem[p] EXCEPT !.recorded = @ \cup {op[p]}]
    /\ GoTo(p, "saved")
    /\ UNCHANGED <<lock, archive, journal, tool, op, mem, started, stored, crashes, done, alarm>>

\* Variant: success is reported although the journal was not committed.
CommitUnclosed(p) ==
    /\ pc[p] = "saved"
    /\ done' = done \cup {op[p]}
    /\ Leave(p)
    /\ UNCHANGED <<files, tool, op, started, stored, crashes, alarm>>

\* Journal.commit() and the end of the program.
Commit(p) ==
    /\ pc[p] = "saved"
    /\ journal' = None
    /\ done' = done \cup {op[p]}
    /\ Leave(p)
    /\ UNCHANGED <<state, archive, tool, op, started, stored, crashes, alarm>>

\* recover(): every tracked version is looked up in the archive; the evidence
\* is saved with the whole state document, without a journal.
Verify(p) ==
    /\ pc[p] = "verifying"
    /\ alarm' = (alarm \/ ~(mem[p].tracked \subseteq archive))
    /\ state' = [mem[p] EXCEPT !.recorded = @ \cup {op[p]}]
    /\ done' = done \cup {op[p]}
    /\ Leave(p)
    /\ UNCHANGED <<archive, journal, tool, op, started, stored, crashes>>

Crash(p) ==
    /\ pc[p] # "idle"
    /\ crashes < MaxCrashes
    /\ crashes' = crashes + 1
    /\ Leave(p)
    /\ UNCHANGED <<files, tool, op, started, stored, done, alarm>>

Step(p) ==
    \/ \E t \in Tools : Launch(p, t)
    \/ Precheck(p) \/ Lock(p) \/ LockBusy(p)
    \/ Reconcile(p) \/ Inspect(p) \/ PlanMigration(p) \/ Begin(p)
    \/ StoreVersion(p)
    \/ \E v \in Versions : PruneVersion(p, v)
    \/ SaveState(p) \/ Commit(p) \/ Verify(p)
    \/ Crash(p)

Next == (\E p \in Procs : Step(p)) /\ UNCHANGED scheduler

Spec == Init /\ [][Next]_vars

-----------------------------------------------------------------------------
(* Properties *)

TypeOK ==
    /\ scheduler \in {"serial", "any"}
    /\ lock \in Procs \cup {None}
    /\ state \in Doc
    /\ archive \subseteq Versions
    /\ journal \in Image \cup {None}
    /\ pc \in [Procs -> {"idle", "precheck", "unlocked", "locked", "clean", "working",
                         "saved", "verifying"}]
    /\ tool \in [Procs -> {"backup", "verify", "migrate"}]
    /\ op \in [Procs -> Ops \cup {0}]
    /\ mem \in [Procs -> Doc]
    /\ started \in 0..MaxOps
    /\ stored \in 0..MaxVersions
    /\ crashes \in 0..MaxCrashes
    /\ done \subseteq Ops
    /\ alarm \in BOOLEAN

\* No program runs and there is nothing to reconcile.
Settled == lock = None /\ ~Pending

\* When programs do not overlap, state.json tracks between them exactly the
\* version files that exist (docs/state-and-recovery.md:21): nothing untracked
\* that retention and verification would never see, nothing tracked that is gone.
ArchiveTracked == scheduler = "serial" /\ Settled => archive = state.tracked

\* What a program recorded before it reported success stays recorded, whatever
\* programs run after it and whichever of them crash.
AcknowledgedKept == scheduler = "serial" => done \subseteq state.recorded

\* A verification looks at the archive only when no interrupted transaction is
\* waiting to be undone, even if one appears between its first check and the lock.
VerifySettled == \A p \in Procs : pc[p] = "verifying" => ~Pending

\* The books are sound: every variable keeps to its domain, the archive holds
\* nothing untracked between runs, nothing acknowledged is forgotten, and a
\* verification works on a settled archive (configbackup.py main, reconcile).
BooksSound == TypeOK /\ ArchiveTracked /\ AcknowledgedKept /\ VerifySettled

\* What a program started now, and alone, would work on: the state document and
\* the archive as they are, or as the undo of a pending transaction leaves them.
Found == IF Pending THEN journal ELSE [state |-> state, archive |-> archive]

\* Where programs may overlap nothing is promised of their order.
Promise == INSTANCE Ledger WITH
    books <- IF scheduler = "serial" THEN Found ELSE [state |-> Nothing, archive |-> {}],
    done  <- IF scheduler = "serial" THEN done ELSE {}

\* When programs do not overlap, each takes effect as one step of the ledger,
\* at the moment it reports success, or never: neither the stages of a run nor
\* a death between any two of them can be told from what later programs find
\* (_run_with_journal, reconcile, recover).
LedgerKept == Promise!Spec

\* When programs do not overlap, a verification never reports a version missing:
\* whatever is deleted is deleted by retention together with its record.
NoFalseAlarm == scheduler = "serial" => ~alarm

\* The single-instance lock ("a second line of defense", docs/scheduling.md:25)
\* keeps overlapping programs from losing what another one recorded.
OverlapKept == done \subseteq state.recorded
=============================================================================
