------------------------- MODULE SharedStateProofs -------------------------
(***************************************************************************)
(* Theorems about SharedState, for any number of processes, starts,        *)
(* versions and crashes: between programs the archive holds exactly what   *)
(* state.json tracks, a verification sees a settled archive and raises no  *)
(* false alarm, and nothing acknowledged is forgotten, as long as the      *)
(* scheduler starts one program at a time; each program is then one step   *)
(* of Ledger or none.                                                      *)
(***************************************************************************)
EXTENDS SharedState, TLAPS

-----------------------------------------------------------------------------
(* The inductive invariant *)

UnderLock == {"locked", "clean", "working", "saved", "verifying"}

\* The lock belongs to the one process that is past Lock.
LockInv ==
    \A p \in Procs :
        /\ pc[p] \in UnderLock <=> lock = p
        /\ pc[p] # "idle" => op[p] \in Ops

\* A transaction is open exactly while a process works in one, or died in one.
JournalInv ==
    \A p \in Procs :
        /\ pc[p] \in {"clean", "verifying"} => ~Pending
        /\ pc[p] \in {"working", "saved"} => Pending

\* The scheduler waits for a program to end.
AloneInv ==
    scheduler = "serial" =>
        \A p, q \in Procs : pc[p] # "idle" /\ pc[q] # "idle" => p = q

\* The books a restart would find are right, and so are those now on disk
\* unless a transaction is open.
DiskInv ==
    scheduler = "serial" =>
        /\ ~Pending => archive = state.tracked
        /\ Pending => /\ journal.archive = journal.state.tracked
                      /\ done \subseteq journal.state.recorded
        /\ done \subseteq state.recorded
        /\ ~alarm

\* A process holds what state.json says until it starts to work, and what the
\* archive holds while it works.
MemoryInv ==
    scheduler = "serial" =>
        \A p \in Procs :
            /\ pc[p] \in {"precheck", "unlocked", "locked", "clean", "verifying"} =>
                   mem[p] = state
            /\ pc[p] = "working" => /\ archive = mem[p].tracked
                                    /\ done \subseteq mem[p].recorded
            /\ pc[p] = "saved" => /\ archive = state.tracked
                                  /\ op[p] \in state.recorded

IInv == TypeOK /\ LockInv /\ JournalInv /\ AloneInv /\ DiskInv /\ MemoryInv

-----------------------------------------------------------------------------
(* One lemma for each action *)

LEMMA InitIInv == Init => IInv
<1> SUFFICES ASSUME Init PROVE IInv
  OBVIOUS
<1> USE SharedStateAssumption
<1>1. TypeOK
  <2>1. Nothing \in Doc
    BY DEF Nothing, Doc
  <2>2. scheduler \in {"serial", "any"}
    BY DEF Init
  <2>3. 0 \in 0..MaxOps /\ 0 \in 0..MaxVersions /\ 0 \in 0..MaxCrashes
    OBVIOUS
  <2>4. mem \in [Procs -> Doc] /\ op \in [Procs -> Ops \cup {0}]
    BY <2>1 DEF Init
  <2> QED
    BY <2>1, <2>2, <2>3, <2>4 DEF Init, TypeOK
<1>2. LockInv /\ JournalInv /\ AloneInv /\ DiskInv /\ MemoryInv
  BY DEF Init, LockInv, JournalInv, AloneInv, DiskInv, MemoryInv, UnderLock, Nothing, Pending
<1> QED
  BY <1>1, <1>2 DEF IInv

LEMMA LaunchIInv ==
    ASSUME IInv, NEW p \in Procs, NEW t \in Tools, Launch(p, t), UNCHANGED scheduler
    PROVE  IInv'
<1> USE SharedStateAssumption DEF IInv, TypeOK
<1>1. TypeOK'
  BY DEF Launch, GoTo, files, Doc, Ops, Versions, LockInv, Pending, Image, Nothing
<1>2. LockInv'
  BY DEF LockInv, UnderLock, Launch, GoTo, files, Ops
<1>3. JournalInv'
  BY DEF LockInv, UnderLock, JournalInv, Pending, Launch, GoTo, files
<1>4. AloneInv'
  BY DEF AloneInv, Launch, GoTo, files
<1>5. DiskInv'
  BY DEF DiskInv, MemoryInv, JournalInv, Pending, Launch, GoTo, files, Doc
<1>6. MemoryInv'
  BY DEF DiskInv, MemoryInv, AloneInv, JournalInv, Pending, Launch, GoTo, files, Doc
<1> QED
  BY <1>1, <1>2, <1>3, <1>4, <1>5, <1>6

LEMMA PrecheckIInv ==
    ASSUME IInv, NEW p \in Procs, Precheck(p), UNCHANGED scheduler
    PROVE  IInv'
<1> USE SharedStateAssumption DEF IInv, TypeOK
<1>1. TypeOK'
  BY DEF Precheck, Leave, GoTo, files, Doc, Ops, Versions, LockInv, Pending, Image, Nothing
<1>2. LockInv'
  BY DEF LockInv, UnderLock, Precheck, Leave, GoTo, files, Ops
<1>3. JournalInv'
  BY DEF LockInv, UnderLock, JournalInv, Pending, Precheck, Leave, GoTo, files
<1>4. AloneInv'
  BY DEF AloneInv, Precheck, Leave, GoTo, files
<1>5. DiskInv'
  BY DEF DiskInv, MemoryInv, JournalInv, Pending, Precheck, Leave, GoTo, files, Doc
<1>6. MemoryInv'
  BY DEF DiskInv, MemoryInv, AloneInv, JournalInv, Pending, Precheck, Leave, GoTo, files, Doc
<1> QED
  BY <1>1, <1>2, <1>3, <1>4, <1>5, <1>6

LEMMA LockIInv ==
    ASSUME IInv, NEW p \in Procs, Lock(p), UNCHANGED scheduler
    PROVE  IInv'
<1> USE SharedStateAssumption DEF IInv, TypeOK
<1>1. TypeOK'
  BY DEF Lock, GoTo, files, Doc, Ops, Versions, LockInv, Pending, Image, Nothing
<1>2. LockInv'
  BY DEF LockInv, UnderLock, Lock, GoTo, files, Ops
<1>3. JournalInv'
  BY DEF LockInv, UnderLock, JournalInv, Pending, Lock, GoTo, files
<1>4. AloneInv'
  BY DEF AloneInv, Lock, GoTo, files
<1>5. DiskInv'
  BY DEF DiskInv, MemoryInv, JournalInv, Pending, Lock, GoTo, files, Doc
<1>6. MemoryInv'
  BY DEF DiskInv, MemoryInv, AloneInv, JournalInv, Pending, Lock, GoTo, files, Doc
<1> QED
  BY <1>1, <1>2, <1>3, <1>4, <1>5, <1>6

LEMMA LockBusyIInv ==
    ASSUME IInv, NEW p \in Procs, LockBusy(p), UNCHANGED scheduler
    PROVE  IInv'
<1> USE SharedStateAssumption DEF IInv, TypeOK
<1>1. TypeOK'
  BY DEF LockBusy, Leave, GoTo, files, Doc, Ops, Versions, LockInv, Pending, Image, Nothing
<1>2. LockInv'
  BY DEF LockInv, UnderLock, LockBusy, Leave, GoTo, files, Ops
<1>3. JournalInv'
  BY DEF LockInv, UnderLock, JournalInv, Pending, LockBusy, Leave, GoTo, files
<1>4. AloneInv'
  BY DEF AloneInv, LockBusy, Leave, GoTo, files
<1>5. DiskInv'
  BY DEF DiskInv, MemoryInv, JournalInv, Pending, LockBusy, Leave, GoTo, files, Doc
<1>6. MemoryInv'
  BY DEF DiskInv, MemoryInv, AloneInv, JournalInv, Pending, LockBusy, Leave, GoTo, files, Doc
<1> QED
  BY <1>1, <1>2, <1>3, <1>4, <1>5, <1>6

LEMMA ReconcileIInv ==
    ASSUME IInv, NEW p \in Procs, Reconcile(p), UNCHANGED scheduler
    PROVE  IInv'
<1> USE SharedStateAssumption DEF IInv, TypeOK
<1>1. TypeOK'
  BY DEF Reconcile, GoTo, files, Doc, Ops, Versions, LockInv, Pending, Image, Nothing
<1>2. LockInv'
  BY DEF LockInv, UnderLock, Reconcile, GoTo, files, Ops
<1>3. JournalInv'
  BY DEF LockInv, UnderLock, JournalInv, Pending, Reconcile, GoTo, files
<1>4. AloneInv'
  BY DEF AloneInv, Reconcile, GoTo, files
<1>5. DiskInv'
  BY DEF DiskInv, MemoryInv, JournalInv, Pending, Reconcile, GoTo, files, Doc, Image
<1>6. MemoryInv'
  BY DEF DiskInv, MemoryInv, AloneInv, JournalInv, Pending, Reconcile, GoTo, files, Doc, Image
<1> QED
  BY <1>1, <1>2, <1>3, <1>4, <1>5, <1>6

LEMMA InspectIInv ==
    ASSUME IInv, NEW p \in Procs, Inspect(p), UNCHANGED scheduler
    PROVE  IInv'
<1> USE SharedStateAssumption DEF IInv, TypeOK
<1>1. TypeOK'
  BY DEF Inspect, Leave, GoTo, files, Doc, Ops, Versions, LockInv, Pending, Image, Nothing
<1>2. LockInv'
  BY DEF LockInv, UnderLock, Inspect, Leave, GoTo, files, Ops
<1>3. JournalInv'
  BY DEF LockInv, UnderLock, JournalInv, Pending, Inspect, Leave, GoTo, files
<1>4. AloneInv'
  BY DEF AloneInv, Inspect, Leave, GoTo, files
<1>5. DiskInv'
  BY DEF DiskInv, MemoryInv, JournalInv, Pending, Inspect, Leave, GoTo, files, Doc
<1>6. MemoryInv'
  BY DEF DiskInv, MemoryInv, AloneInv, JournalInv, Pending, Inspect, Leave, GoTo, files, Doc
<1> QED
  BY <1>1, <1>2, <1>3, <1>4, <1>5, <1>6

LEMMA PlanMigrationIInv ==
    ASSUME IInv, NEW p \in Procs, PlanMigration(p), UNCHANGED scheduler
    PROVE  IInv'
<1> USE SharedStateAssumption DEF IInv, TypeOK
<1>1. TypeOK'
  <2>1. Nothing \in Doc
    BY DEF Nothing, Doc
  <2>2. mem' \in [Procs -> Doc] /\ lock' \in Procs \cup {None}
    BY <2>1 DEF PlanMigration, Leave
  <2> QED
    BY <2>2 DEF PlanMigration, Leave, GoTo, files
<1>2. LockInv'
  BY DEF LockInv, UnderLock, PlanMigration, Leave, GoTo, files, Ops
<1>3. JournalInv'
  BY DEF LockInv, UnderLock, JournalInv, Pending, PlanMigration, Leave, GoTo, files
<1>4. AloneInv'
  BY DEF AloneInv, PlanMigration, Leave, GoTo, files
<1>5. DiskInv'
  BY DEF DiskInv, MemoryInv, JournalInv, Pending, PlanMigration, Leave, GoTo, files, Doc
<1>6. MemoryInv'
  BY DEF DiskInv, MemoryInv, AloneInv, JournalInv, Pending, PlanMigration, Leave, GoTo, files, Doc
<1> QED
  BY <1>1, <1>2, <1>3, <1>4, <1>5, <1>6

LEMMA BeginIInv ==
    ASSUME IInv, NEW p \in Procs, Begin(p), UNCHANGED scheduler
    PROVE  IInv'
<1> USE SharedStateAssumption DEF IInv, TypeOK
<1>1. TypeOK'
  BY DEF Begin, GoTo, files, Doc, Ops, Versions, LockInv, Pending, Image, Nothing
<1>2. LockInv'
  BY DEF LockInv, UnderLock, Begin, GoTo, files, Ops
<1>3. JournalInv'
  BY DEF LockInv, UnderLock, JournalInv, Pending, Begin, GoTo, files, Image
<1>4. AloneInv'
  BY DEF AloneInv, Begin, GoTo, files
<1>5. DiskInv'
  BY DEF DiskInv, MemoryInv, JournalInv, Pending, Begin, GoTo, files, Doc
<1>6. MemoryInv'
  BY DEF DiskInv, MemoryInv, AloneInv, JournalInv, Pending, Begin, GoTo, files, Doc
<1> QED
  BY <1>1, <1>2, <1>3, <1>4, <1>5, <1>6

LEMMA StoreVersionIInv ==
    ASSUME IInv, NEW p \in Procs, StoreVersion(p), UNCHANGED scheduler
    PROVE  IInv'
<1> USE SharedStateAssumption DEF IInv, TypeOK
<1>1. TypeOK'
  BY DEF StoreVersion, GoTo, files, Doc, Ops, Versions, LockInv, Pending, Image, Nothing
<1>2. LockInv'
  BY DEF LockInv, UnderLock, StoreVersion, GoTo, files, Ops
<1>3. JournalInv'
  BY DEF LockInv, UnderLock, JournalInv, Pending, StoreVersion, GoTo, files
<1>4. AloneInv'
  BY DEF AloneInv, StoreVersion, GoTo, files
<1>5. DiskInv'
  BY DEF DiskInv, MemoryInv, JournalInv, Pending, StoreVersion, GoTo, files, Doc
<1>6. MemoryInv'
  BY DEF DiskInv, MemoryInv, AloneInv, JournalInv, Pending, StoreVersion, GoTo, files, Doc
<1> QED
  BY <1>1, <1>2, <1>3, <1>4, <1>5, <1>6

LEMMA PruneVersionIInv ==
    ASSUME IInv, NEW p \in Procs, NEW v \in Versions, PruneVersion(p, v), UNCHANGED scheduler
    PROVE  IInv'
<1> USE SharedStateAssumption DEF IInv, TypeOK
<1>1. TypeOK'
  BY DEF PruneVersion, GoTo, files, Doc, Ops, Versions, LockInv, Pending, Image, Nothing
<1>2. LockInv'
  BY DEF LockInv, UnderLock, PruneVersion, GoTo, files, Ops
<1>3. JournalInv'
  BY DEF LockInv, UnderLock, JournalInv, Pending, PruneVersion, GoTo, files
<1>4. AloneInv'
  BY DEF AloneInv, PruneVersion, GoTo, files
<1>5. DiskInv'
  BY DEF DiskInv, MemoryInv, JournalInv, Pending, PruneVersion, GoTo, files, Doc
<1>6. MemoryInv'
  BY DEF DiskInv, MemoryInv, AloneInv, JournalInv, Pending, PruneVersion, GoTo, files, Doc
<1> QED
  BY <1>1, <1>2, <1>3, <1>4, <1>5, <1>6

LEMMA SaveStateIInv ==
    ASSUME IInv, NEW p \in Procs, SaveState(p), UNCHANGED scheduler
    PROVE  IInv'
<1> USE SharedStateAssumption DEF IInv, TypeOK
<1>1. TypeOK'
  BY DEF SaveState, GoTo, files, Doc, Ops, Versions, LockInv, Pending, Image, Nothing
<1>2. LockInv'
  BY DEF LockInv, UnderLock, SaveState, GoTo, files, Ops
<1>3. JournalInv'
  BY DEF LockInv, UnderLock, JournalInv, Pending, SaveState, GoTo, files
<1>4. AloneInv'
  BY DEF AloneInv, SaveState, GoTo, files
<1>5. DiskInv'
  BY DEF DiskInv, MemoryInv, JournalInv, Pending, SaveState, GoTo, files, Doc
<1>6. MemoryInv'
  BY DEF DiskInv, MemoryInv, AloneInv, JournalInv, Pending, SaveState, GoTo, files, Doc
<1> QED
  BY <1>1, <1>2, <1>3, <1>4, <1>5, <1>6

LEMMA CommitIInv ==
    ASSUME IInv, NEW p \in Procs, Commit(p), UNCHANGED scheduler
    PROVE  IInv'
<1> USE SharedStateAssumption DEF IInv, TypeOK
<1>1. TypeOK'
  BY DEF Commit, Leave, GoTo, files, Doc, Ops, Versions, LockInv, Pending, Image, Nothing
<1>2. LockInv'
  BY DEF LockInv, UnderLock, Commit, Leave, GoTo, files, Ops
<1>3. JournalInv'
  BY DEF LockInv, UnderLock, JournalInv, Pending, Commit, Leave, GoTo, files
<1>4. AloneInv'
  BY DEF AloneInv, Commit, Leave, GoTo, files
<1>5. DiskInv'
  BY DEF DiskInv, MemoryInv, JournalInv, Pending, Commit, Leave, GoTo, files, Doc
<1>6. MemoryInv'
  BY DEF DiskInv, MemoryInv, AloneInv, JournalInv, Pending, Commit, Leave, GoTo, files, Doc
<1> QED
  BY <1>1, <1>2, <1>3, <1>4, <1>5, <1>6

LEMMA VerifyIInv ==
    ASSUME IInv, NEW p \in Procs, Verify(p), UNCHANGED scheduler
    PROVE  IInv'
<1> USE SharedStateAssumption DEF IInv, TypeOK
<1>1. TypeOK'
  BY DEF Verify, Leave, GoTo, files, Doc, Ops, Versions, LockInv, Pending, Image, Nothing
<1>2. LockInv'
  BY DEF LockInv, UnderLock, Verify, Leave, GoTo, files, Ops
<1>3. JournalInv'
  BY DEF LockInv, UnderLock, JournalInv, Pending, Verify, Leave, GoTo, files
<1>4. AloneInv'
  BY DEF AloneInv, Verify, Leave, GoTo, files
<1>5. DiskInv'
  BY DEF DiskInv, MemoryInv, JournalInv, Pending, Verify, Leave, GoTo, files, Doc
<1>6. MemoryInv'
  BY DEF DiskInv, MemoryInv, AloneInv, JournalInv, Pending, Verify, Leave, GoTo, files, Doc
<1> QED
  BY <1>1, <1>2, <1>3, <1>4, <1>5, <1>6

LEMMA CrashIInv ==
    ASSUME IInv, NEW p \in Procs, Crash(p), UNCHANGED scheduler
    PROVE  IInv'
<1> USE SharedStateAssumption DEF IInv, TypeOK
<1>1. TypeOK'
  BY DEF Crash, Leave, GoTo, files, Doc, Ops, Versions, LockInv, Pending, Image, Nothing
<1>2. LockInv'
  BY DEF LockInv, UnderLock, Crash, Leave, GoTo, files, Ops
<1>3. JournalInv'
  BY DEF LockInv, UnderLock, JournalInv, Pending, Crash, Leave, GoTo, files
<1>4. AloneInv'
  BY DEF AloneInv, Crash, Leave, GoTo, files
<1>5. DiskInv'
  BY DEF DiskInv, MemoryInv, JournalInv, Pending, Crash, Leave, GoTo, files, Doc
<1>6. MemoryInv'
  BY DEF DiskInv, MemoryInv, AloneInv, JournalInv, Pending, Crash, Leave, GoTo, files, Doc
<1> QED
  BY <1>1, <1>2, <1>3, <1>4, <1>5, <1>6

\* Every step keeps the invariant.
LEMMA NextIInv == IInv /\ [Next]_vars => IInv'
<1> SUFFICES ASSUME IInv, [Next]_vars PROVE IInv'
  OBVIOUS
<1>1. CASE UNCHANGED vars
  BY <1>1 DEF vars, files, IInv, TypeOK, LockInv, JournalInv, AloneInv, DiskInv, MemoryInv, Pending
<1>2. CASE Next
  <2> PICK p \in Procs : Step(p) /\ UNCHANGED scheduler
    BY <1>2 DEF Next
  <2> QED
    BY LaunchIInv, PrecheckIInv, LockIInv, LockBusyIInv, ReconcileIInv, InspectIInv,
       PlanMigrationIInv, BeginIInv, StoreVersionIInv, PruneVersionIInv, SaveStateIInv,
       CommitIInv, VerifyIInv, CrashIInv DEF Step
<1> QED
  BY <1>1, <1>2

\* The inductive invariant holds in every reachable state.
THEOREM Invariance == Spec => []IInv
<1> QED
  BY InitIInv, NextIInv, PTL DEF Spec

-----------------------------------------------------------------------------

\* Every variable keeps to its domain; programs one at a time leave no file
\* without a record and no record without a file; and a verification, at any
\* time, looks at an archive with nothing left to undo (main, reconcile).
THEOREM BooksAreSound == Spec => []BooksSound
<1>1. IInv => BooksSound
  BY DEF IInv, BooksSound, ArchiveTracked, AcknowledgedKept, Settled, VerifySettled,
         DiskInv, JournalInv
<1> QED
  BY <1>1, Invariance, PTL

\* What a program has reported as done stays in state.json, whatever runs and
\* crashes after it, if programs do not overlap (main, state.save).
THEOREM NothingForgotten == Spec => []AcknowledgedKept
<1>1. IInv => AcknowledgedKept
  BY DEF IInv, AcknowledgedKept, DiskInv
<1> QED
  BY <1>1, Invariance, PTL

\* A verification between programs never misses a version (recover).
THEOREM AlarmsAreTrue == Spec => []NoFalseAlarm
<1>1. IInv => NoFalseAlarm
  BY DEF IInv, NoFalseAlarm, DiskInv
<1> QED
  BY <1>1, Invariance, PTL

-----------------------------------------------------------------------------
(* Programs one at a time implement Ledger *)

\* The one program that runs is the last that was started, and what the next
\* one will find records those that succeeded and nobody else; once this one
\* has saved its document, it stands in it too, but only on disk.
TurnInv ==
    scheduler = "serial" =>
        /\ done \subseteq 1..started
        /\ Found.state.recorded = done
        /\ \A p \in Procs :
            /\ pc[p] # "idle" => op[p] = started /\ op[p] \notin done
            /\ pc[p] = "working" => mem[p].recorded = done
            /\ pc[p] = "saved" => state.recorded = done \cup {op[p]}

\* The books of the ledger: two documents that agree are the same if they
\* track and record the same.
LEMMA FoundAgrees ==
    IInv /\ TurnInv /\ scheduler = "serial" =>
        /\ Found.archive \in SUBSET Versions
        /\ Found = Promise!Agreed(Found.archive, done)
<1> SUFFICES ASSUME IInv, TurnInv, scheduler = "serial"
             PROVE  /\ Found.archive \in SUBSET Versions
                    /\ Found = Promise!Agreed(Found.archive, done)
  OBVIOUS
<1>1. Found \in Image
  BY DEF IInv, TypeOK, Found, Pending, Image
<1>2. Found.archive = Found.state.tracked
  BY DEF IInv, DiskInv, Found
<1> QED
  BY <1>1, <1>2 DEF Promise!Agreed, TurnInv, Image, Doc

LEMMA InitTurn == Init => TurnInv
<1> QED
  BY DEF Init, TurnInv, Found, Pending, Nothing

LEMMA LaunchTurn ==
    ASSUME IInv, TurnInv, NEW p \in Procs, NEW t \in Tools, Launch(p, t), UNCHANGED scheduler
    PROVE  TurnInv'
<1> USE SharedStateAssumption DEF IInv, TypeOK
<1> SUFFICES ASSUME scheduler = "serial" PROVE TurnInv'
  BY DEF TurnInv
<1> QED
  BY DEF TurnInv, LockInv, JournalInv, AloneInv, DiskInv, MemoryInv, UnderLock, Found,
         Pending, Doc, Image, Ops, files, Launch, GoTo

LEMMA PrecheckTurn ==
    ASSUME IInv, TurnInv, NEW p \in Procs, Precheck(p), UNCHANGED scheduler
    PROVE  TurnInv'
<1> USE SharedStateAssumption DEF IInv, TypeOK
<1> SUFFICES ASSUME scheduler = "serial" PROVE TurnInv'
  BY DEF TurnInv
<1> QED
  BY DEF TurnInv, LockInv, JournalInv, AloneInv, DiskInv, MemoryInv, UnderLock, Found,
         Pending, Doc, Image, Ops, files, Precheck, Leave, GoTo

LEMMA LockTurn ==
    ASSUME IInv, TurnInv, NEW p \in Procs, Lock(p), UNCHANGED scheduler
    PROVE  TurnInv'
<1> USE SharedStateAssumption DEF IInv, TypeOK
<1> SUFFICES ASSUME scheduler = "serial" PROVE TurnInv'
  BY DEF TurnInv
<1> QED
  BY DEF TurnInv, LockInv, JournalInv, AloneInv, DiskInv, MemoryInv, UnderLock, Found,
         Pending, Doc, Image, Ops, files, Lock, GoTo

LEMMA LockBusyTurn ==
    ASSUME IInv, TurnInv, NEW p \in Procs, LockBusy(p), UNCHANGED scheduler
    PROVE  TurnInv'
<1> USE SharedStateAssumption DEF IInv, TypeOK
<1> SUFFICES ASSUME scheduler = "serial" PROVE TurnInv'
  BY DEF TurnInv
<1> QED
  BY DEF TurnInv, LockInv, JournalInv, AloneInv, DiskInv, MemoryInv, UnderLock, Found,
         Pending, Doc, Image, Ops, files, LockBusy, Leave, GoTo

LEMMA ReconcileTurn ==
    ASSUME IInv, TurnInv, NEW p \in Procs, Reconcile(p), UNCHANGED scheduler
    PROVE  TurnInv'
<1> USE SharedStateAssumption DEF IInv, TypeOK
<1> SUFFICES ASSUME scheduler = "serial" PROVE TurnInv'
  BY DEF TurnInv
<1> QED
  BY DEF TurnInv, LockInv, JournalInv, AloneInv, DiskInv, MemoryInv, UnderLock, Found,
         Pending, Doc, Image, Ops, files, Reconcile, GoTo

LEMMA InspectTurn ==
    ASSUME IInv, TurnInv, NEW p \in Procs, Inspect(p), UNCHANGED scheduler
    PROVE  TurnInv'
<1> USE SharedStateAssumption DEF IInv, TypeOK
<1> SUFFICES ASSUME scheduler = "serial" PROVE TurnInv'
  BY DEF TurnInv
<1> QED
  BY DEF TurnInv, LockInv, JournalInv, AloneInv, DiskInv, MemoryInv, UnderLock, Found,
         Pending, Doc, Image, Ops, files, Inspect, Leave, GoTo

LEMMA PlanMigrationTurn ==
    ASSUME IInv, TurnInv, NEW p \in Procs, PlanMigration(p), UNCHANGED scheduler
    PROVE  TurnInv'
<1> USE SharedStateAssumption DEF IInv, TypeOK
<1> SUFFICES ASSUME scheduler = "serial" PROVE TurnInv'
  BY DEF TurnInv
<1> QED
  BY DEF TurnInv, LockInv, JournalInv, AloneInv, DiskInv, MemoryInv, UnderLock, Found,
         Pending, Doc, Image, Ops, files, PlanMigration, Leave, GoTo

LEMMA BeginTurn ==
    ASSUME IInv, TurnInv, NEW p \in Procs, Begin(p), UNCHANGED scheduler
    PROVE  TurnInv'
<1> USE SharedStateAssumption DEF IInv, TypeOK
<1> SUFFICES ASSUME scheduler = "serial" PROVE TurnInv'
  BY DEF TurnInv
<1> QED
  BY DEF TurnInv, LockInv, JournalInv, AloneInv, DiskInv, MemoryInv, UnderLock, Found,
         Pending, Doc, Image, Ops, files, Begin, GoTo

LEMMA StoreVersionTurn ==
    ASSUME IInv, TurnInv, NEW p \in Procs, StoreVersion(p), UNCHANGED scheduler
    PROVE  TurnInv'
<1> USE SharedStateAssumption DEF IInv, TypeOK
<1> SUFFICES ASSUME scheduler = "serial" PROVE TurnInv'
  BY DEF TurnInv
<1> QED
  BY DEF TurnInv, LockInv, JournalInv, AloneInv, DiskInv, MemoryInv, UnderLock, Found,
         Pending, Doc, Image, Ops, files, StoreVersion

LEMMA PruneVersionTurn ==
    ASSUME IInv, TurnInv, NEW p \in Procs, NEW v \in Versions, PruneVersion(p, v), UNCHANGED scheduler
    PROVE  TurnInv'
<1> USE SharedStateAssumption DEF IInv, TypeOK
<1> SUFFICES ASSUME scheduler = "serial" PROVE TurnInv'
  BY DEF TurnInv
<1> QED
  BY DEF TurnInv, LockInv, JournalInv, AloneInv, DiskInv, MemoryInv, UnderLock, Found,
         Pending, Doc, Image, Ops, files, PruneVersion

LEMMA SaveStateTurn ==
    ASSUME IInv, TurnInv, NEW p \in Procs, SaveState(p), UNCHANGED scheduler
    PROVE  TurnInv'
<1> USE SharedStateAssumption DEF IInv, TypeOK
<1> SUFFICES ASSUME scheduler = "serial" PROVE TurnInv'
  BY DEF TurnInv
<1> QED
  BY DEF TurnInv, LockInv, JournalInv, AloneInv, DiskInv, MemoryInv, UnderLock, Found,
         Pending, Doc, Image, Ops, files, SaveState, GoTo

LEMMA CommitTurn ==
    ASSUME IInv, TurnInv, NEW p \in Procs, Commit(p), UNCHANGED scheduler
    PROVE  TurnInv'
<1> USE SharedStateAssumption DEF IInv, TypeOK
<1> SUFFICES ASSUME scheduler = "serial" PROVE TurnInv'
  BY DEF TurnInv
<1> QED
  BY DEF TurnInv, LockInv, JournalInv, AloneInv, DiskInv, MemoryInv, UnderLock, Found,
         Pending, Doc, Image, Ops, files, Commit, Leave, GoTo

LEMMA VerifyTurn ==
    ASSUME IInv, TurnInv, NEW p \in Procs, Verify(p), UNCHANGED scheduler
    PROVE  TurnInv'
<1> USE SharedStateAssumption DEF IInv, TypeOK
<1> SUFFICES ASSUME scheduler = "serial" PROVE TurnInv'
  BY DEF TurnInv
<1> QED
  BY DEF TurnInv, LockInv, JournalInv, AloneInv, DiskInv, MemoryInv, UnderLock, Found,
         Pending, Doc, Image, Ops, files, Verify, Leave, GoTo

LEMMA CrashTurn ==
    ASSUME IInv, TurnInv, NEW p \in Procs, Crash(p), UNCHANGED scheduler
    PROVE  TurnInv'
<1> USE SharedStateAssumption DEF IInv, TypeOK
<1> SUFFICES ASSUME scheduler = "serial" PROVE TurnInv'
  BY DEF TurnInv
<1> QED
  BY DEF TurnInv, LockInv, JournalInv, AloneInv, DiskInv, MemoryInv, UnderLock, Found,
         Pending, Doc, Image, Ops, files, Crash, Leave, GoTo

LEMMA NextTurn == IInv /\ TurnInv /\ [Next]_vars => TurnInv'
<1> SUFFICES ASSUME IInv, TurnInv, [Next]_vars PROVE TurnInv'
  OBVIOUS
<1>1. CASE UNCHANGED vars
  BY <1>1 DEF vars, files, TurnInv, Found, Pending
<1>2. CASE Next
  <2> PICK p \in Procs : Step(p) /\ UNCHANGED scheduler
    BY <1>2 DEF Next
  <2> QED
    BY LaunchTurn, PrecheckTurn, LockTurn, LockBusyTurn, ReconcileTurn, InspectTurn,
       PlanMigrationTurn, BeginTurn, StoreVersionTurn, PruneVersionTurn, SaveStateTurn,
       CommitTurn, VerifyTurn, CrashTurn DEF Step
<1> QED
  BY <1>1, <1>2

\* A program succeeds at most once, and what is found later is its record.
THEOREM OneAtATime == Spec => [](IInv /\ TurnInv)
<1>1. Init => IInv /\ TurnInv
  BY InitIInv, InitTurn
<1>2. IInv /\ TurnInv /\ [Next]_vars => (IInv /\ TurnInv)'
  BY NextIInv, NextTurn
<1> QED
  BY <1>1, <1>2, PTL DEF Spec

\* Nothing a program does on its way, its death included, changes what the next
\* one will find.
LEMMA QuietSteps ==
    ASSUME IInv, TurnInv, scheduler = "serial", NEW p \in Procs,
           \/ \E t \in Tools : Launch(p, t)
           \/ Precheck(p) \/ Lock(p) \/ LockBusy(p)
           \/ Reconcile(p) \/ Inspect(p) \/ PlanMigration(p) \/ Begin(p)
           \/ StoreVersion(p)
           \/ \E v \in Versions : PruneVersion(p, v)
           \/ SaveState(p) \/ Crash(p)
    PROVE  UNCHANGED <<Found, done>>
<1> USE SharedStateAssumption DEF IInv, TypeOK, Found, Pending, files
<1>1. CASE \E t \in Tools : Launch(p, t)
  BY <1>1 DEF Launch
<1>2. CASE Precheck(p) \/ Lock(p) \/ LockBusy(p)
  BY <1>2 DEF Precheck, Lock, LockBusy
<1>3. CASE Reconcile(p)
  BY <1>3 DEF Reconcile, Image
<1>4. CASE Inspect(p) \/ PlanMigration(p) \/ Crash(p)
  BY <1>4 DEF Inspect, PlanMigration, Crash
<1>5. CASE Begin(p)
  BY <1>5 DEF Begin, JournalInv, Image
<1>6. CASE StoreVersion(p) \/ \E v \in Versions : PruneVersion(p, v)
  BY <1>6 DEF StoreVersion, PruneVersion, JournalInv
<1>7. CASE SaveState(p)
  BY <1>7 DEF SaveState, JournalInv
<1> QED
  BY <1>1, <1>2, <1>3, <1>4, <1>5, <1>6, <1>7

\* At the moment it reports success, all a program did is there to be found.
LEMMA SuccessCounts ==
    ASSUME IInv, TurnInv, TurnInv', IInv', scheduler = "serial", scheduler' = scheduler,
           NEW p \in Procs, Commit(p) \/ Verify(p)
    PROVE  \E o \in Ops, vs \in SUBSET Versions :
               o \notin done /\ done' = done \cup {o} /\ Found' = Promise!Agreed(vs, done')
<1>1. op[p] \in Ops /\ op[p] \notin done /\ done' = done \cup {op[p]}
  BY DEF Commit, Verify, TurnInv, IInv, LockInv
<1>2. (scheduler = "serial")'
  OBVIOUS
<1>3. (Found.archive \in SUBSET Versions /\ Found = Promise!Agreed(Found.archive, done))'
  BY <1>2, FoundAgrees, PTL
<1> QED
  BY <1>1, <1>3

\* Programs one at a time implement the ledger: each happens at the moment it
\* reports success, or never (_run_with_journal, reconcile, recover).
THEOREM ImplementsLedger == Spec => LedgerKept
<1>1. Init => Promise!Init
  BY DEF Init, Promise!Init, Promise!Agreed, Found, Pending, Nothing
<1>2. IInv /\ TurnInv /\ (IInv /\ TurnInv)' /\ [Next]_vars => [Promise!Next]_(Promise!vars)
  <2> SUFFICES ASSUME IInv, TurnInv, IInv', TurnInv', [Next]_vars
               PROVE  Promise!Next \/ UNCHANGED Promise!vars
    OBVIOUS
  <2>1. scheduler' = scheduler
    BY DEF Next, vars
  <2>2. CASE scheduler # "serial"
    BY <2>1, <2>2 DEF Promise!vars
  <2>3. CASE scheduler = "serial" /\ UNCHANGED vars
    BY <2>3 DEF Promise!vars, vars, files, Found, Pending
  <2>4. CASE scheduler = "serial" /\ Next
    <3> PICK p \in Procs : Step(p)
      BY <2>4 DEF Next
    <3>1. CASE Commit(p) \/ Verify(p)
      BY <2>1, <2>4, <3>1, SuccessCounts DEF Promise!Next, Promise!Succeed
    <3>2. CASE ~(Commit(p) \/ Verify(p))
      BY <2>1, <2>4, <3>2, QuietSteps DEF Step, Promise!vars
    <3> QED
      BY <3>1, <3>2
  <2> QED
    BY <2>2, <2>3, <2>4
<1> QED
  BY <1>1, <1>2, OneAtATime, PTL DEF Spec, LedgerKept, Promise!Spec
=============================================================================
