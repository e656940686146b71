--------------------- MODULE TransactionJournalProofs ---------------------
(***************************************************************************)
(* Theorems about TransactionJournal, for every set of paths and contents  *)
(* and every bound: type correctness, the two safety invariants about the  *)
(* journal directory, and that the journal implements AtomicStore.         *)
(***************************************************************************)
EXTENDS TransactionJournal, TLAPS

-----------------------------------------------------------------------------
(* The inductive invariant *)

Running == pc \in {"run", "copy", "entry", "count"}

\* The phase of the process agrees with the manifest.
PhaseInv ==
    /\ manifest = None => \A s \in Slots : before[s] = None /\ entry[s] = None
    /\ pc = "ready" => manifest = None
    /\ pc \in {"undo", "run", "copy", "entry", "count"} => Open
    /\ pc = "sweep" => manifest # None /\ manifest.status = "committed"

\* The rows on disk can be read and undone.
DiskInv ==
    Open => /\ RowsValid
            /\ \E k \in 0..(MaxSlot + 1) : Rows(k)

\* What the process has in memory agrees with the rows on disk.
MemoryInv ==
    /\ Running => \A p \in known : RowsFor(p) # {}
    /\ pc \in {"run", "copy", "entry"} /\ ~poisoned =>
          /\ manifest.count = n
          /\ \A s \in Slots : entry[s] # None <=> s < n
          /\ \A s \in Slots : entry[s] # None => entry[s].path \in known
    /\ pc \in {"run", "copy", "entry"} /\ ~poisoned =>
          \A s \in Slots : before[s] # None =>
              s < n \/ (s = n /\ pc \in {"copy", "entry"})
    /\ pc \in {"copy", "entry", "count"} =>
          ~poisoned /\ cur \in Paths /\ cur \notin known
    /\ pc \in {"copy", "entry"} => n \in Slots
    /\ pc = "copy" => file[cur] # None
    /\ pc = "entry" => before[n] = file[cur]
    /\ pc = "count" =>
          /\ n > 0
          /\ n - 1 \in Slots
          /\ manifest.count = n - 1
          /\ \A s \in Slots : entry[s] # None <=> s < n
          /\ entry[n - 1].path = cur
          /\ \A s \in Slots : before[s] # None => s < n
          /\ \A s \in Slots : s < n - 1 => entry[s].path \in known

\* An undo restores the rows from the last one down.
UndoInv ==
    pc = "undo" =>
        /\ left <= n
        /\ HeadUnchanged
        /\ \A s \in Slots : entry[s] # None <=> s < n
        /\ n <= MaxSlot + 1
        /\ \A s \in Slots : left <= s /\ s < n => file[entry[s].path] = entry[s].image

\* A process that has no journal open remembers nothing of an earlier one.
FreshMemory ==
    pc \in {"off", "ready"} => n = 0 /\ known = {} /\ ~poisoned

IInv == TypeOK /\ PhaseInv /\ DiskInv /\ MemoryInv /\ UndoInv /\ FreshMemory

-----------------------------------------------------------------------------
(* The inductive invariant holds initially and every action preserves it. *)

LEMMA InitInv == Init => IInv
<1> SUFFICES ASSUME Init PROVE IInv
  OBVIOUS
<1> USE ConstantsAssumption
<1>1. TypeOK
  <2>1. faults \in 0..MaxFaults
    BY DEF Init
  <2>2. /\ file \in [Paths -> Images]
        /\ entry \in [Slots -> Row \cup {None}]
        /\ before \in [Slots -> Contents \cup {Torn, None}]
    BY DEF Init
  <2>3. /\ manifest \in Manifest \cup {None}
        /\ cur \in Paths \cup {None}
        /\ known \subseteq Paths
        /\ head \in Nat /\ n \in Nat /\ left \in Nat
    BY DEF Init
  <2>4. /\ pc \in {"off", "ready", "undo", "sweep", "run", "copy", "entry", "count"}
        /\ next \in {"off", "ready"}
        /\ gitOn \in BOOLEAN /\ poisoned \in BOOLEAN
    BY DEF Init
  <2> QED BY <2>1, <2>2, <2>3, <2>4 DEF TypeOK
<1>2. PhaseInv
  BY DEF Init, PhaseInv
<1>3. DiskInv /\ MemoryInv /\ UndoInv /\ FreshMemory
  BY DEF Init, DiskInv, MemoryInv, UndoInv, FreshMemory, Open, Running
<1> QED BY <1>1, <1>2, <1>3 DEF IInv

\* Steps of recover() and cleanup().

LEMMA StartCleanStep == ASSUME IInv, StartClean PROVE IInv'
<1> USE ConstantsAssumption DEF StartClean, world, disk, process, Charge, Exit, Outcomes
<1>1. TypeOK'
  BY DEF IInv, TypeOK, PhaseInv, DiskInv, MemoryInv, UndoInv, Open, Manifest, Row, Images, RowsValid
<1>2. PhaseInv'
  BY DEF IInv, TypeOK, PhaseInv, Open, Manifest
<1>3. DiskInv'
  BY DEF IInv, TypeOK, PhaseInv, DiskInv, MemoryInv, Open, RowsValid, Rows, Manifest, Row
<1>4. MemoryInv'
  BY DEF IInv, TypeOK, PhaseInv, DiskInv, MemoryInv, Open, RowsFor, Running, Manifest, Row
<1>5. UndoInv'
  BY DEF IInv, TypeOK, PhaseInv, DiskInv, UndoInv, Open, Undoable, Rows, RowsValid, Manifest, Row, Slots
<1>6. FreshMemory'
  BY DEF StartClean, IInv, FreshMemory, Exit, SweepManifest, process, disk
<1> QED BY <1>1, <1>2, <1>3, <1>4, <1>5, <1>6 DEF IInv

LEMMA StartCleanupStep == ASSUME IInv, StartCleanup PROVE IInv'
<1> USE ConstantsAssumption DEF StartCleanup, world, disk, process, Charge, Exit, Outcomes
<1>1. TypeOK'
  BY DEF IInv, TypeOK, PhaseInv, DiskInv, MemoryInv, UndoInv, Open, Manifest, Row, Images, RowsValid
<1>2. PhaseInv'
  BY DEF IInv, TypeOK, PhaseInv, Open, Manifest
<1>3. DiskInv'
  BY DEF IInv, TypeOK, PhaseInv, DiskInv, MemoryInv, Open, RowsValid, Rows, Manifest, Row
<1>4. MemoryInv'
  BY DEF IInv, TypeOK, PhaseInv, DiskInv, MemoryInv, Open, RowsFor, Running, Manifest, Row
<1>5. UndoInv'
  BY DEF IInv, TypeOK, PhaseInv, DiskInv, UndoInv, Open, Undoable, Rows, RowsValid, Manifest, Row, Slots
<1>6. FreshMemory'
  BY DEF StartCleanup, IInv, FreshMemory, Exit, SweepManifest, process, disk
<1> QED BY <1>1, <1>2, <1>3, <1>4, <1>5, <1>6 DEF IInv

LEMMA StartUndoStep == ASSUME IInv, StartUndo PROVE IInv'
<1> USE ConstantsAssumption DEF StartUndo, world, disk, process, Charge, Exit, Outcomes
<1>1. TypeOK'
  BY DEF IInv, TypeOK, PhaseInv, DiskInv, MemoryInv, UndoInv, Open, Manifest, Row, Images, RowsValid
<1>2. PhaseInv'
  BY DEF IInv, TypeOK, PhaseInv, Undoable, Open, Manifest
<1>3. DiskInv'
  BY DEF IInv, TypeOK, PhaseInv, DiskInv, MemoryInv, Open, RowsValid, Rows, Manifest, Row
<1>4. MemoryInv'
  BY DEF IInv, TypeOK, PhaseInv, DiskInv, MemoryInv, Open, RowsFor, Running, Manifest, Row
<1>5. UndoInv'
  BY DEF IInv, TypeOK, PhaseInv, DiskInv, UndoInv, Open, Undoable, Rows, RowsValid, Manifest, Row, Slots,
         HeadUnchanged, HeadOf
<1>6. FreshMemory'
  BY DEF StartUndo, IInv, FreshMemory, Exit, SweepManifest, process, disk
<1> QED BY <1>1, <1>2, <1>3, <1>4, <1>5, <1>6 DEF IInv

LEMMA UndoRowStep == ASSUME IInv, UndoRow PROVE IInv'
<1> USE ConstantsAssumption DEF UndoRow, world, disk, process, Charge, Exit, Outcomes
<1>1. TypeOK'
  <2>1. left - 1 \in Slots /\ entry[left - 1] # None /\ left - 1 \in Nat
    BY DEF IInv, TypeOK, UndoInv, Slots
  <2>2. entry[left - 1] \in Row
    BY <2>1 DEF IInv, TypeOK
  <2>3. entry[left - 1].image # None => before[left - 1] = entry[left - 1].image
    BY <2>1 DEF IInv, PhaseInv, DiskInv, RowsValid
  <2>4. file' = [file EXCEPT ![entry[left - 1].path] = entry[left - 1].image]
    BY <2>3
  <2>5. file' \in [Paths -> Images]
    BY <2>2, <2>4 DEF IInv, TypeOK, Row
  <2> QED BY <2>1, <2>5 DEF IInv, TypeOK
<1>2. PhaseInv'
  BY DEF IInv, TypeOK, PhaseInv, Open, Manifest
<1>3. DiskInv'
  BY DEF IInv, TypeOK, PhaseInv, DiskInv, MemoryInv, Open, RowsValid, Rows, Manifest, Row
<1>4. MemoryInv'
  BY DEF IInv, TypeOK, PhaseInv, DiskInv, MemoryInv, Open, RowsFor, Running, Manifest, Row
<1>5. UndoInv'
  BY DEF IInv, TypeOK, PhaseInv, DiskInv, UndoInv, Open, Undoable, Rows, RowsValid, Manifest, Row, Slots,
         HeadUnchanged, HeadOf
<1>6. FreshMemory'
  BY DEF UndoRow, IInv, FreshMemory, Exit, SweepManifest, process, disk
<1> QED BY <1>1, <1>2, <1>3, <1>4, <1>5, <1>6 DEF IInv

LEMMA MarkUndoneStep == ASSUME IInv, MarkUndone PROVE IInv'
<1> USE ConstantsAssumption DEF MarkUndone, world, disk, process, Charge, Exit, Outcomes
<1>1. TypeOK'
  <2>1. manifest \in Manifest
    BY DEF IInv, TypeOK, PhaseInv, Open
  <2>2. manifest' \in Manifest
    BY <2>1 DEF IInv, TypeOK, Manifest
  <2>3. faults' \in 0..MaxFaults
    BY DEF IInv, TypeOK
  <2> QED BY <2>2, <2>3 DEF IInv, TypeOK
<1>2. PhaseInv'
  <2>1. manifest \in Manifest /\ manifest.status = "pending"
    BY DEF IInv, TypeOK, PhaseInv, Open
  <2>2. PICK outcome \in Outcomes :
          /\ manifest' = IF outcome = "lost" THEN manifest
                         ELSE [manifest EXCEPT !.status = "committed", !.count = n]
          /\ outcome = "ok" => pc' = "sweep"
          /\ outcome # "ok" => pc' = "off"
    OBVIOUS
  <2>3. manifest' \in Manifest /\ (outcome = "ok" => manifest'.status = "committed")
    BY <2>1, <2>2 DEF IInv, TypeOK, Manifest
  <2> QED BY <2>2, <2>3 DEF IInv, PhaseInv, Open
<1>3. DiskInv'
  BY DEF IInv, TypeOK, PhaseInv, DiskInv, MemoryInv, Open, RowsValid, Rows, Manifest, Row
<1>4. MemoryInv'
  BY DEF IInv, TypeOK, PhaseInv, DiskInv, MemoryInv, Open, RowsFor, Running, Manifest, Row
<1>5. UndoInv'
  BY DEF IInv, TypeOK, PhaseInv, DiskInv, UndoInv, Open, Undoable, Rows, RowsValid, Manifest, Row, Slots
<1>6. FreshMemory'
  BY DEF MarkUndone, IInv, FreshMemory, Exit, SweepManifest, process, disk
<1> QED BY <1>1, <1>2, <1>3, <1>4, <1>5, <1>6 DEF IInv

LEMMA SweepManifestStep == ASSUME IInv, SweepManifest PROVE IInv'
<1> USE ConstantsAssumption DEF SweepManifest, world, disk, process, Charge, Exit, Outcomes
<1>1. TypeOK'
  BY DEF IInv, TypeOK, PhaseInv, DiskInv, MemoryInv, UndoInv, Open, Manifest, Row, Images, RowsValid
<1>2. PhaseInv'
  BY DEF IInv, TypeOK, PhaseInv, Open, Manifest
<1>3. DiskInv'
  BY DEF IInv, TypeOK, PhaseInv, DiskInv, MemoryInv, Open, RowsValid, Rows, Manifest, Row
<1>4. MemoryInv'
  BY DEF IInv, TypeOK, PhaseInv, DiskInv, MemoryInv, Open, RowsFor, Running, Manifest, Row
<1>5. UndoInv'
  BY DEF IInv, TypeOK, PhaseInv, DiskInv, UndoInv, Open, Undoable, Rows, RowsValid, Manifest, Row, Slots
<1>6. FreshMemory'
  BY DEF SweepManifest, IInv, FreshMemory, Exit, SweepManifest, process, disk
<1> QED BY <1>1, <1>2, <1>3, <1>4, <1>5, <1>6 DEF IInv

LEMMA CopyImageStep == ASSUME IInv, CopyImage PROVE IInv'
<1> USE ConstantsAssumption DEF CopyImage, world, disk, process, Charge, Exit, Outcomes
<1>1. TypeOK'
  BY DEF IInv, TypeOK, PhaseInv, DiskInv, MemoryInv, UndoInv, Open, Manifest, Row, Images, RowsValid
<1>2. PhaseInv'
  BY DEF IInv, TypeOK, PhaseInv, Open, Manifest
<1>3. DiskInv'
  BY DEF IInv, TypeOK, PhaseInv, DiskInv, MemoryInv, Open, RowsValid, Rows, Manifest, Row
<1>4. MemoryInv'
  BY DEF IInv, TypeOK, PhaseInv, DiskInv, MemoryInv, Open, RowsFor, Running, Manifest, Row
<1>5. UndoInv'
  BY DEF IInv, TypeOK, PhaseInv, DiskInv, UndoInv, Open, Undoable, Rows, RowsValid, Manifest, Row, Slots
<1>6. FreshMemory'
  BY DEF CopyImage, IInv, FreshMemory, Exit, SweepManifest, process, disk
<1> QED BY <1>1, <1>2, <1>3, <1>4, <1>5, <1>6 DEF IInv

LEMMA SaveEntryStep == ASSUME IInv, SaveEntry PROVE IInv'
<1> USE ConstantsAssumption DEF SaveEntry, world, disk, process, Charge, Exit, Outcomes
<1>1. TypeOK'
  BY DEF IInv, TypeOK, PhaseInv, DiskInv, MemoryInv, UndoInv, Open, Manifest, Row, Images, RowsValid
<1>2. PhaseInv'
  BY DEF IInv, TypeOK, PhaseInv, Open, Manifest
<1>3. DiskInv'
  <2>1. /\ Open /\ Open' /\ manifest' = manifest /\ n \in Slots
        /\ manifest.count = n /\ manifest \in Manifest
        /\ \A s \in Slots : entry[s] # None <=> s < n
    BY DEF IInv, TypeOK, PhaseInv, MemoryInv, Open
  <2>2. DEFINE row == [path |-> cur, image |-> before[n]]
  <2>3. row \in Row
    BY DEF IInv, TypeOK, MemoryInv, Row
  <2>4. CASE entry' = entry
    BY <2>1, <2>4 DEF IInv, DiskInv, RowsValid, Rows
  <2>5. CASE entry' = [entry EXCEPT ![n] = row]
    <3>1. entry'[n] = row /\ \A s \in Slots : s # n => entry'[s] = entry[s]
      BY <2>1, <2>5 DEF IInv, TypeOK
    <3>2. \A s \in Slots : entry'[s] # None <=> s < n + 1
      BY <2>1, <2>3, <3>1 DEF Slots
    <3>3. RowsValid'
      <4>1. \A s \in Slots : entry[s] # None => entry[s].path # cur
        BY DEF IInv, MemoryInv
      <4>2. \A s \in Slots : entry'[s] # None /\ entry'[s].path = cur => s = n
        BY <2>1, <3>1, <4>1
      <4>3. RowsValid
        BY <2>1 DEF IInv, DiskInv
      <4>4. \A s \in Slots : entry'[s] # None /\ entry'[s].image # None
                                  => before'[s] = entry'[s].image
        BY <2>1, <3>1, <4>3 DEF RowsValid
      <4>5. ASSUME NEW s \in Slots, NEW t \in Slots,
                   entry'[s] # None, entry'[t] # None,
                   entry'[t].path = entry'[s].path
            PROVE  t = s
        <5>1. CASE s = n \/ t = n
          BY <3>1, <4>2, <4>5, <5>1
        <5>2. CASE s # n /\ t # n
          BY <3>1, <4>3, <4>5, <5>2 DEF RowsValid
        <5> QED BY <5>1, <5>2
      <4> QED BY <4>4, <4>5 DEF RowsValid
    <3>4. Rows(manifest.count + 1)'
      BY <2>1, <3>2 DEF Rows, Manifest
    <3>5. manifest.count + 1 \in 0..(MaxSlot + 1)
      BY <2>1 DEF Slots
    <3> QED BY <2>1, <3>3, <3>4, <3>5 DEF DiskInv, Rows
  <2> QED BY <2>4, <2>5
<1>4. MemoryInv'
  <2>1. PICK outcome \in Outcomes :
          /\ entry' = IF outcome = "lost" THEN entry
                      ELSE [entry EXCEPT ![n] = [path |-> cur, image |-> before[n]]]
          /\ poisoned' = (outcome # "ok")
          /\ pc' = IF outcome = "ok" THEN "count" ELSE "run"
          /\ cur' = IF outcome = "ok" THEN cur ELSE None
    OBVIOUS
  <2>2. /\ n \in Slots /\ manifest.count = n /\ cur \in Paths
        /\ [path |-> cur, image |-> before[n]] \in Row
    BY DEF IInv, TypeOK, MemoryInv, Row
  <2>3. \A p \in known : RowsFor(p)' # {}
    <3>1. TAKE p \in known
    <3>2. PICK s \in Slots : entry[s] # None /\ entry[s].path = p
      BY <3>1 DEF IInv, MemoryInv, RowsFor, Running
    <3>3. s # n
      BY <3>2 DEF IInv, MemoryInv, Slots
    <3>4. entry'[s] = entry[s]
      BY <2>1, <3>3 DEF IInv, TypeOK
    <3> QED BY <3>2, <3>4 DEF RowsFor
  <2>4. CASE outcome = "ok"
    <3>1. entry'[n] = [path |-> cur, image |-> before[n]]
          /\ \A s \in Slots : s # n => entry'[s] = entry[s]
      BY <2>1, <2>2, <2>4 DEF IInv, TypeOK
    <3>2. \A s \in Slots : entry'[s] # None <=> s < n + 1
      BY <2>2, <3>1 DEF IInv, TypeOK, MemoryInv, Slots
    <3>3. \A s \in Slots : s < n => entry'[s].path \in known
      BY <2>2, <3>1 DEF IInv, TypeOK, MemoryInv, Slots
    <3>4. \A s \in Slots : before[s] # None => s < n + 1
      BY <2>2 DEF IInv, TypeOK, MemoryInv, Slots
    <3>5. entry'[n].path = cur
      BY <3>1
    <3>6. n' = n + 1 /\ n' > 0 /\ n' - 1 = n /\ n \in Nat
      BY <2>2 DEF Slots
    <3> QED BY <2>1, <2>2, <2>3, <2>4, <3>2, <3>3, <3>4, <3>5, <3>6
            DEF MemoryInv, IInv, Running
  <2>5. CASE outcome # "ok"
    BY <2>1, <2>3, <2>5 DEF MemoryInv
  <2> QED BY <2>4, <2>5
<1>5. UndoInv'
  BY DEF IInv, TypeOK, PhaseInv, DiskInv, UndoInv, Open, Undoable, Rows, RowsValid, Manifest, Row, Slots
<1>6. FreshMemory'
  BY DEF SaveEntry, IInv, FreshMemory, Exit, SweepManifest, process, disk
<1> QED BY <1>1, <1>2, <1>3, <1>4, <1>5, <1>6 DEF IInv

LEMMA SaveCountStep == ASSUME IInv, SaveCount PROVE IInv'
<1> USE ConstantsAssumption DEF SaveCount, world, disk, process, Charge, Exit, Outcomes
<1>1. TypeOK'
  BY DEF IInv, TypeOK, PhaseInv, DiskInv, MemoryInv, UndoInv, Open, Manifest, Row, Images, RowsValid
<1>2. PhaseInv'
  BY DEF IInv, TypeOK, PhaseInv, Open, Manifest
<1>3. DiskInv'
  BY DEF IInv, TypeOK, PhaseInv, DiskInv, MemoryInv, Open, RowsValid, Rows, Manifest, Row
<1>4. MemoryInv'
  <2>1. PICK outcome \in Outcomes :
          /\ manifest' = IF outcome = "lost" THEN manifest
                         ELSE [manifest EXCEPT !.count = n]
          /\ poisoned' = (outcome # "ok")
          /\ known' = IF outcome = "ok" THEN known \cup {cur} ELSE known
    OBVIOUS
  <2>2. \A p \in known' : RowsFor(p)' # {}
    <3>1. n - 1 \in RowsFor(cur)
      BY DEF IInv, TypeOK, MemoryInv, RowsFor, Slots
    <3>2. \A p \in known : RowsFor(p) # {}
      BY DEF IInv, MemoryInv, Running
    <3> QED BY <2>1, <3>1, <3>2 DEF RowsFor
  <2>3. CASE outcome = "ok"
    <3>1. manifest'.count = n
      BY <2>1, <2>3 DEF IInv, TypeOK, PhaseInv, Open, Manifest
    <3>2. \A s \in Slots : entry[s] # None => entry[s].path \in known'
      BY <2>1, <2>3 DEF IInv, TypeOK, MemoryInv, Slots
    <3> QED BY <2>1, <2>2, <2>3, <3>1, <3>2 DEF IInv, MemoryInv
  <2>4. CASE outcome # "ok"
    BY <2>1, <2>2, <2>4 DEF MemoryInv
  <2> QED BY <2>3, <2>4
<1>5. UndoInv'
  BY DEF IInv, TypeOK, PhaseInv, DiskInv, UndoInv, Open, Undoable, Rows, RowsValid, Manifest, Row, Slots
<1>6. FreshMemory'
  BY DEF SaveCount, IInv, FreshMemory, Exit, SweepManifest, process, disk
<1> QED BY <1>1, <1>2, <1>3, <1>4, <1>5, <1>6 DEF IInv

LEMMA GitCommitStep == ASSUME IInv, GitCommit PROVE IInv'
<1> USE ConstantsAssumption DEF GitCommit, world, disk, process, Charge, Exit, Outcomes
<1>1. TypeOK'
  BY DEF IInv, TypeOK, PhaseInv, DiskInv, MemoryInv, UndoInv, Open, Manifest, Row, Images, RowsValid
<1>2. PhaseInv'
  BY DEF IInv, TypeOK, PhaseInv, Open, Manifest
<1>3. DiskInv'
  BY DEF IInv, TypeOK, PhaseInv, DiskInv, MemoryInv, Open, RowsValid, Rows, Manifest, Row
<1>4. MemoryInv'
  BY DEF IInv, TypeOK, PhaseInv, DiskInv, MemoryInv, Open, RowsFor, Running, Manifest, Row
<1>5. UndoInv'
  BY DEF IInv, TypeOK, PhaseInv, DiskInv, UndoInv, Open, Undoable, Rows, RowsValid, Manifest, Row, Slots
<1>6. FreshMemory'
  BY DEF GitCommit, IInv, FreshMemory, Exit, SweepManifest, process, disk
<1> QED BY <1>1, <1>2, <1>3, <1>4, <1>5, <1>6 DEF IInv

LEMMA CommitStep == ASSUME IInv, Commit PROVE IInv'
<1> USE ConstantsAssumption DEF Commit, world, disk, process, Charge, Exit, Outcomes
<1>1. TypeOK'
  <2>1. manifest \in Manifest
    BY DEF IInv, TypeOK, PhaseInv, Open
  <2>2. manifest' \in Manifest
    BY <2>1 DEF IInv, TypeOK, Manifest
  <2>3. faults' \in 0..MaxFaults
    BY DEF IInv, TypeOK
  <2>4. /\ pc' \in {"off", "sweep"} /\ next' \in {"off", "ready"}
        /\ cur' \in Paths \cup {None} /\ n' \in Nat /\ left' \in Nat
        /\ known' \subseteq Paths /\ poisoned' \in BOOLEAN
    <3>1. PICK outcome \in Outcomes :
             IF outcome = "ok"
             THEN pc' = "sweep" /\ UNCHANGED <<next, cur, n, left, known, poisoned>>
             ELSE Exit
      OBVIOUS
    <3>2. CASE outcome = "ok"
      BY <3>1, <3>2 DEF IInv, TypeOK
    <3>3. CASE outcome # "ok"
      <4>1. Exit
        BY <3>1, <3>3
      <4>2. poisoned' \in BOOLEAN
        BY <4>1, Zenon
      <4>3. known' \subseteq Paths
        BY <4>1
      <4> QED BY <4>1, <4>2, <4>3
    <3> QED BY <3>2, <3>3
  <2> QED BY <2>2, <2>3, <2>4 DEF IInv, TypeOK
<1>2. PhaseInv'
  <2>1. manifest \in Manifest /\ manifest.status = "pending"
    BY DEF IInv, TypeOK, PhaseInv, Open
  <2>2. PICK outcome \in Outcomes :
          /\ manifest' = IF outcome = "lost" THEN manifest
                         ELSE [manifest EXCEPT !.status = "committed", !.count = n]
          /\ outcome = "ok" => pc' = "sweep"
          /\ outcome # "ok" => pc' = "off"
    OBVIOUS
  <2>3. manifest' \in Manifest /\ (outcome = "ok" => manifest'.status = "committed")
    BY <2>1, <2>2 DEF IInv, TypeOK, Manifest
  <2> QED BY <2>2, <2>3 DEF IInv, PhaseInv, Open
<1>3. DiskInv'
  BY DEF IInv, TypeOK, PhaseInv, DiskInv, MemoryInv, Open, RowsValid, Rows, Manifest, Row
<1>4. MemoryInv'
  BY DEF IInv, TypeOK, PhaseInv, DiskInv, MemoryInv, Open, RowsFor, Running, Manifest, Row
<1>5. UndoInv'
  BY DEF IInv, TypeOK, PhaseInv, DiskInv, UndoInv, Open, Undoable, Rows, RowsValid, Manifest, Row, Slots
<1>6. FreshMemory'
  BY DEF Commit, IInv, FreshMemory, Exit, SweepManifest, process, disk
<1> QED BY <1>1, <1>2, <1>3, <1>4, <1>5, <1>6 DEF IInv

LEMMA CommitRefusedStep == ASSUME IInv, CommitRefused PROVE IInv'
<1> USE ConstantsAssumption DEF CommitRefused, world, disk, process, Charge, Exit, Outcomes
<1>1. TypeOK'
  BY DEF IInv, TypeOK, PhaseInv, DiskInv, MemoryInv, UndoInv, Open, Manifest, Row, Images, RowsValid
<1>2. PhaseInv'
  BY DEF IInv, TypeOK, PhaseInv, Open, Manifest
<1>3. DiskInv'
  BY DEF IInv, TypeOK, PhaseInv, DiskInv, MemoryInv, Open, RowsValid, Rows, Manifest, Row
<1>4. MemoryInv'
  BY DEF IInv, TypeOK, PhaseInv, DiskInv, MemoryInv, Open, RowsFor, Running, Manifest, Row
<1>5. UndoInv'
  BY DEF IInv, TypeOK, PhaseInv, DiskInv, UndoInv, Open, Undoable, Rows, RowsValid, Manifest, Row, Slots
<1>6. FreshMemory'
  BY DEF CommitRefused, IInv, FreshMemory, Exit, SweepManifest, process, disk
<1> QED BY <1>1, <1>2, <1>3, <1>4, <1>5, <1>6 DEF IInv

LEMMA DieStep == ASSUME IInv, Die PROVE IInv'
<1> USE ConstantsAssumption DEF Die, world, disk, process, Charge, Exit, Outcomes
<1>1. TypeOK'
  <2>1. faults' \in 0..MaxFaults
    BY DEF IInv, TypeOK
  <2> QED BY <2>1 DEF IInv, TypeOK
<1>2. PhaseInv'
  BY DEF IInv, TypeOK, PhaseInv, Open, Manifest
<1>3. DiskInv'
  BY DEF IInv, TypeOK, PhaseInv, DiskInv, MemoryInv, Open, RowsValid, Rows, Manifest, Row
<1>4. MemoryInv'
  BY DEF IInv, TypeOK, PhaseInv, DiskInv, MemoryInv, Open, RowsFor, Running, Manifest, Row
<1>5. UndoInv'
  BY DEF IInv, TypeOK, PhaseInv, DiskInv, UndoInv, Open, Undoable, Rows, RowsValid, Manifest, Row, Slots
<1>6. FreshMemory'
  BY DEF Die, IInv, FreshMemory, Exit, SweepManifest, process, disk
<1> QED BY <1>1, <1>2, <1>3, <1>4, <1>5, <1>6 DEF IInv

LEMMA ToggleGitStep == ASSUME IInv, ToggleGit PROVE IInv'
<1> USE ConstantsAssumption DEF ToggleGit, world, disk, process, Charge, Exit, Outcomes
<1>1. TypeOK'
  BY DEF IInv, TypeOK, PhaseInv, DiskInv, MemoryInv, UndoInv, Open, Manifest, Row, Images, RowsValid
<1>2. PhaseInv'
  BY DEF IInv, TypeOK, PhaseInv, Open, Manifest
<1>3. DiskInv'
  BY DEF IInv, TypeOK, PhaseInv, DiskInv, MemoryInv, Open, RowsValid, Rows, Manifest, Row
<1>4. MemoryInv'
  BY DEF IInv, TypeOK, PhaseInv, DiskInv, MemoryInv, Open, RowsFor, Running, Manifest, Row
<1>5. UndoInv'
  BY DEF IInv, TypeOK, PhaseInv, DiskInv, UndoInv, Open, Undoable, Rows, RowsValid, Manifest, Row, Slots
<1>6. FreshMemory'
  BY DEF ToggleGit, IInv, FreshMemory, Exit, SweepManifest, process, disk
<1> QED BY <1>1, <1>2, <1>3, <1>4, <1>5, <1>6 DEF IInv

LEMMA SweepSlotStep == ASSUME IInv, NEW s \in Slots, SweepSlot(s) PROVE IInv'
<1> USE DEF SweepSlot, world, disk, process
<1>1. TypeOK'
  BY DEF IInv, TypeOK
<1>2. PhaseInv'
  BY DEF IInv, TypeOK, PhaseInv, Open
<1>3. DiskInv' /\ MemoryInv' /\ UndoInv'
  BY DEF IInv, PhaseInv, DiskInv, MemoryInv, UndoInv, Open, Running
<1>4. FreshMemory'
  BY DEF SweepSlot, IInv, FreshMemory, Exit, SweepManifest, process, disk
<1> QED BY <1>1, <1>2, <1>3, <1>4 DEF IInv

LEMMA BeginStep == ASSUME IInv, NEW pruneOnly \in BOOLEAN, Begin(pruneOnly) PROVE IInv'
<1> USE ConstantsAssumption DEF world, disk, process
<1>1. PICK outcome \in Outcomes :
        /\ Charge(outcome)
        /\ \/ outcome = "lost" /\ manifest' = None
           \/ /\ outcome # "lost" /\ manifest' \in Manifest
              /\ manifest'.status = "pending" /\ manifest'.count = 0
        /\ IF outcome = "ok"
           THEN pc' = "run" /\ UNCHANGED <<next, cur, n, left, known, poisoned>>
           ELSE Exit
  BY DEF Begin, Manifest, HeadOf, IInv, TypeOK
<1>2. /\ pc = "ready" /\ UNCHANGED <<world, entry, before>>
      /\ \A s \in Slots : before[s] = None /\ entry[s] = None
  BY DEF Begin
<1>3. TypeOK'
  <2>1. faults' \in 0..MaxFaults
    BY <1>1 DEF Charge, IInv, TypeOK
  <2>2. manifest' \in Manifest \cup {None}
    BY <1>1
  <2>3. CASE outcome = "ok"
    BY <1>1, <1>2, <2>1, <2>2, <2>3 DEF IInv, TypeOK
  <2>4. CASE outcome # "ok"
    <3>1. Exit
      BY <1>1, <2>4
    <3>2. poisoned' \in BOOLEAN
      BY <3>1, Zenon DEF Exit
    <3>3. known' \subseteq Paths
      BY <3>1 DEF Exit
    <3> QED BY <1>2, <2>1, <2>2, <3>1, <3>2, <3>3 DEF IInv, TypeOK, Exit
  <2> QED BY <2>3, <2>4
<1>4. PhaseInv'
  BY <1>1, <1>2 DEF PhaseInv, Open, Exit
<1>5. DiskInv'
  <2>1. RowsValid'
    BY <1>2 DEF RowsValid
  <2>2. ASSUME Open' PROVE Rows(0)'
    BY <1>1, <1>2, <2>2 DEF Rows, Slots, Open
  <2>3. 0 \in 0..(MaxSlot + 1)
    OBVIOUS
  <2> QED BY <2>1, <2>2, <2>3 DEF DiskInv
<1>6. MemoryInv'
  <2>1. CASE outcome # "ok"
    BY <1>1, <2>1 DEF MemoryInv, Running, Exit
  <2>2. CASE outcome = "ok"
    BY <1>1, <1>2, <2>2 DEF MemoryInv, Running, Slots, IInv, FreshMemory
  <2> QED BY <2>1, <2>2
<1>7. UndoInv'
  BY <1>1 DEF UndoInv, Exit
<1>8. FreshMemory'
  BY DEF Begin, IInv, FreshMemory, Exit, SweepManifest, process, disk
<1> QED BY <1>3, <1>4, <1>5, <1>6, <1>7, <1>8 DEF IInv

LEMMA RememberStep == ASSUME IInv, NEW p \in Paths, Remember(p) PROVE IInv'
<1> USE ConstantsAssumption DEF Remember, world, disk, process
<1>1. TypeOK'
  BY DEF IInv, TypeOK
<1>2. PhaseInv'
  BY DEF IInv, TypeOK, PhaseInv, Open
<1>3. DiskInv'
  <2>1. \A s \in Slots : entry[s] # None => before'[s] = before[s]
    BY DEF IInv, TypeOK, MemoryInv
  <2>2. Open => RowsValid
    BY DEF IInv, DiskInv
  <2>3. Open => RowsValid'
    BY <2>1, <2>2 DEF RowsValid
  <2>4. PICK k \in 0..(MaxSlot + 1) : Open => Rows(k)
    BY DEF IInv, DiskInv
  <2>5. Open => Rows(k)'
    BY <2>4 DEF Rows
  <2> QED BY <2>3, <2>4, <2>5 DEF DiskInv, Open
<1>4. MemoryInv'
  BY DEF IInv, TypeOK, PhaseInv, MemoryInv, Open, RowsFor, Running, Slots
<1>5. UndoInv'
  BY DEF IInv, UndoInv
<1>6. FreshMemory'
  BY DEF Remember, IInv, FreshMemory, Exit, SweepManifest, process, disk
<1> QED BY <1>1, <1>2, <1>3, <1>4, <1>5, <1>6 DEF IInv

LEMMA MutateStep ==
  ASSUME IInv, NEW p \in Paths, NEW c \in Images, Mutate(p, c) PROVE IInv'
<1> USE DEF Mutate, world, disk, process
<1>1. TypeOK'
  BY DEF IInv, TypeOK
<1>2. PhaseInv' /\ DiskInv' /\ UndoInv'
  BY DEF IInv, PhaseInv, DiskInv, UndoInv, Open, RowsValid, Rows
<1>3. MemoryInv'
  BY DEF IInv, MemoryInv, RowsFor, Running
<1>4. FreshMemory'
  BY DEF IInv, FreshMemory
<1> QED BY <1>1, <1>2, <1>3, <1>4 DEF IInv

LEMMA StutterStep == ASSUME IInv, UNCHANGED vars PROVE IInv'
BY DEF IInv, TypeOK, PhaseInv, DiskInv, MemoryInv, UndoInv, FreshMemory, Open, Running, RowsFor,
       RowsValid, Rows, HeadUnchanged, HeadOf, vars, world, disk, process

LEMMA NextInv == IInv /\ [Next]_vars => IInv'
<1> SUFFICES ASSUME IInv, [Next]_vars PROVE IInv'
  OBVIOUS
<1>1. CASE Recover
  BY <1>1, StartCleanStep, StartCleanupStep, StartUndoStep, UndoRowStep, MarkUndoneStep
     DEF Recover
<1>2. CASE Cleanup
  BY <1>2, SweepSlotStep, SweepManifestStep DEF Cleanup
<1>3. CASE Work
  BY <1>3, BeginStep, RememberStep, CopyImageStep, SaveEntryStep, SaveCountStep,
     MutateStep, GitCommitStep, CommitStep, CommitRefusedStep DEF Work
<1>4. CASE Environment
  BY <1>4, DieStep, ToggleGitStep DEF Environment
<1>5. CASE StartRefused \/ UNCHANGED vars
  BY <1>5, StutterStep DEF StartRefused
<1> QED BY <1>1, <1>2, <1>3, <1>4, <1>5 DEF Next

THEOREM Invariance == Spec => []IInv
BY InitInv, NextInv, PTL DEF Spec

-----------------------------------------------------------------------------
(* Safety *)

\* Every variable keeps its type in every behaviour.
THEOREM TypeCorrect == Spec => []TypeOK
<1>1. IInv => TypeOK
  BY DEF IInv
<1> QED BY Invariance, <1>1, PTL

\* begin() never meets orphan journal files (transaction_journal.py:125).
THEOREM NeverOrphaned == Spec => []NoOrphanFiles
<1>1. IInv => NoOrphanFiles
  BY DEF IInv, PhaseInv, NoOrphanFiles
<1> QED BY Invariance, <1>1, PTL

\* read() and validate_pending() accept every journal a crash or a failed
\* write leaves behind, as long as the storage and HEAD are the same.
THEOREM AlwaysUndoable == Spec => []RestartCanUndo
<1>1. IInv => RestartCanUndo
  <2> SUFFICES ASSUME IInv, pc = "off", Open, IdentityOK, HeadUnchanged
               PROVE  \E k \in 0..(MaxSlot + 1) : Undoable(k)
    BY DEF RestartCanUndo
  <2>1. manifest \in Manifest /\ manifest.count \in Nat /\ MaxSlot \in Nat
    BY ConstantsAssumption DEF IInv, TypeOK, Open, Manifest
  <2>2. PICK k \in 0..(MaxSlot + 1) : Rows(k) /\ RowsValid
    BY DEF IInv, DiskInv
  <2> QED BY <2>2 DEF Undoable
<1> QED BY Invariance, <1>1, PTL

\* While HEAD has moved on, no start changes a file or the journal.
THEOREM HeadChangePreserves == Spec => ChangedHeadPreserved
<1> DEFINE Kept == (pc \in {"off", "undo"} /\ Open /\ ~HeadUnchanged)
                      => UNCHANGED <<file, disk>>
<1>1. IInv /\ [Next]_vars => [Kept]_vars
  <2> SUFFICES ASSUME IInv, Next, pc \in {"off", "undo"}, Open, ~HeadUnchanged
               PROVE  UNCHANGED <<file, disk>>
    OBVIOUS
  <2>1. pc = "off"
    BY DEF IInv, UndoInv
  <2>2. ASSUME NEW k \in 0..(MaxSlot + 1) PROVE ~Undoable(k)
    BY DEF Undoable
  <2>3. manifest # None /\ manifest.status = "pending"
    BY DEF Open
  <2>4. CASE Recover
    BY <2>1, <2>2, <2>3, <2>4
       DEF Recover, StartClean, StartCleanup, StartUndo, UndoRow, MarkUndone
  <2>5. CASE StartRefused \/ Environment
    BY <2>1, <2>5 DEF StartRefused, Environment, Die, ToggleGit, vars, world
  <2>6. CASE Cleanup
    BY <2>1, <2>6 DEF Cleanup, SweepSlot, SweepManifest
  <2>7. CASE Work
    BY <2>1, <2>7 DEF Work, Begin, Remember, CopyImage, SaveEntry, SaveCount, Mutate,
                      GitCommit, Commit, CommitRefused
  <2> QED BY <2>4, <2>5, <2>6, <2>7 DEF Next
<1> QED BY Invariance, <1>1, PTL DEF Spec, ChangedHeadPreserved

-----------------------------------------------------------------------------
(* The journal implements AtomicStore *)

\* With valid rows, a row on disk is the one that reconciles its path.
LEMMA RowReconciles ==
  ASSUME IInv, Open, NEW s \in Slots, entry[s] # None
  PROVE  Reconciled[entry[s].path] = entry[s].image
<1>1. entry[s] \in Row /\ entry[s].path \in Paths
  BY DEF IInv, TypeOK, Row
<1>2. RowsFor(entry[s].path) = {s}
  BY DEF IInv, DiskInv, RowsValid, RowsFor
<1> QED BY <1>1, <1>2 DEF Reconciled

\* A path without a row reconciles to what is on disk.
LEMMA NoRowReconciles ==
  ASSUME NEW p \in Paths, ~Open \/ RowsFor(p) = {}
  PROVE  Reconciled[p] = file[p]
BY DEF Reconciled

LEMMA ReconciledType == IInv => Reconciled \in [Paths -> Images]
<1> SUFFICES ASSUME IInv, NEW p \in Paths PROVE Reconciled[p] \in Images
  BY DEF Reconciled
<1>1. CASE Open /\ RowsFor(p) # {}
  <2>1. PICK s \in Slots : entry[s] # None /\ entry[s].path = p
    BY <1>1 DEF RowsFor
  <2>2. entry[s] \in Row
    BY <2>1 DEF IInv, TypeOK
  <2> QED BY <1>1, <2>1, <2>2, RowReconciles DEF Row
<1>2. CASE ~(Open /\ RowsFor(p) # {})
  BY <1>2, NoRowReconciles DEF IInv, TypeOK
<1> QED BY <1>1, <1>2

\* Where no row and no manifest status changes, what a later start finds in a
\* file changes only with the file, and only if the file has no row.
LEMMA SameRows ==
  ASSUME UNCHANGED <<manifest, entry, file>> PROVE Reconciled' = Reconciled
BY DEF Reconciled, RowsFor, Open

LEMMA ReconciledInit == Init => Atomic!Init
<1> SUFFICES ASSUME Init PROVE Atomic!Init
  OBVIOUS
<1>1. IInv
  BY InitInv
<1>2. ~Open /\ Open = FALSE
  BY DEF Init, Open
<1>3. Reconciled = file
  BY <1>1, <1>2, ReconciledType DEF Reconciled, Init
<1> QED BY <1>1, <1>2, <1>3, ReconciledType DEF Atomic!Init

\* SaveEntry makes the row of cur durable: its image is what cur holds.
LEMMA SaveEntryReconciles == ASSUME IInv, IInv', SaveEntry PROVE Reconciled' = Reconciled
<1>1. /\ Open /\ Open' /\ file' = file /\ n \in Slots /\ cur \in Paths /\ ~poisoned
      /\ cur \notin known /\ before[n] = file[cur]
      /\ \A s \in Slots : entry[s] # None => s < n /\ entry[s].path \in known
  BY DEF IInv, PhaseInv, MemoryInv, SaveEntry, world, Open
<1>2. CASE entry' = entry
  BY <1>1, <1>2 DEF Reconciled, RowsFor
<1>3. CASE entry' = [entry EXCEPT ![n] = [path |-> cur, image |-> before[n]]]
  <2>1. /\ entry'[n] = [path |-> cur, image |-> before[n]]
        /\ \A s \in Slots : s # n => entry'[s] = entry[s]
    BY <1>1, <1>3 DEF IInv, TypeOK
  <2>2. entry'[n] # None
    BY <1>1, <2>1, ConstantsAssumption DEF IInv, TypeOK, Row
  <2>3. ASSUME NEW c \in Paths, c = cur PROVE Reconciled'[c] = file[c]
    <3>1. entry'[n].path = c /\ entry'[n].image = file[c]
      BY <1>1, <2>1, <2>3
    <3>2. \A s \in Slots : entry'[s] # None /\ entry'[s].path = c <=> s = n
      BY <1>1, <2>1, <2>2, <2>3
    <3>3. ASSUME NEW t \in Slots, t = n PROVE RowsFor(c)' = {t}
      BY <3>2, <3>3 DEF RowsFor
    <3> QED BY <1>1, <3>1, <3>3 DEF Reconciled
  <2>4. Reconciled[cur] = file[cur]
    <3>1. RowsFor(cur) = {}
      BY <1>1 DEF RowsFor
    <3> QED BY <1>1, <3>1, NoRowReconciles
  <2>5. ASSUME NEW q \in Paths, q # cur PROVE Reconciled'[q] = Reconciled[q]
    <3>1. RowsFor(q)' = RowsFor(q) /\ n \notin RowsFor(q)
      BY <1>1, <2>1, <2>5 DEF RowsFor, Slots
    <3>2. \A s \in RowsFor(q) : entry'[s] = entry[s]
      BY <2>1, <3>1 DEF RowsFor
    <3>3. CASE RowsFor(q) = {}
      BY <1>1, <3>1, <3>3 DEF Reconciled
    <3>4. CASE RowsFor(q) # {}
      BY <1>1, <3>1, <3>2, <3>4 DEF Reconciled
    <3> QED BY <3>3, <3>4
  <2> QED BY <2>3, <2>4, <2>5 DEF Reconciled
<1> QED BY <1>2, <1>3 DEF SaveEntry

LEMMA MutateWrites ==
  ASSUME IInv, NEW p \in Paths, NEW c \in Images, Mutate(p, c) PROVE Atomic!Write(p, c)
<1>1. /\ Open /\ Open' = Open /\ manifest' = manifest /\ entry' = entry
      /\ file' = [file EXCEPT ![p] = c] /\ RowsFor(p) # {}
  BY DEF IInv, PhaseInv, MemoryInv, Mutate, Running, Open, disk
<1>2. Reconciled' = Reconciled
  <2>1. \A q \in Paths : q # p => file'[q] = file[q]
    BY <1>1 DEF IInv, TypeOK
  <2>2. \A q \in Paths : RowsFor(q)' = RowsFor(q)
    BY <1>1 DEF RowsFor
  <2>3. ASSUME NEW q \in Paths PROVE Reconciled'[q] = Reconciled[q]
    <3>1. CASE RowsFor(q) = {}
      BY <1>1, <2>1, <2>2, <3>1 DEF Reconciled
    <3>2. CASE RowsFor(q) # {}
      <4>1. RowsFor(q)' = RowsFor(q)
        BY <2>2
      <4> QED BY <1>1, <3>2, <4>1 DEF Reconciled
    <3> QED BY <3>1, <3>2
  <2> QED BY <2>3 DEF Reconciled
<1> QED BY <1>1, <1>2 DEF Atomic!Write

LEMMA UndoRowWrites ==
  ASSUME IInv, UndoRow PROVE \E p \in Paths, c \in Images : Atomic!Write(p, c)
<1>1. /\ left - 1 \in Slots /\ entry[left - 1] # None /\ Open
      /\ entry[left - 1] \in Row
  <2>1. left \in Nat /\ n \in Nat /\ pc = "undo" /\ left > 0 /\ Open
    BY DEF IInv, TypeOK, PhaseInv, UndoRow
  <2>2. left - 1 \in Slots /\ left - 1 < n
    BY <2>1, ConstantsAssumption DEF IInv, UndoInv, Slots
  <2>3. entry[left - 1] # None
    BY <2>1, <2>2 DEF IInv, UndoInv
  <2> QED BY <2>1, <2>2, <2>3 DEF IInv, TypeOK
<1> DEFINE p == entry[left - 1].path
           c == entry[left - 1].image
<1>2. p \in Paths /\ c \in Images
  BY <1>1 DEF Row
<1>3. file' = [file EXCEPT ![p] = c]
  BY <1>1 DEF UndoRow, IInv, DiskInv, RowsValid
<1>4. RowsFor(p) # {}
  BY <1>1 DEF RowsFor
<1>5. Open' = Open /\ manifest' = manifest /\ entry' = entry
  BY DEF UndoRow, Open, disk
<1>6. Reconciled' = Reconciled
  <2>1. \A q \in Paths : q # p => file'[q] = file[q]
    BY <1>3 DEF IInv, TypeOK
  <2>2. \A q \in Paths : RowsFor(q)' = RowsFor(q)
    BY <1>5 DEF RowsFor
  <2>3. ASSUME NEW q \in Paths PROVE Reconciled'[q] = Reconciled[q]
    <3>1. CASE RowsFor(q) = {}
      BY <1>4, <1>5, <2>1, <2>2, <3>1 DEF Reconciled
    <3>2. CASE RowsFor(q) # {}
      <4>1. RowsFor(q)' = RowsFor(q)
        BY <2>2
      <4> QED BY <1>1, <1>5, <3>2, <4>1 DEF Reconciled
    <3> QED BY <3>1, <3>2
  <2> QED BY <2>3 DEF Reconciled
<1>7. Atomic!Write(p, c)
  BY <1>1, <1>3, <1>5, <1>6 DEF Atomic!Write
<1> QED BY <1>2, <1>7

\* A marker that becomes durable ends the unit with the files as they are.
LEMMA ClosedReconciles == ASSUME IInv', ~Open' PROVE Reconciled' = file'
BY DEF Reconciled, IInv, TypeOK

LEMMA CommitPublishes == ASSUME IInv, IInv', Commit PROVE Atomic!Publish \/ UNCHANGED Atomic!vars
<1>1. Open /\ manifest \in Manifest /\ file' = file /\ entry' = entry
  BY DEF IInv, TypeOK, PhaseInv, Commit, Open, world
<1>2. CASE manifest' = manifest
  BY <1>1, <1>2, SameRows DEF Open, Atomic!vars
<1>3. CASE manifest' = [manifest EXCEPT !.status = "committed", !.count = n]
  <2>1. Open' = FALSE /\ ~Open'
    BY <1>1, <1>3 DEF Open, Manifest
  <2> QED BY <1>1, <2>1, ClosedReconciles DEF Atomic!Publish
<1> QED BY <1>2, <1>3 DEF Commit

LEMMA MarkUndoneDiscards ==
  ASSUME IInv, IInv', MarkUndone PROVE Atomic!Discard \/ UNCHANGED Atomic!vars
<1>1. /\ Open /\ manifest \in Manifest /\ file' = file /\ entry' = entry /\ left = 0
      /\ \A s \in Slots : entry[s] # None => file[entry[s].path] = entry[s].image
  BY DEF IInv, TypeOK, PhaseInv, UndoInv, MarkUndone, Open, world, Slots
<1>2. CASE manifest' = manifest
  BY <1>1, <1>2, SameRows DEF Open, Atomic!vars
<1>3. CASE manifest' = [manifest EXCEPT !.status = "committed", !.count = n]
  <2>1. Open' = FALSE /\ ~Open'
    BY <1>1, <1>3 DEF Open, Manifest
  <2>2. Reconciled = file
    <3>1. ASSUME NEW p \in Paths PROVE Reconciled[p] = file[p]
      <4>1. CASE RowsFor(p) = {}
        BY <4>1, NoRowReconciles
      <4>2. CASE RowsFor(p) # {}
        <5>1. PICK s \in Slots : entry[s] # None /\ entry[s].path = p
          BY <4>2 DEF RowsFor
        <5> QED BY <1>1, <5>1, RowReconciles
      <4> QED BY <4>1, <4>2
    <3> QED BY <3>1 DEF Reconciled, IInv, TypeOK
  <2>3. Reconciled' = file'
    BY <2>1, ClosedReconciles
  <2> QED BY <1>1, <2>1, <2>2, <2>3 DEF Atomic!Discard
<1> QED BY <1>2, <1>3 DEF MarkUndone

LEMMA BeginOpens ==
  ASSUME IInv, IInv', NEW pruneOnly \in BOOLEAN, Begin(pruneOnly)
  PROVE  Atomic!Begin \/ UNCHANGED Atomic!vars
<1>1. /\ manifest = None /\ file' = file /\ entry' = entry
      /\ \A s \in Slots : entry[s] = None
  BY DEF Begin, world
<1>2. ~Open /\ Open = FALSE
  BY <1>1 DEF Open
<1>3. Reconciled = file
  BY <1>2 DEF Reconciled, IInv, TypeOK
<1>4. Reconciled' = file'
  <2>1. \A p \in Paths : RowsFor(p)' = {}
    BY <1>1 DEF RowsFor
  <2> QED BY <2>1 DEF Reconciled, IInv, TypeOK
<1>5. CASE manifest' = None
  BY <1>1, <1>2, <1>3, <1>4, <1>5 DEF Open, Atomic!vars
<1>6. CASE manifest' # None
  <2>1. Open' = TRUE
    BY <1>6 DEF Begin, Open
  <2> QED BY <1>1, <1>2, <1>3, <1>4, <2>1 DEF Atomic!Begin
<1> QED BY <1>5, <1>6

\* The journal's files are not part of the unit.
LEMMA CleanupStutters == ASSUME IInv, IInv', Cleanup PROVE UNCHANGED Atomic!vars
<1>1. /\ ~Open /\ ~Open' /\ Open = FALSE /\ Open' = FALSE /\ file' = file
  BY DEF IInv, PhaseInv, Cleanup, SweepSlot, SweepManifest, Open, world
<1>2. Reconciled = file
  BY <1>1 DEF Reconciled, IInv, TypeOK
<1>3. Reconciled' = file'
  BY <1>1, ClosedReconciles
<1> QED BY <1>1, <1>2, <1>3 DEF Atomic!vars

LEMMA SaveCountStutters == ASSUME IInv, IInv', SaveCount PROVE UNCHANGED Atomic!vars
<1>1. Open /\ manifest \in Manifest /\ file' = file /\ entry' = entry
  BY DEF IInv, TypeOK, PhaseInv, SaveCount, Open, world
<1>2. Open' = Open
  BY <1>1 DEF SaveCount, Open, IInv, PhaseInv, Manifest
<1> QED BY <1>1, <1>2 DEF Reconciled, RowsFor, Atomic!vars

\* A unit of files changes as AtomicStore says: what a later start finds is
\* replaced as a whole when the committed marker becomes durable, or not at all.
THEOREM ImplementsAtomicStore == Spec => AtomicUpdate
<1>1. Init => Atomic!Init
  BY ReconciledInit
<1>2. IInv /\ IInv' /\ [Next]_vars => [Atomic!Next]_(Atomic!vars)
  <2> SUFFICES ASSUME IInv, IInv', [Next]_vars
               PROVE  Atomic!Next \/ UNCHANGED Atomic!vars
    OBVIOUS
  <2>1. ASSUME UNCHANGED <<manifest, entry, file>> PROVE UNCHANGED Atomic!vars
    BY <2>1, SameRows DEF Open, Atomic!vars
  <2>2. CASE Recover
    <3>1. CASE UndoRow
      BY <3>1, UndoRowWrites DEF Atomic!Next
    <3>2. CASE MarkUndone
      BY <3>2, MarkUndoneDiscards DEF Atomic!Next
    <3>3. CASE StartClean \/ StartCleanup \/ StartUndo
      BY <2>1, <3>3 DEF StartClean, StartCleanup, StartUndo, world, disk
    <3> QED BY <2>2, <3>1, <3>2, <3>3 DEF Recover
  <2>3. CASE StartRefused \/ Environment \/ UNCHANGED vars
    BY <2>1, <2>3 DEF StartRefused, Environment, Die, ToggleGit, vars, world, disk
  <2>4. CASE Cleanup
    BY <2>4, CleanupStutters
  <2>5. CASE Work
    <3>1. CASE \E pruneOnly \in BOOLEAN : Begin(pruneOnly)
      BY <3>1, BeginOpens DEF Atomic!Next
    <3>2. CASE SaveEntry
      BY <3>2, SaveEntryReconciles DEF SaveEntry, IInv, PhaseInv, Open, Atomic!vars, world
    <3>3. CASE SaveCount
      BY <3>3, SaveCountStutters
    <3>4. CASE \E p \in Paths, c \in Images : Mutate(p, c)
      BY <3>4, MutateWrites DEF Atomic!Next
    <3>5. CASE Commit
      BY <3>5, CommitPublishes DEF Atomic!Next
    <3>6. CASE (\E p \in Paths : Remember(p)) \/ CopyImage \/ GitCommit \/ CommitRefused
      BY <2>1, <3>6 DEF Remember, CopyImage, GitCommit, CommitRefused, world, disk
    <3> QED BY <2>5, <3>1, <3>2, <3>3, <3>4, <3>5, <3>6 DEF Work
  <2> QED BY <2>2, <2>3, <2>4, <2>5 DEF Next
<1> QED BY <1>1, <1>2, Invariance, PTL DEF Spec, AtomicUpdate, Atomic!Spec
=============================================================================
