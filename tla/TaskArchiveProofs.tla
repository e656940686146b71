-------------------------- MODULE TaskArchiveProofs --------------------------
(***************************************************************************)
(* Theorems about TaskArchive, for any keys, sections, tasks, contents,    *)
(* thresholds and bounds, when no undo of a section of a certified task    *)
(* fails: the state document and the archive agree between runs, failed    *)
(* sections keep what they had, complete ones are stored and verified, and *)
(* no source is declared deleted too early, nor too many in one run.       *)
(***************************************************************************)
EXTENDS TaskArchive, TLAPS, FiniteSetTheorems, SequenceTheorems, WellFoundedInduction

\* TaskArchive's UndoFails breaks the agreement for certified tasks.
SectionsUndone == MaxUndoFaults[TRUE] = 0

-----------------------------------------------------------------------------
(* The inductive invariant *)

InSection == pc \in {"store", "delete", "undo"}
Tracked(r) == UNION {FilesOf(r[k]) : k \in Keys}
Held(r) == r.versions \cup r.deleted

\* A version ever stored belongs to one key, and is active or deleted.
Apart(r) ==
    /\ \A k \in Keys : Held(r[k]) \subseteq 1..stored /\ r[k].versions \cap r[k].deleted = {}
    /\ \A k, l \in Keys : k # l => Held(r[k]) \cap Held(r[l]) = {}

\* The records, and those a restart or an undone section brings back, track the
\* files there are, were, or will be.
BooksInv ==
    /\ Apart(rec) /\ bad \subseteq 1..stored
    /\ pc # "undo" => disk = Tracked(rec)
    /\ pc # "idle" => /\ base \in [rec : Records, disk : SUBSET Files]
                      /\ Apart(base.rec) /\ base.disk = Tracked(base.rec)

\* The oldest of the rows u about a file says whether the section began with it,
\* which b tells; without a row, the files d still do.
Recalled(u, d, b, f) ==
    \/ \E i \in 1..Len(u) :
           /\ u[i].file = f /\ (u[i].existed <=> f \in b)
           /\ \A j \in 1..(i - 1) : u[j].file # f
    \/ /\ \A i \in 1..Len(u) : u[i].file # f
       /\ f \in d <=> f \in b

UndoInv ==
    InSection => Apart(before) /\ \A f \in Files : Recalled(undo, disk, Tracked(before), f)

\* Sections are processed one at a time, and what is not yet complete has the
\* records the run began with.
Current(k) == InSection /\ task.scopeOf[k] = scope

SectionInv ==
    /\ pc # "idle" =>
         /\ left \subseteq ScopesUsed /\ \A s \in left : outcome[s] = "none"
         /\ \A k \in Keys : outcome[task.scopeOf[k]] # "complete" /\ ~Current(k)
                                => rec[k] = base.rec[k]
    /\ InSection =>
         /\ scope \in ScopesUsed /\ scope \notin left /\ outcome[scope] = "none"
         /\ todo \subseteq KeysOf(scope)
         /\ \A k \in Keys : before[k] = IF Current(k) THEN base.rec[k] ELSE rec[k]

\* What a complete section made of a key.
Stored(k) ==
    /\ rec[k].active /\ rec[k].missing = 0
    /\ UpToDate(k) /\ Latest(k) \in rec[k].versions /\ Latest(k) \in (1..stored) \ bad

WasMissing == {k \in Keys : base.rec[k].active /\ base.rec[k].versions # {} /\ k \notin Present}
Confirmed(k) == k \in WasMissing /\ base.rec[k].missing + 1 >= Threshold

Missed(k) ==
    /\ rec[k].missing <= base.rec[k].missing + 1
    /\ base.rec[k].active /\ ~rec[k].active => Confirmed(k)

Judged(k) == IF k \in Present THEN Stored(k) ELSE Missed(k)

JudgeInv ==
    /\ pc = "idle" => \A k \in Keys : rec[k].missing <= absent[k]
    /\ pc # "idle" =>
         \A k \in Keys : /\ base.rec[k].missing <= absent[k]
                         /\ outcome[task.scopeOf[k]] = "complete" => Judged(k)
    /\ pc = "store" =>
         \A k \in KeysOf(scope) :
             IF k \in Present /\ k \notin todo THEN Stored(k)
             ELSE rec[k] = base.rec[k] /\ (k \in todo => k \in Present)
    /\ pc = "delete" => /\ \A k \in KeysOf(scope) : Judged(k)
                        /\ \A k \in todo : Confirmed(k)

\* A task of one section declares only as many sources deleted as the guard let.
Dropped == {k \in Keys : base.rec[k].active /\ ~rec[k].active}

GuardInv ==
    ~task.certified =>
        /\ pc = "delete" => Cardinality(WasMissing) <= MaxItems \/ Dropped \cup todo = {}
        /\ pc = "task" => Cardinality(WasMissing) <= MaxItems \/ Dropped = {}

IInv == TypeOK /\ BooksInv /\ UndoInv /\ SectionInv /\ JudgeInv /\ GuardInv

-----------------------------------------------------------------------------
(* Records *)

Row == [file : Files, existed : BOOLEAN]

LEMMA RecordOf ==
    ASSUME NEW r \in Records, NEW k \in Keys
    PROVE  /\ r[k] = [versions |-> r[k].versions, deleted |-> r[k].deleted,
                      active |-> r[k].active, missing |-> r[k].missing]
           /\ r[k].versions \subseteq Versions /\ r[k].deleted \subseteq Versions
           /\ r[k].active \in BOOLEAN /\ r[k].missing \in Nat
BY DEF Records, Record

LEMMA SeenRecord ==
    ASSUME TypeOK, NEW k \in Keys
    PROVE  /\ Seen(k) \in Record
           /\ Seen(k).versions = rec[k].versions /\ Seen(k).deleted = rec[k].deleted
           /\ Seen(k).active = TRUE /\ Seen(k).missing = 0
<1>1. rec[k] \in Record
  BY DEF TypeOK, Records
<1> DEFINE shown == [rec[k] EXCEPT !.active = TRUE]
<1>2. /\ shown \in Record /\ shown.versions = rec[k].versions
      /\ shown.deleted = rec[k].deleted
  BY <1>1 DEF Record
<1>3. shown.active = TRUE
  BY <1>1 DEF Record
<1>4. Seen(k) = [shown EXCEPT !.missing = 0]
  BY DEF Seen
<1> HIDE DEF shown
<1>5. /\ Seen(k) \in Record /\ Seen(k).versions = shown.versions
      /\ Seen(k).deleted = shown.deleted /\ Seen(k).missing = 0
  BY <1>2, <1>4 DEF Record
<1>6. Seen(k).active = shown.active
  BY <1>2, <1>4 DEF Record
<1> QED
  BY <1>2, <1>3, <1>5, <1>6

LEMMA TrackedPair ==
    ASSUME NEW r, NEW v, NEW p
    PROVE  <<v, p>> \in Tracked(r) <=>
               \E k \in Keys : \/ v \in r[k].versions /\ p = "active"
                               \/ v \in r[k].deleted /\ p = "deleted"
BY DEF Tracked, FilesOf

LEMMA TrackedFiles == ASSUME NEW r \in Records PROVE Tracked(r) \subseteq Files
<1> SUFFICES ASSUME NEW f \in Tracked(r) PROVE f \in Files
  OBVIOUS
<1>1. PICK k \in Keys : f \in FilesOf(r[k])
  BY DEF Tracked
<1> QED
  BY <1>1, RecordOf DEF FilesOf, Files

\* A key that has versions has a newest one.
LEMMA MaxIsElement ==
    ASSUME NEW n \in Nat, NEW S \in SUBSET (1..n), S # {}
    PROVE  Max(S) \in S
<1> DEFINE Gaps == {n - x : x \in S}
<1>1. Gaps \subseteq Nat /\ Gaps # {}
  <2>1. \A x \in S : n - x \in Nat
    OBVIOUS
  <2> QED
    BY <2>1
<1>2. PICK a \in Gaps : \A b \in Gaps : ~ (<<b, a>> \in OpToRel(<, Nat))
  <2> HIDE DEF Gaps
  <2> QED
    BY <1>1, NatLessThanWellFounded, WFMin, Zenon
<1>3. \A b \in Gaps : ~ (b < a)
  BY <1>1, <1>2 DEF OpToRel
<1>4. PICK x \in S : a = n - x
  OBVIOUS
<1>5. ASSUME NEW y \in S PROVE x >= y
  <2>1. ~ (n - y < n - x)
    BY <1>3, <1>4
  <2> QED
    BY <2>1
<1> QED
  BY <1>5 DEF Max

\* The newest version is the one just stored.
LEMMA MaxOfNewer ==
    ASSUME NEW S \in SUBSET Nat, NEW v \in Nat, \A w \in S : w < v
    PROVE  Max(S \cup {v}) = v
<1>1. \A y \in S \cup {v} : v >= y
  OBVIOUS
<1>2. \A x \in S \cup {v} : (\A y \in S \cup {v} : x >= y) => x = v
  OBVIOUS
<1> QED
  BY <1>1, <1>2 DEF Max

-----------------------------------------------------------------------------
(* The file journal of a section *)

LEMMA RowRemembered ==
    ASSUME NEW u \in Seq(Row), NEW row \in Row, NEW d, NEW d2, NEW b,
           row.existed <=> row.file \in d,
           \A f \in Files : f # row.file => (f \in d2 <=> f \in d),
           \A f \in Files : Recalled(u, d, b, f)
    PROVE  \A f \in Files : Recalled(Append(u, row), d2, b, f)
<1> DEFINE w == Append(u, row)
<1>1. /\ Len(w) = Len(u) + 1 /\ Len(u) \in Nat
      /\ \A i \in 1..Len(u) : w[i] = u[i]
      /\ w[Len(u) + 1] = row
  BY AppendProperties, LenProperties
<1> HIDE DEF w
<1> SUFFICES ASSUME NEW f \in Files PROVE Recalled(w, d2, b, f)
  BY DEF w
<1>2. CASE \E i \in 1..Len(u) : /\ u[i].file = f /\ (u[i].existed <=> f \in b)
                                /\ \A j \in 1..(i - 1) : u[j].file # f
  <2>1. PICK i \in 1..Len(u) : /\ u[i].file = f /\ (u[i].existed <=> f \in b)
                               /\ \A j \in 1..(i - 1) : u[j].file # f
    BY <1>2
  <2>2. i \in 1..Len(w) /\ w[i] = u[i] /\ \A j \in 1..(i - 1) : w[j] = u[j]
    BY <1>1
  <2> QED
    BY <2>1, <2>2 DEF Recalled
<1>3. CASE (\A i \in 1..Len(u) : u[i].file # f) /\ (f \in d <=> f \in b)
  <2>1. CASE f = row.file
    <3>1. /\ Len(w) \in 1..Len(w) /\ w[Len(w)] = row
          /\ \A j \in 1..(Len(w) - 1) : w[j].file # f
      BY <1>1, <1>3
    <3>2. row.existed <=> f \in b
      BY <1>3, <2>1
    <3> QED
      BY <2>1, <3>1, <3>2 DEF Recalled
  <2>2. CASE f # row.file
    <3>1. \A i \in 1..Len(w) : w[i].file # f
      BY <1>1, <1>3, <2>2
    <3>2. f \in d2 <=> f \in b
      BY <1>3, <2>2
    <3> QED
      BY <3>1, <3>2 DEF Recalled
  <2> QED
    BY <2>1, <2>2
<1> QED
  BY <1>2, <1>3 DEF Recalled

LEMMA RowUndone ==
    ASSUME NEW u \in Seq(Row), u # <<>>, NEW d, NEW d2, NEW b,
           d2 = IF u[Len(u)].existed THEN d \cup {u[Len(u)].file} ELSE d \ {u[Len(u)].file},
           \A f \in Files : Recalled(u, d, b, f)
    PROVE  \A f \in Files : Recalled(SubSeq(u, 1, Len(u) - 1), d2, b, f)
<1> DEFINE w == SubSeq(u, 1, Len(u) - 1)
           row == u[Len(u)]
<1>1. Len(u) \in Nat \ {0}
  BY EmptySeq
<1>2. \A i \in 1..(Len(u) - 1) : u[i] \in Row
  BY <1>1, ElementOfSeq
<1>3. Len(w) = Len(u) - 1 /\ \A i \in 1..(Len(u) - 1) : w[i] = u[i]
  <2> DEFINE n == Len(u) - 1
  <2>1. n \in Nat /\ n \in Int /\ 1 \in Int /\ n = n - 1 + 1
    BY <1>1
  <2> HIDE DEF n
  <2>2. \A i \in 1..n : u[i] \in Row
    BY <1>2 DEF n
  <2>3. /\ Len(SubSeq(u, 1, n)) = IF 1 <= n THEN n - 1 + 1 ELSE 0
        /\ \A i \in 1..(n - 1 + 1) : SubSeq(u, 1, n)[i] = u[1 + i - 1]
    BY <2>1, <2>2, SubSeqProperties
  <2> QED
    BY <2>1, <2>3 DEF n
<1> HIDE DEF w
<1> SUFFICES ASSUME NEW f \in Files PROVE Recalled(w, d2, b, f)
  BY DEF w
<1>4. CASE \E i \in 1..Len(u) : /\ u[i].file = f /\ (u[i].existed <=> f \in b)
                                /\ \A j \in 1..(i - 1) : u[j].file # f
  <2>1. PICK i \in 1..Len(u) : /\ u[i].file = f /\ (u[i].existed <=> f \in b)
                               /\ \A j \in 1..(i - 1) : u[j].file # f
    BY <1>4
  <2>2. CASE i = Len(u)
    <3>1. row.file = f /\ (row.existed <=> f \in b)
      BY <2>1, <2>2
    <3>2. \A j \in 1..Len(w) : w[j].file # f
      BY <1>1, <1>3, <2>1, <2>2
    <3>3. f \in d2 <=> f \in b
      BY <3>1
    <3> QED
      BY <3>2, <3>3 DEF Recalled
  <2>3. CASE i # Len(u)
    <3>1. i \in 1..Len(w) /\ w[i] = u[i] /\ \A j \in 1..(i - 1) : w[j] = u[j]
      BY <1>1, <1>3, <2>3
    <3> QED
      BY <2>1, <3>1 DEF Recalled
  <2> QED
    BY <2>2, <2>3
<1>5. CASE (\A i \in 1..Len(u) : u[i].file # f) /\ (f \in d <=> f \in b)
  <2>1. row.file # f
    BY <1>1, <1>5
  <2>2. (f \in d2 <=> f \in b) /\ \A i \in 1..Len(w) : w[i].file # f
    BY <1>1, <1>3, <1>5, <2>1
  <2> QED
    BY <2>2 DEF Recalled
<1> QED
  BY <1>4, <1>5 DEF Recalled

\* With no rows left, the files are those the section began with.
LEMMA NothingLeftToUndo ==
    ASSUME NEW d \in SUBSET Files, NEW b \in SUBSET Files,
           \A f \in Files : Recalled(<<>>, d, b, f)
    PROVE  d = b
<1>1. \A f \in Files : f \in d <=> f \in b
  BY DEF Recalled
<1> QED
  BY <1>1

-----------------------------------------------------------------------------
(* What a step leaves alone *)

LEMMA StoredKept ==
    ASSUME NEW k \in Keys, Stored(k), rec'[k] = rec[k], UNCHANGED <<src, bad>>,
           1..stored \subseteq 1..stored', \A v \in 1..stored : hash'[v] = hash[v]
    PROVE  Stored(k)'
BY DEF Stored, UpToDate, Latest

LEMMA JudgedKept ==
    ASSUME NEW k \in Keys, Judged(k), rec'[k] = rec[k], UNCHANGED <<src, bad, base>>,
           1..stored \subseteq 1..stored', \A v \in 1..stored : hash'[v] = hash[v]
    PROVE  Judged(k)'
<1>1. CASE k \in Present
  BY <1>1, StoredKept DEF Judged, Present
<1>2. CASE k \notin Present
  BY <1>2 DEF Judged, Missed, Confirmed, WasMissing, Present
<1> QED
  BY <1>1, <1>2

-----------------------------------------------------------------------------
(* Steps between runs *)

LEMMA InitIInv == Init => IInv
<1> SUFFICES ASSUME Init PROVE IInv
  OBVIOUS
<1>1. NewRecord \in Record /\ NewRecord.versions = {} /\ NewRecord.deleted = {}
      /\ NewRecord.missing = 0
  BY DEF NewRecord, Record
<1>2. rec \in Records /\ before \in Records
  BY <1>1 DEF Init, Records
<1>3. TypeOK
  <2>1. undo \in Seq([file : Files, existed : BOOLEAN])
    BY EmptySeq DEF Init
  <2>2. src \in [Keys -> Contents \cup {None}] /\ stored \in 0..MaxVersions
    BY TaskArchiveAssumption DEF Init
  <2>3. bounds \in Nat \X Nat \X Nat
    BY DEF Init, bounds
  <2>4. /\ outcome \in [Scopes -> {"none", "complete", "failed"}]
        /\ reported \in [Scopes -> {"complete", "failed"}]
        /\ hash \in [Versions -> Contents \cup {None}] /\ absent \in [Keys -> Nat]
    BY DEF Init
  <2>5. /\ task \in Tasks /\ disk \subseteq Files /\ bad \subseteq Versions
        /\ pc \in {"idle", "task", "store", "delete", "undo"} /\ left \subseteq Scopes
        /\ scope \in Scopes \cup {None} /\ todo \subseteq Keys /\ committed \in BOOLEAN
        /\ base = None
    BY DEF Init
  <2> QED
    BY <1>2, <2>1, <2>2, <2>3, <2>4, <2>5 DEF TypeOK
<1>4. BooksInv
  <2>1. \A k \in Keys : rec[k] = NewRecord
    BY DEF Init
  <2>2. Tracked(rec) = {}
    BY <1>1, <2>1 DEF Tracked, FilesOf
  <2>3. Apart(rec)
    BY <1>1, <2>1 DEF Apart, Held
  <2> QED
    BY <2>2, <2>3 DEF Init, BooksInv
<1>5. JudgeInv
  <2>1. \A k \in Keys : rec[k].missing = 0 /\ absent[k] = 0
    BY <1>1 DEF Init
  <2> QED
    BY <2>1 DEF Init, JudgeInv
<1> QED
  BY <1>3, <1>4, <1>5 DEF Init, IInv, UndoInv, InSection, SectionInv, GuardInv

LEMMA ChangeIInv ==
    ASSUME IInv, NEW k \in Keys, NEW c \in Contents \cup {None}, Change(k, c) PROVE IInv'
<1>1. /\ pc = "idle" /\ src' = [src EXCEPT ![k] = c]
      /\ UNCHANGED <<task, rec, hash, disk, stored, bad, pc, reported, left, scope, todo, undo,
                     before, committed, outcome, base, runs, faults, undoFaults, absent>>
  BY DEF Change, storage, section, bounds
<1>2. TypeOK'
  BY <1>1 DEF IInv, TypeOK, bounds
<1>3. BooksInv'
  BY <1>1 DEF IInv, BooksInv, Apart, Tracked
<1> QED
  BY <1>1, <1>2, <1>3 DEF IInv, UndoInv, InSection, SectionInv, JudgeInv, GuardInv

LEMMA DamageIInv == ASSUME IInv, NEW v \in Versions, Damage(v) PROVE IInv'
<1>1. /\ pc = "idle" /\ bad' = bad \cup {v} /\ faults' = faults + 1
      /\ \E place \in {"active", "deleted"} : <<v, place>> \in disk
      /\ UNCHANGED <<task, src, rec, hash, disk, stored, pc, reported, left, scope, todo, undo,
                     before, committed, outcome, base, runs, undoFaults, absent>>
  BY DEF Damage, storage, section
<1>2. TypeOK'
  BY <1>1 DEF IInv, TypeOK, bounds
<1>3. v \in 1..stored
  BY <1>1, TrackedPair DEF IInv, BooksInv, Apart, Held
<1>4. BooksInv'
  BY <1>1, <1>3 DEF IInv, BooksInv, Apart, Tracked
<1> QED
  BY <1>1, <1>2, <1>4 DEF IInv, UndoInv, InSection, SectionInv, JudgeInv, GuardInv

LEMMA StartIInv ==
    ASSUME IInv, NEW status \in [Scopes -> {"complete", "failed"}], Start(status) PROVE IInv'
<1>1. /\ pc = "idle" /\ pc' = "task" /\ runs' = runs + 1 /\ base' = [rec |-> rec, disk |-> disk]
      /\ reported' = status /\ left' = ScopesUsed /\ committed' = FALSE
      /\ outcome' = [s \in Scopes |-> "none"]
      /\ UNCHANGED <<task, src, rec, hash, disk, stored, bad, scope, todo, undo, before, faults,
                     undoFaults, absent>>
  BY DEF Start, storage, section
<1>2. \A k \in Keys : task.scopeOf[k] \in Scopes
  BY TaskArchiveAssumption DEF IInv, TypeOK, Task
<1>3. ScopesUsed \subseteq Scopes
  BY <1>2 DEF ScopesUsed
<1>9. /\ base' \in [rec : Records, disk : SUBSET Files]
      /\ base'.rec = rec /\ base'.disk = disk
  BY <1>1 DEF IInv, TypeOK
<1>4. TypeOK'
  <2>1. bounds' \in Nat \X Nat \X Nat
    BY <1>1 DEF IInv, TypeOK, bounds
  <2>2. outcome' \in [Scopes -> {"none", "complete", "failed"}]
    BY <1>1
  <2> QED
    BY <1>1, <1>3, <1>9, <2>1, <2>2 DEF IInv, TypeOK
<1>5. BooksInv'
  <2>1. Apart(rec)' /\ disk = Tracked(rec) /\ (bad \subseteq 1..stored)'
    BY <1>1 DEF IInv, BooksInv, Apart
  <2>2. Apart(base.rec)'
    BY <1>1, <1>9, <2>1 DEF Apart
  <2>3. disk' = Tracked(rec)' /\ (base.disk = Tracked(base.rec))'
    BY <1>1, <1>9, <2>1 DEF Tracked
  <2> QED
    BY <1>1, <1>9, <2>1, <2>2, <2>3 DEF BooksInv
<1>6. SectionInv'
  BY <1>1, <1>2, <1>3 DEF SectionInv, InSection, ScopesUsed
<1>7. JudgeInv'
  BY <1>1, <1>2 DEF IInv, JudgeInv
<1>8. GuardInv'
  BY <1>1 DEF GuardInv, Dropped
<1> QED
  BY <1>1, <1>4, <1>5, <1>6, <1>7, <1>8 DEF IInv, UndoInv, InSection

-----------------------------------------------------------------------------
(* Sections begin and end *)

LEMMA SkipScopeIInv == ASSUME IInv, NEW s \in Scopes, SkipScope(s) PROVE IInv'
<1>1. /\ pc = "task" /\ s \in left /\ left' = left \ {s}
      /\ outcome' = [outcome EXCEPT ![s] = "failed"]
      /\ UNCHANGED <<task, src, rec, hash, disk, stored, bad, pc, reported, scope, todo, undo,
                     before, committed, base, runs, faults, undoFaults, absent>>
  BY DEF SkipScope, storage, section, bounds
<1>2. \A k \in Keys : task.scopeOf[k] \in Scopes
  BY TaskArchiveAssumption DEF IInv, TypeOK, Task
<1>3. \A t \in Scopes : outcome'[t] = IF t = s THEN "failed" ELSE outcome[t]
  BY <1>1 DEF IInv, TypeOK
<1>4. TypeOK'
  BY <1>1 DEF IInv, TypeOK, bounds
<1>5. BooksInv'
  BY <1>1 DEF IInv, BooksInv, Apart, Tracked
<1>6. SectionInv'
  <2>1. left \subseteq Scopes /\ outcome[s] = "none"
    BY <1>1 DEF IInv, TypeOK, SectionInv
  <2>2. \A k \in Keys : outcome'[task.scopeOf[k]] # "complete" => rec[k] = base.rec[k]
    BY <1>1, <1>2, <1>3, <2>1 DEF IInv, SectionInv, Current, InSection
  <2> QED
    BY <1>1, <1>3, <2>1, <2>2 DEF IInv, SectionInv, Current, InSection, ScopesUsed
<1>7. JudgeInv'
  <2>1. \A k \in Keys : outcome'[task.scopeOf[k]] = "complete" => Judged(k)
    BY <1>1, <1>2, <1>3 DEF IInv, JudgeInv
  <2>2. \A k \in Keys : outcome'[task.scopeOf[k]] = "complete" => Judged(k)'
    BY <1>1, <2>1, JudgedKept
  <2> QED
    BY <1>1, <2>2 DEF IInv, JudgeInv
<1>8. GuardInv'
  BY <1>1 DEF IInv, GuardInv, Dropped, WasMissing, Present
<1> QED
  BY <1>1, <1>4, <1>5, <1>6, <1>7, <1>8 DEF IInv, UndoInv, InSection

LEMMA BeginScopeIInv == ASSUME IInv, NEW s \in Scopes, BeginScope(s) PROVE IInv'
<1>1. /\ pc = "task" /\ s \in left /\ left' = left \ {s} /\ scope' = s
      /\ todo' = KeysOf(s) \cap Present /\ undo' = <<>> /\ before' = rec /\ pc' = "store"
      /\ UNCHANGED <<task, src, rec, hash, disk, stored, bad, reported, committed, outcome,
                     base, runs, faults, undoFaults, absent>>
  BY DEF BeginScope, storage, bounds
<1>2. \A k \in Keys : task.scopeOf[k] \in Scopes
  BY TaskArchiveAssumption DEF IInv, TypeOK, Task
<1>3. outcome[s] = "none"
  BY <1>1 DEF IInv, SectionInv
<1>4. TypeOK'
  <2>1. undo' \in Seq([file : Files, existed : BOOLEAN])
    BY <1>1, EmptySeq
  <2> QED
    BY <1>1, <2>1 DEF IInv, TypeOK, bounds, KeysOf
<1>5. BooksInv'
  BY <1>1 DEF IInv, BooksInv, Apart, Tracked
<1>6. UndoInv'
  <2>1. disk' = Tracked(before)' /\ Apart(before)'
    BY <1>1 DEF IInv, BooksInv, Apart, Tracked
  <2> HIDE DEF Tracked
  <2>2. \A f \in Files : Recalled(<<>>, disk', Tracked(before)', f)
    BY <2>1, EmptySeq DEF Recalled
  <2> QED
    BY <1>1, <2>1, <2>2 DEF UndoInv
<1>7. SectionInv'
  <2>1. s \in ScopesUsed'
    BY <1>1 DEF IInv, SectionInv, ScopesUsed
  <2> QED
    BY <1>1, <1>2, <1>3, <2>1 DEF IInv, SectionInv, Current, InSection, KeysOf, ScopesUsed
<1>8. JudgeInv'
  <2>1. \A k \in Keys : outcome'[task.scopeOf[k]] = "complete" => Judged(k)'
    BY <1>1, JudgedKept DEF IInv, JudgeInv
  <2>2. \A k \in KeysOf(s) : k \in Keys /\ rec[k] = base.rec[k]
    BY <1>1, <1>3 DEF IInv, SectionInv, Current, InSection, KeysOf
  <2>3. \A k \in KeysOf(s) : k \in Present => k \in todo'
    BY <1>1
  <2>4. KeysOf(s)' = KeysOf(s) /\ Present' = Present /\ todo' \subseteq Present
    BY <1>1 DEF KeysOf, Present
  <2> QED
    BY <1>1, <2>1, <2>2, <2>3, <2>4 DEF IInv, JudgeInv
<1>9. GuardInv'
  BY <1>1 DEF GuardInv
<1> QED
  BY <1>1, <1>4, <1>5, <1>6, <1>7, <1>8, <1>9 DEF IInv

LEMMA CompleteScopeIInv == ASSUME IInv, CompleteScope PROVE IInv'
<1>1. /\ pc = "delete" /\ todo = {} /\ committed' = TRUE /\ undo' = <<>> /\ scope' = None
      /\ outcome' = [outcome EXCEPT ![scope] = "complete"] /\ pc' = "task"
      /\ UNCHANGED <<task, src, rec, hash, disk, stored, bad, reported, left, todo, before,
                     base, runs, faults, undoFaults, absent>>
  BY DEF CompleteScope, storage, bounds
<1>2. \A k \in Keys : task.scopeOf[k] \in Scopes
  BY TaskArchiveAssumption DEF IInv, TypeOK, Task
<1>3. /\ scope \in Scopes /\ scope \notin left
      /\ \A t \in Scopes : outcome'[t] = IF t = scope THEN "complete" ELSE outcome[t]
  BY <1>1, <1>2 DEF IInv, TypeOK, SectionInv, InSection, ScopesUsed
<1>4. TypeOK'
  <2>1. undo' \in Seq([file : Files, existed : BOOLEAN])
    BY <1>1, EmptySeq
  <2> QED
    BY <1>1, <2>1 DEF IInv, TypeOK, bounds
<1>5. BooksInv'
  BY <1>1 DEF IInv, BooksInv, Apart, Tracked
<1>6. SectionInv'
  BY <1>1, <1>2, <1>3 DEF IInv, TypeOK, SectionInv, Current, InSection, ScopesUsed
<1>7. JudgeInv'
  <2>1. \A k \in Keys : outcome'[task.scopeOf[k]] = "complete" => Judged(k)
    BY <1>1, <1>2, <1>3 DEF IInv, JudgeInv, KeysOf
  <2>2. \A k \in Keys : outcome'[task.scopeOf[k]] = "complete" => Judged(k)'
    BY <1>1, <2>1, JudgedKept
  <2> QED
    BY <1>1, <2>2 DEF IInv, JudgeInv
<1>8. GuardInv'
  BY <1>1 DEF IInv, GuardInv, Dropped, WasMissing, Present
<1> QED
  BY <1>1, <1>4, <1>5, <1>6, <1>7, <1>8 DEF IInv, UndoInv, InSection

LEMMA FinishIInv == ASSUME IInv, Finish PROVE IInv'
<1>1. /\ pc = "task" /\ left = {} /\ base' = None /\ pc' = "idle"
      /\ absent' = [k \in Keys |-> IF outcome[task.scopeOf[k]] # "complete" THEN absent[k]
                                   ELSE IF k \in Present THEN 0 ELSE absent[k] + 1]
      /\ UNCHANGED <<task, src, rec, hash, disk, stored, bad, reported, left, scope, todo, undo,
                     before, committed, outcome, runs, faults, undoFaults>>
  BY DEF Finish, storage, section, bounds
<1>2. TypeOK'
  <2>1. absent' \in [Keys -> Nat]
    BY <1>1 DEF IInv, TypeOK
  <2> QED
    BY <1>1, <2>1 DEF IInv, TypeOK, bounds
<1>3. BooksInv'
  BY <1>1 DEF IInv, BooksInv, Apart, Tracked
<1>4. JudgeInv'
  <2> SUFFICES ASSUME NEW k \in Keys PROVE rec[k].missing <= absent'[k]
    BY <1>1 DEF JudgeInv
  <2>1. /\ rec[k].missing \in Nat /\ base.rec[k].missing \in Nat /\ absent[k] \in Nat
        /\ base.rec[k].missing <= absent[k]
    BY <1>1, RecordOf DEF IInv, TypeOK, BooksInv, JudgeInv
  <2>2. CASE outcome[task.scopeOf[k]] # "complete"
    BY <1>1, <2>1, <2>2 DEF IInv, SectionInv, Current, InSection
  <2>3. CASE outcome[task.scopeOf[k]] = "complete"
    <3>1. Judged(k)
      BY <1>1, <2>3 DEF IInv, JudgeInv
    <3> QED
      BY <1>1, <2>1, <2>3, <3>1 DEF Judged, Stored, Missed
  <2> QED
    BY <2>2, <2>3
<1> QED
  BY <1>1, <1>2, <1>3, <1>4 DEF IInv, UndoInv, InSection, SectionInv, GuardInv

-----------------------------------------------------------------------------
(* Steps that replace one record of the section *)

\* The other records are as they were.
LEMMA OthersKept ==
    ASSUME IInv, InSection, InSection', NEW k \in Keys, task.scopeOf[k] = scope,
           \A l \in Keys : l # k => rec'[l] = rec[l],
           UNCHANGED <<task, src, bad, left, scope, before, outcome, base, absent>>,
           1..stored \subseteq 1..stored', \A v \in 1..stored : hash'[v] = hash[v],
           todo' \subseteq todo
    PROVE  /\ SectionInv'
           /\ \A l \in Keys : outcome[task.scopeOf[l]] = "complete" => l # k /\ Judged(l)'
           /\ \A l \in Keys : base.rec[l].missing <= absent[l]
           /\ KeysOf(scope)' = KeysOf(scope) /\ Present' = Present
<1>1. outcome[scope] = "none" /\ pc # "idle" /\ pc' # "idle"
  BY DEF IInv, SectionInv, InSection
<1>2. SectionInv'
  BY <1>1 DEF IInv, SectionInv, Current, ScopesUsed, KeysOf
<1>3. ASSUME NEW l \in Keys, outcome[task.scopeOf[l]] = "complete" PROVE l # k /\ Judged(l)'
  <2>1. l # k /\ Judged(l)
    BY <1>1, <1>3 DEF IInv, JudgeInv
  <2> QED
    BY <2>1, JudgedKept
<1> QED
  BY <1>1, <1>2, <1>3 DEF IInv, JudgeInv, KeysOf, Present

\* A record with the same versions tracks the same files.
LEMMA SameVersions ==
    ASSUME \A l \in Keys : rec'[l].versions = rec[l].versions /\ rec'[l].deleted = rec[l].deleted,
           UNCHANGED <<stored, disk, bad, base>>, BooksInv, pc # "undo", pc' # "undo",
           pc # "idle", pc' # "idle"
    PROVE  BooksInv'
<1>1. Tracked(rec)' = Tracked(rec)
  BY DEF Tracked, FilesOf
<1>2. Apart(rec)'
  BY DEF BooksInv, Apart, Held
<1>3. Apart(base.rec)' /\ Tracked(base.rec)' = Tracked(base.rec)
  BY DEF BooksInv, Apart, Tracked
<1> QED
  BY <1>1, <1>2, <1>3 DEF BooksInv

LEMMA KeepVersionIInv == ASSUME IInv, NEW k \in Keys, KeepVersion(k) PROVE IInv'
<1>1. /\ pc = "store" /\ k \in todo /\ UpToDate(k) /\ Verified(Latest(k))
      /\ rec' = [rec EXCEPT ![k] = Seen(k)] /\ todo' = todo \ {k}
      /\ UNCHANGED <<task, src, hash, disk, bad, stored, pc, reported, left, scope, undo, before,
                     committed, outcome, base, runs, faults, undoFaults, absent>>
  BY DEF KeepVersion, bounds
<1>2. /\ rec'[k] = Seen(k) /\ \A l \in Keys : l # k => rec'[l] = rec[l]
  BY <1>1 DEF IInv, TypeOK, Records
<1>3. InSection /\ InSection' /\ task.scopeOf[k] = scope
  BY <1>1 DEF IInv, SectionInv, InSection, KeysOf
<1>4. TypeOK'
  <2>1. Seen(k) \in Record
    BY SeenRecord DEF IInv
  <2>2. rec' \in Records
    BY <1>1, <2>1 DEF IInv, TypeOK, Records
  <2> QED
    BY <1>1, <2>2 DEF IInv, TypeOK, bounds
<1>5. \A l \in Keys : rec'[l].versions = rec[l].versions /\ rec'[l].deleted = rec[l].deleted
  BY <1>2, SeenRecord DEF IInv
<1>6. BooksInv'
  BY <1>1, <1>5, SameVersions DEF IInv
<1>7. UndoInv'
  BY <1>1 DEF IInv, UndoInv, InSection, Apart, Tracked
<1>8. /\ SectionInv'
      /\ \A l \in Keys : outcome[task.scopeOf[l]] = "complete" => l # k /\ Judged(l)'
      /\ \A l \in Keys : base.rec[l].missing <= absent[l]
      /\ KeysOf(scope)' = KeysOf(scope) /\ Present' = Present
  BY <1>1, <1>2, <1>3, OthersKept
<1>9. JudgeInv'
  <2>1. Stored(k)'
    <3>1. Latest(k)' = Latest(k)
      BY <1>5 DEF Latest
    <3>2. UpToDate(k)'
      BY <1>1, <1>5, <3>1 DEF UpToDate
    <3>3. Latest(k) \in (1..stored) \ bad
      BY <1>1, TrackedPair DEF Verified, IInv, BooksInv, Apart, Held
    <3>4. rec'[k].active /\ rec'[k].missing = 0
      BY <1>2, SeenRecord DEF IInv
    <3>5. Latest(k) \in rec[k].versions
      <4>1. rec[k].versions \subseteq 1..stored /\ stored \in Nat
        BY DEF IInv, TypeOK, BooksInv, Apart, Held
      <4> QED
        BY <1>1, <4>1, MaxIsElement DEF UpToDate, Latest
    <3> QED
      BY <1>1, <1>5, <3>1, <3>2, <3>3, <3>4, <3>5 DEF Stored
  <2>2. ASSUME NEW l \in KeysOf(scope)
        PROVE  IF l \in Present /\ l \notin todo' THEN Stored(l)'
               ELSE rec'[l] = base.rec[l] /\ (l \in todo' => l \in Present)
    <3>1. CASE l = k
      BY <1>1, <2>1, <3>1 DEF IInv, JudgeInv
    <3>2. CASE l # k
      <4>1. rec'[l] = rec[l] /\ l \in Keys
        BY <1>2, <3>2 DEF KeysOf
      <4>2. CASE l \in Present /\ l \notin todo
        BY <1>1, <2>2, <4>1, <4>2, StoredKept DEF IInv, JudgeInv
      <4>3. CASE ~(l \in Present /\ l \notin todo)
        BY <1>1, <2>2, <3>2, <4>1, <4>3 DEF IInv, JudgeInv
      <4> QED
        BY <4>2, <4>3
    <3> QED
      BY <3>1, <3>2
  <2> QED
    BY <1>1, <1>8, <2>2 DEF JudgeInv
<1>10. GuardInv'
  BY <1>1 DEF GuardInv
<1> QED
  BY <1>4, <1>6, <1>7, <1>8, <1>9, <1>10 DEF IInv

LEMMA StoreVersionIInv == ASSUME IInv, NEW k \in Keys, StoreVersion(k) PROVE IInv'
<1> DEFINE v == stored + 1
           row == [file |-> <<v, "active">>, existed |-> FALSE]
           new == [Seen(k) EXCEPT !.versions = @ \cup {v}]
<1>1. /\ pc = "store" /\ k \in todo /\ stored < MaxVersions /\ stored' = v
      /\ hash' = [hash EXCEPT ![v] = src[k]] /\ undo' = Append(undo, row)
      /\ disk' = disk \cup {<<v, "active">>} /\ rec' = [rec EXCEPT ![k] = new]
      /\ todo' = todo \ {k}
      /\ UNCHANGED <<task, src, bad, pc, reported, left, scope, before, committed, outcome,
                     base, runs, faults, undoFaults, absent>>
  BY DEF StoreVersion, bounds
<1>2. /\ v \in Versions /\ v \in Nat /\ stored \in Nat /\ v \notin 1..stored
      /\ v \in 1..stored' /\ 1..stored \subseteq 1..stored' /\ stored' \in 0..MaxVersions
  <2>1. stored \in Nat /\ MaxVersions \in Nat /\ stored < MaxVersions /\ stored' = stored + 1
    BY <1>1, TaskArchiveAssumption DEF IInv, TypeOK
  <2> QED
    BY <2>1 DEF Versions
<1>3. /\ new \in Record /\ new.versions = rec[k].versions \cup {v}
      /\ new.deleted = rec[k].deleted /\ new.missing = 0
  BY <1>2, SeenRecord DEF IInv, Record
<1>4. new.active = TRUE
  BY <1>2, SeenRecord DEF IInv, Record
<1> HIDE DEF new
<1>5. rec'[k] = new /\ \A l \in Keys : l # k => rec'[l] = rec[l]
  BY <1>1 DEF IInv, TypeOK, Records
<1>6. /\ hash' \in [Versions -> Contents \cup {None}] /\ hash'[v] = src[k]
      /\ \A w \in 1..stored : hash'[w] = hash[w]
  BY <1>1, <1>2 DEF IInv, TypeOK
<1> HIDE DEF v
<1>7. InSection /\ InSection' /\ task.scopeOf[k] = scope
  BY <1>1 DEF IInv, SectionInv, InSection, KeysOf
<1>8. row \in Row /\ undo \in Seq(Row)
  BY <1>2 DEF Row, Files, IInv, TypeOK
<1>9. TypeOK'
  <2>1. rec' \in Records
    BY <1>1, <1>3 DEF IInv, TypeOK, Records
  <2>2. undo' \in Seq([file : Files, existed : BOOLEAN])
    BY <1>1, <1>8, AppendProperties DEF Row
  <2>3. disk' \subseteq Files
    BY <1>1, <1>2 DEF IInv, TypeOK, Files
  <2> QED
    BY <1>1, <1>2, <1>6, <2>1, <2>2, <2>3 DEF IInv, TypeOK, bounds
<1>10. /\ Apart(rec) /\ bad \subseteq 1..stored /\ disk = Tracked(rec)
       /\ base \in [rec : Records, disk : SUBSET Files]
       /\ Apart(base.rec) /\ base.disk = Tracked(base.rec)
  BY <1>1 DEF IInv, BooksInv
<1>11. \A l \in Keys : v \notin Held(rec[l])
  BY <1>2, <1>10 DEF Apart
<1>12. /\ Held(rec'[k]) = Held(rec[k]) \cup {v}
       /\ \A l \in Keys : l # k => Held(rec'[l]) = Held(rec[l])
  BY <1>3, <1>5 DEF Held
<1>13. BooksInv'
  <2>1. Apart(rec)'
    <3>1. \A l \in Keys : Held(rec'[l]) \subseteq 1..stored'
      BY <1>2, <1>10, <1>12 DEF Apart
    <3>2. \A l \in Keys : rec'[l].versions \cap rec'[l].deleted = {}
      BY <1>3, <1>5, <1>10, <1>11 DEF Apart, Held
    <3>3. \A l, m \in Keys : l # m => Held(rec'[l]) \cap Held(rec'[m]) = {}
      BY <1>10, <1>11, <1>12 DEF Apart
    <3> QED
      BY <3>1, <3>2, <3>3 DEF Apart
  <2>2. disk' = Tracked(rec')
    <3>1. Tracked(rec') = UNION {FilesOf(rec'[l]) : l \in Keys}
      BY DEF Tracked
    <3>2. FilesOf(rec'[k]) = FilesOf(rec[k]) \cup {<<v, "active">>}
      BY <1>3, <1>5 DEF FilesOf
    <3>3. \A l \in Keys : l # k => FilesOf(rec'[l]) = FilesOf(rec[l])
      BY <1>5 DEF FilesOf
    <3> QED
      BY <1>1, <1>10, <3>2, <3>3 DEF Tracked
  <2>3. Apart(base.rec)' /\ (bad \subseteq 1..stored)'
    BY <1>1, <1>2, <1>10 DEF Apart
  <2> QED
    BY <1>1, <1>10, <2>1, <2>2, <2>3 DEF BooksInv, Tracked
<1>14. UndoInv'
  <2>1. row.existed <=> row.file \in disk
    BY <1>10, <1>11, TrackedPair DEF Held
  <2>2. \A f \in Files : f # row.file => (f \in disk' <=> f \in disk)
    BY <1>1
  <2>3. \A f \in Files : Recalled(Append(undo, row), disk', Tracked(before), f)
    BY <1>7, <1>8, <2>1, <2>2, RowRemembered DEF IInv, UndoInv
  <2>4. Apart(before)'
    BY <1>1, <1>2, <1>7 DEF IInv, UndoInv, Apart
  <2>5. Tracked(before)' = Tracked(before)
    BY <1>1 DEF Tracked
  <2> QED
    BY <1>1, <2>3, <2>4, <2>5 DEF UndoInv
<1>15. /\ SectionInv'
       /\ \A l \in Keys : outcome[task.scopeOf[l]] = "complete" => l # k /\ Judged(l)'
       /\ \A l \in Keys : base.rec[l].missing <= absent[l]
       /\ KeysOf(scope)' = KeysOf(scope) /\ Present' = Present
  BY <1>1, <1>2, <1>5, <1>6, <1>7, OthersKept
<1>16. JudgeInv'
  <2>1. Stored(k)'
    <3>1. Latest(k)' = v
      <4>1. rec[k].versions \in SUBSET Nat /\ \A w \in rec[k].versions : w < v
        BY <1>2, <1>10 DEF Apart, Held, v
      <4> QED
        BY <1>2, <1>3, <1>5, <4>1, MaxOfNewer DEF Latest
    <3>2. UpToDate(k)'
      BY <1>1, <1>3, <1>5, <1>6, <3>1 DEF UpToDate
    <3>3. v \in (1..stored') \ bad'
      BY <1>1, <1>2, <1>10
    <3> QED
      BY <1>3, <1>4, <1>5, <3>1, <3>2, <3>3 DEF Stored
  <2>2. ASSUME NEW l \in KeysOf(scope)
        PROVE  IF l \in Present /\ l \notin todo' THEN Stored(l)'
               ELSE rec'[l] = base.rec[l] /\ (l \in todo' => l \in Present)
    <3>1. CASE l = k
      BY <1>1, <2>1, <3>1 DEF IInv, JudgeInv
    <3>2. CASE l # k
      <4>1. rec'[l] = rec[l] /\ l \in Keys
        BY <1>5, <3>2 DEF KeysOf
      <4>2. CASE l \in Present /\ l \notin todo
        BY <1>1, <1>2, <1>6, <2>2, <4>1, <4>2, StoredKept DEF IInv, JudgeInv
      <4>3. CASE ~(l \in Present /\ l \notin todo)
        BY <1>1, <2>2, <3>2, <4>1, <4>3 DEF IInv, JudgeInv
      <4> QED
        BY <4>2, <4>3
    <3> QED
      BY <3>1, <3>2
  <2> QED
    BY <1>1, <1>15, <2>2 DEF JudgeInv
<1>17. GuardInv'
  BY <1>1 DEF GuardInv
<1> QED
  BY <1>9, <1>13, <1>14, <1>15, <1>16, <1>17 DEF IInv

LEMMA ProcessMissingIInv == ASSUME IInv, ProcessMissing PROVE IInv'
<1> DEFINE missing == IF Guarded(scope) THEN {} ELSE MissingIn(scope)
           counted == [k \in Keys |-> IF k \in missing THEN [rec[k] EXCEPT !.missing = @ + 1]
                                      ELSE rec[k]]
<1>1. /\ pc = "store" /\ todo = {} /\ pc' = "delete"
      /\ rec' = counted /\ todo' = {k \in missing : rec[k].missing + 1 >= Threshold}
      /\ UNCHANGED <<task, src, hash, disk, bad, stored, reported, left, scope, undo, before,
                     committed, outcome, base, runs, faults, undoFaults, absent>>
  BY DEF ProcessMissing, bounds
<1>2. missing \subseteq KeysOf(scope) /\ KeysOf(scope) \subseteq Keys
  BY DEF MissingIn, ActiveIn, KeysOf
<1>3. \A k \in missing : k \notin Present /\ rec[k].active /\ rec[k].versions # {}
  BY DEF MissingIn, ActiveIn
<1>4. \A k \in Keys : rec[k] \in Record /\ rec[k].missing \in Nat
  BY DEF IInv, TypeOK, Records, Record
<1>5. ASSUME NEW k \in Keys
      PROVE  /\ rec'[k] \in Record /\ rec'[k].versions = rec[k].versions
             /\ rec'[k].deleted = rec[k].deleted
             /\ rec'[k].active <=> rec[k].active
             /\ rec'[k].missing = IF k \in missing THEN rec[k].missing + 1 ELSE rec[k].missing
             /\ k \notin missing => rec'[k] = rec[k]
  <2>1. rec'[k] = IF k \in missing THEN [rec[k] EXCEPT !.missing = @ + 1] ELSE rec[k]
    BY <1>1
  <2> HIDE DEF missing
  <2> QED
    BY <1>4, <2>1 DEF Record
<1>6. todo' \subseteq missing
  BY <1>1
<1>7. Guarded(scope) => missing = {}
  OBVIOUS
<1>8. ~Guarded(scope) => missing = MissingIn(scope)
  OBVIOUS
<1>9. \A k \in todo' : rec[k].missing + 1 >= Threshold
  BY <1>1
<1> HIDE DEF missing, counted
<1>10. TypeOK'
  <2>1. rec' \in Records
    BY <1>1, <1>5 DEF Records, counted
  <2> QED
    BY <1>1, <1>2, <1>6, <2>1 DEF IInv, TypeOK, bounds
<1>11. BooksInv'
  BY <1>1, <1>5, SameVersions DEF IInv
<1>12. UndoInv'
  BY <1>1 DEF IInv, UndoInv, InSection, Apart, Tracked
<1>13. KeysOf(scope)' = KeysOf(scope) /\ Present' = Present
  BY <1>1 DEF KeysOf, Present
<1>14. /\ scope \in ScopesUsed /\ scope \notin left /\ outcome[scope] = "none"
       /\ \A k \in Keys : k \in KeysOf(scope) <=> Current(k)
       /\ \A k \in Keys : before[k] = IF Current(k) THEN base.rec[k] ELSE rec[k]
       /\ \A k \in Keys : Current(k)' = Current(k)
  BY <1>1 DEF IInv, SectionInv, InSection, Current, KeysOf
<1>15. \A k \in Keys : ~Current(k) => rec'[k] = rec[k]
  BY <1>2, <1>5, <1>14
<1>16. SectionInv'
  <2>1. pc # "idle" /\ InSection /\ InSection'
    BY <1>1 DEF InSection
  <2> QED
    BY <1>1, <1>2, <1>6, <1>13, <1>14, <1>15, <2>1 DEF IInv, SectionInv, ScopesUsed
<1>17. \A k \in KeysOf(scope) : k \in Present => k \notin missing
  BY <1>3
<1>18. \A k \in KeysOf(scope) : IF k \in Present THEN Stored(k) ELSE rec[k] = base.rec[k]
  BY <1>1 DEF IInv, JudgeInv
<1>19. \A k \in missing : k \in WasMissing
  BY <1>2, <1>3, <1>18 DEF WasMissing
<1>20. \A k \in todo' : Confirmed(k)
  BY <1>2, <1>3, <1>6, <1>9, <1>18, <1>19 DEF Confirmed
<1>21. WasMissing' = WasMissing
  BY <1>1 DEF WasMissing, Present
<1>22. JudgeInv'
  <2>1. ASSUME NEW k \in KeysOf(scope) PROVE Judged(k)'
    <3>1. CASE k \in Present
      BY <1>1, <1>2, <1>5, <1>13, <1>17, <1>18, <3>1, StoredKept DEF Judged
    <3>2. CASE k \notin Present
      <4>1. rec[k] = base.rec[k] /\ k \in Keys
        BY <1>2, <1>18, <3>2
      <4>2. /\ rec'[k].missing <= base.rec[k].missing + 1
            /\ rec'[k].active <=> base.rec[k].active
        BY <1>4, <1>5, <4>1
      <4> QED
        BY <1>1, <1>13, <3>2, <4>2 DEF Judged, Missed
    <3> QED
      BY <3>1, <3>2
  <2>2. ASSUME NEW k \in Keys, outcome[task.scopeOf[k]] = "complete" PROVE Judged(k)'
    <3>1. ~Current(k) /\ Judged(k)
      BY <1>1, <1>14, <2>2 DEF IInv, JudgeInv, Current
    <3> QED
      BY <1>1, <1>15, <3>1, JudgedKept
  <2>3. \A k \in todo' : Confirmed(k)'
    BY <1>1, <1>20, <1>21 DEF Confirmed
  <2> QED
    BY <1>1, <1>13, <2>1, <2>2, <2>3 DEF IInv, JudgeInv
<1>23. GuardInv'
  <2> SUFFICES ASSUME ~task.certified
               PROVE  Cardinality(WasMissing) <= MaxItems \/ Dropped' \cup todo' = {}
    BY <1>1, <1>21 DEF GuardInv
  <2>1. KeysOf(scope) = Keys
    <3>1. PICK l \in Keys : task.scopeOf[l] = scope
      BY <1>14 DEF ScopesUsed
    <3> QED
      BY <3>1, TaskArchiveAssumption DEF IInv, TypeOK, KeysOf
  <2>2. \A k \in Keys : base.rec[k].active => rec[k].active
    BY <1>18, <2>1 DEF Stored
  <2>3. Dropped' = {}
    BY <1>1, <1>5, <2>2 DEF Dropped
  <2>4. CASE Guarded(scope)
    BY <1>6, <1>7, <2>3, <2>4
  <2>5. CASE ~Guarded(scope)
    <3>1. WasMissing \subseteq MissingIn(scope)
      BY <1>18, <2>1 DEF WasMissing, MissingIn, ActiveIn
    <3>2. MissingIn(scope) = WasMissing
      BY <1>8, <1>19, <2>5, <3>1
    <3>3. /\ Cardinality(MissingIn(scope)) \in Nat /\ MaxItems \in Nat
          /\ ~(Cardinality(MissingIn(scope)) > MaxItems)
      <4>1. IsFiniteSet(MissingIn(scope))
        BY <3>2, TaskArchiveAssumption, FS_Subset DEF WasMissing
      <4>2. ~(Cardinality(MissingIn(scope)) > MaxItems)
        BY <2>5 DEF Guarded
      <4> QED
        BY <4>1, <4>2, TaskArchiveAssumption, FS_CardinalityType
    <3> QED
      BY <3>2, <3>3
  <2> QED
    BY <2>4, <2>5
<1> QED
  BY <1>10, <1>11, <1>12, <1>16, <1>22, <1>23 DEF IInv

\* Keys of the section whose files were taken for deleted.
LEMMA OfDelete ==
    ASSUME IInv, pc = "delete", NEW k \in todo
    PROVE  /\ k \in Keys /\ task.scopeOf[k] = scope /\ InSection
           /\ Confirmed(k) /\ k \notin Present /\ Missed(k)
           /\ rec[k] \in Record /\ base.rec[k].missing \in Nat
<1>1. k \in KeysOf(scope) /\ InSection
  BY DEF IInv, SectionInv, InSection
<1>2. Confirmed(k) /\ Judged(k)
  BY <1>1 DEF IInv, JudgeInv
<1>3. base.rec \in Records
  BY DEF IInv, BooksInv
<1> QED
  BY <1>1, <1>2, <1>3 DEF KeysOf, Confirmed, WasMissing, Judged, IInv, TypeOK, Records, Record

LEMMA DeletingKept ==
    ASSUME IInv, pc = "delete", pc' = "delete", NEW k \in todo,
           \A l \in Keys : l # k => rec'[l] = rec[l],
           Missed(k)', todo' \subseteq todo,
           UNCHANGED <<task, src, hash, bad, stored, left, scope, before, outcome, base, absent>>
    PROVE  SectionInv' /\ JudgeInv'
<1>1. k \in Keys /\ task.scopeOf[k] = scope /\ InSection /\ InSection' /\ k \notin Present
  BY OfDelete DEF InSection
<1>2. /\ SectionInv'
      /\ \A l \in Keys : outcome[task.scopeOf[l]] = "complete" => l # k /\ Judged(l)'
      /\ \A l \in Keys : base.rec[l].missing <= absent[l]
      /\ KeysOf(scope)' = KeysOf(scope) /\ Present' = Present
  BY <1>1, OthersKept
<1>3. ASSUME NEW l \in KeysOf(scope) PROVE Judged(l)'
  <2>1. CASE l = k
    BY <1>1, <1>2, <2>1 DEF Judged
  <2>2. CASE l # k
    <3>1. l \in Keys /\ Judged(l)
      BY <1>3 DEF IInv, JudgeInv, KeysOf
    <3> QED
      BY <2>2, <3>1, JudgedKept
  <2> QED
    BY <2>1, <2>2
<1>4. \A l \in todo' : Confirmed(l)'
  <2>1. WasMissing' = WasMissing
    BY DEF WasMissing, Present
  <2> QED
    BY <2>1 DEF IInv, JudgeInv, Confirmed
<1> QED
  BY <1>2, <1>3, <1>4 DEF JudgeInv

LEMMA MoveVersionIInv ==
    ASSUME IInv, NEW k \in Keys, NEW v \in Versions, MoveVersion(k, v) PROVE IInv'
<1> DEFINE gone == [file |-> <<v, "active">>, existed |-> TRUE]
           come == [file |-> <<v, "deleted">>, existed |-> FALSE]
           part == [rec EXCEPT ![k].versions = @ \ {v}]
<1>1. /\ pc = "delete" /\ k \in todo /\ v \in rec[k].versions
      /\ UNCHANGED <<task, src, hash, bad, stored, pc, reported, left, scope, todo, before,
                     committed, outcome, base, runs, faults, undoFaults, absent>>
  BY DEF MoveVersion, bounds
<1>2. /\ task.scopeOf[k] = scope /\ InSection /\ Missed(k) /\ rec[k] \in Record
  BY <1>1, OfDelete
<1>3. /\ rec' \in Records
      /\ rec'[k].versions = rec[k].versions \ {v} /\ rec'[k].deleted = rec[k].deleted \cup {v}
      /\ rec'[k].missing = rec[k].missing
      /\ rec'[k].active <=> rec[k].active
      /\ \A l \in Keys : l # k => rec'[l] = rec[l]
  <2>1. rec' = [part EXCEPT ![k].deleted = @ \cup {v}]
    BY DEF MoveVersion
  <2> DEFINE one == [rec[k] EXCEPT !.versions = @ \ {v}]
  <2>6. /\ one \in Record /\ one.versions = rec[k].versions \ {v}
        /\ one.deleted = rec[k].deleted /\ one.missing = rec[k].missing
    BY <1>2 DEF Record
  <2>7. one.active <=> rec[k].active
    BY <1>2 DEF Record
  <2>8. part = [rec EXCEPT ![k] = one]
    OBVIOUS
  <2> HIDE DEF one, part
  <2>9. part \in Records /\ part[k] = one /\ \A l \in Keys : l # k => part[l] = rec[l]
    BY <2>6, <2>8 DEF IInv, TypeOK, Records
  <2>2. /\ part \in Records /\ part[k].versions = rec[k].versions \ {v}
        /\ part[k].deleted = rec[k].deleted /\ part[k].missing = rec[k].missing
        /\ \A l \in Keys : l # k => part[l] = rec[l]
    BY <2>6, <2>9
  <2>3. part[k].active <=> rec[k].active
    BY <2>7, <2>9
  <2> HIDE DEF part
  <2>4. /\ rec' \in Records /\ rec'[k].versions = part[k].versions
        /\ rec'[k].deleted = part[k].deleted \cup {v} /\ rec'[k].missing = part[k].missing
        /\ \A l \in Keys : l # k => rec'[l] = part[l]
    BY <2>1, <2>2 DEF Records, Record
  <2>5. rec'[k].active <=> part[k].active
    BY <2>1, <2>2 DEF Records, Record
  <2> QED
    BY <2>2, <2>3, <2>4, <2>5
<1>4. /\ Apart(rec) /\ bad \subseteq 1..stored /\ disk = Tracked(rec)
      /\ base \in [rec : Records, disk : SUBSET Files]
      /\ Apart(base.rec) /\ base.disk = Tracked(base.rec)
  BY <1>1 DEF IInv, BooksInv
<1>5. /\ <<v, "active">> \in disk /\ <<v, "deleted">> \notin disk
      /\ \A l \in Keys : l # k => v \notin Held(rec[l])
  <2>1. \A l \in Keys : l # k => v \notin Held(rec[l])
    BY <1>1, <1>4 DEF Apart, Held
  <2>2. v \notin rec[k].deleted
    BY <1>1, <1>4 DEF Apart
  <2> QED
    BY <1>1, <1>4, <2>1, <2>2, TrackedPair DEF Held
<1>6. /\ undo' = Append(Append(undo, gone), come)
      /\ disk' = (disk \ {<<v, "active">>}) \cup {<<v, "deleted">>}
  BY <1>5 DEF MoveVersion
<1>7. gone \in Row /\ come \in Row /\ undo \in Seq(Row)
  BY DEF Row, Files, IInv, TypeOK
<1>8. TypeOK'
  <2>1. undo' \in Seq([file : Files, existed : BOOLEAN])
    BY <1>6, <1>7, AppendProperties DEF Row
  <2>2. disk' \subseteq Files
    BY <1>6 DEF IInv, TypeOK, Files
  <2> QED
    BY <1>1, <1>3, <2>1, <2>2 DEF IInv, TypeOK, bounds
<1>9. BooksInv'
  <2>1. Held(rec'[k]) = Held(rec[k])
    BY <1>1, <1>3 DEF Held
  <2>2. \A l \in Keys : Held(rec'[l]) = Held(rec[l])
    BY <1>3, <2>1 DEF Held
  <2>3. Apart(rec)'
    <3>1. \A l \in Keys : rec'[l].versions \cap rec'[l].deleted = {}
      BY <1>3, <1>4 DEF Apart
    <3> QED
      BY <1>1, <1>4, <2>2, <3>1 DEF Apart
  <2>4. disk' = Tracked(rec')
    <3>1. FilesOf(rec'[k]) = (FilesOf(rec[k]) \ {<<v, "active">>}) \cup {<<v, "deleted">>}
      BY <1>1, <1>3 DEF FilesOf
    <3>2. \A l \in Keys : l # k => /\ FilesOf(rec'[l]) = FilesOf(rec[l])
                                   /\ <<v, "active">> \notin FilesOf(rec[l])
      BY <1>3, <1>5 DEF FilesOf, Held
    <3>3. ASSUME NEW f
          PROVE  f \in disk' <=> \E l \in Keys : f \in FilesOf(rec'[l])
      <4>1. f \in disk <=> \E l \in Keys : f \in FilesOf(rec[l])
        BY <1>4 DEF Tracked
      <4>2. <<v, "active">> # <<v, "deleted">>
        OBVIOUS
      <4> HIDE DEF part
      <4> QED
        BY <1>6, <3>1, <3>2, <4>1, <4>2
    <3> QED
      BY <3>3 DEF Tracked
  <2>5. Apart(base.rec)' /\ (base.disk = Tracked(base.rec))'
    BY <1>1, <1>4 DEF Apart, Tracked
  <2> QED
    BY <1>1, <1>4, <2>3, <2>4, <2>5 DEF BooksInv, Tracked
<1>10. UndoInv'
  <2> DEFINE without == disk \ {<<v, "active">>}
             b == Tracked(before)
  <2>1. Append(undo, gone) \in Seq(Row)
    BY <1>7, AppendProperties
  <2>2. \A f \in Files : Recalled(undo, disk, b, f)
    BY <1>2 DEF IInv, UndoInv
  <2>3. \A f \in Files : Recalled(Append(undo, gone), without, b, f)
    <3>1. gone.existed <=> gone.file \in disk
      BY <1>5
    <3>2. \A f \in Files : f # gone.file => (f \in without <=> f \in disk)
      OBVIOUS
    <3> HIDE DEF gone, without, b
    <3> QED
      BY <1>7, <2>2, <3>1, <3>2, RowRemembered
  <2>4. \A f \in Files : Recalled(undo', disk', b, f)
    <3>1. come.existed <=> come.file \in without
      BY <1>5
    <3>2. \A f \in Files : f # come.file => (f \in disk' <=> f \in without)
      BY <1>6
    <3> HIDE DEF gone, come, without, b
    <3> QED
      BY <1>6, <1>7, <2>1, <2>3, <3>1, <3>2, RowRemembered
  <2>5. Apart(before)' /\ Tracked(before)' = Tracked(before)
    BY <1>1, <1>2 DEF IInv, UndoInv, Apart, Tracked
  <2> QED
    BY <2>4, <2>5 DEF UndoInv
<1>11. SectionInv' /\ JudgeInv'
  <2>1. Missed(k)'
    <3>1. Confirmed(k)' <=> Confirmed(k)
      BY <1>1 DEF Confirmed, WasMissing, Present
    <3> QED
      BY <1>1, <1>2, <1>3, <3>1 DEF Missed
  <2> QED
    BY <1>1, <1>3, <2>1, DeletingKept
<1>12. GuardInv'
  <2>1. Dropped' = Dropped
    BY <1>1, <1>3 DEF Dropped
  <2> QED
    BY <1>1, <2>1 DEF IInv, GuardInv, WasMissing, Present
<1> QED
  BY <1>8, <1>9, <1>10, <1>11, <1>12 DEF IInv

LEMMA MarkDeletedIInv == ASSUME IInv, NEW k \in Keys, MarkDeleted(k) PROVE IInv'
<1> DEFINE part == [rec EXCEPT ![k].active = FALSE]
<1>1. /\ pc = "delete" /\ k \in todo /\ todo' = todo \ {k}
      /\ UNCHANGED <<task, src, hash, disk, bad, stored, pc, reported, left, scope, undo, before,
                     committed, outcome, base, runs, faults, undoFaults, absent>>
  BY DEF MarkDeleted, bounds
<1>2. /\ Confirmed(k) /\ rec[k] \in Record /\ base.rec[k].missing \in Nat
  BY <1>1, OfDelete
<1>3. /\ rec' \in Records
      /\ rec'[k].versions = rec[k].versions /\ rec'[k].deleted = rec[k].deleted
      /\ rec'[k].missing = 0
      /\ \A l \in Keys : l # k => rec'[l] = rec[l]
  <2>1. rec' = [part EXCEPT ![k].missing = 0]
    BY DEF MarkDeleted
  <2> DEFINE one == [rec[k] EXCEPT !.active = FALSE]
  <2>3. one \in Record /\ one.versions = rec[k].versions /\ one.deleted = rec[k].deleted
    BY <1>2 DEF Record
  <2>4. part = [rec EXCEPT ![k] = one]
    OBVIOUS
  <2> HIDE DEF one, part
  <2>2. /\ part \in Records /\ part[k].versions = rec[k].versions
        /\ part[k].deleted = rec[k].deleted
        /\ \A l \in Keys : l # k => part[l] = rec[l]
    BY <2>3, <2>4 DEF IInv, TypeOK, Records
  <2> HIDE DEF part
  <2> QED
    BY <2>1, <2>2 DEF Records, Record
<1>4. TypeOK'
  BY <1>1, <1>3 DEF IInv, TypeOK, bounds
<1>5. BooksInv'
  BY <1>1, <1>3, SameVersions DEF IInv
<1>6. UndoInv'
  BY <1>1 DEF IInv, UndoInv, InSection, Apart, Tracked
<1>7. SectionInv' /\ JudgeInv'
  <2>1. Confirmed(k)'
    BY <1>1, <1>2 DEF Confirmed, WasMissing, Present
  <2>2. Missed(k)'
    BY <1>1, <1>2, <1>3, <2>1 DEF Missed
  <2> QED
    BY <1>1, <1>3, <2>2, DeletingKept
<1>8. GuardInv'
  <2>1. Dropped' \subseteq Dropped \cup {k}
    BY <1>1, <1>3 DEF Dropped
  <2> QED
    BY <1>1, <2>1 DEF IInv, GuardInv, WasMissing, Present
<1> QED
  BY <1>4, <1>5, <1>6, <1>7, <1>8 DEF IInv

-----------------------------------------------------------------------------
(* Sections fail, and the program stops *)

LEMMA FailIInv == ASSUME IInv, Fail PROVE IInv'
<1>1. /\ pc \in {"store", "delete"} /\ pc' = "undo" /\ todo' = {}
      /\ faults' = faults \/ faults' = faults + 1
      /\ UNCHANGED <<task, src, rec, hash, disk, stored, bad, reported, left, scope, undo, before,
                     committed, outcome, base, runs, undoFaults, absent>>
  BY DEF Fail, storage
<1>2. TypeOK'
  BY <1>1 DEF IInv, TypeOK, bounds
<1>3. BooksInv'
  BY <1>1 DEF IInv, BooksInv, Apart, Tracked
<1>4. UndoInv'
  BY <1>1 DEF IInv, UndoInv, InSection, Apart, Tracked
<1>5. SectionInv'
  BY <1>1 DEF IInv, SectionInv, InSection, Current, ScopesUsed, KeysOf
<1>6. JudgeInv'
  <2>1. \A k \in Keys : outcome[task.scopeOf[k]] = "complete" => Judged(k)'
    BY <1>1, JudgedKept DEF IInv, JudgeInv
  <2> QED
    BY <1>1, <2>1 DEF IInv, JudgeInv
<1> QED
  BY <1>1, <1>2, <1>3, <1>4, <1>5, <1>6 DEF IInv, GuardInv

LEMMA UndoFileIInv == ASSUME IInv, UndoFile PROVE IInv'
<1> DEFINE row == undo[Len(undo)]
<1>1. /\ pc = "undo" /\ undo # <<>> /\ undo' = SubSeq(undo, 1, Len(undo) - 1)
      /\ disk' = IF row.existed THEN disk \cup {row.file} ELSE disk \ {row.file}
      /\ UNCHANGED <<task, src, rec, hash, stored, bad, pc, reported, left, scope, todo, before,
                     committed, outcome, base, runs, faults, undoFaults, absent>>
  BY DEF UndoFile, bounds
<1>2. undo \in Seq(Row) /\ Len(undo) \in Nat \ {0}
  BY <1>1, EmptySeq DEF IInv, TypeOK, Row
<1>3. row \in Row /\ \A i \in 1..(Len(undo) - 1) : undo[i] \in Row
  BY <1>2, ElementOfSeq
<1>4. TypeOK'
  <2>1. undo' \in Seq([file : Files, existed : BOOLEAN])
    <3>1. Len(undo) - 1 \in Int /\ 1 \in Int
      BY <1>2
    <3> QED
      BY <1>1, <1>3, <3>1, SubSeqProperties DEF Row
  <2>2. disk' \subseteq Files
    BY <1>1, <1>3 DEF IInv, TypeOK, Row
  <2> QED
    BY <1>1, <2>1, <2>2 DEF IInv, TypeOK, bounds
<1>5. BooksInv'
  BY <1>1 DEF IInv, BooksInv, Apart, Tracked
<1>6. UndoInv'
  <2>1. InSection /\ \A f \in Files : Recalled(undo, disk, Tracked(before), f)
    BY <1>1 DEF IInv, UndoInv, InSection
  <2>2. \A f \in Files : Recalled(undo', disk', Tracked(before), f)
    BY <1>1, <1>2, <2>1, RowUndone
  <2>3. Apart(before)' /\ Tracked(before)' = Tracked(before)
    BY <1>1, <2>1 DEF IInv, UndoInv, Apart, Tracked
  <2> QED
    BY <2>2, <2>3 DEF UndoInv
<1>7. SectionInv'
  BY <1>1 DEF IInv, SectionInv, InSection, Current, ScopesUsed, KeysOf
<1>8. JudgeInv'
  <2>1. \A k \in Keys : outcome[task.scopeOf[k]] = "complete" => Judged(k)'
    BY <1>1, JudgedKept DEF IInv, JudgeInv
  <2> QED
    BY <1>1, <2>1 DEF IInv, JudgeInv
<1> QED
  BY <1>1, <1>4, <1>5, <1>6, <1>7, <1>8 DEF IInv, GuardInv

LEMMA ScopeUndoneIInv == ASSUME IInv, ScopeUndone PROVE IInv'
<1>1. /\ pc = "undo" /\ undo = <<>> /\ rec' = before /\ scope' = None /\ pc' = "task"
      /\ outcome' = [outcome EXCEPT ![scope] = "failed"]
      /\ UNCHANGED <<task, src, hash, disk, stored, bad, reported, left, todo, undo, before,
                     committed, base, runs, faults, undoFaults, absent>>
  BY DEF ScopeUndone, bounds
<1>2. \A k \in Keys : task.scopeOf[k] \in Scopes
  BY TaskArchiveAssumption DEF IInv, TypeOK, Task
<1>3. /\ scope \in Scopes /\ scope \notin left /\ outcome[scope] = "none" /\ InSection
      /\ \A t \in Scopes : outcome'[t] = IF t = scope THEN "failed" ELSE outcome[t]
      /\ \A k \in Keys : before[k] = IF Current(k) THEN base.rec[k] ELSE rec[k]
  BY <1>1, <1>2 DEF IInv, TypeOK, SectionInv, InSection, ScopesUsed
<1>4. TypeOK'
  BY <1>1 DEF IInv, TypeOK, bounds
<1>5. Apart(before) /\ disk = Tracked(before)
  <2>1. Tracked(before) \subseteq Files
    BY TrackedFiles DEF IInv, TypeOK
  <2>2. Apart(before) /\ \A f \in Files : Recalled(<<>>, disk, Tracked(before), f)
    BY <1>1, <1>3 DEF IInv, UndoInv
  <2> QED
    BY <2>1, <2>2, NothingLeftToUndo DEF IInv, TypeOK
<1>6. BooksInv'
  <2>1. Apart(rec)' /\ Apart(base.rec)'
    BY <1>1, <1>5 DEF IInv, BooksInv, Apart
  <2>2. disk' = Tracked(rec)' /\ Tracked(base.rec)' = Tracked(base.rec)
    BY <1>1, <1>5 DEF Tracked
  <2> QED
    BY <1>1, <2>1, <2>2 DEF IInv, BooksInv
<1>7. SectionInv'
  <2>1. \A k \in Keys : outcome'[task.scopeOf[k]] # "complete" => rec'[k] = base.rec[k]
    BY <1>1, <1>2, <1>3 DEF IInv, SectionInv, Current
  <2> QED
    BY <1>1, <1>3, <2>1 DEF IInv, TypeOK, SectionInv, InSection, Current, ScopesUsed
<1>8. JudgeInv'
  <2>1. ASSUME NEW k \in Keys, outcome'[task.scopeOf[k]] = "complete" PROVE Judged(k)'
    <3>1. Judged(k) /\ ~Current(k)
      BY <1>1, <1>2, <1>3, <2>1 DEF IInv, JudgeInv, Current
    <3> QED
      BY <1>1, <1>3, <3>1, JudgedKept
  <2> QED
    BY <1>1, <2>1 DEF IInv, JudgeInv
<1>9. GuardInv'
  <2> SUFFICES ASSUME ~task.certified PROVE Dropped' = {}
    BY <1>1 DEF GuardInv
  <2>1. PICK l \in Keys : task.scopeOf[l] = scope
    BY <1>3 DEF IInv, SectionInv, ScopesUsed
  <2>2. \A k \in Keys : Current(k)
    BY <1>3, <2>1, TaskArchiveAssumption DEF IInv, TypeOK, Current
  <2> QED
    BY <1>1, <1>3, <2>2 DEF Dropped
<1> QED
  BY <1>1, <1>4, <1>6, <1>7, <1>8, <1>9 DEF IInv, UndoInv, InSection

\* A start undoes the run journal of a program that stopped in a run.
LEMMA RestartIInv ==
    ASSUME IInv, Restart, pc # "idle", runs' = runs,
           faults' = faults \/ faults' = faults + 1,
           undoFaults' = undoFaults \/ undoFaults' = undoFaults + 1
    PROVE  IInv'
<1>1. /\ rec' = base.rec /\ disk' = base.disk /\ pc' = "idle" /\ base' = None /\ left' = {}
      /\ scope' = None /\ todo' = {} /\ undo' = <<>>
      /\ UNCHANGED <<task, src, hash, bad, stored, reported, before, committed, outcome, absent>>
  BY DEF Restart
<1>2. TypeOK'
  <2>1. undo' \in Seq([file : Files, existed : BOOLEAN])
    BY <1>1, EmptySeq
  <2>2. rec' \in Records /\ disk' \subseteq Files
    BY <1>1 DEF IInv, BooksInv
  <2> QED
    BY <1>1, <2>1, <2>2 DEF IInv, TypeOK, bounds
<1>3. BooksInv'
  BY <1>1 DEF IInv, BooksInv, Apart, Tracked
<1>4. JudgeInv'
  BY <1>1 DEF IInv, JudgeInv
<1> QED
  BY <1>1, <1>2, <1>3, <1>4 DEF IInv, UndoInv, InSection, SectionInv, GuardInv

LEMMA UndoFailsIInv == ASSUME SectionsUndone, IInv, UndoFails PROVE IInv'
<1>1. /\ pc = "undo" /\ undoFaults < MaxUndoFaults[task.certified]
      /\ undoFaults' = undoFaults + 1 /\ runs' = runs /\ faults' = faults
  BY DEF UndoFails
<1>2. ~task.certified
  <2>1. task.certified \in BOOLEAN /\ undoFaults \in Nat
    BY TaskArchiveAssumption DEF IInv, TypeOK, bounds, Task
  <2>2. task.certified => ~(undoFaults < MaxUndoFaults[TRUE])
    BY <2>1 DEF SectionsUndone
  <2> QED
    BY <1>1, <2>1, <2>2
<1>3. Restart
  BY <1>2 DEF UndoFails
<1> QED
  BY <1>1, <1>3, RestartIInv

LEMMA CrashIInv == ASSUME IInv, Crash PROVE IInv'
BY RestartIInv DEF Crash

LEMMA StutterIInv == ASSUME IInv, UNCHANGED vars PROVE IInv'
<1>1. /\ UNCHANGED <<task, src, rec, hash, disk, stored, bad, pc, reported, left, scope, todo>>
      /\ UNCHANGED <<undo, before, committed, outcome, base, runs, faults, undoFaults, absent>>
  BY DEF vars, storage, section, bounds
<1>2. TypeOK'
  BY <1>1 DEF IInv, TypeOK, bounds
<1>3. BooksInv' /\ UndoInv'
  BY <1>1 DEF IInv, BooksInv, UndoInv, InSection, Apart, Tracked
<1>4. SectionInv' /\ GuardInv'
  BY <1>1 DEF IInv, SectionInv, InSection, Current, ScopesUsed, KeysOf, GuardInv, Dropped,
     WasMissing, Present
<1>5. JudgeInv'
  <2>1. KeysOf(scope)' = KeysOf(scope) /\ Present' = Present /\ WasMissing' = WasMissing
    BY <1>1 DEF KeysOf, Present, WasMissing
  <2>2. \A k \in Keys : (Judged(k) => Judged(k)') /\ (Stored(k) => Stored(k)')
    BY <1>1, JudgedKept, StoredKept
  <2>3. KeysOf(scope) \subseteq Keys
    BY DEF KeysOf
  <2> QED
    BY <1>1, <2>1, <2>2, <2>3 DEF IInv, JudgeInv, Confirmed
<1> QED
  BY <1>2, <1>3, <1>4, <1>5 DEF IInv

LEMMA NextIInv == ASSUME SectionsUndone PROVE IInv /\ [Next]_vars => IInv'
<1> SUFFICES ASSUME IInv, [Next]_vars PROVE IInv'
  OBVIOUS
<1>1. CASE UNCHANGED vars
  BY <1>1, StutterIInv
<1>2. CASE Next
  BY <1>2, SectionsUndone, ChangeIInv, DamageIInv, StartIInv, SkipScopeIInv, BeginScopeIInv,
     KeepVersionIInv, StoreVersionIInv, MarkDeletedIInv, MoveVersionIInv, ProcessMissingIInv,
     CompleteScopeIInv, FailIInv, UndoFileIInv, ScopeUndoneIInv, UndoFailsIInv, FinishIInv,
     CrashIInv DEF Next
<1> QED
  BY <1>1, <1>2

\* A run ends by finishing, or by a crash.
LEMMA LeavesTask == ASSUME Next, pc = "task", pc' = "idle" PROVE Finish \/ Restart
BY DEF Next, Change, Damage, Start, SkipScope, BeginScope, KeepVersion, StoreVersion,
   MarkDeleted, MoveVersion, ProcessMissing, CompleteScope, Fail, UndoFile, ScopeUndone,
   UndoFails, Crash

-----------------------------------------------------------------------------
(* Theorems *)

\* The inductive invariant holds in every reachable state.
THEOREM Invariance == ASSUME SectionsUndone PROVE Spec => []IInv
<1>1. Init => IInv
  BY InitIInv
<1>2. IInv /\ [Next]_vars => IInv'
  BY SectionsUndone, NextIInv
<1> QED
  BY <1>1, <1>2, PTL DEF Spec

\* Between runs the state document tracks exactly the files of the archive,
\* whatever failed, was undone or crashed (_backup_scopes, Journal.undo).
THEOREM BooksAlwaysMatch == ASSUME SectionsUndone PROVE Spec => []BooksMatchArchive
<1>1. IInv => BooksMatchArchive
  BY DEF IInv, BooksInv, BooksMatchArchive, ArchiveMatchesState, Tracked
<1> QED
  BY <1>1, Invariance, SectionsUndone, PTL

\* A section that failed keeps the records and files the run began with
\* (_backup_scopes).
THEOREM FailuresPreserve == ASSUME SectionsUndone PROVE Spec => []FailedScopePreserved
<1>1. IInv => FailedScopePreserved
  <2> SUFFICES ASSUME IInv, pc = "task", NEW k \in Keys, outcome[task.scopeOf[k]] = "failed"
               PROVE  rec[k] = base.rec[k] /\ FilesOf(rec[k]) \subseteq disk
    BY DEF FailedScopePreserved
  <2>1. rec[k] = base.rec[k]
    BY DEF IInv, SectionInv, Current, InSection
  <2>2. FilesOf(rec[k]) \subseteq disk
    BY DEF IInv, BooksInv, Tracked
  <2> QED
    BY <2>1, <2>2
<1> QED
  BY <1>1, Invariance, SectionsUndone, PTL

\* A complete section has every source it has now as the newest version of its
\* key, in a file that verifies (_store_discovered, _backup_one_file).
THEOREM CompletionStores == ASSUME SectionsUndone PROVE Spec => []CompleteScopeStored
<1>1. IInv => CompleteScopeStored
  <2> SUFFICES ASSUME IInv, pc = "task", NEW k \in Present,
                      outcome[task.scopeOf[k]] = "complete"
               PROVE  rec[k].active /\ UpToDate(k) /\ Verified(Latest(k))
    BY DEF CompleteScopeStored
  <2>1. Stored(k) /\ k \in Keys
    BY DEF IInv, JudgeInv, Judged, Present
  <2>2. <<Latest(k), "active">> \in disk
    BY <2>1, TrackedPair DEF Stored, IInv, BooksInv
  <2> QED
    BY <2>1, <2>2 DEF Stored, Verified
<1> QED
  BY <1>1, Invariance, SectionsUndone, PTL

\* A source is declared deleted only after Threshold complete scans in a row
\* that did not see it (_process_missing).
THEOREM DeletionsAreConfirmed == ASSUME SectionsUndone PROVE Spec => DeletionConfirmed
<1> DEFINE A == (pc = "task" /\ pc' = "idle") =>
                    \A k \in Keys : (base.rec[k].active /\ ~rec'[k].active)
                                       => absent'[k] >= Threshold
<1>1. IInv /\ [Next]_vars => [A]_vars
  <2> SUFFICES ASSUME IInv, Next, pc = "task", pc' = "idle",
                      NEW k \in Keys, base.rec[k].active, ~rec'[k].active
               PROVE  absent'[k] >= Threshold
    OBVIOUS
  <2>1. /\ base.rec \in Records /\ base.rec[k].missing \in Nat /\ absent[k] \in Nat
        /\ Threshold \in Nat /\ base.rec[k].missing <= absent[k]
    BY TaskArchiveAssumption, RecordOf DEF IInv, TypeOK, BooksInv, JudgeInv
  <2>2. Finish \/ Restart
    BY LeavesTask
  <2>3. CASE Finish
    <3>1. rec' = rec /\ absent'[k] = IF outcome[task.scopeOf[k]] # "complete" THEN absent[k]
                                     ELSE IF k \in Present THEN 0 ELSE absent[k] + 1
      BY <2>3 DEF Finish, storage
    <3>2. outcome[task.scopeOf[k]] = "complete"
      BY <3>1 DEF IInv, SectionInv, Current, InSection
    <3>3. Judged(k)
      BY <3>2 DEF IInv, JudgeInv
    <3>4. k \notin Present /\ Confirmed(k)
      BY <3>1, <3>3 DEF Judged, Stored, Missed
    <3> QED
      BY <2>1, <3>1, <3>2, <3>4 DEF Confirmed
  <2>4. CASE Restart
    BY <2>4 DEF Restart
  <2> QED
    BY <2>2, <2>3, <2>4
<1>2. Spec => []IInv
  BY Invariance, SectionsUndone
<1>3. Spec => [][A]_vars
  BY <1>1, <1>2, PTL DEF Spec
<1> QED
  BY <1>3, PTL DEF DeletionConfirmed

\* A task of one section declares no more sources deleted in one run than
\* deletion.max_items_per_run says (_process_missing).
THEOREM DeletionsAreBounded == ASSUME SectionsUndone PROVE Spec => DeletionsPerRunBounded
<1> DEFINE A == (~task.certified /\ pc = "task" /\ pc' = "idle") =>
                    Cardinality({k \in Keys : base.rec[k].active /\ ~rec'[k].active}) <= MaxItems
<1>1. IInv /\ [Next]_vars => [A]_vars
  <2> DEFINE D == {k \in Keys : base.rec[k].active /\ ~rec'[k].active}
  <2> SUFFICES ASSUME IInv, Next, ~task.certified, pc = "task", pc' = "idle"
               PROVE  Cardinality(D) <= MaxItems
    OBVIOUS
  <2>1. Finish \/ Restart
    BY LeavesTask
  <2>5. MaxItems \in Nat
    BY TaskArchiveAssumption
  <2>2. D = {} => Cardinality(D) <= MaxItems
    <3>1. Cardinality({}) <= MaxItems
      BY <2>5, FS_EmptySet
    <3> HIDE DEF D
    <3> QED
      BY <3>1
  <2>3. CASE Restart
    BY <2>2, <2>3 DEF Restart
  <2>4. CASE Finish
    <3>1. D = Dropped
      BY <2>4 DEF Finish, storage, Dropped
    <3>2. CASE Dropped = {}
      BY <2>2, <3>1, <3>2
    <3>3. CASE Cardinality(WasMissing) <= MaxItems
      <4>1. ASSUME NEW k \in Dropped PROVE k \in WasMissing
        <5>1. outcome[task.scopeOf[k]] = "complete"
          BY DEF Dropped, IInv, SectionInv, Current, InSection
        <5>2. Judged(k)
          BY <5>1 DEF Dropped, IInv, JudgeInv
        <5> QED
          BY <5>2 DEF Dropped, Judged, Stored, Missed, Confirmed
      <4>2. IsFiniteSet(WasMissing)
        BY TaskArchiveAssumption, FS_Subset DEF WasMissing
      <4>3. /\ Cardinality(Dropped) <= Cardinality(WasMissing)
            /\ Cardinality(Dropped) \in Nat /\ Cardinality(WasMissing) \in Nat
        BY <4>1, <4>2, FS_Subset, FS_CardinalityType
      <4>4. Cardinality(Dropped) <= MaxItems
        BY <2>5, <3>3, <4>3
      <4> HIDE DEF D
      <4> QED
        BY <3>1, <4>4
    <3> QED
      BY <3>2, <3>3 DEF IInv, GuardInv
  <2> QED
    BY <2>1, <2>3, <2>4
<1>2. Spec => []IInv
  BY Invariance, SectionsUndone
<1>3. Spec => [][A]_vars
  BY <1>1, <1>2, PTL DEF Spec
<1> QED
  BY <1>3, PTL DEF DeletionsPerRunBounded

\* A source is taken for deleted only when confirmed, and no more of them in one
\* run than the guard allows.
THEOREM DeletionsStayGuarded == ASSUME SectionsUndone PROVE Spec => DeletionsGuarded
BY DeletionsAreConfirmed, DeletionsAreBounded, SectionsUndone DEF DeletionsGuarded
=============================================================================
