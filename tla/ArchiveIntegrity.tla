-------------------------- MODULE ArchiveIntegrity --------------------------
(***************************************************************************)
(* Bounded scrubbing of an archive and the repair of what it finds         *)
(* (recovery/archive_integrity.py).  A scrub checks the versions that are  *)
(* due, the longest unchecked first, within budgets, and keeps evidence    *)
(* per path.  A repair is planned, reviewed, and carried out only if the   *)
(* plan computed again is the same; each file is a transaction of its own. *)
(***************************************************************************)
EXTENDS Naturals, FiniteSets, Common

CONSTANTS
    Paths,       \* archive paths, numbers in the order of their names
    Blobs,       \* file contents; a content stands for its hash as well
    Size,        \* size of the file at each path
    MaxFiles, MaxBytes,  \* budgets of one scrub
    ScrubInterval, \* age at which a checked version is due again
    AgeLimit,    \* age beyond which a verification is overdue
    ScrubGaps,   \* times between two scrubs
    Oldest,      \* bound: ages saturate here
    MaxDisturbances \* bound: versions stored, files and sources changed, repairs

(* What the program guarantees of the constants.                           *)
IntegrityAssumption ==
    /\ Paths \subseteq Nat /\ None \notin Blobs
    /\ Size \in [Paths -> Nat] /\ {MaxFiles, MaxBytes, ScrubInterval} \subseteq Nat \ {0}
    /\ ScrubGaps \subseteq Nat \ {0} /\ {AgeLimit, Oldest, MaxDisturbances} \subseteq Nat

VARIABLES
    version,     \* path -> [expected, content, source]; expected None: no record
    evidence,    \* path -> None or [hash, status, age], integrity.json
    full,        \* age of last_full_verification
    seen,        \* auxiliary: age of the last check that found these bytes at a path
    quarantine,  \* name (a hash) -> contents of that file, or None
    repair,      \* a repair: [pc, plan, todo, path, before]
    disturbances

ivars == <<version, evidence, full, seen, quarantine, repair, disturbances>>

NoRepair == [pc |-> "none", plan |-> None, todo |-> {}, path |-> None, before |-> None]
Tracked  == {p \in Paths : version[p].expected # None}

IntegrityInit ==
    /\ version = [p \in Paths |-> [expected |-> None, content |-> None, source |-> None]]
    /\ evidence = [p \in Paths |-> None] /\ seen = [p \in Paths |-> [c \in Blobs |-> Oldest]]
    /\ full = Oldest
    /\ quarantine \in [Blobs -> Blobs \cup {None}]
    /\ repair = NoRepair /\ disturbances = 0

(* check_version().                                                        *)
Check(p) == CASE version[p].content = None -> "missing"
              [] version[p].content \notin {None, version[p].expected} -> "corrupt"
              [] OTHER -> "verified"

-----------------------------------------------------------------------------
(* scrub().  `cut` files fit into the time budget, at least one.           *)

Plus(age, gap) == IF age + gap > Oldest THEN Oldest ELSE age + gap

(* Variant: evidence is kept as long as the path is there.                 *)
AppliesByPath(p) == p \in Tracked /\ evidence[p] # None

(* Evidence about other bytes than the record now expects is dropped.      *)
Applies(p) == p \in Tracked /\ evidence[p] # None /\ evidence[p].hash = version[p].expected
KeptEvidence(gap) == [p \in Paths |->
    IF Applies(p) THEN [evidence[p] EXCEPT !.age = Plus(@, gap)] ELSE None]

Before(kept, p, q) ==
    LET Age(x) == IF kept[x] = None THEN Oldest + 1 ELSE kept[x].age
    IN  Age(p) > Age(q) \/ (Age(p) = Age(q) /\ p < q)

Bytes(p) == IF version[p].content = None THEN 0 ELSE Size[p]
Fits(acc, p, cut) ==
    Cardinality(acc.checked) < cut /\ acc.used + Bytes(p) <= MaxBytes

(* Variant: the first file that does not fit ends the scrub.               *)
AfterUntilFull(acc, p, cut) ==
    IF Fits(acc, p, cut) /\ acc.open
    THEN [acc EXCEPT !.checked = @ \cup {p}, !.used = @ + Bytes(p)]
    ELSE [acc EXCEPT !.open = FALSE]

(* A file that does not fit is deferred; smaller ones after it still go.   *)
After(acc, p, cut) ==
    IF Fits(acc, p, cut)
    THEN [acc EXCEPT !.checked = @ \cup {p}, !.used = @ + Bytes(p)]
    ELSE acc

(* The files that are due, taken in order: pass[left] is the scrub when    *)
(* only those in `left` are still to come.                                 *)
Within(kept, cut) ==
    LET due == {p \in Tracked : kept[p] = None \/ kept[p].age >= ScrubInterval}
        pass[left \in SUBSET due] ==
            IF left = due THEN [checked |-> {}, used |-> 0, open |-> TRUE]
            ELSE LET p == CHOOSE p \in due \ left :
                             \A q \in due \ left : q = p \/ Before(kept, q, p)
                 IN  After(pass[left \cup {p}], p, cut)
    IN  pass[{}].checked

Scrub ==
    /\ repair.pc \in {"none", "planned"}
    /\ \E gap \in ScrubGaps, cut \in 1..MaxFiles :
        LET kept    == KeptEvidence(gap)
            checked == Within(kept, cut)
        IN  /\ evidence' = [p \in Paths |->
                IF p \in checked
                THEN [hash |-> version[p].expected, status |-> Check(p), age |-> 0]
                ELSE kept[p]]
            /\ seen' = [p \in Paths |-> [c \in Blobs |->
                    IF p \in checked /\ Check(p) = "verified" /\ version[p].content = c THEN 0
                    ELSE Plus(seen[p][c], gap)]]
            /\ LET issues  == {p \in Paths : evidence'[p] # None /\ evidence'[p].status # "verified"}
                   overdue == {p \in Tracked : evidence'[p] = None \/ evidence'[p].age > AgeLimit}
               IN  full' = IF Tracked # {} /\ issues = {} /\ overdue = {} THEN 0
                           ELSE Plus(full, gap)
    /\ UNCHANGED <<version, quarantine, repair, disturbances>>

-----------------------------------------------------------------------------
(* repair_plan() and repair().                                             *)

Repairable(p) == version[p].source = version[p].expected
Plan == [p \in {q \in Tracked : Check(q) # "verified"} |-> version[p]]

PlanRepair ==
    /\ repair.pc = "none" /\ Plan # <<>> /\ disturbances < MaxDisturbances
    /\ repair' = [NoRepair EXCEPT !.pc = "planned", !.plan = [now |-> Plan, state |->
                    [p \in Tracked |-> version[p].expected]]]
    /\ disturbances' = disturbances + 1
    /\ UNCHANGED <<version, evidence, full, seen, quarantine>>

(* The plan is bound to the record of every version and the bytes of each  *)
(* it would repair.                                                        *)
SamePlan == repair.plan = [now |-> Plan, state |-> [p \in Tracked |-> version[p].expected]]

Refuse ==
    /\ repair.pc = "planned" /\ ~SamePlan
    /\ repair' = NoRepair
    /\ UNCHANGED <<version, evidence, full, seen, quarantine, disturbances>>

Apply ==
    /\ repair.pc = "planned" /\ SamePlan
    /\ repair' = [repair EXCEPT !.pc = "next", !.todo = {p \in DOMAIN Plan : Repairable(p)}]
    /\ UNCHANGED <<version, evidence, full, seen, quarantine, disturbances>>

(* The journal remembers the target and, if it will be created, the copy.  *)
BeginRow ==
    /\ repair.pc = "next" /\ repair.todo # {}
    /\ \E p \in {q \in repair.todo : \A o \in repair.todo : q <= o} :
        repair' = [repair EXCEPT !.pc = "open", !.path = p, !.todo = @ \ {p},
                      !.before = [content |-> version[p].content, quarantine |-> quarantine]]
    /\ UNCHANGED <<version, evidence, full, seen, quarantine, disturbances>>

Bad == version[repair.path].content
Undone ==
    /\ version' = [version EXCEPT ![repair.path].content = repair.before.content]
    /\ quarantine' = repair.before.quarantine

(* Variant: a quarantine file is taken for a copy because it is there.     *)
CopyTrustedByName == TRUE

(* A copy of other bytes under that name: the row fails, nothing changes.  *)
CopyTrusted == quarantine[Bad] \in {None, Bad}

Quarantine ==
    /\ repair.pc = "open" /\ Bad # None
    /\ IF CopyTrusted
       THEN /\ quarantine' = [quarantine EXCEPT ![Bad] = IF @ = None THEN Bad ELSE @]
            /\ repair' = [repair EXCEPT !.pc = "saved"]
       ELSE /\ repair' = [repair EXCEPT !.pc = "next"]
            /\ UNCHANGED quarantine
    /\ UNCHANGED <<version, evidence, full, seen, disturbances>>

(* The source may be gone by now: atomic_copy() raises and the row is undone. *)
CopySource ==
    /\ repair.pc = "saved" \/ (repair.pc = "open" /\ Bad = None)
    /\ IF version[repair.path].source = None
       THEN repair' = [repair EXCEPT !.pc = "next"] /\ Undone
       ELSE /\ version' = [version EXCEPT ![repair.path].content = version[repair.path].source]
            /\ repair' = [repair EXCEPT !.pc = "copied"] /\ UNCHANGED quarantine
    /\ UNCHANGED <<evidence, full, seen, disturbances>>

VerifyRow ==
    /\ repair.pc = "copied"
    /\ repair' = [repair EXCEPT !.pc = "next"]
    /\ IF Check(repair.path) = "verified" THEN UNCHANGED <<version, quarantine>> ELSE Undone
    /\ UNCHANGED <<evidence, full, seen, disturbances>>

EndRepair ==
    /\ repair.pc = "next" /\ repair.todo = {}
    /\ repair' = NoRepair
    /\ UNCHANGED <<version, evidence, full, seen, quarantine, disturbances>>

(* The repair dies; the next program under the lock finds the journal.     *)
DieAndReconcile ==
    /\ repair.pc \in {"open", "saved", "copied"}
    /\ Undone /\ repair' = NoRepair
    /\ UNCHANGED <<evidence, full, seen, disturbances>>

-----------------------------------------------------------------------------
(* What happens to the archive and the host meanwhile: a run stores a      *)
(* version or removes one, and a path may be used again; files are damaged *)
(* or lost; sources change.  Copies of earlier repairs may be damaged too:  *)
(* they are arbitrary in IntegrityInit.                                     *)
Free == repair.pc \in {"none", "planned"} /\ disturbances < MaxDisturbances

StoreRecord(p) ==
    /\ Free /\ disturbances' = disturbances + 1 /\ p \notin Tracked
    /\ \E c \in Blobs : version' = [version EXCEPT ![p] =
                              [expected |-> c, content |-> c, source |-> c]]
    /\ UNCHANGED <<evidence, full, seen, quarantine, repair>>

RemoveRecord(p) ==
    /\ Free /\ p \in Tracked
    /\ version' = [version EXCEPT ![p] = [expected |-> None, content |-> None, source |-> None]]
    /\ UNCHANGED <<evidence, full, seen, quarantine, repair, disturbances>>

DamageVersion(p) ==
    /\ Free /\ disturbances' = disturbances + 1 /\ p \in Tracked
    /\ \E c \in Blobs \cup {None} : version' = [version EXCEPT ![p].content = c]
    /\ UNCHANGED <<evidence, full, seen, quarantine, repair>>

ChangeSource(p) ==
    /\ disturbances < MaxDisturbances /\ disturbances' = disturbances + 1 /\ p \in Tracked
    /\ \E c \in Blobs \cup {None} : version' = [version EXCEPT ![p].source = c]
    /\ UNCHANGED <<evidence, full, seen, quarantine, repair>>

RepairStep == \/ Refuse \/ Apply \/ BeginRow \/ Quarantine \/ CopySource \/ VerifyRow
              \/ EndRepair

IntegrityNext ==
    \/ Scrub \/ PlanRepair \/ RepairStep \/ DieAndReconcile
    \/ \E p \in Paths : StoreRecord(p) \/ RemoveRecord(p) \/ DamageVersion(p) \/ ChangeSource(p)

(* Runs, which end with a scrub, are started again and again; a repair that *)
(* was begun goes on. *)
IntegrityFairness == WF_ivars(Scrub \/ RepairStep)
IntegritySpec == IntegrityInit /\ [][IntegrityNext]_ivars /\ IntegrityFairness

-----------------------------------------------------------------------------
(* Types of records, evidence and repairs. *)
IntegrityTypeOK ==
    /\ version \in [Paths -> [{"expected", "content", "source"} -> Blobs \cup {None}]]
    /\ \A p \in Paths : evidence[p] # None =>
           evidence[p] \in [hash : Blobs, status : {"verified", "corrupt", "missing"},
                            age : 0..Oldest]
    /\ repair.pc \in {"none", "planned", "next", "open", "saved", "copied"}
    /\ quarantine \in [Blobs -> Blobs \cup {None}]

(* A full verification is recorded only when every version the archive now *)
(* has, with the bytes its record now expects, was found intact not longer *)
(* ago than the limit (archive_integrity.py 66, 84-93).                    *)
FullMeansAll ==
    full' = 0 /\ evidence' # evidence =>
        \A p \in Tracked : seen'[p][version[p].expected] <= AgeLimit

(* A repair never destroys the bytes it replaces, not even when it dies or *)
(* its source changes: they stay, are in quarantine, or the journal has    *)
(* them; and it leaves a file with the expected bytes or as it was.        *)
RepairKeepsBytes ==
    repair.pc \in {"open", "saved", "copied"} /\ repair'.pc \in {"next", "none"} =>
        LET old == repair.before.content
            new == version'[repair.path].content
        IN  \/ new = old
            \/ new = version[repair.path].expected /\ (old = None \/ quarantine'[old] = old)

JustChecked(p) == p \notin Tracked \/ (Applies(p) /\ evidence[p].age = 0)
=============================================================================
