---------------------------- MODULE RecoveryDrill ----------------------------
(***************************************************************************)
(* Verifying a setup bundle and rehearsing its recovery on a schedule      *)
(* (recovery/setup_recovery.py).  Every call verifies the bundle; the      *)
(* rehearsal, which verifies it again and relocates it into scratch, is    *)
(* left out while an earlier one still counts that began with the same     *)
(* bytes.  The bundle may change and the clock may be set back between any *)
(* two steps.                                                              *)
(***************************************************************************)
EXTENDS Integers, FiniteSets, Common

CONSTANTS
    Files,       \* files a bundle may hold
    Contents,    \* their contents; a content stands for its hash
    Clock,       \* times the clock may show
    Interval,    \* time a passed rehearsal counts
    KeepResults, \* results kept in the history directory
    MaxChanges   \* bound: changes of the bundle, calls and crashes

VARIABLES
    bundle,      \* [listed, files]: the inventory, None if unreadable, and the files
    marker,      \* last-result.json
    results,     \* times of the results in the history directory
    drill,       \* a call: [pc, at, print, status]
    stood,       \* auxiliary: the last result's and the call's [begun, used, moved]:
                 \* the bundle verified at its start, the one relocated, and whether
                 \* the bundle was changed between the two
    answer,      \* what the last call said of the bundle as it is now
    changes

dvars == <<bundle, marker, results, drill, stood, answer, changes>>

Maybe  == Contents \cup {None}
Setups == [listed : [Files -> Maybe] \cup {None}, files : [Files -> Maybe]]

(* The absence of a bundle is told from every bundle.                      *)
DrillAssumption == None \notin Setups

NoDrill == [pc |-> "idle", at |-> None, print |-> None, status |-> "failed"]

DrillInit ==
    /\ \E f \in [Files -> Maybe] : bundle = [listed |-> f, files |-> f]
    /\ marker = None /\ results = {} /\ drill = NoDrill
    /\ stood = [marker |-> None, call |-> None]
    /\ answer = "none" /\ changes = 0

(* Variant: files beside the listed ones do not matter.                    *)
PassedListed(b) ==
    b.listed # None /\ \A f \in Files : b.listed[f] # None => b.files[f] = b.listed[f]

(* verify(): the listed files have the listed hashes, and there is nothing *)
(* else.                                                                   *)
Passed(b) == b.listed # None /\ b.files = b.listed

(* The hash of the inventory stands for the whole bundle.                  *)
Fingerprint(b) == IF Passed(b) THEN b.listed ELSE None

(* Variant: a passed rehearsal of this path counts, whatever it holds now. *)
CountsByPath(now) ==
    marker # None /\ marker.status = "passed" /\ now - marker.at \in 0..(Interval - 1)

(* The last result still counts: same bytes, passed, young, not of the     *)
(* future.                                                                 *)
Counts(now) ==
    /\ marker # None
    /\ marker.status = "passed"
    /\ Fingerprint(bundle) # None /\ marker.print = Fingerprint(bundle)
    /\ now - marker.at \in 0..(Interval - 1)

BeginDrill ==
    /\ drill.pc = "idle" /\ changes < MaxChanges
    /\ changes' = changes + 1
    /\ \E now \in Clock, force \in BOOLEAN :
         IF ~force /\ Counts(now)
         THEN /\ answer' = "not_due"
              /\ UNCHANGED <<drill, stood>>
         ELSE /\ drill' = [pc |-> "rehearse", at |-> now, print |-> Fingerprint(bundle),
                           status |-> "failed"]
              /\ stood' = [stood EXCEPT !.call =
                     [begun |-> bundle, used |-> None, moved |-> FALSE]]
              /\ answer' = "running"
    /\ UNCHANGED <<bundle, marker, results>>

(* The rehearsal verifies once more, and does not ask whether the bundle   *)
(* is still the one whose fingerprint it will record.                      *)
VerifyAgain ==
    /\ drill.pc = "rehearse"
    /\ drill' = [drill EXCEPT !.pc = IF Passed(bundle) THEN "relocate" ELSE "record"]
    /\ UNCHANGED <<bundle, marker, results, stood, answer, changes>>

(* relocate() verifies again, copies and hashes every file of that         *)
(* inventory, validates the disabled candidate and generates its           *)
(* launchers: either may fail.  Whatever fails is a failed result.         *)
Relocate ==
    /\ drill.pc = "relocate"
    /\ \E valid \in BOOLEAN :
         drill' = [drill EXCEPT !.pc = "record",
                       !.status = IF Passed(bundle) /\ valid THEN "passed" ELSE "failed"]
    /\ stood' = [stood EXCEPT !.call.used = bundle]
    /\ UNCHANGED <<bundle, marker, results, answer, changes>>

Record ==
    /\ drill.pc = "record"
    /\ results' = results \cup {drill.at}
    /\ drill' = [drill EXCEPT !.pc = "mark"]
    /\ UNCHANGED <<bundle, marker, stood, answer, changes>>

Mark ==
    /\ drill.pc = "mark"
    /\ marker' = [at |-> drill.at, print |-> drill.print, status |-> drill.status]
    /\ stood' = [marker |-> stood.call, call |-> None]
    /\ drill' = [drill EXCEPT !.pc = "trim"]
    /\ UNCHANGED <<bundle, results, answer, changes>>

(* The names carry the time: the latest by name stay.                      *)
Kept == {t \in results : Cardinality({u \in results : u > t}) < KeepResults}

Trim ==
    /\ drill.pc = "trim"
    /\ results' = Kept
    /\ answer' = drill.status /\ drill' = NoDrill
    /\ UNCHANGED <<bundle, marker, stood, changes>>

ChangeBundle ==
    /\ changes < MaxChanges
    /\ changes' = changes + 1
    /\ \E f \in Files, c \in Maybe :
         \/ bundle' = [bundle EXCEPT !.files[f] = c]
         \/ bundle' = [bundle EXCEPT !.listed = None]
         \/ bundle' = [listed |-> [bundle.files EXCEPT ![f] = c],
                       files |-> [bundle.files EXCEPT ![f] = c]]
    /\ answer' = "none"
    /\ stood' = IF drill.pc \in {"rehearse", "relocate"}
                THEN [stood EXCEPT !.call.moved = TRUE] ELSE stood
    /\ UNCHANGED <<marker, results, drill>>

DrillDies ==
    /\ drill.pc # "idle" /\ changes < MaxChanges
    /\ changes' = changes + 1 /\ drill' = NoDrill /\ answer' = "died"
    /\ stood' = [stood EXCEPT !.call = None]
    /\ UNCHANGED <<bundle, marker, results>>

DrillNext ==
    \/ BeginDrill \/ VerifyAgain \/ Relocate \/ Record \/ Mark \/ Trim
    \/ ChangeBundle \/ DrillDies

DrillSpec == DrillInit /\ [][DrillNext]_dvars

-----------------------------------------------------------------------------
(* setup_recovery.py 271-281: a call that answers "not_due" has found every *)
(* byte as it was at the start of the call that counts, no file more, no    *)
(* file less, and that call's rehearsal passed.  What it rehearsed are      *)
(* these bytes as well, unless the bundle was changed between the start of  *)
(* that call and its relocation, which the code does not notice.  A result  *)
(* that died on the way never counts.                                       *)
RehearsalStands ==
    answer = "not_due"
        => /\ marker.status = "passed"
           /\ bundle.files = stood.marker.begun.files
           /\ stood.marker.used.files = bundle.files \/ stood.marker.moved
=============================================================================
