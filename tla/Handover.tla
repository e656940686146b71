------------------------------ MODULE Handover ------------------------------
(***************************************************************************)
(* How a collector hands its captures to the archive task behind it:       *)
(* running the collector (_task_execute, _run_subprocess), its manifest    *)
(* (section(), publish()), and the engine's reading and sealing of it      *)
(* (class Coverage of engine/completeness.py).  A collector that times out *)
(* is abandoned; what it had started may go on writing into the staging    *)
(* directory, and publish its manifest, in the middle of a later run.      *)
(***************************************************************************)
EXTENDS Naturals, FiniteSets, Common

CONSTANTS
    CaptureScopes, \* sections of the collector, disjoint
    FilesOf,       \* scope -> files that may lie in it
    Contents,      \* file contents; a content stands for its hash
    Disabled,      \* scopes switched off by the archive task's sections
    Required,      \* required_sections of the collector task
    CleanOutput,   \* values clean_output of the collector task takes
    MaxCollections \* bound: runs

CaptureFiles == UNION {FilesOf[s] : s \in CaptureScopes}
Listed(s)    == [FilesOf[s] -> Contents \cup {None}]
NoSection(s) == [status |-> "skipped", files |-> [f \in FilesOf[s] |-> None]]

Section(s) == [status : {"complete", "failed", "skipped", "disabled"}, files : Listed(s)]
Manifests  == {g \in [CaptureScopes -> UNION {Section(s) : s \in CaptureScopes}] :
                  \A s \in CaptureScopes : g[s] \in Section(s)}

HandoverAssumption == None \notin Manifests

VARIABLES
    run, phase,
    staging,    \* file -> content or None
    manifest,   \* collection-manifest.json: [run, sections] or None
    collectors, \* collectors at work: [run, todo, sections]
    result,     \* status of the collector task in this run
    coverage,   \* scope -> [status, files]: what the archive task trusts
    sealed,     \* scope -> the private copy of its files, None if there is none
    certified   \* auxiliary: the sections this run's collector published

hvars == <<run, phase, staging, manifest, collectors, result, coverage, sealed, certified>>

Nothing == [s \in CaptureScopes |-> NoSection(s)]

HandoverInit ==
    /\ run = 0 /\ phase = "idle"
    /\ staging = [f \in CaptureFiles |-> None] /\ manifest = None
    /\ collectors = {} /\ result = "none"
    /\ coverage = Nothing /\ sealed = [s \in CaptureScopes |-> None] /\ certified = None

NewRun ==
    /\ phase = "idle" /\ run < MaxCollections
    /\ run' = run + 1
    /\ coverage' = Nothing /\ sealed' = [s \in CaptureScopes |-> None] /\ certified' = None

StartRun ==
    /\ NewRun
    /\ \/ /\ TRUE \in CleanOutput
          /\ staging' = [f \in CaptureFiles |-> None] /\ manifest' = None
       \/ FALSE \in CleanOutput /\ UNCHANGED <<staging, manifest>>
    /\ collectors' = collectors \cup {[run |-> run + 1, todo |-> CaptureScopes, sections |-> Nothing]}
    /\ phase' = "collect" /\ result' = "none"

(* _safe_clean_directory() refuses a directory that is a link or not in    *)
(* staging, or fails on a file that somebody holds after it has removed    *)
(* others: the collector is not started.                                   *)
CleaningFails ==
    /\ NewRun
    /\ TRUE \in CleanOutput
    /\ \E kept \in SUBSET CaptureFiles : staging' = [f \in CaptureFiles |-> IF f \in kept THEN staging[f] ELSE None]
    /\ manifest' \in {manifest, None}
    /\ phase' = "idle" /\ result' = "failed"
    /\ UNCHANGED collectors

-----------------------------------------------------------------------------
(* The collectors: the one of this run, and those abandoned before.        *)

Write(c, s) ==
    /\ s \in c.todo
    /\ \E f \in FilesOf[s], data \in Contents : staging' = [staging EXCEPT ![f] = data]
    /\ UNCHANGED <<run, phase, manifest, collectors, result, coverage, sealed, certified>>

(* section(): a complete section lists the files that lie in it now.       *)
Certify(c, s) ==
    /\ s \in c.todo
    /\ \E status \in {"complete", "failed"} :
         LET files == [f \in FilesOf[s] |-> IF status = "complete" THEN staging[f] ELSE None]
         IN  collectors' = (collectors \ {c}) \cup
               {[c EXCEPT !.todo = @ \ {s}, !.sections[s] = [status |-> status, files |-> files]]}
    /\ UNCHANGED <<run, phase, staging, manifest, result, coverage, sealed, certified>>

(* publish(): one manifest replaces the other, whole.                      *)
PublishManifest(c) ==
    /\ c.todo = {}
    /\ manifest' = [run |-> c.run, sections |-> c.sections]
    /\ collectors' = collectors \ {c}
    /\ IF c.run = run /\ phase = "collect"
       THEN phase' = "ended" /\ certified' = c.sections
       ELSE UNCHANGED <<phase, certified>>
    /\ UNCHANGED <<run, staging, result, coverage, sealed>>

(* The collector ends without publishing: an error, or a program that      *)
(* knows nothing of manifests.                                             *)
EndUnpublished(c) ==
    /\ collectors' = collectors \ {c}
    /\ phase' = IF c.run = run /\ phase = "collect" THEN "ended" ELSE phase
    /\ UNCHANGED <<run, staging, manifest, result, coverage, sealed, certified>>

(* A timeout ends the command, but not always what the command started.    *)
TimeOut ==
    /\ phase = "collect"
    /\ \/ UNCHANGED collectors
       \/ collectors' = {c \in collectors : c.run # run}
    /\ result' = "failed" /\ phase' = "idle"
    /\ UNCHANGED <<run, staging, manifest, coverage, sealed, certified>>

-----------------------------------------------------------------------------
(* Coverage(): what the manifest of this run vouches for, and whose bytes  *)
(* are still there.                                                        *)

(* Variant: any finalized manifest will do.                                *)
OfThisRunAny == manifest # None

OfThisRun == manifest # None /\ manifest.run = run

BytesIntact(s, listed) == \A f \in FilesOf[s] : listed[f] # None => staging[f] = listed[f]

Covered(off) == [s \in CaptureScopes |->
    LET item == manifest.sections[s]
    IN  CASE s \in off -> [item EXCEPT !.status = "disabled"]
          [] s \notin off /\ item.status = "complete" /\ ~BytesIntact(s, item.files)
               -> [item EXCEPT !.status = "failed"]
          [] OTHER -> item]

Partial(sections) == \E s \in CaptureScopes : sections[s].status \in {"failed", "skipped"}

(* Exit code 6 says that sections are missing, which the manifest must     *)
(* confirm; 0 is success unless a required section is not verified; any    *)
(* other code is a failure.  What the archive task switches off counts     *)
(* here: its sections are not the collector's.                             *)
Judge(code) ==
    LET verified == {s \in CaptureScopes : Covered({})[s].status = "complete"}
    IN  CASE code = "other" \/ (code = "6" /\ manifest = None) -> "failed"
          [] code = "6" /\ manifest # None ->
                IF OfThisRun /\ Partial(Covered({})) THEN "partial" ELSE "failed"
          [] OTHER -> IF Required = {} THEN "success"
                      ELSE IF ~OfThisRun THEN "failed"
                      ELSE IF Required \subseteq verified THEN "success" ELSE "partial"

EndCollector ==
    /\ phase = "ended"
    /\ \E code \in {"0", "6", "other"} :
         /\ result' = Judge(code)
         /\ phase' = IF Judge(code) = "failed" THEN "idle" ELSE "cover"
    /\ UNCHANGED <<run, staging, manifest, collectors, coverage, sealed, certified>>

Cover ==
    /\ phase = "cover"
    /\ IF OfThisRun THEN coverage' = Covered(Disabled) /\ phase' = "seal"
                    ELSE phase' = "idle" /\ UNCHANGED coverage
    /\ UNCHANGED <<run, staging, manifest, collectors, result, sealed, certified>>

-----------------------------------------------------------------------------
(* seal(): copy each complete scope once, and hash the copy.               *)

(* Variant: what was checked before is not checked again.                  *)
SealsUnchecked(s, copy) == TRUE

Seals(s, copy) == \A f \in FilesOf[s] : coverage[s].files[f] # None => copy[f] = coverage[s].files[f]

Copy(s) == [f \in FilesOf[s] |-> IF coverage[s].files[f] = None THEN None ELSE staging[f]]

SealScope(s) ==
    /\ phase = "seal" /\ coverage[s].status = "complete" /\ sealed[s] = None
    /\ IF Seals(s, Copy(s))
       THEN sealed' = [sealed EXCEPT ![s] = Copy(s)] /\ UNCHANGED coverage
       ELSE coverage' = [coverage EXCEPT ![s].status = "failed"] /\ UNCHANGED sealed
    /\ UNCHANGED <<run, phase, staging, manifest, collectors, result, certified>>

Sealed ==
    /\ phase = "seal"
    /\ \A s \in CaptureScopes : coverage[s].status = "complete" => sealed[s] # None
    /\ phase' = "idle"
    /\ UNCHANGED <<run, staging, manifest, collectors, result, coverage, sealed, certified>>

HandoverNext ==
    \/ StartRun \/ CleaningFails \/ TimeOut \/ EndCollector \/ Cover \/ Sealed
    \/ \E c \in collectors :
         PublishManifest(c) \/ EndUnpublished(c) \/ \E s \in CaptureScopes : Write(c, s) \/ Certify(c, s)
    \/ \E s \in CaptureScopes : SealScope(s)

-----------------------------------------------------------------------------
(* completeness.py 62-150: whatever abandoned collectors write meanwhile,   *)
(* the archive task stores a scope, and takes the absence of a file from it *)
(* for a deletion, only if the collector of this very run certified it as   *)
(* complete, and then it stores exactly what was certified.                 *)
OnlyCertified ==
    \A s \in CaptureScopes : sealed[s] # None =>
        /\ coverage[s].status = "complete" /\ s \notin Disabled
        /\ certified # None /\ certified[s] = [status |-> "complete", files |-> sealed[s]]
=============================================================================
