------------------------------- MODULE Upkeep -------------------------------
(***************************************************************************)
(* The programs that look after a backup between its runs.  They share     *)
(* nothing but the machine: each keeps its own variables, and whatever one *)
(* of them does leaves those of the others alone, so they are taken side   *)
(* by side.  "subject" is the program a behaviour is about; those it is    *)
(* not about keep nothing.                                                 *)
(***************************************************************************)
EXTENDS RecoveryCopies, RecoveryDrill, TaskIdentity, ArchiveIntegrity, Recorder,
        RecorderControl, Monitoring

(* What the installation and the loaders guarantee of the constants.       *)
ASSUME UpkeepAssumption ==
    /\ RecoveryAssumption /\ DrillAssumption /\ IdentityAssumption /\ IntegrityAssumption
    /\ RecorderAssumption /\ ControlAssumption /\ MonitoringAssumption

VARIABLE subject

others == <<rvars, dvars, tvars, ivars, wvars, nvars, mvars>>
vars   == <<subject, others>>

NoCopies ==
    /\ input = None /\ copies = None /\ latest = None
    /\ refresher = None /\ pruner = None /\ edits = None /\ mishaps = None
NoRehearsal ==
    /\ bundle = None /\ marker = None /\ results = None /\ drill = None /\ stood = None
    /\ answer = None /\ changes = None
NoIdentities ==
    /\ saved = None /\ state = None /\ journal = None /\ program = None /\ source = None
    /\ kept = None /\ taskEdits = None /\ kills = None
NoScrubs ==
    /\ version = None /\ evidence = None /\ full = None /\ seen = None /\ quarantine = None
    /\ repair = None /\ disturbances = None
NoRecorder ==
    /\ backend = None /\ clock = None /\ files = None /\ index = None /\ pending = None
    /\ worker = None /\ back = None /\ deaths = None
NoControl ==
    /\ system = None /\ asked = None /\ native = None /\ file = None /\ anchor = None
    /\ plan = None /\ commands = None /\ orphans = None /\ calls = None /\ upsets = None
NoMonitor ==
    /\ sample = None /\ alert = None /\ outbox = None /\ digestAge = None /\ pc = None
    /\ todo = None /\ events = None /\ told = None /\ owed = None /\ observed = None
    /\ interrupted = None /\ faults = None

Init ==
    /\ subject \in {"copies", "drill", "identity", "integrity", "recording", "control",
                    "monitor"}
    /\ IF subject = "copies" THEN RecoveryInit ELSE NoCopies
    /\ IF subject = "drill" THEN DrillInit ELSE NoRehearsal
    /\ IF subject = "identity" THEN IdentityInit ELSE NoIdentities
    /\ IF subject = "integrity" THEN IntegrityInit ELSE NoScrubs
    /\ IF subject = "recording" THEN RecorderInit ELSE NoRecorder
    /\ IF subject = "control" THEN ControlInit ELSE NoControl
    /\ IF subject = "monitor" THEN MonitorInit ELSE NoMonitor

CopiesOnly    == UNCHANGED <<subject, dvars, tvars, ivars, wvars, nvars, mvars>>
DrillOnly     == UNCHANGED <<subject, rvars, tvars, ivars, wvars, nvars, mvars>>
IdentityOnly  == UNCHANGED <<subject, rvars, dvars, ivars, wvars, nvars, mvars>>
IntegrityOnly == UNCHANGED <<subject, rvars, dvars, tvars, wvars, nvars, mvars>>
RecordingOnly == UNCHANGED <<subject, rvars, dvars, tvars, ivars, nvars, mvars>>
ControlOnly   == UNCHANGED <<subject, rvars, dvars, tvars, ivars, wvars, mvars>>
MonitorOnly   == UNCHANGED <<subject, rvars, dvars, tvars, ivars, wvars, nvars>>

Next ==
    \/ subject = "copies" /\ RecoveryNext /\ CopiesOnly
    \/ subject = "drill" /\ DrillNext /\ DrillOnly
    \/ subject = "identity" /\ IdentityNext /\ IdentityOnly
    \/ subject = "integrity" /\ IntegrityNext /\ IntegrityOnly
    \/ subject = "recording" /\ RecorderNext /\ RecordingOnly
    \/ subject = "control" /\ ControlNext /\ ControlOnly
    \/ subject = "monitor" /\ MonitorNext /\ MonitorOnly

(* What each program is entitled to, when it is the one that runs.         *)
Fairness ==
    /\ WF_wvars(subject = "recording" /\ WorkerStep)
    /\ WF_ivars(subject = "integrity" /\ (Scrub \/ RepairStep))
    /\ WF_mvars(subject = "monitor" /\ MonitorStep)

Spec == Init /\ [][Next]_vars /\ Fairness

-----------------------------------------------------------------------------
(* Recovery exports, the rehearsal, the archive's integrity evidence, and  *)
(* the histories in the state document.                                    *)

(* A bundle that is about to be published holds every selected input as it *)
(* was when the listing ended, but for those edited and edited back; a     *)
(* rehearsal counts only for a bundle with the files its call began with,  *)
(* and relocated these, unless the bundle was changed in between; and      *)
(* renaming or migrating tasks neither mixes their histories nor loses one *)
(* (recovery_assets.py 198-217, recovery_maintenance.py refresh,           *)
(* setup_recovery.py drill, task_lifecycle.py plan, configuration_links.py *)
(* rename).                                                                *)
RecoveryHolds ==
    /\ subject = "copies" => BundlesTogether
    /\ subject = "drill" => RehearsalStands
    /\ subject = "identity" => HistoriesWhole

(* No program takes the last verified bundle of a place, unless the one    *)
(* that was to survive is damaged after it was verified for that very      *)
(* removal, or the only copy of the bytes a repair replaces; and "fully    *)
(* verified" is said of an archive of which every version was found intact *)
(* within the limit; and a retired history stays as it is                  *)
(* (recovery_maintenance.py retain, archive_integrity.py scrub, repair,    *)
(* task_lifecycle.py --retire).                                            *)
NothingLastLost ==
    [][/\ subject = "copies" => LastGoodStays
       /\ subject = "integrity" => FullMeansAll /\ RepairKeepsBytes
       /\ subject = "identity" => RetiredRests]_vars

(* Every version that fits the byte budget is checked again and again,     *)
(* whatever else the archive holds (archive_integrity.py scrub).           *)
EveryVersionChecked ==
    \A p \in Paths :
        Size[p] <= MaxBytes => []<>(subject = "integrity" => JustChecked(p))

-----------------------------------------------------------------------------
(* The performance recorder.                                               *)

(* Every sample file is in the index or named by the note of a capture,    *)
(* and what is registered as ours in the operating system is what is there *)
(* (native_recording.py record, apply).                                    *)
RecordingHolds ==
    /\ subject = "recording" => CapturesAccounted
    /\ subject = "control" => RegistrationTrue

(* After any death the recorder captures again, whatever it left behind    *)
(* and as long as its index is in the order of time: a clock set back      *)
(* between two chunks leaves one that every start refuses from then on     *)
(* (native_recording.py reconcile_capture, record).                        *)
RecorderResumes ==
    <>[](subject = "recording" => InOrder) => []<>(subject = "recording" => Capturing)

-----------------------------------------------------------------------------
(* Monitoring.                                                             *)

(* The monitor's tables are well typed, and every event it has decided has *)
(* reached each channel it is routed to, is pending there, is due again,   *)
(* or died in memory with its process (monitoring.py run).                 *)
NothingDropped == subject = "monitor" => MonitorTypeOK /\ EventsKept

(* An alert opens or closes only when the last distinct observations, as   *)
(* many as the rule asks for, all say so (monitoring.py evaluate).         *)
EvidenceDecides == [][subject = "monitor" => StatusFromEvidence]_vars

(* A problem that stays is told to every channel that can deliver and is   *)
(* routed to, whatever process dies and however many rows of a channel     *)
(* that is down come before it in the batches, as long as these come back  *)
(* slowly enough to leave room: it is queued again after the cooldown, and *)
(* its turn comes (monitoring.py evaluate, drain).                         *)
ProblemTold ==
    RoomLeft =>
        \A a \in Alerts, ch \in Channels \ Dead, s \in Problems :
            Routed(ch, s) => (<>[](subject = "monitor" => Stays(a, s))
                                => []<>(subject = "monitor" => Told(ch, a, s)))
=============================================================================
