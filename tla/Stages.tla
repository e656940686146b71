------------------------------- MODULE Stages -------------------------------
(***************************************************************************)
(* The stages of a run that work on their own: loading the configuration,  *)
(* the collectors, the handover of what they collected, the search for     *)
(* source files, the worktree of a pull request, and retention.  Each has  *)
(* its own variables and is taken by itself.  "subject" is the stage a     *)
(* behaviour is about; those it is not about keep nothing.                 *)
(***************************************************************************)
EXTENDS Retention, Handover, PostgresCollector, SystemCollector, SourceScan, GitWorktrees,
        ConfigLoading

(* What the loaders, the operating system and Git guarantee of the         *)
(* constants.                                                              *)
ASSUME StagesAssumption ==
    /\ RetentionAssumption /\ HandoverAssumption /\ PostgresAssumption /\ HostAssumption
    /\ ScanAssumption /\ WorktreesAssumption /\ LoadingAssumption

VARIABLE subject

stages == <<kvars, hvars, bvars, hostvars, svars, gvars, lvars>>
vars   == <<subject, stages>>

NoRetention ==
    /\ task = None /\ now = None /\ made = None /\ life = None /\ active = None /\ gens = None
    /\ disk = None /\ bad = None /\ pc = None /\ eligible = None /\ doomed = None
    /\ left = None /\ scope = None /\ gone = None /\ base = None /\ failed = None
    /\ faults = None
NoHandover ==
    /\ run = None /\ phase = None /\ staging = None /\ manifest = None /\ collectors = None
    /\ result = None /\ coverage = None /\ sealed = None /\ certified = None
NoPostgres ==
    /\ selected = None /\ pgOff = None /\ todo = None /\ db = None /\ step = None
    /\ sections = None /\ checkpoint = None /\ pgFailures = None /\ pgFiles = None
    /\ pgManifest = None /\ pgCode = None /\ pgFaults = None
NoSystem ==
    /\ host = None /\ hostOff = None /\ chosen = None /\ at = None /\ next = None
    /\ hostFiles = None /\ whole = None /\ partial = None /\ uncertain = None /\ inner = None
    /\ hostFailures = None /\ hostManifest = None /\ hostCode = None /\ hostFaults = None
NoScan ==
    /\ search = None /\ tree = None /\ there = None /\ closed = None /\ scanning = None
    /\ matches = None /\ stack = None /\ visited = None /\ found = None /\ current = None
    /\ keys = None /\ scanned = None /\ reads = None /\ steady = None /\ changes = None
    /\ scans = None
NoWorktrees ==
    /\ registered = None /\ content = None /\ head = None /\ stage = None /\ start = None
    /\ stored = None /\ outcome = None /\ excused = None /\ runs = None /\ gitFaults = None
    /\ moves = None
NoLoading ==
    /\ config = None /\ check = None /\ tasks = None /\ visiting = None /\ done = None
    /\ reason = None

Init ==
    /\ subject \in {"retention", "handover", "postgres", "system", "scan", "worktrees",
                    "loading"}
    /\ IF subject = "retention" THEN RetentionInit ELSE NoRetention
    /\ IF subject = "handover" THEN HandoverInit ELSE NoHandover
    /\ IF subject = "postgres" THEN CollectorInit ELSE NoPostgres
    /\ IF subject = "system" THEN SystemInit ELSE NoSystem
    /\ IF subject = "scan" THEN ScanInit ELSE NoScan
    /\ IF subject = "worktrees" THEN WorktreesInit ELSE NoWorktrees
    /\ IF subject = "loading" THEN LoadInit ELSE NoLoading

RetentionOnly == UNCHANGED <<subject, hvars, bvars, hostvars, svars, gvars, lvars>>
HandoverOnly  == UNCHANGED <<subject, kvars, bvars, hostvars, svars, gvars, lvars>>
PostgresOnly  == UNCHANGED <<subject, kvars, hvars, hostvars, svars, gvars, lvars>>
SystemOnly    == UNCHANGED <<subject, kvars, hvars, bvars, svars, gvars, lvars>>
ScanOnly      == UNCHANGED <<subject, kvars, hvars, bvars, hostvars, gvars, lvars>>
WorktreesOnly == UNCHANGED <<subject, kvars, hvars, bvars, hostvars, svars, lvars>>
LoadingOnly   == UNCHANGED <<subject, kvars, hvars, bvars, hostvars, svars, gvars>>

Next ==
    \/ subject = "retention" /\ RetentionNext /\ RetentionOnly
    \/ subject = "handover" /\ HandoverNext /\ HandoverOnly
    \/ subject = "postgres" /\ CollectorNext /\ PostgresOnly
    \/ subject = "system" /\ SystemNext /\ SystemOnly
    \/ subject = "scan" /\ ScanNext /\ ScanOnly
    \/ subject = "worktrees" /\ WorktreesNext /\ WorktreesOnly
    \/ subject = "loading" /\ LoadNext /\ LoadingOnly

Spec == Init /\ [][Next]_vars

-----------------------------------------------------------------------------
(* Retention.                                                              *)

(* What retention has removed is gone from the state document as well, and *)
(* nothing else is, over the domains of all variables                      *)
(* (_delete_version_file, _retain_items).                                  *)
BooksMatchArchive == subject = "retention" => RetentionTypeOK /\ StateMatchesArchive

(* A policy of nesting tiers without end keeps a version of every bucket   *)
(* of the last tier, however often it has thinned before                   *)
(* (_retention_candidates, docs/retention.md:95).                          *)
BucketsCovered == subject = "retention" => EveryBucketKept

(* The floor of every history, and an intact copy where there was one,     *)
(* survive every run, whatever fails in it (_apply_task_size_limit,        *)
(* validate_survivors).                                                    *)
NeverTooLittle == [][subject = "retention" => FloorKept /\ LastGoodCopyKept]_vars

(* A run without failures leaves nothing for the same run to remove        *)
(* (_apply_task_retention).                                                *)
SecondRunRemovesNothing == [][subject = "retention" => RetentionSettles]_vars

-----------------------------------------------------------------------------
(* Collectors, sources, worktrees, configuration.                          *)

(* What the PostgreSQL collector certifies was read whole in this very     *)
(* run, and so was what the host collector certifies but for outputs it    *)
(* has written in part without a section that fails (HostCompleteIsWhole); *)
(* the archive stores what was certified and takes nothing else for        *)
(* deleted, whatever fails and whoever writes late (collect_postgresql.py, *)
(* collect_system.py, completeness.py).                                    *)
CollectionsHonest ==
    /\ subject = "handover" => OnlyCertified
    /\ subject = "postgres" => ManifestHonest
    /\ subject = "system" => SystemHonest

(* A scan that ends overlooks no file that was there all the time, stores  *)
(* none of the archive's own, reads no directory twice, and leaves no two  *)
(* names that one file system would confuse (_walk_files,                  *)
(* _points_within_backup, _store_discovered).                              *)
FilesFound == subject = "scan" => ScanSound

(* A pull request offers the work of its own run, whatever dead runs have  *)
(* left behind (_prepare_git_pull_request_repo, _finalize_git_repo).       *)
WorktreesSound == subject = "worktrees" => RunsSound

(* A run takes neither a worktree of other people nor the branch in it     *)
(* (_cleanup_registered_branch_worktree, docs/git-storage.md:72).          *)
OthersKept == [][subject = "worktrees" => TheirsKept]_vars

(* An accepted configuration has no cycle of dependencies, no two tasks    *)
(* that share an identity or a collector's output, and the most specific   *)
(* settings (load_config).                                                 *)
LoadingSound == subject = "loading" => AcceptedSound

(* docs/retention.md:27: "min_versions" of a task counts although a named  *)
(* policy sets its sections (normalize_retention); expected to fail.       *)
TaskFloorCounts == subject = "loading" => OwnFloorCounts
=============================================================================
