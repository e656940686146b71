------------------------- MODULE PostgresCollector -------------------------
(***************************************************************************)
(* One run of the PostgreSQL collector                                     *)
(* (collectors/postgresql/collect_postgresql.py): the cluster, then one    *)
(* database after the other, each read by many queries any of which may    *)
(* fail, and the manifest in which each section is certified or not.       *)
(*                                                                         *)
(* A path is the sequence of its parts.  What a query returns is left out; *)
(* a file stands for the rows of one successful query.                     *)
(***************************************************************************)
EXTENDS Naturals, Sequences, FiniteSets, Common, SectionPaths

CONSTANTS
    Databases,    \* the server's databases, in the order of their names
    FoldDatabase, \* database -> its name as a file system without case has it
    Queries,      \* files of a database's inventory, one query each
    Optional,     \* inventory files that are certified afterwards
    Reads,        \* "objects", "schedulers" -> the files each consists of
    Adapters,     \* extension adapter -> its files
    PgSwitches,   \* sets of sections that may be switched off, as paths
    MaxPgFaults   \* bound: queries that fail

DatabaseNames == {Databases[i] : i \in 1..Len(Databases)}

(* The server names no database twice, and no file of an inventory is      *)
(* written by two queries.                                                 *)
PostgresAssumption ==
    /\ Databases \in Seq(DatabaseNames) /\ None \notin DatabaseNames
    /\ \A i, j \in 1..Len(Databases) : Databases[i] = Databases[j] => i = j
    /\ Queries \cap Optional = {}
    /\ DOMAIN Reads = {"objects", "schedulers"}

VARIABLES
    selected, pgOff, \* databases and switches of this run
    todo, db, step,  \* places of the databases left, the one being collected, and how far
    sections,        \* tools.collection_scopes: [path, status]
    checkpoint,      \* the sections before this database
    pgFailures,      \* labels of what failed
    pgFiles,         \* the output directory
    pgManifest,      \* collection-manifest.json
    pgCode,          \* exit code, "running" until then
    pgFaults

bvars == <<selected, pgOff, todo, db, step, sections, checkpoint, pgFailures, pgFiles,
           pgManifest, pgCode, pgFaults>>

Cluster  == {<<"cluster", "server">>, <<"cluster", "globals">>, <<"config", "settings">>}
Raw      == <<"config", "raw">>
Of(d)    == <<"databases", d>>
In(d, p) == Of(d) \o p

(* section_enabled: a switch turns off a path, what is under it, and the    *)
(* group it names.  A file of the cluster is of the group its directory     *)
(* names, one of a database of the group it is collected with.              *)
PgEnabled(p, group) ==
    \A s \in pgOff : s # <<"configuration">> /\ s # <<group>> /\ ~Starts(s, p)

Directories(ps)  == [p \in ps |-> p[1]]
AllOf(ps, group) == [p \in ps |-> group]

PgFolded(p) == [i \in 1..Len(p) |-> IF i = 2 /\ p[1] = "databases" THEN FoldDatabase[p[i]] ELSE p[i]]

(* check_output_name: two outputs may not differ only in case.             *)
Collides(p) == \E f \in pgFiles : f # p /\ PgFolded(f) = PgFolded(p)

KnownPaths == {s.path : s \in sections}

(* select_databases: whatever the patterns of the run leave.               *)
Selectable == SUBSET DatabaseNames

CollectorInit ==
    /\ selected \in Selectable
    /\ pgOff \in PgSwitches
    /\ todo = {i \in 1..Len(Databases) : Databases[i] \in selected}
    /\ db = None /\ step = "cluster"
    /\ sections = {} /\ checkpoint = {} /\ pgFailures = {} /\ pgFiles = {}
    /\ pgManifest = [finalized |-> FALSE, sections |-> {}]
    /\ pgCode = "running" /\ pgFaults = 0

PgAt(s) == pgCode = "running" /\ step = s

PgFails(n) == pgFaults + n <= MaxPgFaults /\ pgFaults' = pgFaults + n

-----------------------------------------------------------------------------
(* capture_file: certify a query once it has been read and fully written.  *)
Captured(ps, group, failed) ==
    {Item(p, IF ~PgEnabled(p, group[p]) THEN "disabled"
             ELSE IF p \in failed \/ Collides(p) THEN "failed" ELSE "complete") : p \in ps}

With(items, status) == {s.path : s \in {x \in items : x.status = status}}

Capture(ps, group, next) ==
    \E failed \in SUBSET {p \in ps : PgEnabled(p, group[p])} :
        LET new == Captured(ps, group, failed)
        IN  /\ PgFails(Cardinality(failed))
            /\ sections' = sections \cup new
            /\ pgFailures' = pgFailures \cup With(new, "failed")
            /\ pgFiles' = pgFiles \cup With(new, "complete")
            /\ step' = next
            /\ UNCHANGED <<selected, pgOff, todo, db, checkpoint, pgManifest, pgCode>>

CaptureCluster == PgAt("cluster") /\ Capture(Cluster, Directories(Cluster), "raw")

(* Opt-in copies of the server's files: all of them, or the section fails. *)
CopyRaw ==
    /\ PgAt("raw")
    /\ IF ~PgEnabled(Raw, "config") THEN UNCHANGED <<sections, pgFailures, pgFiles, pgFaults>>
       ELSE \/ /\ sections' = sections \cup {Item(Raw, "complete")}
               /\ pgFiles' = pgFiles \cup {Raw}
               /\ UNCHANGED <<pgFailures, pgFaults>>
            \/ /\ PgFails(1)
               /\ sections' = sections \cup {Item(Raw, "failed")}
               /\ pgFailures' = pgFailures \cup {Raw}
               /\ UNCHANGED pgFiles
    /\ step' = "next"
    /\ UNCHANGED <<selected, pgOff, todo, db, checkpoint, pgManifest, pgCode>>

(* The server cannot be asked, the role does not see everything, or no     *)
(* database is selected: the manifest stays unfinished.                    *)
Fatal ==
    /\ \/ PgAt("cluster") /\ PgFails(1)
       \/ PgAt("next") /\ selected = {} /\ UNCHANGED pgFaults
    /\ pgCode' = "1"
    /\ UNCHANGED <<selected, pgOff, todo, db, step, sections, checkpoint, pgFailures, pgFiles, pgManifest>>

-----------------------------------------------------------------------------
(* One database.                                                           *)

NextDatabase ==
    /\ PgAt("next")
    /\ \E i \in todo :
         /\ \A j \in todo : i <= j
         /\ todo' = todo \ {i}
         /\ LET d == Databases[i]
            IN  IF PgEnabled(Of(d), "databases")
                THEN /\ db' = d /\ step' = "audit" /\ checkpoint' = sections
                     /\ UNCHANGED sections
                ELSE /\ sections' = sections \cup {Item(Of(d), "disabled")}
                     /\ UNCHANGED <<db, step, checkpoint>>
    /\ UNCHANGED <<selected, pgOff, pgFailures, pgFiles, pgManifest, pgCode, pgFaults>>

(* Connections are allowed, and a read-only role inherits no way to write. *)
Audit ==
    /\ PgAt("audit") /\ step' = "identity"
    /\ UNCHANGED <<selected, pgOff, todo, db, sections, checkpoint, pgFailures, pgFiles, pgManifest, pgCode, pgFaults>>

Identity ==
    /\ PgAt("identity")
    /\ LET ps == {In(db, <<"database">>)} IN Capture(ps, AllOf(ps, "inventory"), "schema")

DumpSchema ==
    /\ PgAt("schema")
    /\ LET p == In(db, <<"schema">>)
       IN  IF PgEnabled(p, "schema")
           THEN /\ ~Collides(p)
                /\ pgFiles' = pgFiles \cup {p}
                /\ sections' = sections \cup {Item(p, "complete")}
           ELSE sections' = sections \cup {Item(p, "disabled")} /\ UNCHANGED pgFiles
    /\ step' = "inventory"
    /\ UNCHANGED <<selected, pgOff, todo, db, checkpoint, pgFailures, pgManifest, pgCode, pgFaults>>

(* Variant: what the database has certified so far is kept.                *)
RolledBackNever == sections

RolledBack == checkpoint

(* An error outside what one section catches fails the whole database: a   *)
(* directory or a file that cannot be written, a path that cannot be       *)
(* looked up, whatever has been certified by then.                         *)
DatabaseFails ==
    /\ pgCode = "running"
    /\ \/ step \in {"audit", "identity", "schema", "optional", "objects", "schedulers",
                   "certify", "adapters", "telemetry"} /\ PgFails(1)
       \/ step = "schema" /\ Collides(In(db, <<"schema">>)) /\ UNCHANGED pgFaults
    /\ step = "schema" => PgEnabled(In(db, <<"schema">>), "schema")
    /\ pgFailures' = pgFailures \cup {Of(db)}
    /\ sections' = RolledBack \cup {Item(Of(db), "failed")}
    /\ pgManifest' = [finalized |-> FALSE, sections |-> sections']
    /\ step' = "next" /\ db' = None
    /\ UNCHANGED <<selected, pgOff, todo, checkpoint, pgFiles, pgCode>>

(* The query_and_write calls: a file for each query.                       *)
InventoryFiles(queries) == {In(db, <<"inventory", q>>) : q \in queries}

Inventory ==
    /\ PgAt("inventory")
    /\ LET ps == InventoryFiles(Queries) IN Capture(ps, AllOf(ps, "inventory"), "optional")

(* scoped_optional: what is switched on is read now, and certified later,  *)
(* by CertifyOptional.                                                     *)
ScopedOptional == {p \in InventoryFiles(Optional) : PgEnabled(p, "inventory")}

ReadOptional ==
    /\ PgAt("optional")
    /\ LET ps == InventoryFiles(Optional)
           on == ScopedOptional
       IN  /\ \A p \in on : ~Collides(p)
           /\ \E failed \in SUBSET on :
                /\ PgFails(Cardinality(failed))
                /\ pgFailures' = pgFailures \cup failed
                /\ pgFiles' = pgFiles \cup (on \ failed)
           /\ sections' = sections \cup {Item(p, "disabled") : p \in ps \ on}
    /\ step' = "objects"
    /\ UNCHANGED <<selected, pgOff, todo, db, checkpoint, pgManifest, pgCode>>

(* Variant: only an error that ends the group early fails it.              *)
GroupStatusRaised(failed, cut) == IF cut # {} THEN "failed" ELSE "complete"

GroupStatus(failed, cut) == IF failed \cup cut # {} THEN "failed" ELSE "complete"

(* A query's rows become files in a directory of the group.                *)
ObjectFiles(scope, group) == {scope \o <<r>> : r \in Reads[group]}

(* A group of files: a read that fails is noted and the others go on; a    *)
(* write that fails, as of a file whose name another has but for case,     *)
(* ends the group, and the files from there on are cut.  Either fails the  *)
(* group, and the files it has written stay.                               *)
Group(group, next) ==
    /\ PgAt(group)
    /\ LET scope == In(db, <<group>>)
           parts == ObjectFiles(scope, group)
       IN  IF ~PgEnabled(scope, group)
           THEN sections' = sections \cup {Item(scope, "disabled")} /\ UNCHANGED <<pgFailures, pgFiles, pgFaults>>
           ELSE \E failed \in SUBSET parts : \E cut \in SUBSET (parts \ failed) :
                  LET clash == {p \in parts \ failed : Collides(p)}
                  IN  /\ clash \subseteq cut
                      /\ PgFails(Cardinality(failed) + (IF cut # {} /\ clash = {} THEN 1 ELSE 0))
                      /\ pgFailures' = pgFailures \cup failed \cup (IF cut # {} THEN {scope} ELSE {})
                      /\ pgFiles' = pgFiles \cup (parts \ (failed \cup cut))
                      /\ sections' = sections \cup {Item(scope, GroupStatus(failed, cut))}
    /\ step' = next
    /\ UNCHANGED <<selected, pgOff, todo, db, checkpoint, pgManifest, pgCode>>

CollectObjectFiles == Group("objects", "schedulers")
CollectSchedulers  == Group("schedulers", "certify")

(* Variant: a file that could not be read is left out of the manifest.     *)
AfterwardsWritten(p) == p \in pgFiles /\ p \notin KnownPaths

Afterwards(p) == (p \in pgFiles \/ p \in pgFailures) /\ p \notin KnownPaths

CertifyOptional ==
    /\ PgAt("certify")
    /\ sections' = sections \cup
         {Item(p, IF p \in pgFiles THEN "complete" ELSE "failed") :
             p \in {x \in InventoryFiles(Optional) : Afterwards(x)}}
    /\ step' = "adapters"
    /\ UNCHANGED <<selected, pgOff, todo, db, checkpoint, pgFailures, pgFiles, pgManifest, pgCode, pgFaults>>

(* extension_adapters.collect.                                             *)
RunAdapters ==
    /\ PgAt("adapters")
    /\ \E installed \in SUBSET DOMAIN Adapters, unknown \in SUBSET DOMAIN Adapters :
         LET prefix(a) == In(db, <<"adapters", a>>)
             on    == {a \in DOMAIN Adapters : PgEnabled(prefix(a), "adapters")}
             read  == UNION {{prefix(a) \o <<f>> : f \in Adapters[a]} : a \in (on \cap installed) \ unknown}
         IN  /\ unknown \subseteq on /\ installed \cap unknown = {}
             /\ \E failed \in SUBSET {p \in read : PgEnabled(p, "adapters")} :
                  LET new == Captured(read, AllOf(read, "adapters"), failed)
                             \cup {Item(prefix(a), "failed") : a \in unknown}
                  IN  /\ PgFails(Cardinality(unknown) + Cardinality(failed))
                      /\ sections' = sections \cup new
                           \cup {Item(prefix(a), "disabled") : a \in DOMAIN Adapters \ on}
                           \cup {Item(prefix(a), "not_applicable") :
                                     a \in on \ (installed \cup unknown)}
                      /\ pgFiles' = pgFiles \cup With(new, "complete")
                      /\ pgFailures' = pgFailures \cup With(new, "failed")
    /\ step' = "telemetry"
    /\ UNCHANGED <<selected, pgOff, todo, db, checkpoint, pgManifest, pgCode>>

(* Measurements beside the sections; the manifest is saved after each      *)
(* database.                                                               *)
EndDatabase ==
    /\ PgAt("telemetry")
    /\ pgManifest' = [finalized |-> FALSE, sections |-> sections]
    /\ step' = "next" /\ db' = None
    /\ UNCHANGED <<selected, pgOff, todo, sections, checkpoint, pgFailures, pgFiles, pgCode, pgFaults>>

FinishPostgres ==
    /\ PgAt("next") /\ todo = {} /\ selected # {}
    /\ sections' = sections \cup {Item(<<"database-map">>, "complete"), Item(<<"collector">>, "complete")}
    /\ pgFiles' = pgFiles \cup {<<"database-map">>, <<"collector">>}
    /\ pgManifest' = [finalized |-> TRUE, sections |-> sections']
    /\ pgCode' = IF pgFailures = {} THEN "0" ELSE "6"
    /\ UNCHANGED <<selected, pgOff, todo, db, step, checkpoint, pgFailures, pgFaults>>

(* A timeout or an interrupt ends the collector anywhere.                  *)
Killed ==
    /\ pgCode = "running" /\ pgCode' = "130"
    /\ UNCHANGED <<selected, pgOff, todo, db, step, sections, checkpoint, pgFailures, pgFiles, pgManifest, pgFaults>>

CollectorNext ==
    \/ CaptureCluster \/ CopyRaw \/ Fatal \/ NextDatabase \/ Audit \/ Identity \/ DumpSchema
    \/ DatabaseFails \/ Inventory \/ ReadOptional \/ CertifyOptional \/ RunAdapters \/ EndDatabase
    \/ CollectObjectFiles \/ CollectSchedulers
    \/ FinishPostgres \/ Killed

-----------------------------------------------------------------------------
(* What a finished manifest is relied on for.                              *)

(* A section certified complete was read whole in this run: absence from   *)
(* it is a deletion (capture_file, collect_database).                      *)
PgCompleteIsWhole ==
    \A s \in pgManifest.sections : s.status = "complete" =>
        \/ s.path \in pgFiles
        \/ /\ Len(s.path) = 3 /\ s.path[3] \in DOMAIN Reads
           /\ \A r \in Reads[s.path[3]] : s.path \o <<r>> \in pgFiles

(* The sections do not overlap, for Coverage would refuse all of them,     *)
(* unless the names of two databases differ only in case.                  *)
PgSectionsDisjoint ==
    \A s, t \in pgManifest.sections : s # t =>
        \/ ~Starts(s.path, t.path) /\ ~Starts(PgFolded(s.path), PgFolded(t.path))
        \/ s.path[2] # t.path[2]

(* Nothing that was selected is passed over in silence, and the exit code  *)
(* says what the sections say.                                             *)
PgAccounted ==
    /\ \A d \in selected : Of(d) \in {s.path : s \in pgManifest.sections}
         \/ \A q \in Queries \cup Optional : In(d, <<"inventory", q>>) \in {s.path : s \in pgManifest.sections}
    /\ pgCode = "6" <=> \E s \in pgManifest.sections : s.status = "failed"

ManifestHonest ==
    pgManifest.finalized => PgCompleteIsWhole /\ PgSectionsDisjoint /\ PgAccounted
=============================================================================
