-------------------------- MODULE SystemCollector --------------------------
(***************************************************************************)
(* One run of the host collector (collectors/system/collect_system.py):    *)
(* the broad reading of the host, output by output in the order of the     *)
(* code; then the inventories that certify themselves (storage, kernel,    *)
(* firewall, shares, registry, policies, drives, optional components);     *)
(* then the manifest, which makes every other output a section of its own. *)
(*                                                                         *)
(* A path is the sequence of its parts.  What a command returns is left    *)
(* out; telemetry is never certified and is left out as well.              *)
(***************************************************************************)
EXTENDS Naturals, Sequences, FiniteSets, SectionPaths

CONSTANTS
    Hosts,        \* host -> its outputs in order (HostReadings: Outputs)
    Inventories,  \* host -> its inventories in order (HostReadings: Surveys)
    Selections,   \* sets of optional inventories a run may ask for
    HostSwitches, \* sets of sections that may be switched off, as paths
    MaxHostFaults \* bound: reads that fail, tools that are missing

Errors  == <<"collection-errors">>
PathPart == STRING

(* Outputs and sections of a host, and the names that the manifest keeps    *)
(* for itself.                                                             *)
OutputsOf(h)  == {Hosts[h][i].path : i \in 1..Len(Hosts[h])}
InventoryOf(inv) == inv.parts \cup inv.notes
Reserved      == {<<"collector">>, Errors, <<"_incomplete-discovery">>}

(* Of the outputs of a host none lies under another, no inventory as a     *)
(* whole lies under one of them, and each belongs to one inventory or to   *)
(* the broad reading.                                                      *)
HostAssumption ==
    \A h \in DOMAIN Hosts :
        LET all == Reserved \cup OutputsOf(h)
                     \cup UNION {InventoryOf(Inventories[h][j]) : j \in 1..Len(Inventories[h])}
        IN  /\ {Len(Hosts[h]), Len(Inventories[h])} \subseteq Nat
            /\ all \subseteq Seq(PathPart)
            /\ \A p, q \in all : p # q => ~Starts(p, q)
            /\ Reserved \cap OutputsOf(h) = {}
            /\ \A j \in 1..Len(Inventories[h]) :
                  LET inv == Inventories[h][j]
                  IN  /\ inv.thins \subseteq inv.parts
                      /\ inv.scope \in Seq(PathPart) /\ \A p \in all : ~Starts(p, inv.scope)
                      /\ inv.parts \cap inv.notes = {}
                      /\ InventoryOf(inv) \cap (Reserved \cup OutputsOf(h)) = {}
                      /\ \A k \in 1..Len(Inventories[h]) :
                            k # j => InventoryOf(inv) \cap InventoryOf(Inventories[h][k]) = {}

VARIABLES
    host, hostOff, chosen, \* system, switches and options of this run
    at, next,              \* output being read, inventory being collected
    hostFiles, whole,      \* the output directory; what was read and written whole
    partial,               \* history: what was written in part, and no section fails for it
    uncertain,             \* core_failed_paths
    inner,                 \* storage_scopes: sections of the inventories
    hostFailures,          \* what is written to collection-errors.json
    hostManifest, hostCode, hostFaults

hostvars == <<host, hostOff, chosen, at, next, hostFiles, whole, partial, uncertain, inner, hostFailures,
              hostManifest, hostCode, hostFaults>>

Core == Hosts[host]
Inv  == Inventories[host]

HostEnabled(p)   == \A s \in hostOff : s # <<"configuration">> /\ ~Starts(s, p)

SystemInit ==
    /\ host \in DOMAIN Hosts
    /\ hostOff \in HostSwitches
    /\ chosen \in {options \cup {"always"} : options \in Selections}
    /\ at = IF <<"configuration">> \in hostOff THEN Len(Core) + 1 ELSE 1
    /\ next = 1
    /\ hostFiles = {<<"collector">>} /\ whole = {<<"collector">>} /\ partial = {}
    /\ uncertain = {} /\ inner = {} /\ hostFailures = {}
    /\ hostManifest = [finalized |-> FALSE, sections |-> {}]
    /\ hostCode = "running" /\ hostFaults = 0

HostRunning == hostCode = "running"
Reading == HostRunning /\ at <= Len(Core)

HostFails(n) == hostFaults + n <= MaxHostFaults /\ hostFaults' = hostFaults + n

-----------------------------------------------------------------------------
(* collect_linux, collect_macos, collect_windows.                          *)

ReadOutput ==
    /\ Reading
    /\ LET item == Core[at]
       IN  IF item.asks /\ ~HostEnabled(item.path) THEN UNCHANGED <<hostFiles, whole>>
           ELSE hostFiles' = hostFiles \cup {item.path} /\ whole' = whole \cup {item.path}
    /\ at' = at + 1
    /\ UNCHANGED <<host, hostOff, chosen, next, partial, uncertain, inner, hostFailures, hostManifest,
                   hostCode, hostFaults>>

(* best_effort() and its kin, and the queries within that fail unnoticed.  *)
ReadFails ==
    /\ Reading /\ HostFails(1)
    /\ LET item == Core[at]
       IN  \E on \in item.on \ {"aborts"} :
             /\ item.asks => HostEnabled(item.path)
             /\ hostFailures' = IF on \in {"silent", "thinned"} THEN hostFailures
                                ELSE hostFailures \cup {item.path}
             /\ IF on \in {"emptied", "torn", "thinned"}
                THEN hostFiles' = hostFiles \cup {item.path} /\ partial' = partial \cup {item.path}
                ELSE UNCHANGED <<hostFiles, partial>>
    /\ at' = at + 1
    /\ UNCHANGED <<host, hostOff, chosen, next, whole, uncertain, inner, hostManifest, hostCode>>

(* Variant: what was written before the error is taken to be whole.        *)
DoubtedNone(written) == {}

Doubted(written) == written \ {<<"collector">>}

(* Any other error ends the reading; the file at hand may be there in part. *)
HostReadAborts ==
    /\ Reading /\ HostFails(1)
    /\ "aborts" \in Core[at].on
    /\ Core[at].asks => HostEnabled(Core[at].path)
    /\ hostFailures' = hostFailures \cup {<<"collector">>}
    /\ hostFiles' \in {hostFiles, hostFiles \cup {Core[at].path}}
    /\ uncertain' = Doubted(hostFiles')
    /\ at' = Len(Core) + 1
    /\ UNCHANGED <<host, hostOff, chosen, next, whole, partial, inner, hostManifest, hostCode>>

-----------------------------------------------------------------------------
(* enrich(): one inventory after the other, each with sections of its own. *)

Collecting == HostRunning /\ at > Len(Core) /\ next <= Len(Inv)

DataOf(p) == p \o <<"configuration">>
Data(ps)  == {DataOf(p) : p \in ps}

(* probe() and its kin: one part each.  A missing tool is no failure and    *)
(* certifies nothing; a part that failed may have left some of its file;   *)
(* one that thins may be complete without all there is.                    *)
CollectInventory ==
    /\ Collecting /\ Inv[next].option \in chosen
    /\ LET inv == Inv[next]
           on  == {p \in inv.parts : HostEnabled(p)}
       IN  \E bad \in SUBSET on : \E thinned \in SUBSET (inv.thins \cap (on \ bad)) :
           /\ HostFails(Cardinality(bad \cup thinned))
           /\ \E missing \in IF inv.tools THEN SUBSET bad ELSE {{}}, torn \in BOOLEAN :
                LET failed == bad \ missing
                    read   == on \ bad
                IN  /\ inner' = inner
                         \cup {Item(p, "disabled") : p \in inv.parts \ on}
                         \cup {Item(p, "failed") : p \in failed}
                         \cup {Item(p, "not_applicable") : p \in missing}
                         \cup {Item(p, "complete") : p \in read \cup inv.notes}
                    /\ whole' = whole \cup Data(read \ thinned) \cup inv.notes
                    /\ partial' = partial \cup Data(thinned)
                    /\ hostFiles' = hostFiles \cup inv.notes
                                      \cup Data(IF torn THEN read \cup failed ELSE read)
                    /\ hostFailures' = hostFailures \cup failed
    /\ next' = next + 1
    /\ UNCHANGED <<host, hostOff, chosen, at, uncertain, hostManifest, hostCode>>

(* An error of the inventory as a whole: what it knew of its sections is   *)
(* lost, and some of its files are there, whole or in part.                *)
InventoryRaises ==
    /\ Collecting /\ Inv[next].option \in chosen
    /\ LET on == {p \in Inv[next].parts : HostEnabled(p)}
       IN  \E written \in SUBSET on : \E torn \in SUBSET written :
             /\ HostFails(1 + Cardinality(torn))
             /\ hostFiles' = hostFiles \cup Data(written)
             /\ whole' = whole \cup Data(written \ torn)
             /\ partial' = partial \cup Data(torn)
    /\ inner' = inner \cup {Item(Inv[next].scope, "failed")}
    /\ hostFailures' = hostFailures \cup {Inv[next].scope}
    /\ next' = next + 1
    /\ UNCHANGED <<host, hostOff, chosen, at, uncertain, hostManifest, hostCode>>

SkipInventory ==
    /\ Collecting /\ Inv[next].option \notin chosen
    /\ next' = next + 1
    /\ UNCHANGED <<host, hostOff, chosen, at, hostFiles, whole, partial, uncertain, inner, hostFailures, hostManifest,
                   hostCode, hostFaults>>

-----------------------------------------------------------------------------

(* Variant: an output is a section of its own wherever it lies.            *)
OwnSectionAlways(p) == TRUE

OwnSection(p) == \A s \in inner : ~Starts(s.path, p)

(* Variant: what could not be read is noted in a file only.                *)
DiscoveryNever == {}

Discovery == IF hostFailures = {} THEN {} ELSE {Item(<<"_incomplete-discovery">>, "failed")}

(* "Missing files are never evidence of removal": only what is there       *)
(* becomes a section.                                                      *)
HostSections(fs) ==
    {Item(p, CASE p \in uncertain -> "failed"
               [] p \notin uncertain /\ HostEnabled(<<p[1]>>) -> "complete"
               [] OTHER -> "disabled") : p \in {f \in fs : OwnSection(f)}}
      \cup inner \cup Discovery

FinishSystem ==
    /\ HostRunning /\ at > Len(Core) /\ next > Len(Inv)
    /\ hostFiles' = hostFiles \cup {Errors} /\ whole' = whole \cup {Errors}
    /\ hostManifest' = [finalized |-> TRUE, sections |-> HostSections(hostFiles')]
    /\ hostCode' \in IF hostFailures = {} THEN {"0"} ELSE {"6", "2"}
    /\ UNCHANGED <<host, hostOff, chosen, at, next, partial, uncertain, inner, hostFailures, hostFaults>>

(* The engine's timeout, or an error that nothing catches.                 *)
SystemKilled ==
    /\ HostRunning /\ hostCode' = "killed"
    /\ UNCHANGED <<host, hostOff, chosen, at, next, hostFiles, whole, partial, uncertain, inner, hostFailures,
                   hostManifest, hostFaults>>

SystemNext ==
    \/ ReadOutput \/ ReadFails \/ HostReadAborts
    \/ CollectInventory \/ InventoryRaises \/ SkipInventory
    \/ FinishSystem \/ SystemKilled

-----------------------------------------------------------------------------

(* What is certified complete was read whole by this run, whichever reads  *)
(* failed before and after it, and wherever the reading of the host ended. *)
(* The exceptions, which are also those from docs/host-coverage.md:5       *)
(* ("permission errors preserve earlier files"), are written in part and   *)
(* no section fails for them: outputs emptied, torn or thinned, sections   *)
(* that thin, and files of an inventory that raised (HostReadings).        *)
HostCompleteIsWhole ==
    \A s \in hostManifest.sections :
        s.status = "complete" =>
            LET inside == {f \in hostFiles : Starts(s.path, f)}
            IN  inside # {} /\ inside \subseteq whole \cup partial

(* Coverage refuses all sections when two overlap; none do, unless an      *)
(* inventory fails as a whole whose scope encloses that of another.        *)
HostSectionsDisjoint ==
    \A s, t \in hostManifest.sections : s # t /\ Starts(s.path, t.path) =>
        s.status = "failed" /\ \E i \in 1..Len(Inv) : Inv[i].scope = s.path

(* A failure that was noted shows in the sections, whichever it was, so    *)
(* that the archive task and the exit code agree on whether the run was    *)
(* whole; and what was read whole lies in a section.                       *)
HostAccounted ==
    /\ hostCode # "0" <=> \E s \in hostManifest.sections : s.status = "failed"
    /\ \A p \in whole : \E s \in hostManifest.sections : Starts(s.path, p)

SystemHonest == hostManifest.finalized => HostCompleteIsWhole /\ HostSectionsDisjoint /\ HostAccounted
=============================================================================
