---------------------------- MODULE HostReadings ----------------------------
(***************************************************************************)
(* What the host collector reads on each system: the outputs of            *)
(* collect_linux, collect_macos and collect_windows with the ways each can *)
(* fail, and the sections of the inventories that certify themselves.      *)
(* SystemCollector runs over these.                                        *)
(***************************************************************************)
EXTENDS Sequences

(* How an output may fail to be read: the reading of the host ends         *)
(* ("aborts"); it is left out and a failure noted ("left"); it is left out *)
(* and nothing said, as for a missing command ("silent"); it is written    *)
(* without content ("emptied"), or its write ends half way, and the        *)
(* failure is only noted ("torn"); one of several reads behind it fails,   *)
(* it is written with what the others gave, and nothing said ("thinned").  *)
Output(group, file, on)  == [path |-> <<group, file>>, on |-> on, asks |-> FALSE]
Switched(path, on)       == [path |-> path, on |-> on, asks |-> TRUE]

(* The outputs in the order of the code; one stands for those of a loop.   *)
(* The core count of a failing lscpu, the timers systemctl cannot show: as  *)
(* if there were none.                                                     *)
LinuxHardware == <<Output("hardware", "cpu", {"thinned", "aborts"})>>

LinuxSettings ==
    <<Switched(<<"storage", "etc", "fstab">>, {"left", "torn", "aborts"}),
      Output("network", "interfaces", {"silent", "aborts"}),
      Output("network", "resolv", {"aborts"}),
      Output("shares", "exports", {"aborts"}),
      Output("services", "services", {"silent", "aborts"})>>

LinuxSchedules ==
    <<Output("scheduling", "systemd-timers", {"silent", "thinned", "aborts"}),
      Output("scheduling", "cron", {"aborts"}),
      Output("scheduling", "user-crontabs", {"left", "aborts"})>>

LinuxSoftware ==
    <<Output("software", "packages", {"silent", "aborts"}),
      Output("accounts", "users", {"aborts"})>>

MacOutputs ==
    <<Output("os", "os", {"aborts"}),
      Output("hardware", "settings", {"left", "torn"}),
      Output("scheduling", "launchd", {"silent", "left", "torn"}),
      Output("scheduling", "crontabs", {"silent", "left", "torn"})>>

(* Queries that silence the errors of some of their objects are thinned.   *)
WindowsHardware ==
    <<Output("hardware", "computer", {"emptied", "aborts"}),
      Output("os", "time-locale", {"left", "aborts"}),
      Output("storage", "storage-spaces-map", {"left", "thinned", "aborts"}),
      Output("network", "adapters", {"left", "aborts"})>>

WindowsSchedules ==
    <<Output("services", "services", {"left", "aborts"}),
      Output("scheduling", "scheduled-tasks", {"left", "aborts"})>>

WindowsSoftware ==
    <<Output("software", "installed-software", {"left", "thinned", "aborts"}),
      Output("software", "dotnet-runtimes", {"silent", "aborts"})>>

WindowsAccess ==
    <<Output("accounts", "local-groups", {"left", "thinned", "aborts"}),
      Output("network", "firewall-rules", {"left", "aborts"}),
      Output("os", "boot-current", {"silent", "aborts"})>>

Outputs ==
    [linux   |-> LinuxHardware \o LinuxSettings \o LinuxSchedules \o LinuxSoftware,
     darwin  |-> MacOutputs,
     windows |-> WindowsHardware \o WindowsSchedules \o WindowsSoftware \o WindowsAccess]

(* An inventory: the scope that fails when it raises, its sections, those  *)
(* always written, whether a missing tool is told from a failure, and the  *)
(* option that asks for it; and the sections that list directories by a    *)
(* pattern, which passes over what it may not enter, or keep what a partly *)
(* failed command gave ("thins").                                          *)
Inventory(scope, parts, notes, tools, option) ==
    [scope |-> scope, parts |-> parts, thins |-> {}, notes |-> notes, tools |-> tools, option |-> option]

Thinning(inv, names) == [inv EXCEPT !.thins = {p \in inv.parts : p[Len(p)] \in names}]

Under(scope, names) == {Append(scope, n) : n \in names}

LinuxVolumes == {"mounts", "lvm", "zfs-properties"}
MacVolumes   == {"disks", "zfs-properties"}

StorageInventory(volumes) ==
    Inventory(<<"storage">>,
              Under(<<"storage">>, volumes),
              {<<"storage", "capabilities">>}, TRUE, "always")

(* One section for each kind of reader of the kernel's state; the patterns  *)
(* are those of Linux.                                                     *)
KernelParts(names) == {<<"hardware", "firmware">>} \cup Under(<<"kernel">>, names)

KernelDetails(names) ==
    Thinning(Inventory(<<"kernel">>, KernelParts(names), {}, TRUE, "always"), {"module-parameters"})

(* defaults() and selections(): an identity each, and no identity twice.   *)
RegistrySelections == {"machine-run-64", "rdp-64"}

Registry ==
    Inventory(<<"registry">>, Under(<<"registry">>, RegistrySelections), {}, FALSE, "registry")

PolicyReports ==
    Inventory(<<"policy", "rsop">>, Under(<<"policy", "rsop">>, {"computer", "user"}), {}, FALSE, "rsop")

Firewall ==
    Thinning(Inventory(<<"firewall">>, Under(<<"firewall">>, {"nftables", "definitions"}), {}, TRUE,
                       "firewall"), {"definitions"})

Shares(kinds, tools) ==
    Thinning(Inventory(<<"shares">>, Under(<<"shares">>, kinds), {}, tools, "always"), {"nfs-definitions"})

(* specifications(): the drives named or found, no path twice.             *)
Drives == {"discovery", "d1"}

DriveIdentities ==
    LET scope == <<"storage", "drive-identities">>
    IN  Thinning(Inventory(scope, Under(scope, Drives), {}, FALSE, "drives"), {"d1"})

(* write_records(): scopes under the component, none within another.       *)
ComponentRecords == {"zones", "server"}

(* Every selected component is read by itself, and fails by itself.        *)
WindowsComponent(c) ==
    LET scope == <<"windows-components", c>>
    IN  Inventory(scope, Under(scope, ComponentRecords), {}, FALSE, "components")

PublicCertificate == <<"certificates", "files", "k">>

OptionalInventory ==
    Inventory(<<"optional-inventory">>,
              {PublicCertificate,
               <<"containers", "docker", "container", "discovery">>,
               <<"containers", "docker", "container", "objects", "k">>},
              {}, FALSE, "optional")

Surveys ==
    LET common == <<Firewall, Shares({"nfs-definitions", "client-mounts"}, TRUE), DriveIdentities,
                    OptionalInventory>>
    IN  [linux   |-> <<StorageInventory(LinuxVolumes), KernelDetails({"module-parameters"})>>
                       \o common,
         darwin  |-> <<StorageInventory(MacVolumes), KernelDetails({"extensions"})>> \o common,
         windows |-> <<Registry, PolicyReports, Shares({"smb-definitions"}, FALSE), DriveIdentities,
                       WindowsComponent("dns"), OptionalInventory>>]
=============================================================================
