--------------------------- MODULE RecorderControl ---------------------------
(***************************************************************************)
(* Enabling and disabling the native recorder (plan() and apply() of       *)
(* engine/native_recording.py).  The operator reviews a plan and applies   *)
(* it; it is refused if anything it depends on has changed.  What the tool *)
(* owns is noted in an anchor file after every file it writes and every    *)
(* command that succeeds, also when a later one fails.                     *)
(***************************************************************************)
EXTENDS Naturals, Sequences, Common

CONSTANTS
    Systems,     \* operating systems
    Settings,    \* what the configuration may ask for
    Foreign,     \* a file someone else wrote or changed
    MaxCalls,    \* bound: plans made
    MaxUpsets    \* bound: commands that fail, deaths, edits by others

Anchors == [owned : BOOLEAN, status : {"configuring", "failed", "enabled", "disabled"},
            parts : SUBSET {"counter", "boot"}, file : Settings \cup {None, Foreign},
            settings : Settings]

(* The program runs on one of three systems; a note is something.          *)
ControlAssumption ==
    /\ Systems \subseteq {"Windows", "Linux", "Darwin"}
    /\ None \notin Anchors /\ None # <<>>

VARIABLES
    system,
    asked,       \* settings now in the configuration
    native,      \* of ours in the operating system: "counter", "boot", "running"
    file,        \* the unit file, plist or counter list
    anchor,      \* one of Anchors, or None
    plan,        \* the reviewed plan: [action, settings, anchor] or None
    commands,    \* commands of the plan being applied, None when idle
    orphans,     \* auxiliary: what was made while the process died
    calls, upsets

nvars == <<system, asked, native, file, anchor, plan, commands, orphans, calls, upsets>>

ControlInit ==
    /\ system \in Systems /\ asked \in Settings
    /\ native = {} /\ file \in {None, Foreign} /\ anchor = None
    /\ plan = None /\ commands = None /\ orphans = {} /\ calls = 0 /\ upsets = 0

Owned == anchor # None /\ anchor.owned
NotedParts == IF anchor = None THEN {} ELSE anchor.parts

(* The commands of each system.  A service manager's `enable` and `disable *)
(* --now` are one command; logman and schtasks are told apart.             *)
Commands(action) ==
    CASE system = "Windows" /\ action = "enable" ->
           (IF "counter" \in NotedParts THEN <<"stop", "update">> ELSE <<"create">>)
             \o (IF "boot" \in NotedParts THEN <<"replace_task">> ELSE <<"new_task">>) \o <<"start">>
      [] system = "Windows" /\ action = "disable" ->
           (IF "boot" \in NotedParts THEN <<"disable_task">> ELSE <<>>)
             \o (IF "counter" \in NotedParts THEN <<"stop">> ELSE <<>>)
      [] system = "Linux" /\ action = "enable" -> <<"boot_on", "start">>
      [] system = "Linux" /\ action = "disable" -> <<"all_off">>
      [] system = "Darwin" /\ action = "enable" ->
           (IF Owned THEN <<"bootout">> ELSE <<>>) \o <<"boot_on", "start">>
      [] OTHER -> <<"boot_off", "bootout">>

(* Whether the operating system can carry a command out, and what it does. *)
Possible(cmd) ==
    CASE cmd = "create" -> "counter" \notin native
      [] cmd = "update" -> "counter" \in native
      [] cmd = "new_task" -> "boot" \notin native
      [] cmd = "start" -> system = "Windows" => "counter" \in native
      [] OTHER -> TRUE
Made(cmd) ==
    CASE cmd = "create" -> {"counter"}
      [] cmd \in {"new_task", "replace_task", "boot_on"} -> {"boot"}
      [] cmd = "start" -> {"running"}
      [] OTHER -> {}
Removed(cmd) ==
    CASE cmd \in {"stop", "bootout"} -> {"running"}
      [] cmd \in {"disable_task", "boot_off"} -> {"boot"}
      [] cmd = "all_off" -> {"boot", "running"}
      [] OTHER -> {}

(* Variant: only what is told to record is noted, not what starts it.      *)
NotedCounter(cmd) == IF cmd \in {"create", "update"} THEN {"counter"} ELSE {}

(* The components the anchor notes after a command.                        *)
Noted(cmd) ==
    CASE cmd \in {"create", "update"} -> {"counter"}
      [] cmd = "new_task" \/ cmd = "replace_task" -> {"boot"}
      [] OTHER -> {}

-----------------------------------------------------------------------------
(* Disabling uses the settings of the anchor, and needs an owned recorder. *)
MakePlan(action) ==
    /\ commands = None /\ calls < MaxCalls
    /\ action = "disable" => Owned
    /\ calls' = calls + 1
    /\ plan' = [action |-> action, anchor |-> anchor,
                settings |-> IF action = "disable" THEN anchor.settings ELSE asked]
    /\ UNCHANGED <<system, asked, native, file, anchor, commands, orphans, upsets>>

Unchanged ==
    /\ plan.anchor = anchor
    /\ plan.action = "enable" => plan.settings = asked

(* A file may be written if there is none or it is as the anchor notes it. *)
FileOurs == file = None \/ (anchor # None /\ file = anchor.file)

(* Windows writes a file on enabling only, Linux too; macOS always.        *)
Writes == plan.action = "enable" \/ system = "Darwin"

(* Apply: the checks, the file, the note of it.  A process that dies       *)
(* between the two leaves a file that is not noted.                        *)
ApplyPlan ==
    /\ commands = None /\ plan # None /\ Unchanged /\ (Writes => FileOurs)
    /\ file' = IF Writes THEN plan.settings ELSE file
    /\ \/ /\ anchor' = [owned |-> Owned \/ system # "Windows", status |-> "configuring",
                        parts |-> NotedParts, file |-> IF Writes THEN file' ELSE anchor.file,
                        settings |-> plan.settings]
          /\ commands' = Commands(plan.action)
          /\ UNCHANGED <<plan, orphans, upsets>>
       \/ /\ upsets < MaxUpsets /\ upsets' = upsets + 1
          /\ plan' = None /\ orphans' = orphans \cup {"file"}
          /\ UNCHANGED <<anchor, commands>>
    /\ UNCHANGED <<system, asked, native, calls>>

ApplyRefused ==
    /\ commands = None /\ plan # None /\ ~(Unchanged /\ (Writes => FileOurs))
    /\ plan' = None
    /\ UNCHANGED <<system, asked, native, file, anchor, commands, orphans, calls, upsets>>

(* A command succeeds, and the anchor is saved unless the process dies.    *)
Run ==
    /\ commands \notin {None, <<>>} /\ Possible(Head(commands))
    /\ native' = (native \ Removed(Head(commands))) \cup Made(Head(commands))
    /\ \/ /\ anchor' = [anchor EXCEPT !.parts = @ \cup
                            (IF system = "Windows" THEN Noted(Head(commands)) ELSE {}),
                                      !.owned = @ \/ Head(commands) \in {"create", "update"}]
          /\ commands' = Tail(commands)
          /\ UNCHANGED <<plan, orphans, upsets>>
       \/ /\ upsets < MaxUpsets /\ upsets' = upsets + 1
          /\ plan' = None /\ commands' = None /\ orphans' = orphans \cup Made(Head(commands))
          /\ UNCHANGED anchor
    /\ UNCHANGED <<system, asked, file, calls>>

(* A command that fails ends the call; the anchor is saved all the same.   *)
CommandFails ==
    /\ commands \notin {None, <<>>}
    /\ \/ ~Possible(Head(commands)) /\ UNCHANGED upsets
       \/ upsets < MaxUpsets /\ upsets' = upsets + 1
    /\ anchor' = [anchor EXCEPT !.status = "failed"]
    /\ plan' = None /\ commands' = None
    /\ UNCHANGED <<system, asked, native, file, orphans, calls>>

Done ==
    /\ commands = <<>>
    /\ anchor' = [anchor EXCEPT !.status =
                     IF plan.action = "enable" THEN "enabled" ELSE "disabled"]
    /\ plan' = None /\ commands' = None
    /\ UNCHANGED <<system, asked, native, file, orphans, calls, upsets>>

Others ==
    /\ upsets < MaxUpsets /\ upsets' = upsets + 1
    /\ \/ asked' \in Settings /\ UNCHANGED file
       \/ commands = None /\ file' \in {None, Foreign} /\ UNCHANGED asked
    /\ UNCHANGED <<system, native, anchor, plan, commands, orphans, calls>>

ControlNext ==
    \/ \E action \in {"enable", "disable"} : MakePlan(action)
    \/ ApplyPlan \/ ApplyRefused \/ Run \/ CommandFails \/ Done \/ Others

ControlSpec == ControlInit /\ [][ControlNext]_nvars

-----------------------------------------------------------------------------
(* native_recording.py 98-139: whatever command failed before, a recorder  *)
(* that is registered as disabled neither runs nor starts at boot, one that *)
(* is registered as enabled runs, and no part of it is in the system that   *)
(* disabling would not find, but for what was made while a process died.    *)
RegistrationTrue ==
    /\ anchor # None /\ anchor.status = "disabled" /\ commands = None
           => native \cap {"boot", "running"} \subseteq orphans
    /\ anchor # None /\ anchor.status = "enabled" /\ commands = None
           => {"boot", "running"} \subseteq native
    /\ system = "Windows" => native \ {"running"} \subseteq NotedParts \cup orphans
    /\ native # {} => Owned \/ orphans # {}
=============================================================================
