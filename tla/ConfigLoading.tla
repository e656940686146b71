--------------------------- MODULE ConfigLoading ---------------------------
(***************************************************************************)
(* What becomes of a configuration file before anything runs: each task is *)
(* resolved from its profile, the defaults and a retention policy          *)
(* (ConfigLoader._resolve, _resolve_task, normalize_retention of           *)
(* engine/configbackup.py, configuration_profiles.resolve), the whole is   *)
(* validated (_validate, _validate_dependencies), and the engine looks for *)
(* collectors in each other's way (_validate_collector_outputs), after it  *)
(* has settled where they may write (__init__, variables_for_task).        *)
(*                                                                         *)
(* Of a section of a retention mapping only the floor min_versions and the *)
(* ceiling max_versions are kept; a mapping without "active" and "deleted" *)
(* is the shorthand for "active".                                          *)
(***************************************************************************)
EXTENDS Integers, Sequences, FiniteSets, SequencesExt, Common

CONSTANTS
    Configs,   \* configuration files: [tasks, policies, policy, limit, root, staging]
    Component, \* name -> what sanitize_component makes of it in a path
    Temp,      \* the staging directory under the system's temporary directory
    MinDefault \* min_versions where none is given

(* What the parser makes of a file: lists, and retention mappings of the   *)
(* one form or the other.                                                  *)
Span    == [min : Int \cup {None}, max : Int \cup {None}]
Mapping == [top : Span, active : Span \cup {None}, deleted : Span \cup {None}]

List(s) == s \in Seq(Range(s))

LoadingAssumption ==
    /\ None \notin Span /\ None # "cycle" /\ MinDefault \in Int /\ List(Temp)
    /\ \A c \in Configs :
         /\ List(c.tasks) /\ List(c.root) /\ (c.staging # None => List(c.staging))
         /\ \A p \in DOMAIN c.policies : c.policies[p] \in Mapping
         /\ \A t \in Range(c.tasks) : /\ t.retention # None => t.retention \in Mapping
                                      /\ t.output # None => List(t.output)

VARIABLES
    config,   \* the file
    check,    \* the check under way, "accepted" or "refused"
    tasks,    \* tasks resolved so far
    visiting, \* _validate_dependencies: tasks being visited: [name, left]
    done,
    reason    \* the check that refused

lvars == <<config, check, tasks, visiting, done, reason>>

Blank == [min |-> None, max |-> None]
Unset == [top |-> Blank, active |-> None, deleted |-> None]

(* deep_merge of two sections, and of two retention mappings.              *)
Over(base, own) ==
    IF base = None THEN own ELSE IF own = None THEN base
    ELSE [k \in DOMAIN base |-> IF own[k] # None THEN own[k] ELSE base[k]]

Merged(base, own) == [k \in DOMAIN base |-> Over(base[k], own[k])]

(* Variant: the shorthand is one for both sections.                        *)
ExpandedTwice(v) ==
    IF v.active = None /\ v.deleted = None
    THEN [top |-> Blank, active |-> v.top, deleted |-> v.top] ELSE v

Expanded(v) ==
    IF v.active = None /\ v.deleted = None
    THEN [top |-> Blank, active |-> v.top, deleted |-> None] ELSE v

(* normalize_retention: an empty deleted section takes the floor of active. *)
Floor(section, default) ==
    IF section = None THEN [Blank EXCEPT !.min = default]
    ELSE IF section.min = None THEN [section EXCEPT !.min = IF section = Blank THEN default ELSE MinDefault]
    ELSE section

Normalized(v) ==
    LET active == Floor(Expanded(v).active, MinDefault)
    IN  [active |-> active, deleted |-> Floor(Expanded(v).deleted, active.min)]

Valid(r) == \A s \in {r.active, r.deleted} : s.min >= 1 /\ (s.max = None \/ s.max >= s.min)

(* A retention of the task's own without a policy puts the default one out *)
(* of force.                                                               *)
PolicyOf(t) ==
    CASE t.policy # None -> t.policy
      [] t.policy = None /\ t.retention # None -> None
      [] OTHER -> config.policy

KnownPolicy(p) == p = None \/ p \in DOMAIN config.policies

RetentionOf(t) ==
    Normalized(Merged(IF PolicyOf(t) = None THEN Unset ELSE config.policies[PolicyOf(t)],
                      IF t.retention = None THEN Unset ELSE t.retention))

(* The task, its profile, the defaults: the first that has a limit.        *)
Limit(t) == CASE t.limit # None -> t.limit
              [] t.limit = None /\ t.profile # None -> t.profile
              [] OTHER -> config.limit

Id(t) == IF t.id = None THEN t.name ELSE t.id

Resolved(t) ==
    [name |-> t.name, id |-> Id(t), type |-> t.type,
     phase |-> t.phase, deps |-> t.deps, enabled |-> t.enabled, output |-> t.output,
     limit |-> Limit(t), retention |-> RetentionOf(t)]

LoadInit ==
    /\ config \in Configs /\ check = "resolve" /\ tasks = <<>>
    /\ visiting = <<>> /\ done = {} /\ reason = None

Refuse(why) == check' = "refused" /\ reason' = why
Pass(next)  == check' = next /\ UNCHANGED reason

Named(n)  == {t \in Range(tasks) : t.name = n}
TaskNames     == {t.name : t \in Range(tasks)}

(* _resolve_task, and the name of each task is new.                        *)
ResolveTask ==
    /\ check = "resolve" /\ Len(tasks) < Len(config.tasks)
    /\ LET t == config.tasks[Len(tasks) + 1]
       IN  IF ~KnownPolicy(PolicyOf(t)) \/ ~Valid(RetentionOf(t)) \/ t.name \in TaskNames
           THEN Refuse(IF t.name \in TaskNames THEN "names" ELSE "retention") /\ UNCHANGED tasks
           ELSE tasks' = Append(tasks, Resolved(t)) /\ UNCHANGED <<check, reason>>
    /\ UNCHANGED <<config, visiting, done>>

(* Variant: only the identities that are written out are compared.         *)
IdentitiesWritten ==
    \A i, j \in DOMAIN tasks :
        i # j /\ config.tasks[i].id # None /\ config.tasks[j].id # None => tasks[i].id # tasks[j].id

Identities == \A i, j \in DOMAIN tasks : i # j => tasks[i].id # tasks[j].id

(* A directory without a limit takes the least of its collectors'.         *)
Inherited(t) ==
    LET limits == {c.limit : c \in {c \in Range(tasks) : c.type = "execute" /\ c.name \in t.deps}} \ {None}
    IN  IF t.type # "directory" \/ t.limit # None \/ limits = {} THEN t
        ELSE [t EXCEPT !.limit = CHOOSE l \in limits : \A o \in limits : l <= o]

CheckIdentities ==
    /\ check = "resolve" /\ Len(tasks) = Len(config.tasks)
    /\ IF Identities THEN tasks' = [i \in DOMAIN tasks |-> Inherited(tasks[i])] /\ Pass("validate")
                     ELSE Refuse("identities") /\ UNCHANGED tasks
    /\ UNCHANGED <<config, visiting, done>>

(* Dependencies that exist, in no later phase.                             *)
Ordered(t) == \A d \in t.deps : \E u \in Named(d) : u.phase <= t.phase

ValidatePhases ==
    /\ check = "validate"
    /\ IF \A t \in Range(tasks) : Ordered(t) THEN Pass("cycle") ELSE Refuse("phases")
    /\ UNCHANGED <<config, tasks, visiting, done>>

(* _validate_dependencies: a depth-first walk.                             *)
Entry(n) == [name |-> n, left |-> UNION {t.deps : t \in Named(n)}]

EnterTask(n) ==
    /\ check = "cycle" /\ visiting = <<>> /\ n \in TaskNames \ done
    /\ visiting' = <<Entry(n)>> /\ UNCHANGED <<config, check, tasks, done, reason>>

OnPath(n) == \E i \in DOMAIN visiting : visiting[i].name = n

(* Variant: a task counts as visited when its visit begins.                *)
SeenBegun == done \cup {n \in TaskNames : OnPath(n)}

Settled == done

Visit ==
    /\ check = "cycle" /\ visiting # <<>>
    /\ LET top  == Last(visiting)
           rest == [visiting EXCEPT ![Len(visiting)].left = @ \ Settled]
       IN  IF top.left \ Settled = {}
           THEN /\ done' = done \cup {top.name} /\ visiting' = Front(visiting)
                /\ UNCHANGED <<check, reason>>
           ELSE \E d \in top.left \ Settled :
                  /\ IF OnPath(d) THEN Refuse("cycle") /\ UNCHANGED visiting
                     ELSE visiting' = Append(rest, Entry(d)) /\ UNCHANGED <<check, reason>>
                  /\ UNCHANGED done
    /\ UNCHANGED <<config, tasks>>

(* The walk is over; policies no task uses must be valid as well.          *)
EndVisits ==
    /\ check = "cycle" /\ visiting = <<>> /\ TaskNames \subseteq done
    /\ IF \A p \in DOMAIN config.policies : Valid(Normalized(config.policies[p]))
       THEN Pass("roots") ELSE Refuse("retention")
    /\ UNCHANGED <<config, tasks, visiting, done>>

Within(p, q) == Len(p) <= Len(q) /\ SubSeq(q, 1, Len(p)) = p

(* Variant: the temporary directory is used wherever the archive lies.     *)
StagingTemp == IF config.staging # None THEN config.staging ELSE Temp

(* The staging directory: as configured, or the temporary directory, or    *)
(* beside an archive that contains that one.                               *)
Staging ==
    CASE config.staging # None -> config.staging
      [] config.staging = None /\ Within(config.root, Temp) -> Append(Front(config.root), "staging")
      [] OTHER -> Temp

(* The archive is not a whole drive, and a configured staging directory    *)
(* lies outside of it.                                                     *)
CheckRoots ==
    /\ check = "roots"
    /\ IF config.root # <<>> /\ (config.staging # None => ~Within(config.root, config.staging))
       THEN Pass("outputs") ELSE Refuse("roots")
    /\ UNCHANGED <<config, tasks, visiting, done>>

(* CONFIGBACKUP_OUTPUT: output_directory, or a directory in staging.       *)
Output(t) == IF t.output # None THEN t.output ELSE Append(Staging, Component[t.name])

(* A task is active if it and all it depends on are enabled.               *)
On ==
    LET on[n \in TaskNames] == \A u \in Named(n) : u.enabled /\ \A d \in u.deps : on[d]
    IN  on
Active(t) == On[t.name]

(* Variant: only equal directories are in each other's way.                *)
ApartEqual(t, u) == Output(t) # Output(u)

Apart(t, u) == ~Within(Output(t), Output(u)) /\ ~Within(Output(u), Output(t))

Collectors == {t \in Range(tasks) : t.type = "execute" /\ Active(t)}

CheckOutputs ==
    /\ check = "outputs"
    /\ IF \A t, u \in Collectors : t = u \/ Apart(t, u) THEN Pass("accepted") ELSE Refuse("outputs")
    /\ UNCHANGED <<config, tasks, visiting, done>>

LoadNext ==
    \/ ResolveTask \/ CheckIdentities \/ ValidatePhases \/ Visit \/ EndVisits \/ CheckRoots
    \/ CheckOutputs
    \/ \E n \in TaskNames : EnterTask(n)

-----------------------------------------------------------------------------
Given      == Range(config.tasks)
GivenNames == {t.name : t \in Given}
Direct(n)  == UNION {t.deps : t \in {u \in Given : u.name = n}}

(* n depends on m, at whatever distance.                                   *)
Reaches(n, m) ==
    \E k \in 1..Len(config.tasks) : \E p \in [0..k -> GivenNames] :
        p[0] = n /\ p[k] = m /\ \A i \in 1..k : p[i] \in Direct(p[i - 1])

(* _validate_dependencies: the walk refuses a configuration for a cycle if *)
(* and only if there is one, from whichever task it starts.                *)
CyclesFound ==
    /\ check \in {"roots", "outputs", "accepted"} => \A t \in Given : ~Reaches(t.name, t.name)
    /\ reason = "cycle" => \E t \in Given : Reaches(t.name, t.name)

Runs(x) == \A y \in Given : (y = x \/ Reaches(x.name, y.name)) => y.enabled

(* Two tasks never share their state, nor a collector's output with one    *)
(* that cleans it, however their names and the archive lie, and no output  *)
(* that nobody has placed falls into the archive (unless staging is        *)
(* configured around it), in any configuration that is accepted.           *)
Independent ==
    check = "accepted" =>
        \A i, j \in DOMAIN config.tasks :
            LET t == config.tasks[i]
                u == config.tasks[j]
            IN  /\ i # j =>
                     /\ Id(t) # Id(u)
                     /\ t.type = "execute" /\ u.type = "execute" /\ Runs(t) /\ Runs(u)
                          => ~IsPrefix(Output(t), Output(u))
                /\ t.output = None /\ ~IsPrefix(Staging, config.root)
                     => ~IsPrefix(config.root, Output(t))

(* _resolve_task, normalize_retention: what a task says itself wins, and   *)
(* what it does not say comes from its policy, where both are written in   *)
(* the long form; the floor is never below one, nor above the ceiling.     *)
MostSpecificWins ==
    \A i \in DOMAIN tasks :
        LET t   == config.tasks[i]
            own == IF t.retention = None THEN Unset ELSE t.retention
            pol == IF PolicyOf(t) = None THEN Unset ELSE config.policies[PolicyOf(t)]
            Says(v) == {s \in {"active", "deleted"} : v[s] # None}
        IN  /\ Valid(tasks[i].retention)
            /\ own.top = Blank /\ pol.top = Blank =>
                 \A s \in {"active", "deleted"}, k \in {"min", "max"} :
                    /\ s \in Says(own) /\ own[s][k] # None => tasks[i].retention[s][k] = own[s][k]
                    /\ (s \notin Says(own) \/ own[s][k] = None) /\ s \in Says(pol) /\ pol[s][k] # None
                         => tasks[i].retention[s][k] = pol[s][k]
            /\ Says(own) = {} /\ Says(pol) = {} =>
                 tasks[i].retention.deleted = [min |-> tasks[i].retention.active.min, max |-> None]

AcceptedSound == CyclesFound /\ Independent /\ MostSpecificWins

(* docs/retention.md:12-14, 27: a task may override selected values of its *)
(* policy, the most specific setting wins, and a retention without active  *)
(* and deleted is that of active: the floor a task gives is its floor.     *)
OwnFloorCounts ==
    \A i \in DOMAIN tasks :
        LET own == config.tasks[i].retention
        IN  own # None =>
              LET said == IF own.active = None /\ own.deleted = None THEN own.top ELSE own.active
              IN  said # None => (said.min # None => tasks[i].retention.active.min = said.min)
=============================================================================
