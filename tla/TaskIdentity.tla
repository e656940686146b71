---------------------------- MODULE TaskIdentity ----------------------------
(***************************************************************************)
(* Whose history is whose: state.json keeps a record per identity, and a   *)
(* task finds its own by its state_id or, without one, by its name.  The   *)
(* operator renames tasks (configuration/configuration_links.py) and edits *)
(* state_id and destination; engine/task_lifecycle.py moves a record to a  *)
(* new identity and destination, or retires it; backup runs read and write *)
(* the records in between.  Both programs work with the configuration they *)
(* loaded when they started, whatever is saved meanwhile, and either may   *)
(* die.  They do not overlap: SharedState is about programs that do.       *)
(*                                                                         *)
(* A task archives one file, whose logical path is its destination; it is  *)
(* stored in the file system (a move of Git destinations is refused).  The *)
(* operator gives each task identities no other task ever has.             *)
(***************************************************************************)
EXTENDS Naturals, FiniteSets, Common

CONSTANTS
    First,       \* task -> its first name, which is its first identity
    Target,      \* task -> the identity reserved for it by the operator
    Spare,       \* further names
    Destinations, \* where files of a task may be kept
    Start,       \* task -> its first destination
    MaxTaskEdits, \* bound: edits of the configuration
    MaxSource,   \* bound: task -> versions of its source
    MaxKills     \* bound: deaths of a program

Tasks == DOMAIN First
Names == {First[t] : t \in Tasks} \cup Spare
Own(t) == {First[t], Target[t]}

(* The operator gives each task identities that no other task ever has.    *)
IdentityAssumption ==
    /\ \A t, u \in Tasks : t # u => Own(t) \cap Own(u) = {}
    /\ \A t \in Tasks : None \notin Own(t)
    /\ None \notin Destinations /\ Start \in [Tasks -> Destinations]

VARIABLES
    saved,       \* the saved configuration: task -> [name, state_id, enabled, destination]
    state,       \* state.json: identity -> [files, retired]
    journal,     \* the state an undo restores, None without a pending transaction
    program,     \* what runs: [kind, pc, config, state, todo, owners, request]
    source,      \* task -> number of the edit that wrote its source
    kept,        \* auxiliary: task -> newest version a finished run reported
    taskEdits, kills

tvars == <<saved, state, journal, program, source, kept, taskEdits, kills>>

Idle == [kind |-> None, pc |-> "idle", config |-> None, state |-> None, todo |-> {},
         owners |-> {}, request |-> None]

EmptyRecord == [files |-> {}, retired |-> FALSE]

IdentityInit ==
    /\ saved = [t \in Tasks |-> [name |-> First[t], state_id |-> None, enabled |-> TRUE,
                                  destination |-> Start[t]]]
    /\ state = [id \in {} |-> EmptyRecord]
    /\ journal = None
    /\ program = Idle
    /\ source = [t \in Tasks |-> 1]
    /\ kept = [t \in Tasks |-> 0]
    /\ taskEdits = 0 /\ kills = 0

(* t.get("state_id", t["name"])                                            *)
Identity(task) == IF task.state_id = None THEN task.name ELSE task.state_id

NewestOf(t, versions) == {v \in versions : v.of = t /\ \A w \in versions : w.of = t => w.n <= v.n}

-----------------------------------------------------------------------------
(* The operator.                                                           *)

Edited == /\ taskEdits < MaxTaskEdits /\ taskEdits' = taskEdits + 1
          /\ UNCHANGED <<state, journal, program, source, kept, kills>>

(* Variant: a rename changes the name and nothing else.                    *)
PinnedNever(task) == task.state_id

(* rename(): target.setdefault('state_id', old)                            *)
Pinned(task) == Identity(task)

Rename(t, new) ==
    /\ Edited
    /\ \A u \in Tasks : saved[u].name # new
    /\ saved' = [saved EXCEPT ![t].name = new, ![t].state_id = Pinned(saved[t])]

EditTask ==
    /\ Edited
    /\ \E t \in Tasks :
         \/ saved[t].state_id # Target[t] /\ saved' = [saved EXCEPT ![t].state_id = Target[t]]
         \/ saved' = [saved EXCEPT ![t].enabled = ~@]
         \/ \E p \in Destinations \ {saved[t].destination} :
                saved' = [saved EXCEPT ![t].destination = p]

SourceChanges ==
    \E t \in Tasks :
        /\ source[t] < MaxSource[t]
        /\ source' = [source EXCEPT ![t] = @ + 1]
        /\ UNCHANGED <<saved, state, journal, program, kept, taskEdits, kills>>

-----------------------------------------------------------------------------
(* A backup run.                                                           *)

(* ConfigLoader.load(), then run(): undo what was interrupted, begin.      *)
BeginRun ==
    /\ program = Idle
    /\ state' = IF journal = None THEN state ELSE journal
    /\ journal' = state'
    /\ program' = [Idle EXCEPT !.kind = "run", !.pc = "work", !.config = saved, !.state = state',
                               !.todo = {t \in Tasks : saved[t].enabled}]
    /\ UNCHANGED <<saved, source, kept, taskEdits, kills>>

(* StateStore.task(): the record under the identity, made if there is none *)
Opened(records, id) ==
    IF id \in DOMAIN records THEN records
    ELSE [i \in DOMAIN records \cup {id} |-> IF i = id THEN EmptyRecord ELSE records[i]]

(* Variant: only the configuration says what runs.                         *)
RetiredIgnored(record) == FALSE

(* _run_task() leaves a retired identity alone.                            *)
Retired(record) == record.retired

(* Tasks run in the order of the configuration.  A destination that        *)
(* another task of this run has claimed fails the task, whose record is    *)
(* put back.                                                               *)
RunTask(t) ==
    /\ program.pc = "work" /\ t \in program.todo /\ \A u \in program.todo : t <= u
    /\ LET task  == program.config[t]
           id    == Identity(task)
           found == Opened(program.state, id)
           at    == {v \in found[id].files : v.at = task.destination}
           now   == [at |-> task.destination, of |-> t, n |-> source[t]]
           fails == Retired(found[id]) \/ \E o \in program.owners : o.at = task.destination
       IN  program' =
             [program EXCEPT
                !.todo = @ \ {t},
                !.owners = IF fails THEN @ ELSE @ \cup {[of |-> t, at |-> task.destination]},
                !.state = IF fails THEN found
                          ELSE [found EXCEPT ![id].files = IF now \in NewestOf(t, at) THEN @
                                                           ELSE @ \cup {now}]]
    /\ UNCHANGED <<saved, state, journal, source, kept, taskEdits, kills>>

(* Retention takes, of a record that a successful task of this run names,  *)
(* a version that is not the newest at the task's destination; one at a    *)
(* former destination is by then a deleted generation.                     *)
Prune ==
    /\ program.pc = "work" /\ program.todo = {}
    /\ \E o \in program.owners :
         LET id    == Identity(program.config[o.of])
             files == program.state[id].files
         IN  \E v \in files :
               /\ v \notin NewestOf(o.of, {w \in files : w.at = o.at})
               /\ program' = [program EXCEPT !.state[id].files = @ \ {v}]
    /\ UNCHANGED <<saved, state, journal, source, kept, taskEdits, kills>>

-----------------------------------------------------------------------------
(* The lifecycle tool, with --apply: a request names a source and either a *)
(* target, with or without a destination, or the wish to retire.           *)

(* The operator moves the history of a task to an identity of that task.   *)
Requests ==
    UNION {[source : Own(t), target : Own(t), destination : Destinations \cup {None},
            retire : {FALSE}]
             \cup [source : Own(t), target : {None}, destination : {None}, retire : {TRUE}]
           : t \in Tasks}

BeginTool(request) ==
    /\ program = Idle
    /\ program' = [Idle EXCEPT !.kind = "tool", !.pc = "plan", !.config = saved,
                               !.request = request]
    /\ UNCHANGED <<saved, state, journal, source, kept, taskEdits, kills>>

(* Variant: any target will do.                                            *)
UnusedAny(request) == TRUE

(* Choose an unused target identity                                        *)
Unused(request) == request.target = request.source \/ request.target \notin DOMAIN state

Matches(id) == {t \in Tasks : Identity(program.config[t]) = id}

(* A record moves when everything in it lies under one old destination and *)
(* no other record has a file at the new one.                              *)
Movable(request) ==
    LET at(id) == {v.at : v \in state[id].files}
    IN  /\ Cardinality(at(request.source)) <= 1
        /\ \A id \in DOMAIN state \ {request.source} : request.destination \notin at(id)
        /\ \A t \in Matches(request.target) :
               program.config[t].destination = request.destination

(* plan() and the conditions of operation().                               *)
Accepted(request) ==
    /\ journal = None
    /\ request.source \in DOMAIN state
    /\ IF request.retire
       THEN \A t \in Matches(request.source) : ~program.config[t].enabled
       ELSE Unused(request) /\ Cardinality(Matches(request.target)) = 1
    /\ request.destination # None => Movable(request)

Moved(request) ==
    LET old == state[request.source]
        new == IF request.retire THEN [old EXCEPT !.retired = TRUE]
               ELSE IF request.destination = None THEN [old EXCEPT !.retired = FALSE]
               ELSE [files |-> {[v EXCEPT !.at = request.destination] : v \in old.files},
                     retired |-> FALSE]
        id  == IF request.retire THEN request.source ELSE request.target
    IN  [i \in (DOMAIN state \ {request.source}) \cup {id} |-> IF i = id THEN new ELSE state[i]]

PlanMove ==
    /\ program.pc = "plan"
    /\ IF Accepted(program.request)
       THEN /\ journal' = state
            /\ program' = [program EXCEPT !.pc = "work", !.state = Moved(program.request)]
       ELSE program' = Idle /\ UNCHANGED journal
    /\ UNCHANGED <<saved, state, source, kept, taskEdits, kills>>

-----------------------------------------------------------------------------
(* Both: save the state, then close the transaction.                       *)

Save ==
    /\ program.pc = "work" /\ program.todo = {}
    /\ state' = program.state
    /\ program' = [program EXCEPT !.pc = "saved"]
    /\ UNCHANGED <<saved, journal, source, kept, taskEdits, kills>>

Held(records) == UNION {records[id].files : id \in DOMAIN records}

Commit ==
    /\ program.pc = "saved"
    /\ journal' = None
    /\ program' = Idle
    /\ kept' = [t \in Tasks |-> IF \E o \in program.owners : o.of = t
                                THEN (CHOOSE v \in NewestOf(t, Held(state)) : TRUE).n
                                ELSE kept[t]]
    /\ UNCHANGED <<saved, state, source, taskEdits, kills>>

ProgramDies ==
    /\ program # Idle /\ kills < MaxKills
    /\ kills' = kills + 1
    /\ program' = Idle
    /\ UNCHANGED <<saved, state, journal, source, kept, taskEdits>>

IdentityNext ==
    \/ (\E t \in Tasks, new \in Names : Rename(t, new)) \/ EditTask \/ SourceChanges
    \/ BeginRun \/ (\E t \in Tasks : RunTask(t)) \/ Prune
    \/ (\E request \in Requests : BeginTool(request)) \/ PlanMove
    \/ Save \/ Commit \/ ProgramDies

-----------------------------------------------------------------------------
(* Properties *)

Owners(id) == {v.of : v \in state[id].files}

(* A record holds the versions of one task only, although names are used   *)
(* again (configuration_links.py rename).                                  *)
OneTaskPerHistory == \A id \in DOMAIN state : Cardinality(Owners(id)) <= 1

(* Until the operator chooses an identity for it, all versions of a task   *)
(* are under one identity, however often it is renamed.                    *)
OneHistoryPerTask ==
    \A t \in Tasks : saved[t].state_id # Target[t] =>
        Cardinality({id \in DOMAIN state : t \in Owners(id)}) <= 1

(* The newest version that a finished run reported of a task is in some    *)
(* record: no order of saving the configuration, running and migrating     *)
(* lays one history over another (task_lifecycle.py plan).                 *)
NewestKept ==
    \A t \in Tasks : kept[t] # 0 => \E v \in Held(state) : v.of = t /\ v.n >= kept[t]

HistoriesWhole == OneTaskPerHistory /\ OneHistoryPerTask /\ NewestKept

(* As long as an identity is retired nothing is added to its history and   *)
(* nothing is taken from it (docs/discovery-and-review-details.md:55).     *)
RetiredRests ==
    \A id \in DOMAIN state \cap DOMAIN state' :
        state[id].retired /\ state'[id].retired => state'[id].files = state[id].files
=============================================================================
