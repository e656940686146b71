---------------------------- MODULE MCEngineRun ----------------------------
(* Configurations of EngineRun for TLC: two or three tasks. *)
EXTENDS EngineRun

CONSTANTS c, a, x

(* An archive a of the collector c, and an independent required task x. *)
Plain ==
    [deps        |-> [t \in Tasks |-> IF t = a THEN {c} ELSE {}],
     phase       |-> [t \in Tasks |-> IF t = a THEN 3 ELSE 2],
     type        |-> [t \in Tasks |-> IF t = a THEN "directory" ELSE "execute"],
     storage     |-> [t \in Tasks |-> "filesystem"],
     enabled     |-> Tasks,
     required    |-> Tasks,
     always      |-> {},
     certified   |-> {},
     cadenced    |-> {},
     git         |-> FALSE,
     budgeted    |-> FALSE,
     stopOnError |-> FALSE]

(* Every dependency graph and every spread over two phases, for the loader *)
(* to reject or to accept.                                                 *)
AnyGraph ==
    {[Plain EXCEPT !.deps = deps, !.phase = ph] :
        deps \in [Tasks -> SUBSET Tasks], ph \in [Tasks -> {3, 5}]}

(* Cleanup after the archive or a task beside it, an abort or a budget,    *)
(* Git on or off, a disabled collector.                                    *)
Features ==
    {[Plain EXCEPT !.phase[x] = last, !.deps[x] = IF last = 5 THEN {a} ELSE {},
                   !.always = IF last = 5 THEN {x} ELSE {},
                   !.certified = IF stop THEN {a} ELSE {}, !.stopOnError = stop,
                   !.budgeted = ~stop, !.storage[a] = storage, !.git = git,
                   !.enabled = enabled] :
        last \in {2, 5}, stop \in BOOLEAN, storage \in {"filesystem", "git"},
        git \in BOOLEAN, enabled \in {Tasks, Tasks \ {c}}}

Scheduled == AnyGraph \cup Features

(* A cadence; each archive depends on one collector, errors stop nothing. *)
OneCollector ==
    {[Plain EXCEPT !.cadenced = {c}, !.certified = certified,
                   !.required = required, !.budgeted = budgeted,
                   !.storage[a] = storage, !.git = TRUE] :
        certified \in {{}, {a}}, required \in {Tasks, {c}},
        budgeted \in BOOLEAN, storage \in {"filesystem", "both"}}

StopOnError == {[Plain EXCEPT !.cadenced = {c}, !.stopOnError = TRUE]}

Published ==
    {[Plain EXCEPT !.cadenced = {c}, !.storage[a] = "both", !.git = TRUE]}

Clock  == 0..2
Hour   == 0..1
Frozen == {0}
=============================================================================
