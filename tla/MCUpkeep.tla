------------------------------ MODULE MCUpkeep ------------------------------
(***************************************************************************)
(* The programs beside a run, for TLC: the tables of the scrubber, of the  *)
(* tasks and of the monitor.                                               *)
(***************************************************************************)
EXTENDS Upkeep, TLC

(* Two versions, the first larger than the second and than the budget      *)
(* allows.                                                                 *)
SizeOf == [p \in Paths |-> 4 - p]

(* Two tasks; the operator has reserved a new identity for the first.      *)
FirstNames == <<"a", "b">>
Reserved   == <<"x", "b">>
Homes      == <<"p", "q">>
Versions   == <<2, 1>>

Channelled ==
    "mail" :> [type |-> "message", immediate |-> TRUE, digest |-> TRUE, severities |-> {}]
    @@ "hook" :> [type |-> "message", immediate |-> TRUE, digest |-> FALSE,
                  severities |-> {"critical"}]
Unmuted == {{}}
=============================================================================
