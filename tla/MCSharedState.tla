-------------------------- MODULE MCSharedState --------------------------
(* Small instances of SharedState for TLC. *)
EXTENDS SharedState, TLC

\* Processes are interchangeable.
ProcSymmetry == Permutations(Procs)
=============================================================================
