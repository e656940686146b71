---------------------- MODULE MCTransactionJournal ----------------------
(* A small instance of TransactionJournal for TLC: a file of the archive   *)
(* root and one of the Git worktree, with two contents each.               *)
EXTENDS TransactionJournal, TLC

CONSTANTS state, snapshot, c1, c2
=============================================================================
