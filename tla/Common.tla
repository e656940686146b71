------------------------------- MODULE Common -------------------------------
(***************************************************************************)
(* What the programs share: a value that stands for the absence of one.    *)
(***************************************************************************)
CONSTANT None
=============================================================================
