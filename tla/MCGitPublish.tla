--------------------------- MODULE MCGitPublish ---------------------------
(* Small instances of GitPublish for TLC. *)
EXTENDS GitPublish

CONSTANTS c1, c2
=============================================================================
