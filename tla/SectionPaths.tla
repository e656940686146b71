---------------------------- MODULE SectionPaths ----------------------------
(***************************************************************************)
(* The sections of a collection manifest (engine/sections.py,              *)
(* engine/completeness.py): a section is named by a path, the sequence of  *)
(* its parts, and stands for all that lies under it.                       *)
(***************************************************************************)
EXTENDS Naturals, Sequences

Starts(p, q) == Len(p) <= Len(q) /\ SubSeq(q, 1, Len(p)) = p

Item(p, status) == [path |-> p, status |-> status]
=============================================================================
