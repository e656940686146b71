-------------------------- MODULE MCTaskArchive --------------------------
(* Small instances of TaskArchive for TLC. *)
EXTENDS TaskArchive, TLC

CONSTANTS k1, k2, s1, s2

\* Two sections of one source file each, and one section of both.
Sections == [certified |-> TRUE, scopeOf |-> k1 :> s1 @@ k2 :> s2]
Plain    == [certified |-> FALSE, scopeOf |-> k1 :> s1 @@ k2 :> s1]

EitherTask == {Sections, Plain}
Certified  == {Sections}

\* Undoing fails for the task that keeps the run journal pending, or for both.
PlainUndoFails == FALSE :> 1 @@ TRUE :> 0
UndoFailsOnce  == [certified \in BOOLEAN |-> 1]

ContentSymmetry == Permutations(Contents)
=============================================================================
