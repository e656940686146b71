------------------------------- MODULE Ledger -------------------------------
(***************************************************************************)
(* What an archive root promises to whoever starts the programs one after  *)
(* another: each program happens at once or not at all.  "books" is what   *)
(* the next program will find, the state document and the version files    *)
(* together.  A program that reports success has put all it did into the   *)
(* books in that instant, and one that dies has left them as they were,    *)
(* wherever it was.                                                        *)
(***************************************************************************)
CONSTANTS Ops,      \* the starts of programs
          Versions  \* archived versions

VARIABLES books,  \* what a later program finds
          done    \* starts that reported success

\* State document and archive agree, and the document records who succeeded.
Agreed(vs, os) == [state |-> [tracked |-> vs, recorded |-> os], archive |-> vs]

Init ==
    /\ books = Agreed({}, {})
    /\ done = {}

\* A backup adds versions and retention takes some away; a migration may leave
\* them as they are.
Succeed(o, vs) ==
    /\ o \notin done
    /\ done' = done \cup {o}
    /\ books' = Agreed(vs, done')

Next == \E o \in Ops, vs \in SUBSET Versions : Succeed(o, vs)

vars == <<books, done>>

Spec == Init /\ [][Next]_vars
=============================================================================
