---------------------------- MODULE AtomicStore ----------------------------
(***************************************************************************)
(* What the durable undo journal promises to the rest of the backup        *)
(* engine: a set of files is updated as one unit.  "work" is what lies on  *)
(* disk now, "store" is what any later start of the program will find once *)
(* it has reconciled the journal.  Whatever crashes or write errors occur, *)
(* "store" changes only when a whole unit is published, and a unit that is *)
(* not published leaves no trace.                                          *)
(***************************************************************************)
CONSTANTS Paths,   \* the files under the archive roots, the state file too
          Values   \* what a file can hold, its absence included

VARIABLES store,   \* the contents a later start will find
          work,    \* the contents on disk now
          open     \* a unit of work is under way

Init ==
    /\ store \in [Paths -> Values]
    /\ work = store
    /\ open = FALSE

Begin ==
    /\ ~open
    /\ open' = TRUE
    /\ UNCHANGED <<store, work>>

\* A file of the unit changes on disk, or an undo puts one back.
Write(p, c) ==
    /\ open
    /\ work' = [work EXCEPT ![p] = c]
    /\ UNCHANGED <<store, open>>

\* Every change of the unit becomes what later starts find, at once.
Publish ==
    /\ open
    /\ open' = FALSE
    /\ store' = work
    /\ UNCHANGED work

\* The unit ends without effect, which needs every file to be back.
Discard ==
    /\ open
    /\ work = store
    /\ open' = FALSE
    /\ UNCHANGED <<store, work>>

Next ==
    \/ Begin
    \/ \E p \in Paths, c \in Values : Write(p, c)
    \/ Publish
    \/ Discard

vars == <<store, work, open>>

Spec == Init /\ [][Next]_vars
=============================================================================
