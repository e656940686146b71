----------------------------- MODULE SourceScan -----------------------------
(***************************************************************************)
(* How a directory or glob task of the backup engine finds its files       *)
(* (_validate_scan_roots, _discover_sources, _walk_files of                *)
(* engine/configbackup.py) while the source changes under it, and which    *)
(* of its files it then takes to be missing (_store_discovered).           *)
(*                                                                         *)
(* A directory or file is known by its real place; a symbolic link is      *)
(* another slot that holds it.  A path is the sequence of the names below  *)
(* the source.  The source of a glob task is here all that lies in Root.   *)
(***************************************************************************)
EXTENDS Naturals, Sequences, FiniteSets, Common

CONSTANTS
    Searches,   \* tasks: [kind, filter], "directory" or "glob", include and exclude
    Hides,      \* filter -> paths it leaves out
    Dirs, Root, Files,
    Names,
    Home,       \* node -> the slot [dir, name] that is its real place, None if outside
    OwnDirs,    \* directories that are the backup's own
    Fold,       \* name -> its name as a file system without case has it
    Trees,      \* sources a scan may meet: slot -> node or None
    Turns,      \* slot -> what may come to be in it during a scan
    MaxDepth,   \* bound: names in a path that "steady" watches
    MaxChanges, \* bound: changes of the source
    MaxScans    \* bound: scans

ScanAssumption == Root \in Dirs /\ None \notin Dirs \cup Files /\ MaxDepth \in Nat

VARIABLES
    search,        \* the task
    tree,          \* slot -> node or None
    there,         \* whether Root exists
    closed,        \* directories that cannot be read
    scanning,      \* "idle", "match", "walk", "store"
    matches,       \* paths still to be walked
    stack,         \* os.walk: sets of paths left at each depth
    visited,       \* real directories seen by this walk
    found,         \* files found: [path, node]
    current, keys, \* paths of the task's state: current ones, all of them
    scanned,       \* of the last scan: "none", "stored" or "failed"
    reads,         \* auxiliary: directories read in this scan, under which name, and
                   \* whether that name has led to the same all the while: [dir, path, same]
    steady,        \* auxiliary: paths that led to the same file all through this scan
    changes, scans

svars == <<search, tree, there, closed, scanning, matches, stack, visited, found, current,
           keys, scanned, reads, steady, changes, scans>>
source == <<search, tree, there, closed, changes>>

(* Whether include and exclude let a path through.                         *)
Keeps(p) == p \notin Hides[search.filter]

At(t, d, n) == t[[dir |-> d, name |-> n]]

(* A link to something whose real place is empty leads nowhere.            *)
Lives(t, n) == n # None /\ (Home[n] = None \/ t[Home[n]] = n)

Below(t, d, name) ==
    LET n == At(t, d, name) IN IF d \in Dirs /\ Lives(t, n) THEN n ELSE None

(* The nodes along a path from Root, None where it leads nowhere.          *)
Trail(t, p) ==
    LET node[i \in 0..Len(p)] == IF i = 0 THEN Root ELSE Below(t, node[i - 1], p[i])
    IN  node
End(t, p) == Trail(t, p)[Len(p)]

(* _points_within_backup                                                   *)
InBackup(n) == n \in OwnDirs \/ (n \in Files /\ Home[n] # None /\ Home[n].dir \in OwnDirs)

(* scandir of the directory a path leads to now.                           *)
Readable(p) == there /\ End(tree, p) \in Dirs \ closed
Listing(p)  == {q \in {Append(p, n) : n \in Names} : End(tree, q) # None}

Read(d, p) == [dir |-> d, path |-> p, same |-> TRUE]

Paths == UNION {[1..k -> Names] : k \in 1..MaxDepth}

(* The paths that lead to a file now, readable or not; but glob.glob takes *)
(* a base it cannot read for an empty one.                                 *)
Reachable(t, ok, shut) ==
    {p \in Paths : /\ ok /\ End(t, p) \in Files /\ (search.kind = "glob" => Root \notin shut)
                   /\ \A i \in 0..Len(p) : ~InBackup(Trail(t, p)[i])}

ScanInit ==
    /\ search \in Searches /\ tree \in Trees
    /\ there = TRUE /\ closed = {} /\ scanning = "idle"
    /\ matches = {} /\ stack = <<>> /\ visited = {} /\ found = {}
    /\ current = {} /\ keys = {} /\ scanned = "none"
    /\ reads = {} /\ steady = {} /\ changes = 0 /\ scans = 0

(* The host changes the source, at any moment.                             *)
Change ==
    /\ changes < MaxChanges /\ changes' = changes + 1
    /\ \/ \E s \in DOMAIN Turns : \E n \in Turns[s] \ {tree[s]} :
            tree' = [tree EXCEPT ![s] = n] /\ UNCHANGED <<there, closed>>
       \/ there' = ~there /\ UNCHANGED <<tree, closed>>
       \/ \E d \in Dirs \ OwnDirs :
            /\ closed' = (closed \cup {d}) \ (closed \cap {d}) /\ UNCHANGED <<tree, there>>
    /\ steady' = {p \in steady \cap Reachable(tree', there', closed') :
                      Trail(tree', p) = Trail(tree, p)}
    /\ reads' = {[r EXCEPT !.same = @ /\ Trail(tree', r.path) = Trail(tree, r.path)] : r \in reads}
    /\ UNCHANGED <<search, scanning, matches, stack, visited, found, current, keys, scanned, scans>>

ScanFails == scanning' = "idle" /\ scanned' = "failed"

(* _validate_scan_roots                                                    *)
ValidateRoots ==
    /\ scanning = "idle" /\ scans < MaxScans /\ scans' = scans + 1
    /\ steady' = Reachable(tree, there, closed) /\ found' = {} /\ reads' = {}
    /\ IF Readable(<<>>) THEN scanning' = "match" /\ UNCHANGED scanned ELSE ScanFails
    /\ UNCHANGED <<source, matches, stack, visited, current, keys>>

(* The directory itself is walked, if it is one; or all that glob.glob     *)
(* matches in it, which swallows the errors it meets.                      *)
Match ==
    /\ scanning = "match"
    /\ LET here == IF Readable(<<>>) THEN Listing(<<>>) ELSE {}
           all  == {p \in here : ~InBackup(End(tree, p))}
       IN  IF search.kind = "glob"
           THEN /\ matches' = {p \in all : End(tree, p) \in Dirs}
                /\ found' = {[path |-> p, node |-> End(tree, p)] :
                                p \in {q \in all : End(tree, q) \in Files /\ Keeps(q)}}
           ELSE matches' = (IF there THEN {<<>>} ELSE {}) /\ UNCHANGED found
    /\ reads' = IF search.kind = "glob" THEN {Read(Root, <<>>)} ELSE {}
    /\ scanning' = "walk" /\ stack' = <<>> /\ visited' = {}
    /\ UNCHANGED <<source, current, keys, scanned, steady, scans>>

(* The walk of a match that was a directory a moment ago, or is none now.  *)
BeginWalk(p) ==
    /\ scanning = "walk" /\ stack = <<>> /\ p \in matches
    /\ matches' = matches \ {p}
    /\ stack' = IF there /\ End(tree, p) \in Dirs THEN <<{p}>> ELSE <<>>
    /\ visited' = {}
    /\ UNCHANGED <<source, scanning, found, current, keys, scanned, reads, steady, scans>>

(* Variant: the files of a directory are not looked at one by one.         *)
TakesUnchecked(p) == End(tree, p) \in Files /\ Keeps(p)

Takes(p) == End(tree, p) \in Files /\ Keeps(p) /\ ~InBackup(End(tree, p))

(* Variant: a directory that disappoints is passed over.                   *)
UnreadableSkipped(rest) == stack' = rest /\ UNCHANGED <<scanning, scanned>>

Unreadable(rest) == ScanFails /\ stack' = <<>>

(* Variant: what was seen is only told when a directory is listed.         *)
SeenNever(d) == FALSE

Seen(d) == d \in visited

(* _walk_files, one directory: os.walk lists it, and what has been seen    *)
(* under another name, or has become unreadable, is not gone into.         *)
ReadDirectory(p) ==
    /\ scanning = "walk" /\ stack # <<>> /\ p \in stack[Len(stack)]
    /\ LET d == End(tree, p)
           rest == IF stack[Len(stack)] = {p} THEN SubSeq(stack, 1, Len(stack) - 1)
                                              ELSE [stack EXCEPT ![Len(stack)] = @ \ {p}]
           below == {q \in Listing(p) : /\ End(tree, q) \in Dirs \ (visited \cup {d})
                                       /\ ~InBackup(End(tree, q))}
       IN  \/ /\ ~Readable(p) /\ Unreadable(rest)
              /\ UNCHANGED <<visited, found, reads>>
           \/ /\ Readable(p) /\ Seen(d)
              /\ stack' = rest /\ UNCHANGED <<scanning, scanned, visited, found, reads>>
           \/ /\ Readable(p) /\ ~Seen(d)
              /\ visited' = visited \cup {d} /\ reads' = reads \cup {Read(d, p)}
              /\ found' = found \cup {[path |-> q, node |-> End(tree, q)] :
                                        q \in {f \in Listing(p) : Takes(f)}}
              /\ stack' = (IF below = {} THEN rest ELSE Append(rest, below))
              /\ UNCHANGED <<scanning, scanned>>
    /\ UNCHANGED <<source, matches, current, keys, steady, scans>>

EndWalk ==
    /\ scanning = "walk" /\ stack = <<>> /\ matches = {} /\ scanning' = "store"
    /\ UNCHANGED <<source, matches, stack, visited, found, current, keys, scanned, reads, steady, scans>>

-----------------------------------------------------------------------------
(* _store_discovered                                                       *)

Folded(p) == [i \in DOMAIN p |-> Fold[p[i]]]

(* Variant: names are compared among the files found only.                 *)
ClashesFoundOnly(new) == \E p, q \in new : p # q /\ Folded(p) = Folded(q)

(* Two names that differ in case only, one of which may be long deleted.   *)
Clashes(new) == \E p, q \in new \cup keys : p # q /\ Folded(p) = Folded(q)

(* What was found is stored, unless it is gone again; what was active and  *)
(* was not found is missing.                                               *)
StoreFound ==
    /\ scanning = "store"
    /\ LET new == {f.path : f \in found}
       IN  IF Clashes(new) \/ \E p \in new : ~there \/ End(tree, p) \notin Files
           THEN ScanFails /\ UNCHANGED <<current, keys>>
           ELSE /\ scanning' = "idle" /\ scanned' = "stored"
                /\ current' = new /\ keys' = keys \cup new
    /\ UNCHANGED <<source, matches, stack, visited, found, reads, steady, scans>>

ScanStep ==
    \/ Match \/ EndWalk \/ StoreFound
    \/ \E p \in matches : BeginWalk(p)
    \/ \E p \in UNION {stack[i] : i \in 1..Len(stack)} : ReadDirectory(p)

ScanNext == Change \/ ValidateRoots \/ ScanStep

-----------------------------------------------------------------------------
(* _walk_files, _discover_sources: when a scan counts, the directory of    *)
(* every file that was there all the while was read, whatever links and    *)
(* cycles there are, whatever else changed and could not be read; and the  *)
(* file was found under that directory's name, unless that name is         *)
(* filtered out.  So what is taken for missing was gone or hidden.  The    *)
(* exception: a directory on its way was read through a link, and not      *)
(* again under its own name, and the link has been turned elsewhere since. *)
Misled(p) ==
    \E i \in 0..(Len(p) - 2) :
        /\ \E r \in reads : r.dir = Trail(tree, p)[i]
        /\ \A r \in reads : r.dir = Trail(tree, p)[i] => ~r.same

NothingOverlooked ==
    scanning = "idle" /\ scanned = "stored" =>
        \A p \in steady : Misled(p) \/ \E r \in reads :
            LET q == Append(r.path, p[Len(p)])
            IN  /\ r.dir = Trail(tree, p)[Len(p) - 1]
                /\ Keeps(q) => q \in current

(* _points_within_backup: no file of the backup itself is ever found, even *)
(* where a link is turned towards it during the walk.                      *)
NeverItself == \A f \in found : ~InBackup(f.node)

(* One walk reads a directory under one name only, so that a file is not   *)
(* stored twice, and ends however links turn in circles.                   *)
ReadOnce ==
    search.kind = "directory" => \A r, s \in reads : r.dir = s.dir => r = s

(* _store_discovered: the archive never holds two names that another file  *)
(* system would take for one.                                              *)
Portable == \A p, q \in keys : Folded(p) = Folded(q) => p = q

ScanSound == NothingOverlooked /\ NeverItself /\ ReadOnce /\ Portable

(* docs/configuration.md:237, "symbolic links are followed to their target *)
(* contents": a file that one path let through by the filters led to all   *)
(* the while is found, under whatever name.                                *)
LinksFollowed ==
    scanning = "idle" /\ scanned = "stored" =>
        \A p \in steady : Keeps(p) => \E f \in found : f.node = End(tree, p)
=============================================================================
