------------------------------ MODULE MCStages ------------------------------
(***************************************************************************)
(* The stages of a run, for TLC: the calendars and policies of retention,  *)
(* the databases and hosts of the collectors, the sources of a scan, and   *)
(* the configuration files to load.                                        *)
(***************************************************************************)
EXTENDS Stages, TLC

(* Retention: two files, a short calendar, weeks of two days and months of *)
(* three, so that a week may belong to two months.                         *)

Calendar == 0..3
Intervals ==
    [daily   |-> [d \in Calendar |-> d],
     weekly  |-> [d \in Calendar |-> (d + 1) \div 2],
     monthly |-> [d \in Calendar |-> (d + 1) \div 3]]

Separate == "k1" :> "s1" @@ "k2" :> "s2"
Together == "k1" :> "s1" @@ "k2" :> "s1"
SizeOf   == "k1" :> 1 @@ "k2" :> 2

Keep(n) == [mode |-> "indefinite", min |-> n, maxVersions |-> None, maxAge |-> None,
            maxSize |-> None, tiers |-> <<>>, grace |-> 1, purge |-> None]

For(interval, n)  == [interval |-> interval, days |-> n, forever |-> FALSE]
Forever(interval) == [interval |-> interval, days |-> 0, forever |-> TRUE]
Tiered(tiers)     == [Keep(1) EXCEPT !.mode = "tiered", !.tiers = tiers]

(* Ceilings of count and age, and a purge.                                 *)
Simple ==
    [scopeOf |-> Together, size |-> SizeOf,
     active  |-> [Keep(1) EXCEPT !.mode = "simple", !.maxVersions = 2, !.maxAge = 2],
     deleted |-> [Keep(1) EXCEPT !.mode = "simple", !.maxAge = 1, !.purge = 3]]

(* Size targets, below what the floor protects.                            *)
Sized ==
    [scopeOf |-> Separate, size |-> SizeOf,
     active  |-> [Keep(1) EXCEPT !.maxSize = 1],
     deleted |-> [Keep(1) EXCEPT !.maxSize = 1]]

(* Tiers whose intervals nest.                                             *)
Nested ==
    [scopeOf |-> Separate, size |-> SizeOf,
     active  |-> Tiered(<<For("all", 1), For("daily", 1), Forever("monthly")>>),
     deleted |-> Tiered(<<For("all", 1), Forever("monthly")>>)]

Policies == {Simple, Sized, Nested}

(* The policy of docs/retention.md:79, weeks followed by months, which do  *)
(* not nest: without Nests in WithoutEnd, a run with this one, which no    *)
(* configuration uses, violates BucketsCovered.                            *)
Documented ==
    [scopeOf |-> Separate, size |-> SizeOf,
     active  |-> Tiered(<<For("all", 1), For("weekly", 3), Forever("monthly")>>),
     deleted |-> Tiered(<<For("all", 1), Forever("monthly")>>)]

-----------------------------------------------------------------------------
(* Collectors and what is made of their captures; HostReadings says what   *)
(* the host collector reads on each system.                                *)

Captures == "a" :> {"a1"} @@ "b" :> {"b1"} @@ "c" :> {}

ByName    == <<"A", "a", "b">>
FoldedOf  == "A" :> "a" @@ "a" :> "a" @@ "b" :> "b"

OfReads   == [objects |-> {"views", "tables"}, schedulers |-> {"jobs"}]
OfAdapters == [postgis |-> {"columns"}]
OffInPg   == {{}, {<<"schema">>, <<"config">>}, {<<"databases", "b">>}, {<<"configuration">>}}

Readings == INSTANCE HostReadings
Outputs  == Readings!Outputs
Surveys  == Readings!Surveys
Chosen   == {{"firewall", "rsop", "drives"}, {"registry", "components", "drives", "optional"}}
OffInHost == {{}, {<<"configuration">>}, {<<"hardware">>, <<"storage", "etc">>}}

-----------------------------------------------------------------------------
(* Source files: directories root/a and the archive itself, the vault;     *)
(* root/b and root/a/b may be links; x and X collide in portable names.    *)

Slot(d, n) == [dir |-> d, name |-> n]
Slots    == [dir : {"root", "a", "c", "vault"}, name : {"a", "b", "x", "X"}]
Homes    == "root" :> None @@ "a" :> Slot("root", "a") @@ "vault" :> None
          @@ "c" :> Slot("a", "a") @@ "h" :> Slot("c", "x")
          @@ "f" :> Slot("a", "x") @@ "g" :> Slot("a", "X") @@ "s" :> Slot("vault", "x")
Moves    == Slot("root", "a") :> {"a", None} @@ Slot("root", "b") :> {None, "a", "root", "s"}
          @@ Slot("a", "b") :> {None, "root"} @@ Slot("a", "x") :> {"f", None}
          @@ Slot("a", "X") :> {"g", None}
Sources  == {[p \in Slots |-> CASE p = Slot("root", "a") -> "a"
                               [] p = Slot("root", "b") -> b
                               [] p = Slot("a", "a") -> "c" [] p = Slot("c", "x") -> "h"
                               [] p = Slot("a", "b") -> "root"
                               [] p = Slot("a", "x") -> x
                               [] p = Slot("vault", "x") -> "s"
                               [] OTHER -> None] :
              b \in {None, "a", "vault"}, x \in {None, "f"}}
NameFold == "a" :> "a" @@ "b" :> "b" @@ "x" :> "x" @@ "X" :> "x"

(* A directory with and without a filter, and a glob with one.             *)
NotB  == [all |-> {},
          notB |-> {<<"b">> \o p : p \in UNION {[1..k -> {"a", "b", "x", "X"}] : k \in 0..3}}]
Asked == {[kind |-> "directory", filter |-> "all"], [kind |-> "directory", filter |-> "notB"],
          [kind |-> "glob", filter |-> "notB"]}

-----------------------------------------------------------------------------
(* One clone, two engines with a branch each, a worktree of other people.  *)

Own     == "e" :> "e" @@ "f" :> "f"
IgnoreOf == "e" :> {"z"} @@ "f" :> {}

-----------------------------------------------------------------------------
(* Configuration files: graphs of dependencies, inherited limits with      *)
(* identities and outputs that may clash, and layers of retention.         *)

Bounds(lo, hi)  == [min |-> lo, max |-> hi]
Unbounded       == Bounds(None, None)
Short(s)        == [top |-> s, active |-> None, deleted |-> None]
Long(a, d)      == [top |-> Unbounded, active |-> a, deleted |-> d]
Task(n, type) ==
    [name |-> n, id |-> None, type |-> type, phase |-> IF type = "execute" THEN 1 ELSE 2,
     deps |-> {}, enabled |-> TRUE, output |-> <<n>>, limit |-> None, profile |-> None,
     policy |-> None, retention |-> None]

C == Task("c", "execute")
D == Task("d", "execute")
A == Task("a", "directory")
Standard == [standard |-> Long(Bounds(2, 4), Bounds(1, None))]
File(ts) == [tasks |-> ts, policies |-> Standard, policy |-> None, limit |-> None,
             root |-> <<"vault">>, staging |-> None]

Graphs ==
    {File(<<[C EXCEPT !.deps = x, !.phase = 2], [D EXCEPT !.deps = y, !.phase = p],
            [A EXCEPT !.deps = z]>>) :
        x \in SUBSET {"c", "d", "a"}, y \in SUBSET {"c", "d", "a"},
        z \in SUBSET {"c", "d", "a"}, p \in 1..2}

Identified ==
    {File(<<[C EXCEPT !.id = i, !.output = o, !.enabled = e, !.profile = l],
            [D EXCEPT !.id = j, !.output = <<"o", "x">>, !.limit = m, !.deps = deps],
            [A EXCEPT !.deps = {"c", "d"}, !.limit = n]>>) :
        i \in {None, "d", "z"}, j \in {None, "z"}, o \in {<<"o">>, <<"o", "x">>, <<"q">>},
        e \in BOOLEAN, l \in {None, 1}, m \in {None, 2}, n \in {None, 3},
        deps \in {{}, {"c"}}}

Parts   == {None, Unbounded, Bounds(1, None), Bounds(3, 3)}
Written == {Short(s) : s \in Parts \ {None}} \cup {Long(a, d) : a \in Parts, d \in Parts}
Layered ==
    {[File(<<[A EXCEPT !.policy = q, !.retention = r]>>)
        EXCEPT !.policies = [standard |-> p], !.policy = default] :
        q \in {None, "standard"}, r \in {None} \cup Written,
        p \in Written \cup {Long(Bounds(3, 2), None)}, default \in {None, "standard", "none"}}

(* Collectors without an output of their own, one of whose names becomes   *)
(* that of the other in a path, and archives around the temporary one.     *)
InPath == "a" :> "a" @@ "c" :> "c" @@ "d" :> "d" @@ "c!" :> "c"
Staged == <<"tmp", "cb">>
Sited ==
    {[File(<<[C EXCEPT !.output = o], [Task(n, "execute") EXCEPT !.output = q, !.enabled = e]>>)
        EXCEPT !.root = r, !.staging = s] :
        n \in {"d", "c!"}, o \in {None, <<"tmp">>}, q \in {None, <<"tmp", "cb", "c">>},
        e \in BOOLEAN, r \in {<<>>, <<"vault">>, <<"tmp">>, <<"tmp", "cb">>},
        s \in {None, <<"vault", "s">>, <<"work">>, <<>>}}

Loaded == Graphs \cup Identified \cup Layered \cup Sited
=============================================================================
