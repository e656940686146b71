---------------------------- MODULE UpkeepProofs ----------------------------
(***************************************************************************)
(* What the programs beside a run promise, for any tables, limits and      *)
(* bounds: one inductive invariant for each program, and the promises of   *)
(* Upkeep that follow from them.                                           *)
(***************************************************************************)
EXTENDS Upkeep, TLAPS, FiniteSetTheorems, WellFoundedInduction

-----------------------------------------------------------------------------
(* Recovery exports and their copies                                       *)

Bundles == [ident : Idents, born : Nat, good : BOOLEAN]
Stages  == {"idle", "list", "copy", "publish", "secondary", "point"}
Verdict == {"none", "verified", "failed"}
Refresh == [pc : Stages, done : 0..(Inputs + Programs - 1), listed : Idents, born : Nat,
            secondary : Verdict, moment : Idents, returned : SUBSET Parts]

TypeInv ==
    /\ edits \in Nat /\ mishaps \in Nat
    /\ input \in Idents
    /\ copies \in [Places -> SUBSET Bundles]
    /\ refresher \in Refresh /\ (refresher.pc = "list" => refresher.done < Inputs)
    /\ pruner.pc \in {"idle", "check", "delete"}

\* An input that is not copied yet is as it was when the listing ended, or no
\* longer what was listed, unless it was edited and edited back; and what is
\* copied is what was listed.
MomentInv ==
    refresher.pc \in {"copy", "publish"} =>
        \A n \in 1..Inputs :
            \/ refresher.listed[n] = refresher.moment[n]
            \/ n \in refresher.returned
            \/ refresher.pc = "copy" /\ n > refresher.done /\ input[n] # refresher.listed[n]

\* Bundles are numbered, and named for what they hold.
BundleInv ==
    \A place \in Places : \A c \in copies[place] :
        /\ c.born <= refresher.born
        /\ \A d \in copies[place] : c.ident = d.ident => c = d

\* The bundle that was published, and the one latest.json names, are there.
PointerInv ==
    /\ latest.ident # None => Named("local", latest.ident) # {}
    /\ refresher.pc \in {"secondary", "point"} => Named("local", refresher.listed) # {}

\* Retention spares its survivor and what latest.json names, keeps the refresh
\* out of the local directory, and has verified the survivor for the bundle it
\* is about to remove.
PrunerInv ==
    /\ pruner.pc # "idle" =>
         /\ pruner.place \in Places
         /\ pruner.survivor \notin pruner.doomed
         /\ pruner.place = "local" => /\ refresher.pc = "idle"
                                      /\ latest.ident \notin pruner.doomed
    /\ pruner.pc = "delete" => pruner.target \in pruner.doomed /\ pruner.stood = TRUE

CopiesInv == TypeInv /\ MomentInv /\ BundleInv /\ PointerInv /\ PrunerInv

-----------------------------------------------------------------------------
(* The newest good bundle *)

\* Where there is a good bundle, there is one that no good one is newer than.
LEMMA NewestExists ==
    ASSUME CopiesInv, NEW place \in Places, Good(place) # {}
    PROVE  Newest(place) \in Good(place) /\ Newer(place, Newest(place)) = {}
<1> DEFINE Age(c) == refresher.born - c.born
<1> DEFINE Ages == {Age(c) : c \in Good(place)}
<1>1. \A c \in Good(place) : c.born \in Nat /\ Age(c) \in Nat
  BY DEF CopiesInv, TypeInv, BundleInv, Good, Bundles, Refresh
<1>2. Ages \subseteq Nat /\ Ages # {}
  BY <1>1
<1>3. PICK a \in Ages : \A b \in Ages : ~ (<<b, a>> \in OpToRel(<, Nat))
  <2> HIDE DEF Ages
  <2> QED
    BY <1>2, NatLessThanWellFounded, WFMin, Zenon
<1>4. \A b \in Ages : ~ (b < a)
  BY <1>2, <1>3 DEF OpToRel
<1>5. PICK c \in Good(place) : a = Age(c)
  OBVIOUS
<1>6. \A d \in Good(place) : ~ (d.born > c.born)
  <2> SUFFICES ASSUME NEW d \in Good(place), d.born > c.born PROVE FALSE
    OBVIOUS
  <2>1. Age(d) < Age(c)
    BY <1>1 DEF CopiesInv, TypeInv, Refresh
  <2> QED
    BY <1>4, <1>5, <2>1
<1>7. Newer(place, c) = {}
  BY <1>6 DEF Newer
<1> QED
  BY <1>7 DEF Newest

-----------------------------------------------------------------------------
(* One lemma for each action *)

\* A refresh that is over is well typed.
LEMMA UnlockedTyped ==
    ASSUME RecoveryAssumption
    PROVE  /\ Blank \in Idents
           /\ NoRefresh \in Refresh /\ NoRefresh.pc = "idle" /\ NoRefresh.done = 0
           /\ NoRefresh.born = 0
           /\ CopiesInv => /\ Unlocked \in Refresh /\ Unlocked.pc = "idle"
                      /\ Unlocked.born = refresher.born
<1>1. 0 \in 0..(Inputs + Programs - 1)
  BY DEF RecoveryAssumption
<1>2. Blank \in Idents
  BY DEF RecoveryAssumption, Idents, Blank
<1>3. NoRefresh \in Refresh
  BY <1>1, <1>2 DEF NoRefresh, Refresh, Stages, Verdict
<1>4. CopiesInv => Unlocked \in Refresh
  BY <1>3 DEF CopiesInv, TypeInv, Unlocked, Refresh
<1> QED
  BY <1>2, <1>3, <1>4 DEF NoRefresh, Unlocked, Refresh

LEMMA CopiesStarts == ASSUME RecoveryAssumption, RecoveryInit PROVE CopiesInv
<1> USE RecoveryAssumption
<1>1. TypeInv
  BY UnlockedTyped DEF RecoveryInit, TypeInv, NoPrune, Places, Bundles
<1> QED
  BY <1>1, UnlockedTyped DEF RecoveryInit, CopiesInv, MomentInv, BundleInv, PointerInv, PrunerInv, NoPrune,
              Places

\* The next file is one of the bundle's, and the next to list is an input.
LEMMA NextPart ==
    ASSUME RecoveryAssumption, TypeInv
    PROVE  /\ refresher.done + 1 \in Parts /\ 1..Inputs \subseteq Parts
           /\ Inputs \in Nat \ {0} /\ Programs \in Nat
           /\ refresher.pc = "list" => refresher.done + 1 \in 1..Inputs
  BY DEF RecoveryAssumption, TypeInv, Refresh, Parts

LEMMA BeginRefreshKeeps ==
    ASSUME RecoveryAssumption, CopiesInv, BeginRefresh
    PROVE  CopiesInv'
<1> USE RecoveryAssumption DEF CopiesInv, TypeInv
<1>1. TypeInv'
  <2>1. refresher' \in Refresh /\ refresher'.pc = "list" /\ refresher'.done = 0
    BY UnlockedTyped DEF BeginRefresh, Stages, Refresh
  <2>2. 0 < Inputs
    BY NextPart
  <2> QED
    BY <2>1, <2>2 DEF BeginRefresh
<1>2. MomentInv'
  BY UnlockedTyped DEF BeginRefresh, Locked, MomentInv
<1>3. BundleInv'
  BY UnlockedTyped DEF BeginRefresh, Locked, BundleInv, Places, Bundles
<1>4. PointerInv'
  BY UnlockedTyped DEF BeginRefresh, Locked, PointerInv, Named, Places, Bundles
<1>5. PrunerInv'
  BY UnlockedTyped DEF BeginRefresh, Locked, PrunerInv, Places, Locked
<1> QED
  BY <1>1, <1>2, <1>3, <1>4, <1>5

LEMMA ListInputKeeps ==
    ASSUME RecoveryAssumption, CopiesInv, ListInput
    PROVE  CopiesInv'
<1> USE RecoveryAssumption DEF CopiesInv, TypeInv
<1>1. TypeInv'
  <2>1. /\ refresher.done + 1 \in Parts /\ refresher.done + 1 \in 1..Inputs
        /\ Inputs \in Nat \ {0} /\ Programs \in Nat
    BY NextPart DEF ListInput
  <2>2. (IF refresher.done + 1 = Inputs THEN 0 ELSE refresher.done + 1) \in 0..(Inputs - 1)
    BY <2>1
  <2>3. [refresher.listed EXCEPT ![refresher.done + 1] = input[refresher.done + 1]] \in Idents
    BY <2>1 DEF Refresh, Idents
  <2> DEFINE next == IF refresher.done + 1 = Inputs THEN 0 ELSE refresher.done + 1
             list == [refresher.listed EXCEPT ![refresher.done + 1] = input[refresher.done + 1]]
  <2>4. \E stage \in Stages, moment \in Idents :
            refresher' = [refresher EXCEPT !.listed = list, !.done = next, !.pc = stage,
                                           !.moment = moment]
    BY DEF ListInput, Refresh, Stages
  <2>5. next \in 0..(Inputs + Programs - 1) /\ next < Inputs
    BY <2>1, <2>2
  <2> HIDE DEF next, list
  <2>6. refresher' \in Refresh /\ refresher'.done < Inputs
    BY <2>3, <2>4, <2>5 DEF Refresh, list
  <2> QED
    BY <2>6 DEF ListInput
<1>2. MomentInv'
  <2>1. /\ refresher.done + 1 \in Parts /\ 1..Inputs \subseteq Parts /\ Inputs \in Nat \ {0}
    BY NextPart DEF ListInput
  <2>2. refresher'.pc # "publish" /\ input' = input
    BY DEF ListInput, Refresh
  <2>3. refresher'.pc = "copy" => refresher'.moment = input /\ refresher'.done = 0
    BY DEF ListInput, Refresh
  <2>4. \A n \in 1..Inputs : n > 0
    BY <2>1
  <2> QED
    BY <2>2, <2>3, <2>4 DEF MomentInv
<1>3. BundleInv'
  BY DEF ListInput, BundleInv, Refresh, Places, Bundles
<1>4. PointerInv'
  BY DEF ListInput, PointerInv, Named, Refresh, Places, Bundles
<1>5. PrunerInv'
  BY DEF ListInput, PrunerInv, Places, Locked
<1> QED
  BY <1>1, <1>2, <1>3, <1>4, <1>5

LEMMA CopyInputKeeps ==
    ASSUME RecoveryAssumption, CopiesInv, CopyInput
    PROVE  CopiesInv'
<1> USE RecoveryAssumption DEF CopiesInv, TypeInv
<1>1. TypeInv'
  <2>1. /\ refresher.done + 1 \in Parts /\ Inputs \in Nat \ {0} /\ Programs \in Nat
    BY NextPart
  <2>2. (IF refresher.done + 1 = Inputs + Programs THEN 0 ELSE refresher.done + 1)
            \in 0..(Inputs + Programs - 1)
    BY <2>1 DEF Parts
  <2>3. [refresher.listed EXCEPT ![refresher.done + 1] = input[refresher.done + 1]] \in Idents
    BY <2>1 DEF Refresh, Idents
  <2>4. refresher' \in Refresh /\ refresher'.pc # "list"
    BY <2>2, <2>3 DEF CopyInput, Refresh, Stages
  <2> QED
    BY <2>4 DEF CopyInput
<1>2. MomentInv'
  <2>1. /\ refresher.done + 1 \in Parts /\ 1..Inputs \subseteq Parts
        /\ Inputs \in Nat \ {0} /\ Programs \in Nat /\ refresher.done \in Nat
    BY NextPart DEF Refresh
  <2>2. \A n \in 1..Inputs : refresher'.listed[n] = refresher.listed[n]
    BY <2>1 DEF CopyInput, SameBytes, Refresh, Idents
  <2>3. /\ refresher'.moment = refresher.moment /\ refresher'.returned = refresher.returned
        /\ input' = input
    BY DEF CopyInput, Refresh
  <2>4. \A n \in 1..Inputs : \/ refresher.listed[n] = refresher.moment[n]
                             \/ n \in refresher.returned
                             \/ n > refresher.done /\ input[n] # refresher.listed[n]
    BY DEF CopyInput, MomentInv
  <2>5. refresher.done + 1 <= Inputs =>
            input[refresher.done + 1] = refresher.listed[refresher.done + 1]
    BY DEF CopyInput, SameBytes
  <2>6. \A n \in 1..Inputs : \/ refresher.listed[n] = refresher.moment[n]
                             \/ n \in refresher.returned
                             \/ n > refresher.done + 1 /\ input[n] # refresher.listed[n]
    BY <2>1, <2>4, <2>5
  <2>7. CASE refresher.done + 1 = Inputs + Programs
    <3>1. refresher'.pc = "publish"
      BY <2>7 DEF CopyInput, Refresh
    <3>2. \A n \in 1..Inputs : ~(n > refresher.done + 1)
      BY <2>1, <2>7
    <3> QED
      BY <2>2, <2>3, <2>6, <3>1, <3>2 DEF MomentInv
  <2>8. CASE refresher.done + 1 # Inputs + Programs
    <3>1. refresher'.pc = "copy" /\ refresher'.done = refresher.done + 1
      BY <2>8 DEF CopyInput, Refresh
    <3> QED
      BY <2>2, <2>3, <2>6, <3>1 DEF MomentInv
  <2> QED
    BY <2>7, <2>8
<1>3. BundleInv'
  BY DEF CopyInput, BundleInv, Refresh, Places, Bundles
<1>4. PointerInv'
  BY DEF CopyInput, PointerInv, Named, Refresh, Places, Bundles
<1>5. PrunerInv'
  BY DEF CopyInput, PrunerInv, Places, Locked
<1> QED
  BY <1>1, <1>2, <1>3, <1>4, <1>5

LEMMA RefreshFailsKeeps ==
    ASSUME RecoveryAssumption, CopiesInv, RefreshFails
    PROVE  CopiesInv'
<1> USE RecoveryAssumption DEF CopiesInv, TypeInv
<1>1. TypeInv'
  BY UnlockedTyped DEF RefreshFails, Stages, Verdict, Refresh, Bundles, Places
<1>2. MomentInv'
  BY UnlockedTyped DEF RefreshFails, MomentInv
<1>3. BundleInv'
  BY UnlockedTyped DEF RefreshFails, BundleInv, Places, Bundles
<1>4. PointerInv'
  BY UnlockedTyped DEF RefreshFails, PointerInv, Named, Places, Bundles
<1>5. PrunerInv'
  BY UnlockedTyped DEF RefreshFails, PrunerInv, Places, Locked
<1> QED
  BY <1>1, <1>2, <1>3, <1>4, <1>5

LEMMA PublishKeeps ==
    ASSUME RecoveryAssumption, CopiesInv, Publish
    PROVE  CopiesInv'
<1> USE RecoveryAssumption DEF CopiesInv, TypeInv
<1>1. TypeInv'
  <2>1. refresher.listed \in Idents /\ refresher.born \in Nat
    BY DEF Refresh
  <2>2. [ident |-> refresher.listed, born |-> refresher.born + 1, good |-> TRUE] \in Bundles
    BY <2>1 DEF Bundles
  <2>3. copies' \in [Places -> SUBSET Bundles]
    BY <2>2 DEF Publish, Places
  <2>4. refresher' \in Refresh
    <3>1. (IF copies' = copies THEN refresher.born ELSE refresher.born + 1) \in Nat
      BY <2>1
    <3> QED
      BY <3>1 DEF Publish, Refresh, Stages
  <2> QED
    BY <2>3, <2>4 DEF Publish
<1>2. MomentInv'
  BY DEF Publish, Named, MomentInv
<1>3. BundleInv'
  <2> DEFINE new == [ident |-> refresher.listed, born |-> refresher.born + 1, good |-> TRUE]
  <2>1. refresher.born \in Nat /\ refresher'.born \in Nat /\ refresher.born <= refresher'.born
    BY DEF Publish, Refresh
  <2>2. CASE copies' = copies
    BY <2>1, <2>2 DEF Publish, BundleInv, Bundles, Places
  <2>3. CASE copies' # copies
    <3>1. /\ \A c \in copies["local"] : c.ident # refresher.listed
          /\ copies' = [copies EXCEPT !["local"] = @ \cup {new}]
      BY <2>3 DEF Publish, Named
    <3>2. refresher'.born = refresher.born + 1
      BY <2>3 DEF Publish, Refresh
    <3>3. /\ copies'["local"] = copies["local"] \cup {new}
          /\ copies'["secondary"] = copies["secondary"]
      BY <3>1 DEF Places
    <3>4. \A place \in Places : \A c \in copies[place] : c.born \in Nat
      BY DEF Bundles
    <3>5. new.ident = refresher.listed /\ new.born = refresher'.born
      BY <3>2
    <3> HIDE DEF new
    <3>6. \A place \in Places : \A c \in copies[place] : c.born <= refresher'.born
      BY <2>1, <3>2, <3>4 DEF BundleInv
    <3> QED
      BY <2>1, <3>1, <3>2, <3>3, <3>5, <3>6 DEF BundleInv, Places
  <2> QED
    BY <2>2, <2>3
<1>4. PointerInv'
  <2> DEFINE new == [ident |-> refresher.listed, born |-> refresher.born + 1, good |-> TRUE]
  <2>1. copies["local"] \subseteq copies'["local"]
    BY DEF Publish, Places
  <2>2. \E c \in copies'["local"] : c.ident = refresher.listed
    <3>1. CASE Named("local", refresher.listed) # {}
      BY <2>1, <3>1 DEF Named
    <3>2. CASE Named("local", refresher.listed) = {}
      <4>1. new \in copies'["local"] /\ new.ident = refresher.listed
        BY <3>2 DEF Publish, Places
      <4> QED
        BY <4>1
    <3> QED
      BY <3>1, <3>2
  <2>3. refresher'.listed = refresher.listed /\ latest' = latest
    BY DEF Publish, Refresh
  <2> QED
    BY <2>1, <2>2, <2>3 DEF PointerInv, Named
<1>5. PrunerInv'
  BY DEF Publish, Named, PrunerInv, Places, Locked
<1> QED
  BY <1>1, <1>2, <1>3, <1>4, <1>5

LEMMA CopyAwayKeeps ==
    ASSUME RecoveryAssumption, CopiesInv, CopyAway
    PROVE  CopiesInv'
<1> USE RecoveryAssumption DEF CopiesInv, TypeInv
<1>1. TypeInv'
  <2> DEFINE fresh == {c \in Named("local", refresher.listed) : c.good}
  <2>1. \/ copies' = copies
        \/ /\ copies' = [copies EXCEPT !["secondary"] = @ \cup fresh]
           /\ Named("secondary", refresher.listed) = {}
    BY DEF CopyAway
  <2>2. fresh \subseteq Bundles
    BY DEF Named, Places
  <2>3. copies' \in [Places -> SUBSET Bundles]
    BY <2>1, <2>2 DEF Places
  <2>4. refresher' \in Refresh /\ refresher'.pc = "point"
    <3>1. \E verdict \in Verdict :
              refresher' = [refresher EXCEPT !.pc = "point", !.secondary = verdict]
      BY DEF CopyAway, Verdict
    <3> QED
      BY <3>1 DEF Refresh, Stages
  <2> QED
    BY <2>3, <2>4 DEF CopyAway
<1>2. MomentInv'
  BY DEF CopyAway, MomentInv, Refresh
<1>3. BundleInv'
  <2> DEFINE fresh == {c \in Named("local", refresher.listed) : c.good}
  <2>1. \/ copies' = copies
        \/ /\ copies' = [copies EXCEPT !["secondary"] = @ \cup fresh]
           /\ Named("secondary", refresher.listed) = {}
    BY DEF CopyAway
  <2>2. refresher'.born = refresher.born
    BY DEF CopyAway, Refresh
  <2>3. CASE copies' = copies
    BY <2>2, <2>3 DEF BundleInv
  <2>4. CASE /\ copies' = [copies EXCEPT !["secondary"] = @ \cup fresh]
             /\ Named("secondary", refresher.listed) = {}
    <3>1. /\ copies'["local"] = copies["local"]
          /\ copies'["secondary"] = copies["secondary"] \cup fresh
      BY <2>4 DEF Places
    <3>2. \A c \in fresh : c \in copies["local"] /\ c.ident = refresher.listed
      BY DEF Named
    <3>3. \A c \in copies["secondary"] : c.ident # refresher.listed
      BY <2>4 DEF Named
    <3> HIDE DEF fresh
    <3> QED
      BY <2>2, <3>1, <3>2, <3>3 DEF BundleInv, Places
  <2> QED
    BY <2>1, <2>3, <2>4
<1>4. PointerInv'
  <2> DEFINE fresh == {c \in Named("local", refresher.listed) : c.good}
  <2>1. \/ copies' = copies
        \/ /\ copies' = [copies EXCEPT !["secondary"] = @ \cup fresh]
           /\ Named("secondary", refresher.listed) = {}
    BY DEF CopyAway
  <2>2. copies'["local"] = copies["local"]
    BY <2>1 DEF Places
  <2>3. refresher'.listed = refresher.listed /\ latest' = latest /\ refresher.pc = "secondary"
    BY DEF CopyAway, Refresh
  <2> QED
    BY <2>2, <2>3 DEF PointerInv, Named
<1>5. PrunerInv'
  BY DEF CopyAway, Named, PrunerInv, Places, Locked
<1> QED
  BY <1>1, <1>2, <1>3, <1>4, <1>5

LEMMA PointKeeps ==
    ASSUME RecoveryAssumption, CopiesInv, Point
    PROVE  CopiesInv'
<1> USE RecoveryAssumption DEF CopiesInv, TypeInv
<1>1. TypeInv'
  BY UnlockedTyped DEF Point, Stages, Verdict, Refresh, Bundles, Places
<1>2. MomentInv'
  BY UnlockedTyped DEF Point, MomentInv
<1>3. BundleInv'
  BY UnlockedTyped DEF Point, BundleInv, Places, Bundles
<1>4. PointerInv'
  BY UnlockedTyped DEF Point, PointerInv, Named, Places, Bundles
<1>5. PrunerInv'
  BY UnlockedTyped DEF Point, PrunerInv, Places, Locked
<1> QED
  BY <1>1, <1>2, <1>3, <1>4, <1>5

LEMMA BeginRetainKeeps ==
    ASSUME RecoveryAssumption, CopiesInv, NEW place \in Places, BeginRetain(place)
    PROVE  CopiesInv'
<1> USE RecoveryAssumption DEF CopiesInv, TypeInv
<1>1. TypeInv'
  BY DEF BeginRetain, NoPrune, Locked, Good, Pointed, Stages, Verdict, Refresh, Bundles, Places
<1>2. MomentInv'
  BY DEF BeginRetain, Locked, Good, Pointed, MomentInv
<1>3. BundleInv'
  BY DEF BeginRetain, Locked, Good, Pointed, BundleInv, Places, Bundles
<1>4. PointerInv'
  BY DEF BeginRetain, Locked, Good, Pointed, PointerInv, Named, Places, Bundles
<1>5. PrunerInv'
  <2>1. /\ pruner'.pc = "check" /\ pruner'.place = place
        /\ pruner'.survivor = Newest(place).ident
        /\ pruner'.doomed = {c.ident : c \in {d \in Good(place) :
                                     Rank(place, d) >= Keep /\ d.ident # Pointed(place)}}
        /\ ~Locked(place) /\ Good(place) # {} /\ refresher' = refresher /\ latest' = latest
    BY DEF BeginRetain, NoPrune
  <2>2. Newest(place) \in Good(place) /\ Rank(place, Newest(place)) = 0
    BY <2>1, NewestExists, FS_EmptySet DEF Rank
  <2>3. Newest(place).ident \notin pruner'.doomed
    <3> SUFFICES ASSUME NEW d \in Good(place), Rank(place, d) >= Keep,
                        d.ident = Newest(place).ident
                 PROVE  FALSE
      BY <2>1
    <3>1. d = Newest(place)
      BY <2>2 DEF BundleInv, Good
    <3> QED
      BY <2>2, <3>1 DEF RecoveryAssumption
  <2>4. place = "local" => latest.ident \notin pruner'.doomed
    BY <2>1 DEF Pointed
  <2>5. place = "local" => refresher.pc = "idle"
    BY <2>1 DEF Locked
  <2> QED
    BY <2>1, <2>3, <2>4, <2>5 DEF PrunerInv
<1> QED
  BY <1>1, <1>2, <1>3, <1>4, <1>5

LEMMA CheckSurvivorKeeps ==
    ASSUME RecoveryAssumption, CopiesInv, NEW ident \in Idents, CheckSurvivor(ident)
    PROVE  CopiesInv'
<1> USE RecoveryAssumption DEF CopiesInv, TypeInv
<1>1. /\ pruner'.pc = "delete" /\ pruner'.target \in pruner'.doomed
      /\ pruner'.stood = Verified(pruner.place, pruner.survivor)
      /\ pruner'.place = pruner.place /\ pruner'.survivor = pruner.survivor
      /\ pruner'.doomed = pruner.doomed /\ pruner.pc = "check"
  BY DEF CheckSurvivor
<1>2. Verified(pruner.place, pruner.survivor) = TRUE
  BY DEF CheckSurvivor, SurvivorStands, Verified
<1>3. TypeInv'
  BY <1>1 DEF CheckSurvivor
<1>4. MomentInv'
  BY DEF CheckSurvivor, MomentInv
<1>5. BundleInv'
  BY DEF CheckSurvivor, BundleInv
<1>6. PointerInv'
  BY DEF CheckSurvivor, PointerInv, Named
<1>7. PrunerInv'
  BY <1>1, <1>2 DEF CheckSurvivor, PrunerInv
<1> QED
  BY <1>3, <1>4, <1>5, <1>6, <1>7

LEMMA DeleteBundleKeeps ==
    ASSUME RecoveryAssumption, CopiesInv, DeleteBundle
    PROVE  CopiesInv'
<1> USE RecoveryAssumption DEF CopiesInv, TypeInv
<1>1. TypeInv'
  <2> DEFINE P == pruner.place
             rest == copies[P] \ Named(P, pruner.target)
             torn == {[c EXCEPT !.good = FALSE] : c \in Named(P, pruner.target)}
  <2>1. P \in Places
    BY DEF DeleteBundle, PrunerInv
  <2>2. PICK left \in {rest, rest \cup torn, copies[P]} : copies' = [copies EXCEPT ![P] = left]
    BY DEF DeleteBundle
  <2>3. /\ \A c \in rest : c \in copies[P] /\ c.ident # pruner.target
        /\ \A c \in torn : \E d \in copies[P] : /\ d.ident = pruner.target
                                               /\ c = [d EXCEPT !.good = FALSE]
    BY DEF Named
  <2>4. left \subseteq Bundles
    <3>1. \A c \in torn : c \in Bundles
      <4> TAKE c \in torn
      <4>1. PICK d \in copies[P] : c = [d EXCEPT !.good = FALSE]
        BY <2>3
      <4>2. d \in Bundles
        BY <2>1
      <4> QED
        BY <4>1, <4>2 DEF Bundles
    <3> QED
      BY <2>1, <2>3, <3>1
  <2>5. copies' \in [Places -> SUBSET Bundles]
    BY <2>1, <2>2, <2>4
  <2> QED
    BY <2>5 DEF DeleteBundle
<1>2. MomentInv'
  BY DEF DeleteBundle, Named, MomentInv
<1>3. BundleInv'
  <2> DEFINE P == pruner.place
             rest == copies[P] \ Named(P, pruner.target)
             torn == {[c EXCEPT !.good = FALSE] : c \in Named(P, pruner.target)}
  <2>1. P \in Places
    BY DEF DeleteBundle, PrunerInv
  <2>2. PICK left \in {rest, rest \cup torn, copies[P]} : copies' = [copies EXCEPT ![P] = left]
    BY DEF DeleteBundle
  <2>3. /\ \A c \in rest : c \in copies[P] /\ c.ident # pruner.target
        /\ \A c \in torn : \E d \in copies[P] : /\ d.ident = pruner.target
                                               /\ c = [d EXCEPT !.good = FALSE]
    BY DEF Named
  <2>4. \A c \in torn : \E d \in copies[P] :
            c = [d EXCEPT !.good = FALSE] /\ c.ident = pruner.target /\ d.ident = pruner.target /\ c.born = d.born
    BY <2>1, <2>3 DEF Bundles
  <2>5. \A c, d \in torn : c = d
    <3> TAKE c, d \in torn
    <3>1. PICK e \in copies[P] : c = [e EXCEPT !.good = FALSE] /\ e.ident = pruner.target
      BY <2>4
    <3>2. PICK f \in copies[P] : d = [f EXCEPT !.good = FALSE] /\ f.ident = pruner.target
      BY <2>4
    <3>3. e = f
      BY <2>1, <3>1, <3>2 DEF BundleInv
    <3> QED
      BY <3>1, <3>2, <3>3
  <2>6. \A c \in left : c.born <= refresher.born
    BY <2>1, <2>3, <2>4 DEF BundleInv
  <2>7. \A c, d \in left : c.ident = d.ident => c = d
    <3>1. CASE left = rest \cup torn
      BY <2>1, <2>3, <2>4, <2>5, <3>1 DEF BundleInv
    <3>2. CASE left # rest \cup torn
      BY <2>1, <2>3, <3>2 DEF BundleInv
    <3> QED
      BY <3>1, <3>2
  <2>8. copies'[P] = left /\ \A place \in Places : place # P => copies'[place] = copies[place]
    BY <2>1, <2>2
  <2>9. refresher' = refresher
    BY DEF DeleteBundle
  <2> HIDE DEF P, rest, torn
  <2> QED
    BY <2>6, <2>7, <2>8, <2>9 DEF BundleInv
<1>4. PointerInv'
  <2> DEFINE P == pruner.place
             rest == copies[P] \ Named(P, pruner.target)
             torn == {[c EXCEPT !.good = FALSE] : c \in Named(P, pruner.target)}
  <2>1. P \in Places
    BY DEF DeleteBundle, PrunerInv
  <2>2. PICK left \in {rest, rest \cup torn, copies[P]} : copies' = [copies EXCEPT ![P] = left]
    BY DEF DeleteBundle
  <2>3. /\ \A c \in rest : c \in copies[P] /\ c.ident # pruner.target
        /\ \A c \in torn : \E d \in copies[P] : /\ d.ident = pruner.target
                                               /\ c = [d EXCEPT !.good = FALSE]
    BY DEF Named
  <2>4. refresher' = refresher /\ latest' = latest /\ pruner.target \in pruner.doomed /\ pruner.pc = "delete"
    BY DEF DeleteBundle, PrunerInv
  <2>5. P = "local" => pruner.target # latest.ident /\ refresher.pc = "idle"
    BY <2>4 DEF PrunerInv
  <2>6. \A c \in copies["local"] : P # "local" \/ c.ident # pruner.target => c \in copies'["local"]
    BY <2>1, <2>2 DEF Places, Named
  <2> QED
    BY <2>4, <2>5, <2>6 DEF PointerInv, Named
<1>5. PrunerInv'
  BY DEF DeleteBundle, Named, PrunerInv, Places, Locked
<1> QED
  BY <1>1, <1>2, <1>3, <1>4, <1>5

LEMMA EndRetainKeeps ==
    ASSUME RecoveryAssumption, CopiesInv, EndRetain
    PROVE  CopiesInv'
<1> USE RecoveryAssumption DEF CopiesInv, TypeInv
<1>1. TypeInv'
  BY DEF EndRetain, NoPrune, Stages, Verdict, Refresh, Bundles, Places
<1>2. MomentInv'
  BY DEF EndRetain, NoPrune, MomentInv
<1>3. BundleInv'
  BY DEF EndRetain, NoPrune, BundleInv, Places, Bundles
<1>4. PointerInv'
  BY DEF EndRetain, NoPrune, PointerInv, Named, Places, Bundles
<1>5. PrunerInv'
  BY DEF EndRetain, NoPrune, PrunerInv, Places, Locked
<1> QED
  BY <1>1, <1>2, <1>3, <1>4, <1>5

LEMMA EditKeeps ==
    ASSUME RecoveryAssumption, CopiesInv, NEW n \in Parts, Edit(n)
    PROVE  CopiesInv'
<1> USE RecoveryAssumption DEF CopiesInv, TypeInv
<1>1. PICK b \in Texts \ {input[n]} :
         /\ input' = [input EXCEPT ![n] = b]
         /\ refresher' = IF ~Awaited(n) THEN refresher ELSE
                [refresher EXCEPT !.returned = IF b = refresher.listed[n] THEN @ \cup {n}
                                               ELSE @ \ {n}]
  BY DEF Edit
<1>2. /\ refresher'.pc = refresher.pc /\ refresher'.done = refresher.done
      /\ refresher'.listed = refresher.listed /\ refresher'.born = refresher.born
      /\ refresher'.moment = refresher.moment
      /\ \A k \in Parts : k # n => (k \in refresher'.returned <=> k \in refresher.returned)
  BY <1>1 DEF Refresh
<1>3. TypeInv'
  <2>1. input' \in Idents
    BY <1>1 DEF Idents
  <2>2. refresher' \in Refresh
    BY <1>1 DEF Refresh
  <2> QED
    BY <1>2, <2>1, <2>2 DEF Edit
<1>4. MomentInv'
  <2>1. 1..Inputs \subseteq Parts /\ refresher.done \in Nat /\ Inputs \in Nat
    BY NextPart DEF Refresh
  <2>2. \A k \in Parts : k # n => input'[k] = input[k]
    BY <1>1 DEF Idents
  <2>3. CASE Awaited(n)
    <3>1. n \in refresher'.returned \/ input'[n] # refresher.listed[n]
      BY <1>1, <2>3 DEF Refresh, Idents
    <3>2. refresher.pc = "publish" => FALSE
      BY <2>3 DEF Awaited
    <3>3. refresher.pc = "copy" => n > refresher.done
      BY <2>3 DEF Awaited
    <3> QED
      BY <1>2, <2>1, <2>2, <3>1, <3>2, <3>3 DEF MomentInv
  <2>4. CASE ~Awaited(n)
    <3>1. refresher' = refresher
      BY <1>1, <2>4
    <3>2. refresher.pc = "copy" /\ n \in 1..Inputs => ~(n > refresher.done)
      BY <2>1, <2>4 DEF Awaited
    <3> QED
      BY <2>1, <2>2, <3>1, <3>2 DEF MomentInv
  <2> QED
    BY <2>3, <2>4
<1>5. BundleInv'
  BY <1>2 DEF Edit, BundleInv
<1>6. PointerInv'
  BY <1>2 DEF Edit, PointerInv, Named
<1>7. PrunerInv'
  BY <1>2 DEF Edit, PrunerInv
<1> QED
  BY <1>3, <1>4, <1>5, <1>6, <1>7

LEMMA DamageKeeps ==
    ASSUME RecoveryAssumption, CopiesInv, NEW place \in Places, NEW c \in copies[place], Damage(place, c)
    PROVE  CopiesInv'
<1> USE RecoveryAssumption DEF CopiesInv, TypeInv
<1>1. TypeInv'
  <2> DEFINE bad == [c EXCEPT !.good = FALSE]
  <2>1. bad \in Bundles /\ bad.ident = c.ident /\ bad.born = c.born
    <3>1. c \in Bundles
      OBVIOUS
    <3> QED
      BY <3>1 DEF Bundles
  <2>2. /\ copies'[place] = (copies[place] \ {c}) \cup {bad}
        /\ \A other \in Places : other # place => copies'[other] = copies[other]
    BY DEF Damage
  <2>3. copies' \in [Places -> SUBSET Bundles]
    BY <2>1 DEF Damage
  <2> QED
    BY <2>3 DEF Damage
<1>2. MomentInv'
  BY DEF Damage, Named, MomentInv
<1>3. BundleInv'
  <2> DEFINE bad == [c EXCEPT !.good = FALSE]
  <2>1. bad \in Bundles /\ bad.ident = c.ident /\ bad.born = c.born
    <3>1. c \in Bundles
      OBVIOUS
    <3> QED
      BY <3>1 DEF Bundles
  <2>2. /\ copies'[place] = (copies[place] \ {c}) \cup {bad}
        /\ \A other \in Places : other # place => copies'[other] = copies[other]
    BY DEF Damage
  <2>3. refresher' = refresher
    BY DEF Damage
  <2> HIDE DEF bad
  <2>4. \A d, e \in copies'[place] : d.ident = e.ident => d = e
    BY <2>1, <2>2 DEF BundleInv
  <2>5. \A d \in copies'[place] : d.born <= refresher.born
    BY <2>1, <2>2 DEF BundleInv
  <2> QED
    BY <2>2, <2>3, <2>4, <2>5 DEF BundleInv
<1>4. PointerInv'
  <2> DEFINE bad == [c EXCEPT !.good = FALSE]
  <2>1. bad \in Bundles /\ bad.ident = c.ident /\ bad.born = c.born
    <3>1. c \in Bundles
      OBVIOUS
    <3> QED
      BY <3>1 DEF Bundles
  <2>2. /\ copies'[place] = (copies[place] \ {c}) \cup {bad}
        /\ \A other \in Places : other # place => copies'[other] = copies[other]
    BY DEF Damage
  <2>3. latest' = latest /\ refresher' = refresher
    BY DEF Damage
  <2> HIDE DEF bad
  <2>4. \A d \in copies["local"] : \E e \in copies'["local"] : e.ident = d.ident
    BY <2>1, <2>2 DEF Places
  <2> QED
    BY <2>3, <2>4 DEF PointerInv, Named
<1>5. PrunerInv'
  BY DEF Damage, Named, PrunerInv, Places, Locked
<1> QED
  BY <1>1, <1>2, <1>3, <1>4, <1>5

LEMMA CrashRecoveryKeeps ==
    ASSUME RecoveryAssumption, CopiesInv, CrashRecovery
    PROVE  CopiesInv'
<1> USE RecoveryAssumption DEF CopiesInv, TypeInv
<1>1. TypeInv'
  BY UnlockedTyped DEF CrashRecovery, NoPrune, Stages, Verdict, Refresh, Bundles, Places
<1>2. MomentInv'
  BY UnlockedTyped DEF CrashRecovery, NoPrune, MomentInv
<1>3. BundleInv'
  BY UnlockedTyped DEF CrashRecovery, NoPrune, BundleInv, Places, Bundles
<1>4. PointerInv'
  BY UnlockedTyped DEF CrashRecovery, NoPrune, PointerInv, Named, Places, Bundles
<1>5. PrunerInv'
  BY UnlockedTyped DEF CrashRecovery, NoPrune, PrunerInv, Places, Locked
<1> QED
  BY <1>1, <1>2, <1>3, <1>4, <1>5

\* Every step keeps the invariant.
LEMMA CopiesSteps == ASSUME RecoveryAssumption, CopiesInv, [RecoveryNext]_rvars PROVE CopiesInv'
<1>1. CASE UNCHANGED rvars
  BY <1>1 DEF rvars, CopiesInv, TypeInv, MomentInv, BundleInv, PointerInv, PrunerInv, Named
<1>2. CASE RecoveryNext
  BY <1>2, BeginRefreshKeeps, ListInputKeeps, CopyInputKeeps, RefreshFailsKeeps, PublishKeeps,
     CopyAwayKeeps, PointKeeps, BeginRetainKeeps, CheckSurvivorKeeps, DeleteBundleKeeps, EndRetainKeeps,
     EditKeeps, DamageKeeps, CrashRecoveryKeeps DEF RecoveryNext
<1> QED
  BY <1>1, <1>2

\* No program removes the last bundle of a place that still verifies, unless
\* the survivor was damaged after it was verified for this removal.
LEMMA LastGoodKept ==
    ASSUME RecoveryAssumption, CopiesInv, [RecoveryNext]_rvars PROVE LastGoodStays
<1> SUFFICES ASSUME mishaps' = mishaps, ~FellMeanwhile,
                    NEW place \in Places, NEW c \in copies[place], c.good
             PROVE  \E d \in copies'[place] : d.good
  BY DEF LastGoodStays, Good
<1>1. copies \in [Places -> SUBSET Bundles]
  BY DEF CopiesInv, TypeInv
<1>2. CASE copies[place] \subseteq copies'[place]
  BY <1>2
<1>3. CASE Publish \/ CopyAway
  BY <1>1, <1>2, <1>3 DEF Publish, CopyAway, Places
<1>4. CASE DeleteBundle
  <2>1. CASE place # pruner.place
    BY <1>1, <1>2, <1>4, <2>1 DEF DeleteBundle
  <2>2. CASE place = pruner.place
    <3>1. PICK d \in Named(place, pruner.survivor) : d.good
      BY <1>4, <2>2 DEF DeleteBundle, CopiesInv, PrunerInv, FellMeanwhile, Verified
    <3>2. d \in copies[place] \ Named(place, pruner.target)
      BY <1>4, <3>1 DEF DeleteBundle, Named, CopiesInv, PrunerInv
    <3>3. d \in copies'[place]
      BY <1>1, <1>4, <2>2, <3>2 DEF DeleteBundle
    <3> QED
      BY <3>1, <3>3
  <2> QED
    BY <2>1, <2>2
<1>5. ASSUME NEW other \in Places, NEW d \in copies[other], Damage(other, d) PROVE FALSE
  <2>1. mishaps' = mishaps + 1
    BY <1>5 DEF Damage
  <2> QED
    BY <2>1 DEF CopiesInv, TypeInv
<1>6. CASE UNCHANGED copies
  BY <1>6
<1> QED
  BY <1>3, <1>4, <1>5, <1>6 DEF RecoveryNext, BeginRefresh, ListInput, CopyInput, RefreshFails,
     Point, BeginRetain, CheckSurvivor, EndRetain, Edit, CrashRecovery, rvars

\* What the bundles promise, from the invariant.
LEMMA CopiesHold == CopiesInv => BundlesTogether
  BY DEF CopiesInv, MomentInv, BundleInv, PointerInv, BundlesTogether

-----------------------------------------------------------------------------
(* The rehearsal                                                           *)

\* What is known of a call: the bundle it began with and, once it has
\* relocated, the one it relocated, which is the same unless it was changed.
Course == [begun : Setups, used : Setups \cup {None}, moved : BOOLEAN]

\* A call carries the print of the bundle it began with, and so does the result
\* it leaves; a passed one has relocated a bundle that verified, with the files
\* it began with unless the bundle was changed meanwhile. "not_due" is the
\* answer of a call that has ended, and stands until the bundle or another
\* call moves.
Carried(course, print, status) ==
    /\ course \in Course
    /\ print = Fingerprint(course.begun)
    /\ status = "passed" => course.used.files = course.begun.files \/ course.moved

DrillInv ==
    /\ bundle \in Setups
    /\ stood \in [marker : Course \cup {None}, call : Course \cup {None}]
    /\ drill.pc \in {"idle", "rehearse", "relocate", "record", "mark", "trim"}
    /\ drill.status \in {"passed", "failed"}
    /\ drill.pc \in {"rehearse", "relocate", "record", "mark"} =>
           Carried(stood.call, drill.print, drill.status)
    /\ drill.pc \in {"rehearse", "relocate"} =>
           drill.status # "passed" /\ (stood.call.moved \/ bundle = stood.call.begun)
    /\ marker # None => Carried(stood.marker, marker.print, marker.status)
    /\ answer = "not_due" => drill.pc = "idle"
    /\ RehearsalStands

LEMMA DrillStarts == ASSUME DrillAssumption, DrillInit PROVE DrillInv
  BY DEF DrillInit, DrillInv, NoDrill, Setups, Maybe, RehearsalStands

LEMMA DrillSteps == ASSUME DrillAssumption, DrillInv, [DrillNext]_dvars PROVE DrillInv'
<1> USE DEF DrillInv, DrillAssumption, RehearsalStands
<1>1. CASE BeginDrill
  <2> DEFINE course == [begun |-> bundle, used |-> None, moved |-> FALSE]
  <2> SUFFICES ASSUME NEW now \in Clock, NEW force \in BOOLEAN,
                      IF ~force /\ Counts(now)
                      THEN answer' = "not_due" /\ UNCHANGED <<drill, stood>>
                      ELSE /\ drill' = [pc |-> "rehearse", at |-> now,
                                        print |-> Fingerprint(bundle), status |-> "failed"]
                           /\ stood' = [stood EXCEPT !.call = course]
                           /\ answer' = "running"
               PROVE  DrillInv'
    BY <1>1 DEF BeginDrill
  <2>1. UNCHANGED <<bundle, marker, results>> /\ drill.pc = "idle"
    BY <1>1 DEF BeginDrill
  <2>2. CASE ~force /\ Counts(now)
    <3>1. /\ marker # None /\ marker.status = "passed"
          /\ Fingerprint(bundle) # None /\ marker.print = Fingerprint(bundle)
      BY <2>2 DEF Counts
    <3>2. /\ Passed(bundle) /\ Passed(stood.marker.begun)
          /\ bundle.listed = stood.marker.begun.listed
      BY <3>1 DEF Carried, Fingerprint
    <3>3. bundle.files = stood.marker.begun.files
      BY <3>2 DEF Passed
    <3>4. UNCHANGED <<drill, stood>> /\ answer' = "not_due"
      BY <2>2
    <3> QED
      BY <2>1, <3>1, <3>3, <3>4 DEF Carried
  <2>3. CASE ~(~force /\ Counts(now))
    <3>1. course \in Course
      BY DEF Course
    <3>2. /\ drill'.pc = "rehearse" /\ drill'.status = "failed" /\ answer' = "running"
          /\ drill'.print = Fingerprint(bundle) /\ stood' = [stood EXCEPT !.call = course]
      BY <2>3
    <3>3. course.begun = bundle /\ Carried(course, drill'.print, drill'.status)
      BY <3>1, <3>2 DEF Carried
    <3> HIDE DEF course
    <3>4. stood'.call = course /\ stood'.marker = stood.marker
      BY <3>2
    <3>5. stood' = [marker |-> stood.marker, call |-> course]
      BY <3>2
    <3>6. stood' \in [marker : Course \cup {None}, call : Course \cup {None}]
      BY <3>1, <3>5
    <3> QED
      BY <2>1, <3>2, <3>3, <3>4, <3>6
  <2> QED
    BY <2>2, <2>3
<1>2. CASE VerifyAgain
  BY <1>2 DEF VerifyAgain, Carried
<1>3. CASE Relocate
  <2>1. PICK valid \in BOOLEAN : drill' = [drill EXCEPT !.pc = "record",
                       !.status = IF Passed(bundle) /\ valid THEN "passed" ELSE "failed"]
    BY <1>3 DEF Relocate
  <2>2. /\ Carried(stood.call, drill.print, drill.status)
        /\ stood.call.moved \/ bundle = stood.call.begun
    BY <1>3 DEF Relocate
  <2>3. /\ stood'.call = [stood.call EXCEPT !.used = bundle] /\ stood'.marker = stood.marker
        /\ DOMAIN stood' = DOMAIN stood
    BY <1>3 DEF Relocate
  <2>4. /\ stood'.call \in Course /\ stood'.call.begun = stood.call.begun
        /\ stood'.call.used = bundle /\ stood'.call.moved = stood.call.moved
    BY <2>2, <2>3 DEF Carried, Course
  <2>5. stood' \in [marker : Course \cup {None}, call : Course \cup {None}]
    BY <1>3, <2>2 DEF Relocate, Carried, Course
  <2>6. /\ UNCHANGED <<bundle, marker, results, answer>> /\ drill.pc = "relocate"
        /\ answer # "not_due"
    BY <1>3 DEF Relocate
  <2>7. /\ drill'.pc = "record" /\ drill'.print = drill.print
        /\ drill'.status \in {"passed", "failed"}
    BY <2>1
  <2>8. Carried(stood'.call, drill'.print, drill'.status)
    BY <2>2, <2>4, <2>7 DEF Carried
  <2> QED
    BY <2>3, <2>5, <2>6, <2>7, <2>8
<1>4. CASE Record
  BY <1>4 DEF Record
<1>5. CASE Mark
  <2>1. /\ marker'.print = drill.print /\ marker'.status = drill.status
        /\ stood'.marker = stood.call
        /\ stood' \in [marker : Course \cup {None}, call : Course \cup {None}]
        /\ bundle' = bundle /\ answer' = answer
        /\ Carried(stood.call, drill.print, drill.status) /\ answer # "not_due"
    BY <1>5 DEF Mark
  <2>2. Carried(stood'.marker, marker'.print, marker'.status)
    BY <2>1
  <2>3. drill'.pc = "trim" /\ drill'.status = drill.status /\ drill.pc = "mark"
    BY <1>5 DEF Mark
  <2>4. bundle' \in Setups /\ answer' # "not_due" /\ drill'.status \in {"passed", "failed"}
    BY <2>1, <2>3
  <2> QED
    BY <2>1, <2>2, <2>3, <2>4
<1>6. CASE Trim
  BY <1>6 DEF Trim, NoDrill
<1>7. CASE ChangeBundle
  <2>1. bundle' \in Setups
    BY <1>7 DEF ChangeBundle, Setups, Maybe
  <2>2. CASE drill.pc \in {"rehearse", "relocate"}
    <3>1. /\ stood'.call = [stood.call EXCEPT !.moved = TRUE] /\ stood'.marker = stood.marker
          /\ stood.call \in Course
      BY <1>7, <2>2 DEF ChangeBundle, Carried
    <3>2. /\ stood'.call \in Course /\ stood'.call.begun = stood.call.begun
          /\ stood'.call.moved = TRUE
      BY <3>1 DEF Course
    <3>3. stood' \in [marker : Course \cup {None}, call : Course \cup {None}]
      BY <1>7, <2>2, <3>1 DEF ChangeBundle, Course
    <3>4. /\ Carried(stood.call, drill.print, drill.status) /\ drill.status # "passed"
          /\ UNCHANGED <<marker, drill>> /\ answer' = "none"
      BY <1>7, <2>2 DEF ChangeBundle
    <3>5. Carried(stood'.call, drill.print, drill.status)
      BY <3>2, <3>4 DEF Carried
    <3> QED
      BY <2>1, <3>1, <3>2, <3>3, <3>4, <3>5
  <2>3. CASE drill.pc \notin {"rehearse", "relocate"}
    BY <1>7, <2>1, <2>3 DEF ChangeBundle
  <2> QED
    BY <2>2, <2>3
<1>8. CASE DrillDies
  BY <1>8 DEF DrillDies, NoDrill
<1>9. CASE UNCHANGED dvars
  BY <1>9 DEF dvars
<1> QED
  BY <1>1, <1>2, <1>3, <1>4, <1>5, <1>6, <1>7, <1>8, <1>9 DEF DrillNext

-----------------------------------------------------------------------------
(* Histories                                                               *)

Identities == UNION {Own(t) : t \in Tasks}
TaskEntry  == [name : Names, state_id : Identities \cup {None}, enabled : BOOLEAN,
               destination : Destinations]
Stored     == [at : Destinations, of : Tasks, n : Nat]
History    == [files : SUBSET Stored, retired : BOOLEAN]

\* A task of which the operator has chosen no identity has its first name.
Known(conf) ==
    /\ conf \in [Tasks -> TaskEntry]
    /\ \A t \in Tasks : IF conf[t].state_id = None THEN conf[t].name = First[t]
                        ELSE conf[t].state_id \in Own(t)

\* Every version lies under an identity of its task, under the first until the
\* operator has chosen, and none that a finished run reported is missing.
Sound(records, conf, sources, reported) ==
    /\ \A id \in DOMAIN records :
         /\ records[id] \in History
         /\ \A v \in records[id].files :
              /\ id \in Own(v.of) /\ v.n <= sources[v.of]
              /\ conf[v.of].state_id # Target[v.of] => id = First[v.of]
    /\ \A t \in Tasks : reported[t] # 0 =>
         \E id \in DOMAIN records : \E v \in records[id].files : v.of = t /\ v.n >= reported[t]

\* A history that is retired before and after is the same.
Rests(before, after) ==
    \A id \in DOMAIN before \cap DOMAIN after :
        before[id].retired /\ after[id].retired => before[id].files = after[id].files

\* A task that ran has in its record, where the run put it, the newest version
\* of all that exist of it.
Ran(o, conf, records) ==
    /\ o.of \in Tasks /\ o.at = conf[o.of].destination
    /\ Identity(conf[o.of]) \in DOMAIN records
    /\ ~records[Identity(conf[o.of])].retired
    /\ \E m \in records[Identity(conf[o.of])].files :
         /\ m.of = o.of /\ m.at = o.at
         /\ \A id \in DOMAIN records : \A w \in records[id].files : w.of = o.of => w.n <= m.n

IdentityInv ==
    /\ source \in [Tasks -> Nat] /\ kept \in [Tasks -> Nat]
    /\ Known(saved) /\ Sound(state, saved, source, kept)
    /\ journal # None => Sound(journal, saved, source, kept) /\ Rests(state, journal)
    /\ program.pc \in {"idle", "plan", "work", "saved"}
    /\ program.pc # "idle" =>
         /\ Known(program.config)
         /\ \A t \in Tasks : program.config[t].state_id = Target[t]
                                 => saved[t].state_id = Target[t]
    /\ program.pc = "plan" => program.request \in Requests /\ program.owners = {}
    /\ program.pc = "work" => /\ Sound(program.state, saved, source, kept)
                              /\ Rests(state, program.state) /\ journal = state
    /\ program.pc = "saved" => program.state = state
    /\ program.pc \in {"work", "saved"} =>
         \A o \in program.owners : Ran(o, program.config, program.state)

LEMMA IdentityStarts == ASSUME IdentityAssumption, IdentityInit PROVE IdentityInv
<1>1. Known(saved)
  BY DEF IdentityInit, IdentityAssumption, Known, TaskEntry, Names
<1>2. Sound(state, saved, source, kept)
  BY DEF IdentityInit, Sound
<1> QED
  BY <1>1, <1>2 DEF IdentityInit, IdentityInv, Idle

\* The identity of a task is its own, and the first until the operator chooses.
LEMMA IdentityOwn ==
    ASSUME NEW conf, Known(conf), NEW t \in Tasks
    PROVE  /\ Identity(conf[t]) \in Own(t) /\ conf[t].destination \in Destinations
           /\ conf[t].state_id # Target[t] => Identity(conf[t]) = First[t]
  BY DEF Known, TaskEntry, Identity, Own

\* What was sound stays so while sources change and the operator chooses.
LEMMA SoundStays ==
    ASSUME NEW records, NEW conf, NEW sources, NEW reported, NEW later, NEW newer,
           Sound(records, conf, sources, reported),
           \A t \in Tasks : /\ conf[t].state_id = Target[t] => later[t].state_id = Target[t]
                            /\ sources[t] \in Nat /\ newer[t] \in Nat /\ sources[t] <= newer[t]
    PROVE  Sound(records, later, newer, reported)
  BY DEF Sound, History, Stored

\* Every history is whole and has one owner, from the invariant.
LEMMA IdentityHolds == ASSUME IdentityAssumption, IdentityInv PROVE HistoriesWhole
<1> USE DEF IdentityInv
<1>1. \A id \in DOMAIN state : \A v \in state[id].files : v.of \in Tasks /\ id \in Own(v.of)
  BY DEF Sound, History, Stored
<1>2. OneTaskPerHistory
  <2> SUFFICES ASSUME NEW id \in DOMAIN state PROVE Cardinality(Owners(id)) <= 1
    BY DEF OneTaskPerHistory
  <2>1. CASE Owners(id) = {}
    BY <2>1, FS_EmptySet
  <2>2. ASSUME NEW t \in Owners(id) PROVE Cardinality(Owners(id)) <= 1
    <3>1. t \in Tasks /\ id \in Own(t)
      BY <1>1 DEF Owners
    <3>2. \A u \in Owners(id) : u \in Tasks /\ id \in Own(u)
      BY <1>1 DEF Owners
    <3>3. Owners(id) = {t}
      BY <3>1, <3>2 DEF IdentityAssumption
    <3>4. Cardinality({t}) = 1
      BY FS_Singleton
    <3> QED
      BY <3>3, <3>4
  <2> QED
    BY <2>1, <2>2
<1>3. OneHistoryPerTask
  <2> SUFFICES ASSUME NEW t \in Tasks, saved[t].state_id # Target[t]
               PROVE  Cardinality({id \in DOMAIN state : t \in Owners(id)}) <= 1
    BY DEF OneHistoryPerTask
  <2> DEFINE S == {id \in DOMAIN state : t \in Owners(id)}
  <2>1. S \subseteq {First[t]}
    BY DEF Sound, Owners
  <2>2. S = {} \/ S = {First[t]}
    BY <2>1
  <2> HIDE DEF S
  <2>3. Cardinality(S) = 0 \/ Cardinality(S) = 1
    BY <2>2, FS_EmptySet, FS_Singleton
  <2> QED
    BY <2>3 DEF S
<1>4. NewestKept
  <2> SUFFICES ASSUME NEW t \in Tasks, kept[t] # 0
               PROVE  \E v \in Held(state) : v.of = t /\ v.n >= kept[t]
    BY DEF NewestKept
  <2>1. PICK id \in DOMAIN state : \E v \in state[id].files : v.of = t /\ v.n >= kept[t]
    BY DEF Sound
  <2> QED
    BY <2>1 DEF Held
<1> QED
  BY <1>2, <1>3, <1>4 DEF HistoriesWhole

\* A task works on the record of its own identity and on no other.
LEMMA RunTaskKeeps ==
    ASSUME IdentityAssumption, IdentityInv, NEW t \in Tasks, RunTask(t) PROVE IdentityInv'
<1> DEFINE conf    == program.config
           old     == program.state
           task    == conf[t]
           id      == Identity(task)
           found   == Opened(old, id)
           at      == {v \in found[id].files : v.at = task.destination}
           now     == [at |-> task.destination, of |-> t, n |-> source[t]]
           fails   == Retired(found[id]) \/ \E o \in program.owners : o.at = task.destination
           filled  == [found EXCEPT ![id].files = IF now \in NewestOf(t, at) THEN @
                                                  ELSE @ \cup {now}]
<1>1. /\ program.pc = "work" /\ UNCHANGED <<saved, state, journal, source, kept>>
      /\ program' = [program EXCEPT
            !.todo = @ \ {t},
            !.owners = IF fails THEN @ ELSE @ \cup {[of |-> t, at |-> task.destination]},
            !.state = IF fails THEN found ELSE filled]
  BY DEF RunTask
<1>2. /\ program'.pc = "work" /\ program'.config = conf
      /\ program'.owners = IF fails THEN program.owners
                           ELSE program.owners \cup {[of |-> t, at |-> task.destination]}
      /\ program'.state = IF fails THEN found ELSE filled
  BY <1>1
<1>3. /\ Known(conf) /\ Known(saved) /\ Sound(old, saved, source, kept)
      /\ Rests(state, old) /\ source \in [Tasks -> Nat] /\ kept \in [Tasks -> Nat]
      /\ \A o \in program.owners : Ran(o, conf, old)
      /\ \A u \in Tasks : conf[u].state_id = Target[u] => saved[u].state_id = Target[u]
  BY <1>1 DEF IdentityInv
<1>4. /\ id \in Own(t) /\ task.destination \in Destinations
      /\ saved[t].state_id # Target[t] => id = First[t]
  BY <1>3, IdentityOwn
<1> HIDE DEF conf, task, id
<1>5. /\ id \in DOMAIN found /\ DOMAIN found = DOMAIN old \cup {id}
      /\ \A i \in DOMAIN old : found[i] = old[i]
      /\ id \notin DOMAIN old => found[id] = EmptyRecord
  BY DEF Opened
<1> HIDE DEF found
<1>6. EmptyRecord \in History /\ EmptyRecord.files = {} /\ ~EmptyRecord.retired
  BY DEF EmptyRecord, History
<1>7. Sound(found, saved, source, kept) /\ Rests(state, found)
  BY <1>3, <1>5, <1>6 DEF Sound, Rests
<1>8. \A o \in program.owners : Ran(o, conf, found)
  <2> SUFFICES ASSUME NEW o \in program.owners PROVE Ran(o, conf, found)
    OBVIOUS
  <2>1. Ran(o, conf, old)
    BY <1>3
  <2> QED
    BY <1>5, <1>6, <2>1 DEF Ran
<1>9. CASE fails
  <2>1. program'.state = found /\ program'.owners = program.owners
    BY <1>2, <1>9
  <2> QED
    BY <1>1, <1>2, <1>3, <1>7, <1>8, <2>1 DEF IdentityInv, conf
<1>10. CASE ~fails
  <2>1. /\ program'.state = filled
        /\ program'.owners = program.owners \cup {[of |-> t, at |-> task.destination]}
    BY <1>2, <1>10
  <2>2. /\ DOMAIN filled = DOMAIN found /\ \A i \in DOMAIN found \ {id} : filled[i] = found[i]
        /\ filled[id] = [found[id] EXCEPT !.files = IF now \in NewestOf(t, at) THEN @
                                                    ELSE @ \cup {now}]
    BY <1>5
  <2>3. found[id] \in History
    BY <1>5, <1>7 DEF Sound
  <2>4. /\ now \in Stored /\ now.of = t /\ now.n = source[t] /\ now.at = task.destination
    BY <1>3, <1>4 DEF Stored
  <2>5. now \in NewestOf(t, at) => now \in found[id].files
    BY DEF NewestOf
  <2> HIDE DEF now, at, filled
  <2>6. /\ filled[id] \in History /\ filled[id].retired = found[id].retired
        /\ now \in filled[id].files /\ found[id].files \subseteq filled[id].files
        /\ filled[id].files \subseteq found[id].files \cup {now}
    BY <2>2, <2>3, <2>4, <2>5 DEF History
  <2>7. ~found[id].retired
    BY <1>10 DEF Retired
  <2>8. Sound(filled, saved, source, kept)
    <3>1. ASSUME NEW i \in DOMAIN filled
          PROVE  /\ filled[i] \in History
                 /\ \A v \in filled[i].files :
                      /\ i \in Own(v.of) /\ v.n <= source[v.of]
                      /\ saved[v.of].state_id # Target[v.of] => i = First[v.of]
      <4>1. CASE i = id
        <5>1. \A v \in found[id].files : 
                      /\ id \in Own(v.of) /\ v.n <= source[v.of]
                      /\ saved[v.of].state_id # Target[v.of] => id = First[v.of]
          BY <1>5, <1>7 DEF Sound
        <5>2. /\ id \in Own(now.of) /\ now.n <= source[now.of]
              /\ saved[now.of].state_id # Target[now.of] => id = First[now.of]
          BY <1>3, <1>4, <2>4
        <5> QED
          BY <2>6, <4>1, <5>1, <5>2
      <4>2. CASE i # id
        <5>1. i \in DOMAIN found /\ filled[i] = found[i]
          BY <2>2, <4>2
        <5> QED
          BY <1>7, <5>1 DEF Sound
      <4> QED
        BY <4>1, <4>2
    <3>2. ASSUME NEW u \in Tasks, kept[u] # 0
          PROVE  \E i \in DOMAIN filled : \E v \in filled[i].files : v.of = u /\ v.n >= kept[u]
      <4>1. PICK i \in DOMAIN found : \E v \in found[i].files : v.of = u /\ v.n >= kept[u]
        BY <1>7, <3>2 DEF Sound
      <4>2. found[i].files \subseteq filled[i].files
        BY <2>2, <2>6, <4>1
      <4> QED
        BY <2>2, <4>1, <4>2
    <3> QED
      BY <3>1, <3>2 DEF Sound
  <2>9. Rests(state, filled)
    BY <1>7, <2>2, <2>6, <2>7 DEF Rests
  <2>10. ASSUME NEW o \in program.owners PROVE Ran(o, conf, filled)
    <3>1. Ran(o, conf, found)
      BY <1>8
    <3>2. o.of # t
      BY <1>10, <3>1 DEF Ran, task
    <3> DEFINE mine == Identity(conf[o.of])
    <3>3. o.of \in Tasks /\ mine \in DOMAIN found /\ mine # id
      BY <1>3, <1>4, <3>1, <3>2, IdentityOwn DEF Ran, IdentityAssumption
    <3>4. filled[mine] = found[mine]
      BY <2>2, <3>3
    <3>5. \A i \in DOMAIN filled : \A w \in filled[i].files : w.of = o.of => w \in found[i].files
      BY <2>2, <2>4, <2>6, <3>2
    <3> QED
      BY <2>2, <3>1, <3>3, <3>4, <3>5 DEF Ran
  <2>11. Ran([of |-> t, at |-> task.destination], conf, filled)
    <3>1. ASSUME NEW i \in DOMAIN filled, NEW w \in filled[i].files, w.of = t PROVE w.n <= now.n
      BY <2>4, <2>8, <3>1 DEF Sound
    <3>2. /\ id \in DOMAIN filled /\ ~filled[id].retired
          /\ \E m \in filled[id].files :
               /\ m.of = t /\ m.at = task.destination
               /\ \A i \in DOMAIN filled : \A w \in filled[i].files : w.of = t => w.n <= m.n
      BY <1>5, <2>2, <2>4, <2>6, <2>7, <3>1
    <3> QED
      BY <3>2 DEF Ran, id, task
  <2> QED
    BY <1>1, <1>2, <1>3, <2>1, <2>8, <2>9, <2>10, <2>11 DEF IdentityInv, conf
<1> QED
  BY <1>9, <1>10

LEMMA PruneKeeps == ASSUME IdentityAssumption, IdentityInv, Prune PROVE IdentityInv'
<1> DEFINE conf == program.config
           old  == program.state
<1>1. /\ program.pc = "work" /\ UNCHANGED <<saved, state, journal, source, kept>>
      /\ Known(conf) /\ Sound(old, saved, source, kept) /\ Rests(state, old)
      /\ \A o \in program.owners : Ran(o, conf, old)
  BY DEF Prune, IdentityInv
<1>2a. PICK o \in program.owners : \E v \in old[Identity(conf[o.of])].files :
        /\ v \notin NewestOf(o.of, {w \in old[Identity(conf[o.of])].files : w.at = o.at})
        /\ program' = [program EXCEPT !.state[Identity(conf[o.of])].files = @ \ {v}]
  BY DEF Prune
<1> DEFINE id == Identity(conf[o.of])
<1>2. PICK v \in old[id].files :
        /\ v \notin NewestOf(o.of, {w \in old[id].files : w.at = o.at})
        /\ program' = [program EXCEPT !.state[id].files = @ \ {v}]
  BY <1>2a
<1> DEFINE thin == [old EXCEPT ![id].files = @ \ {v}]
<1>3. /\ o.of \in Tasks /\ o.at = conf[o.of].destination /\ id \in DOMAIN old /\ ~old[id].retired
      /\ id \in Own(o.of)
  BY <1>1, IdentityOwn DEF Ran
<1>4. /\ program'.pc = "work" /\ program'.config = conf /\ program'.owners = program.owners
      /\ program'.state = thin
  BY <1>1, <1>2
<1>5. PICK m \in old[id].files :
         /\ m.of = o.of /\ m.at = o.at
         /\ \A i \in DOMAIN old : \A w \in old[i].files : w.of = o.of => w.n <= m.n
  BY <1>1 DEF Ran
<1>6. m # v
  <2>1. m \in NewestOf(o.of, {w \in old[id].files : w.at = o.at})
    BY <1>3, <1>5 DEF NewestOf
  <2> QED
    BY <1>2, <2>1
<1> HIDE DEF conf, id
<1>7. /\ DOMAIN thin = DOMAIN old /\ \A i \in DOMAIN old \ {id} : thin[i] = old[i]
      /\ thin[id] = [old[id] EXCEPT !.files = @ \ {v}]
  BY <1>3
<1> HIDE DEF thin
<1>8. old[id] \in History
  BY <1>1, <1>3 DEF Sound
<1>9. /\ thin[id] \in History /\ thin[id].retired = old[id].retired
      /\ thin[id].files = old[id].files \ {v} /\ m \in thin[id].files
  BY <1>5, <1>6, <1>7, <1>8 DEF History
<1>10. \A i \in DOMAIN old : thin[i].files \subseteq old[i].files /\ thin[i].retired = old[i].retired
  BY <1>7, <1>9
<1>11. \A w \in old[id].files : w.of = o.of
  <2> SUFFICES ASSUME NEW w \in old[id].files PROVE w.of = o.of
    OBVIOUS
  <2>1. w.of \in Tasks /\ id \in Own(w.of)
    BY <1>1, <1>3, <1>8 DEF Sound, History, Stored
  <2> QED
    BY <1>3, <2>1 DEF IdentityAssumption
<1>12. Sound(thin, saved, source, kept)
  <2>1. ASSUME NEW i \in DOMAIN thin
        PROVE  /\ thin[i] \in History
               /\ \A w \in thin[i].files :
                    /\ i \in Own(w.of) /\ w.n <= source[w.of]
                    /\ saved[w.of].state_id # Target[w.of] => i = First[w.of]
    BY <1>1, <1>7, <1>9, <1>10 DEF Sound
  <2>2. ASSUME NEW u \in Tasks, kept[u] # 0
        PROVE  \E i \in DOMAIN thin : \E w \in thin[i].files : w.of = u /\ w.n >= kept[u]
    <3>0. PICK i \in DOMAIN old : \E w \in old[i].files : w.of = u /\ w.n >= kept[u]
      BY <1>1, <2>2 DEF Sound
    <3>1. PICK w \in old[i].files : w.of = u /\ w.n >= kept[u]
      BY <3>0
    <3>2. CASE i # id
      BY <1>7, <3>1, <3>2
    <3>3. CASE i = id
      <4>1. u = o.of /\ w.n <= m.n
        BY <1>3, <1>5, <1>11, <3>1, <3>3
      <4>2. w.n \in Nat /\ m.n \in Nat
        BY <1>5, <1>8, <3>1, <3>3 DEF History, Stored
      <4>3. kept[u] \in Nat
        BY DEF IdentityInv
      <4>4. m.n >= kept[u]
        BY <3>1, <4>1, <4>2, <4>3
      <4> QED
        BY <1>3, <1>5, <1>7, <1>9, <4>1, <4>4
    <3> QED
      BY <3>2, <3>3
  <2> QED
    BY <2>1, <2>2 DEF Sound
<1>13. Rests(state, thin)
  <2>1. \A i \in DOMAIN state \cap DOMAIN thin :
           state[i].retired /\ thin[i].retired => state[i].files = thin[i].files
    BY <1>1, <1>3, <1>7, <1>9 DEF Rests
  <2> QED
    BY <2>1 DEF Rests
<1>14. ASSUME NEW other \in program.owners PROVE Ran(other, conf, thin)
  <2> DEFINE mine == Identity(conf[other.of])
  <2>1. Ran(other, conf, old)
    BY <1>1 DEF conf
  <2>2. CASE other.of = o.of
    <3>1. mine = id /\ other.at = o.at
      BY <1>3, <2>1, <2>2 DEF Ran, id
    <3>2. \A i \in DOMAIN thin : \A w \in thin[i].files : w.of = o.of => w.n <= m.n
      BY <1>5, <1>7, <1>10
    <3> QED
      BY <1>3, <1>5, <1>7, <1>9, <2>1, <2>2, <3>1, <3>2 DEF Ran
  <2>3. CASE other.of # o.of
    <3>1. other.of \in Tasks /\ mine \in DOMAIN old /\ mine # id
      BY <1>1, <1>3, <2>1, <2>3, IdentityOwn DEF Ran, IdentityAssumption, conf
    <3>2. thin[mine] = old[mine] /\ mine \in DOMAIN thin
      BY <1>7, <3>1
    <3>3. \A i \in DOMAIN thin : \A w \in thin[i].files : w \in old[i].files
      BY <1>7, <1>10
    <3> QED
      BY <1>7, <2>1, <3>2, <3>3 DEF Ran
  <2> QED
    BY <2>2, <2>3
<1> QED
  BY <1>1, <1>4, <1>12, <1>13, <1>14 DEF IdentityInv, conf

LEMMA PlanMoveKeeps == ASSUME IdentityAssumption, IdentityInv, PlanMove PROVE IdentityInv'
<1> DEFINE request == program.request
           moved   == Moved(request)
<1>1. /\ program.pc = "plan" /\ UNCHANGED <<saved, state, source, kept>>
      /\ request \in Requests /\ program.owners = {}
      /\ Known(program.config) /\ Sound(state, saved, source, kept)
      /\ \A u \in Tasks : program.config[u].state_id = Target[u] => saved[u].state_id = Target[u]
  BY DEF PlanMove, IdentityInv
<1>2. CASE ~Accepted(request)
  BY <1>1, <1>2 DEF PlanMove, IdentityInv, Idle
<1>3. CASE Accepted(request)
  <2>1. /\ journal' = state
        /\ program' = [program EXCEPT !.pc = "work", !.state = moved]
    BY <1>3 DEF PlanMove
  <2>2. /\ program'.pc = "work" /\ program'.config = program.config /\ program'.owners = {}
        /\ program'.state = moved
    BY <1>1, <2>1
  <2> DEFINE from == request.source
             new  == IF request.retire THEN [state[from] EXCEPT !.retired = TRUE]
                     ELSE IF request.destination = None
                          THEN [state[from] EXCEPT !.retired = FALSE]
                     ELSE [files |-> {[v EXCEPT !.at = request.destination] :
                                         v \in state[from].files},
                           retired |-> FALSE]
             id   == IF request.retire THEN from ELSE request.target
  <2>3. PICK t \in Tasks :
            /\ from \in Own(t) /\ id \in Own(t)
            /\ request.destination \in Destinations \cup {None}
    <3>1. PICK t \in Tasks :
             \/ request \in [source : Own(t), target : Own(t),
                             destination : Destinations \cup {None}, retire : {FALSE}]
             \/ request \in [source : Own(t), target : {None}, destination : {None},
                             retire : {TRUE}]
      BY <1>1 DEF Requests
    <3> QED
      BY <3>1
  <2>4. moved = [i \in (DOMAIN state \ {from}) \cup {id} |-> IF i = id THEN new ELSE state[i]]
    BY DEF Moved
  <2>5. /\ from \in DOMAIN state
        /\ id = from \/ id \notin DOMAIN state
        /\ ~request.retire => Cardinality(Matches(request.target)) = 1
    BY <1>3 DEF Accepted, Unused
  <2>6. state[from] \in History
    BY <1>1, <2>5 DEF Sound
  <2>7. /\ new \in History
        /\ \A v \in new.files : \E w \in state[from].files : v.of = w.of /\ v.n = w.n
        /\ \A w \in state[from].files : \E v \in new.files : v.of = w.of /\ v.n = w.n
        /\ new.retired => id = from /\ new.files = state[from].files
    <3>1. CASE request.retire
      BY <2>6, <3>1 DEF History
    <3>2. CASE ~request.retire /\ request.destination = None
      BY <2>6, <3>2 DEF History
    <3>3. CASE ~request.retire /\ request.destination # None
      <4>1. \A v \in state[from].files : v \in Stored
        BY <2>6 DEF History
      <4>2. request.destination \in Destinations
        BY <2>3, <3>3
      <4>3. \A v \in state[from].files :
               /\ [v EXCEPT !.at = request.destination] \in Stored
               /\ [v EXCEPT !.at = request.destination].of = v.of
               /\ [v EXCEPT !.at = request.destination].n = v.n
        BY <4>1, <4>2 DEF Stored
      <4>4. new = [files |-> {[v EXCEPT !.at = request.destination] : v \in state[from].files},
                   retired |-> FALSE]
        BY <3>3
      <4> HIDE DEF new
      <4> QED
        BY <4>3, <4>4 DEF History
    <3> QED
      BY <3>1, <3>2, <3>3
  <2>8. saved[t].state_id # Target[t] => id = First[t] \/ id = from
    <3> SUFFICES ASSUME saved[t].state_id # Target[t], id # from PROVE id = First[t]
      OBVIOUS
    <3>1. ~request.retire /\ id = request.target /\ Cardinality(Matches(id)) = 1
      BY <2>5
    <3>2. PICK u \in Tasks : Identity(program.config[u]) = id
      <4>1. Matches(id) # {}
        BY <3>1, FS_EmptySet
      <4> QED
        BY <4>1 DEF Matches
    <3>3. u = t
      BY <1>1, <2>3, <3>2, IdentityOwn DEF IdentityAssumption
    <3> QED
      BY <1>1, <3>2, <3>3, IdentityOwn
  <2> HIDE DEF moved, new, id, from
  <2>9. Sound(moved, saved, source, kept)
    <3>1. ASSUME NEW i \in DOMAIN moved
          PROVE  /\ moved[i] \in History
                 /\ \A v \in moved[i].files :
                      /\ i \in Own(v.of) /\ v.n <= source[v.of]
                      /\ saved[v.of].state_id # Target[v.of] => i = First[v.of]
      <4>1. CASE i = id
        <5>1. moved[i] = new
          BY <2>4, <4>1
        <5>2. ASSUME NEW v \in new.files
              PROVE  /\ id \in Own(v.of) /\ v.n <= source[v.of]
                     /\ saved[v.of].state_id # Target[v.of] => id = First[v.of]
          <6>1. PICK w \in state[from].files : v.of = w.of /\ v.n = w.n
            BY <2>7
          <6>2. /\ w.of \in Tasks /\ from \in Own(w.of) /\ w.n <= source[w.of]
                /\ saved[w.of].state_id # Target[w.of] => from = First[w.of]
            BY <1>1, <2>5, <2>6 DEF Sound, History, Stored
          <6>3. w.of = t
            BY <2>3, <6>2 DEF IdentityAssumption
          <6> QED
            BY <2>3, <2>8, <6>1, <6>2, <6>3
        <5> QED
          BY <2>7, <4>1, <5>1, <5>2
      <4>2. CASE i # id
        <5>1. i \in DOMAIN state /\ moved[i] = state[i]
          BY <2>4, <4>2
        <5> QED
          BY <1>1, <5>1 DEF Sound
      <4> QED
        BY <4>1, <4>2
    <3>2. ASSUME NEW u \in Tasks, kept[u] # 0
          PROVE  \E i \in DOMAIN moved : \E v \in moved[i].files : v.of = u /\ v.n >= kept[u]
      <4>0. PICK i \in DOMAIN state : \E w \in state[i].files : w.of = u /\ w.n >= kept[u]
        BY <1>1, <3>2 DEF Sound
      <4>1. PICK w \in state[i].files : w.of = u /\ w.n >= kept[u]
        BY <4>0
      <4>2. CASE i = from
        <5>1. id \in DOMAIN moved /\ moved[id] = new
          BY <2>4
        <5>2. PICK v \in new.files : v.of = w.of /\ v.n = w.n
          BY <2>7, <4>1, <4>2
        <5> QED
          BY <4>1, <5>1, <5>2
      <4>3. CASE i # from
        <5>1. i \in DOMAIN moved /\ moved[i] = state[i]
          BY <2>4, <2>5, <4>1, <4>3
        <5> QED
          BY <4>1, <5>1
      <4> QED
        BY <4>2, <4>3
    <3> QED
      BY <3>1, <3>2 DEF Sound
  <2>10. Rests(state, moved)
    <3> SUFFICES ASSUME NEW i \in DOMAIN state \cap DOMAIN moved,
                        state[i].retired, moved[i].retired
                 PROVE  state[i].files = moved[i].files
      BY DEF Rests
    <3>1. CASE i = id
      <4>1. moved[i] = new
        BY <2>4, <3>1
      <4> QED
        BY <2>7, <3>1, <4>1
    <3>2. CASE i # id
      BY <2>4, <3>2
    <3> QED
      BY <3>1, <3>2
  <2> QED
    BY <1>1, <2>1, <2>2, <2>9, <2>10 DEF IdentityInv, Rests
<1> QED
  BY <1>2, <1>3

\* The state changes only when it is restored or saved.
LEMMA IdentitySteps ==
    ASSUME IdentityAssumption, IdentityInv, [IdentityNext]_tvars
    PROVE  IdentityInv' /\ RetiredRests
<1>1. CASE UNCHANGED state /\ IdentityInv'
  BY <1>1 DEF RetiredRests
<1>2. ASSUME NEW t \in Tasks, RunTask(t) PROVE IdentityInv' /\ UNCHANGED state
  BY <1>2, RunTaskKeeps DEF RunTask
<1>3. ASSUME Prune PROVE IdentityInv' /\ UNCHANGED state
  BY <1>3, PruneKeeps DEF Prune
<1>4. ASSUME PlanMove PROVE IdentityInv' /\ UNCHANGED state
  BY <1>4, PlanMoveKeeps DEF PlanMove
\* The operator never takes back an identity that was chosen.
<1>5. ASSUME Edited, saved' \in [Tasks -> TaskEntry], Known(saved'),
             \A t \in Tasks : saved[t].state_id = Target[t] => saved'[t].state_id = Target[t]
      PROVE  IdentityInv' /\ UNCHANGED state
  <2>1. UNCHANGED <<state, journal, program, source, kept>>
    BY <1>5 DEF Edited
  <2>2. source \in [Tasks -> Nat] /\ kept \in [Tasks -> Nat]
    BY DEF IdentityInv
  <2>3. \A t \in Tasks : /\ saved[t].state_id = Target[t] => saved'[t].state_id = Target[t]
                         /\ source[t] \in Nat /\ source[t] <= source[t]
    BY <1>5, <2>2
  <2>4. ASSUME NEW records, Sound(records, saved, source, kept)
        PROVE  Sound(records, saved', source, kept)
    BY <2>3, <2>4, SoundStays
  <2> QED
    BY <1>5, <2>1, <2>4 DEF IdentityInv
<1>6. ASSUME NEW t \in Tasks, NEW new \in Names, Rename(t, new)
      PROVE  IdentityInv' /\ UNCHANGED state
  <2>1. Edited /\ saved' = [saved EXCEPT ![t].name = new, ![t].state_id = Pinned(saved[t])]
    BY <1>6 DEF Rename
  <2>2. Known(saved) /\ Identity(saved[t]) \in Own(t)
    BY IdentityOwn DEF IdentityInv
  <2>3. /\ saved \in [Tasks -> TaskEntry] /\ Pinned(saved[t]) \in Identities
        /\ Pinned(saved[t]) \in Own(t) /\ Pinned(saved[t]) # None
    BY <2>2 DEF Known, Pinned, Identities, IdentityAssumption
  <2>4. saved[t].state_id = Target[t] => Pinned(saved[t]) = Target[t]
    BY DEF Pinned, Identity, IdentityAssumption, Own
  <2> HIDE DEF Pinned
  <2>5. /\ saved' \in [Tasks -> TaskEntry]
        /\ saved'[t].state_id = Pinned(saved[t])
        /\ \A u \in Tasks : u # t => saved'[u] = saved[u]
    BY <2>1, <2>3 DEF TaskEntry
  <2>6. Known(saved')
    BY <2>2, <2>3, <2>5 DEF Known
  <2> QED
    BY <1>5, <2>1, <2>4, <2>5, <2>6
<1>7. ASSUME EditTask PROVE IdentityInv' /\ UNCHANGED state
  <2>1. Edited /\ Known(saved) /\ saved \in [Tasks -> TaskEntry]
    BY <1>7 DEF EditTask, IdentityInv, Known
  <2>2. PICK t \in Tasks :
          \/ saved' = [saved EXCEPT ![t].state_id = Target[t]]
          \/ saved' = [saved EXCEPT ![t].enabled = ~@]
          \/ \E p \in Destinations : saved' = [saved EXCEPT ![t].destination = p]
    BY <1>7 DEF EditTask
  <2>3. CASE saved' = [saved EXCEPT ![t].state_id = Target[t]]
    <3>1. Target[t] \in Own(t) /\ Target[t] \in Identities /\ Target[t] # None
      BY DEF Own, Identities, IdentityAssumption
    <3>2. /\ saved' \in [Tasks -> TaskEntry]
          /\ saved'[t].state_id = Target[t]
          /\ \A u \in Tasks : u # t => saved'[u] = saved[u]
      BY <2>1, <2>3, <3>1 DEF TaskEntry
    <3>3. Known(saved')
      BY <2>1, <3>1, <3>2 DEF Known
    <3> QED
      BY <1>5, <2>1, <3>2, <3>3
  <2>4. ASSUME NEW entry \in TaskEntry, saved' = [saved EXCEPT ![t] = entry],
               entry.name = saved[t].name, entry.state_id = saved[t].state_id
        PROVE  IdentityInv' /\ UNCHANGED state
    <3>1. /\ saved' \in [Tasks -> TaskEntry]
          /\ \A u \in Tasks : saved'[u].name = saved[u].name /\ saved'[u].state_id = saved[u].state_id
      BY <2>1, <2>4
    <3>2. Known(saved')
      BY <2>1, <3>1 DEF Known
    <3> QED
      BY <1>5, <2>1, <3>1, <3>2
  <2>5. CASE saved' = [saved EXCEPT ![t].enabled = ~@]
    <3> DEFINE entry == [saved[t] EXCEPT !.enabled = ~@]
    <3>1. /\ entry \in TaskEntry /\ entry.name = saved[t].name
          /\ entry.state_id = saved[t].state_id
      BY <2>1 DEF TaskEntry
    <3>2. saved' = [saved EXCEPT ![t] = entry]
      BY <2>5
    <3> QED
      BY <2>4, <3>1, <3>2
  <2>6. ASSUME NEW p \in Destinations, saved' = [saved EXCEPT ![t].destination = p]
        PROVE  IdentityInv' /\ UNCHANGED state
    <3> DEFINE entry == [saved[t] EXCEPT !.destination = p]
    <3>1. /\ entry \in TaskEntry /\ entry.name = saved[t].name
          /\ entry.state_id = saved[t].state_id
      BY <2>1 DEF TaskEntry
    <3>2. saved' = [saved EXCEPT ![t] = entry]
      BY <2>6
    <3> QED
      BY <2>4, <3>1, <3>2
  <2> QED
    BY <2>2, <2>3, <2>5, <2>6
<1>8. ASSUME SourceChanges PROVE IdentityInv' /\ UNCHANGED state
  <2>1. PICK t \in Tasks : source' = [source EXCEPT ![t] = @ + 1]
    BY <1>8 DEF SourceChanges
  <2>2. UNCHANGED <<saved, state, journal, program, kept>> /\ source \in [Tasks -> Nat]
    BY <1>8 DEF SourceChanges, IdentityInv
  <2>3. source' \in [Tasks -> Nat] /\ \A u \in Tasks : source[u] <= source'[u]
    BY <2>1, <2>2
  <2>4. ASSUME NEW records, Sound(records, saved, source, kept)
        PROVE  Sound(records, saved, source', kept)
    <3>1. \A u \in Tasks : /\ saved[u].state_id = Target[u] => saved[u].state_id = Target[u]
                           /\ source[u] \in Nat /\ source'[u] \in Nat /\ source[u] <= source'[u]
      BY <2>2, <2>3
    <3> QED
      BY <2>4, <3>1, SoundStays
  <2> QED
    BY <2>2, <2>3, <2>4 DEF IdentityInv
<1>9. CASE BeginRun
  <2>1. /\ state' = (IF journal = None THEN state ELSE journal) /\ journal' = state'
        /\ UNCHANGED <<saved, source, kept>> /\ program'.pc = "work" /\ program'.config = saved
        /\ program'.state = state' /\ program'.owners = {}
    BY <1>9 DEF BeginRun, Idle
  <2>2. Sound(state', saved, source, kept) /\ Rests(state, state')
    BY <2>1 DEF IdentityInv, Rests
  <2>3. IdentityInv'
    BY <2>1, <2>2 DEF IdentityInv, Rests
  <2>4. RetiredRests
    BY <2>2 DEF Rests, RetiredRests
  <2> QED
    BY <2>3, <2>4
<1>10. ASSUME NEW request \in Requests, BeginTool(request)
       PROVE  IdentityInv' /\ UNCHANGED state
  <2>1. /\ UNCHANGED <<saved, state, journal, source, kept>>
        /\ program'.pc = "plan" /\ program'.config = saved /\ program'.request = request
        /\ program'.owners = {}
    BY <1>10 DEF BeginTool, Idle
  <2> QED
    BY <2>1 DEF IdentityInv
<1>11. CASE Save
  <2>1. /\ program.pc = "work" /\ state' = program.state
        /\ program' = [program EXCEPT !.pc = "saved"]
        /\ UNCHANGED <<saved, journal, source, kept>>
    BY <1>11 DEF Save
  <2>2. /\ program'.pc = "saved" /\ program'.config = program.config
        /\ program'.owners = program.owners /\ program'.state = program.state
    BY <2>1
  <2>3. /\ Sound(program.state, saved, source, kept) /\ Rests(state, program.state)
        /\ journal = state /\ Sound(state, saved, source, kept)
    BY <2>1 DEF IdentityInv
  <2>4. Rests(state', journal')
    BY <2>1, <2>3 DEF Rests
  <2>5. IdentityInv'
    BY <2>1, <2>2, <2>3, <2>4 DEF IdentityInv
  <2>6. RetiredRests
    BY <2>1, <2>3 DEF Rests, RetiredRests
  <2> QED
    BY <2>5, <2>6
<1>12. ASSUME Commit PROVE IdentityInv' /\ UNCHANGED state
  <2>1. /\ program.pc = "saved" /\ journal' = None /\ program'.pc = "idle"
        /\ UNCHANGED <<saved, state, source>> /\ program.state = state
        /\ kept' = [t \in Tasks |-> IF \E o \in program.owners : o.of = t
                                    THEN (CHOOSE v \in NewestOf(t, Held(state)) : TRUE).n
                                    ELSE kept[t]]
    BY <1>12 DEF Commit, Idle, IdentityInv
  <2>2. Sound(state, saved, source, kept) /\ kept \in [Tasks -> Nat]
    BY DEF IdentityInv
  <2>3. ASSUME NEW t \in Tasks, \E o \in program.owners : o.of = t
        PROVE  \E id \in DOMAIN state : \E v \in state[id].files :
                  v.of = t /\ v.n \in Nat /\ kept'[t] = v.n
    <3>1. PICK o \in program.owners : o.of = t
      BY <2>3
    <3>2. Ran(o, program.config, state)
      BY <2>1 DEF IdentityInv
    <3> DEFINE newest == NewestOf(t, Held(state))
    <3>3. newest # {}
      <4>1. PICK m \in state[Identity(program.config[t])].files :
               /\ m.of = t
               /\ \A id \in DOMAIN state : \A w \in state[id].files : w.of = t => w.n <= m.n
        BY <3>1, <3>2 DEF Ran
      <4>2. Identity(program.config[t]) \in DOMAIN state
        BY <3>1, <3>2 DEF Ran
      <4>3. m \in Held(state) /\ \A w \in Held(state) : w.of = t => w.n <= m.n
        BY <4>1, <4>2 DEF Held
      <4> QED
        BY <4>1, <4>3 DEF NewestOf
    <3> DEFINE chosen == CHOOSE v \in newest : TRUE
    <3>4. chosen \in newest
      BY <3>3
    <3>5. kept'[t] = chosen.n
      BY <2>1, <2>3
    <3> HIDE DEF chosen
    <3>6. chosen \in Held(state) /\ chosen.of = t
      BY <3>4 DEF NewestOf
    <3>7. PICK id \in DOMAIN state : chosen \in state[id].files
      BY <3>6 DEF Held
    <3>8. chosen.n \in Nat
      BY <2>2, <3>7 DEF Sound, History, Stored
    <3> QED
      BY <3>5, <3>6, <3>7, <3>8
  <2>4. kept' \in [Tasks -> Nat]
    <3>1. ASSUME NEW t \in Tasks PROVE kept'[t] \in Nat
      BY <2>1, <2>2, <2>3
    <3> DEFINE reported(t) == IF \E o \in program.owners : o.of = t
                              THEN (CHOOSE v \in NewestOf(t, Held(state)) : TRUE).n
                              ELSE kept[t]
    <3>2. kept' = [t \in Tasks |-> reported(t)]
      BY <2>1
    <3> HIDE DEF reported
    <3> QED
      BY <3>1, <3>2
  <2>5. \A t \in Tasks : kept'[t] # 0 =>
           \E id \in DOMAIN state : \E v \in state[id].files : v.of = t /\ v.n >= kept'[t]
    <3> SUFFICES ASSUME NEW t \in Tasks, kept'[t] # 0
                 PROVE  \E id \in DOMAIN state : \E v \in state[id].files :
                            v.of = t /\ v.n >= kept'[t]
      OBVIOUS
    <3>1. CASE \E o \in program.owners : o.of = t
      BY <2>3, <3>1
    <3>2. CASE ~\E o \in program.owners : o.of = t
      <4>1. kept'[t] = kept[t]
        BY <2>1, <3>2
      <4> QED
        BY <2>2, <4>1 DEF Sound
    <3> QED
      BY <3>1, <3>2
  <2>6. Sound(state, saved, source, kept')
    BY <2>2, <2>5 DEF Sound
  <2> QED
    BY <2>1, <2>4, <2>6 DEF IdentityInv
<1>13. ASSUME ProgramDies PROVE IdentityInv' /\ UNCHANGED state
  BY <1>13 DEF ProgramDies, Idle, IdentityInv
<1>14. ASSUME UNCHANGED tvars PROVE IdentityInv' /\ UNCHANGED state
  BY <1>14 DEF tvars, IdentityInv
<1> QED
  BY <1>1, <1>2, <1>3, <1>4, <1>6, <1>7, <1>8, <1>9, <1>10, <1>11, <1>12, <1>13, <1>14
     DEF IdentityNext

-----------------------------------------------------------------------------
(* Scrubs and repairs                                                      *)

Bytestrings == Blobs \cup {None}

\* Evidence of intact bytes is never older than the check that found them, and
\* a repair under way has the bytes it is about to replace where they were, in
\* quarantine, or in its journal.
IntegrityInv ==
    /\ version \in [Paths -> [expected : Bytestrings, content : Bytestrings,
                              source : Bytestrings]]
    /\ quarantine \in [Blobs -> Bytestrings]
    /\ full \in 0..Oldest /\ seen \in [Paths -> [Blobs -> 0..Oldest]]
    /\ evidence \in [Paths -> {None} \cup [hash : Bytestrings, age : 0..Oldest,
                                           status : {"verified", "corrupt", "missing"}]]
    /\ \A p \in Paths : evidence[p] # None /\ evidence[p].status = "verified" =>
           evidence[p].hash \in Blobs /\ seen[p][evidence[p].hash] <= evidence[p].age
    /\ repair.pc = "next" => repair.todo \subseteq Paths
    /\ repair.pc \in {"open", "saved", "copied"} =>
           /\ repair.path \in Paths /\ repair.todo \subseteq Paths
           /\ repair.before \in [content : Bytestrings, quarantine : [Blobs -> Bytestrings]]
    /\ repair.pc = "open" =>
           /\ repair.before.content = version[repair.path].content
           /\ repair.before.quarantine = quarantine
    /\ repair.pc = "saved" =>
           /\ repair.before.content = version[repair.path].content
           /\ repair.before.content # None
    /\ repair.pc \in {"saved", "copied"} /\ repair.before.content # None =>
           quarantine[repair.before.content] = repair.before.content

LEMMA IntegrityStarts == ASSUME IntegrityAssumption, IntegrityInit PROVE IntegrityInv
  BY DEF IntegrityAssumption, IntegrityInit, IntegrityInv, Bytestrings, NoRepair

\* An age that grows stays within its bound.
LEMMA Ages ==
    ASSUME IntegrityAssumption, NEW gap \in ScrubGaps, NEW a \in 0..Oldest, NEW b \in 0..Oldest
    PROVE  /\ Plus(a, gap) \in 0..Oldest
           /\ a <= b => Plus(a, gap) <= Plus(b, gap)
           /\ Plus(a, gap) = 0 => Oldest = 0
<1>1. gap \in Nat \ {0} /\ Oldest \in Nat
  BY DEF IntegrityAssumption
<1> QED
  BY <1>1 DEF Plus

LEMMA ScrubKeeps ==
    ASSUME IntegrityAssumption, IntegrityInv, Scrub PROVE IntegrityInv' /\ FullMeansAll
<1> PICK gap \in ScrubGaps, cut \in 1..MaxFiles :
        LET known   == KeptEvidence(gap)
            checked == Within(known, cut)
        IN  /\ evidence' = [p \in Paths |->
                IF p \in checked
                THEN [hash |-> version[p].expected, status |-> Check(p), age |-> 0]
                ELSE known[p]]
            /\ seen' = [p \in Paths |-> [c \in Blobs |->
                    IF p \in checked /\ Check(p) = "verified" /\ version[p].content = c THEN 0
                    ELSE Plus(seen[p][c], gap)]]
            /\ LET issues  == {p \in Paths : evidence'[p] # None /\ evidence'[p].status # "verified"}
                   overdue == {p \in Tracked : evidence'[p] = None \/ evidence'[p].age > AgeLimit}
               IN  full' = IF Tracked # {} /\ issues = {} /\ overdue = {} THEN 0
                           ELSE Plus(full, gap)
  BY Zenon DEF Scrub
<1> DEFINE checked == Within(KeptEvidence(gap), cut)
<1> HIDE DEF checked
<1>1. /\ evidence' = [p \in Paths |->
            IF p \in checked
            THEN [hash |-> version[p].expected, status |-> Check(p), age |-> 0]
            ELSE IF Applies(p) THEN [evidence[p] EXCEPT !.age = Plus(@, gap)] ELSE None]
      /\ seen' = [p \in Paths |-> [c \in Blobs |->
            IF p \in checked /\ Check(p) = "verified" /\ version[p].content = c THEN 0
            ELSE Plus(seen[p][c], gap)]]
  BY DEF checked, KeptEvidence
<1>2. \/ /\ {p \in Paths : evidence'[p] # None /\ evidence'[p].status # "verified"} = {}
         /\ {p \in Tracked : evidence'[p] = None \/ evidence'[p].age > AgeLimit} = {}
         /\ full' = 0
      \/ full' = Plus(full, gap)
  OBVIOUS
<1>3. repair.pc \in {"none", "planned"} /\ UNCHANGED <<version, quarantine, repair>>
  BY DEF Scrub
<1>4. /\ version \in [Paths -> [expected : Bytestrings, content : Bytestrings,
                                source : Bytestrings]]
      /\ full \in 0..Oldest /\ seen \in [Paths -> [Blobs -> 0..Oldest]]
      /\ evidence \in [Paths -> {None} \cup [hash : Bytestrings, age : 0..Oldest,
                                             status : {"verified", "corrupt", "missing"}]]
      /\ Oldest \in Nat /\ AgeLimit \in Nat /\ None \notin Blobs
  BY DEF IntegrityInv, IntegrityAssumption
<1>5. seen' \in [Paths -> [Blobs -> 0..Oldest]]
  BY <1>1, <1>4, Ages
<1>6. ASSUME NEW p \in Paths
      PROVE  /\ evidence'[p] \in {None} \cup [hash : Bytestrings, age : 0..Oldest,
                                              status : {"verified", "corrupt", "missing"}]
             /\ evidence'[p] # None /\ evidence'[p].status = "verified" =>
                    /\ evidence'[p].hash \in Blobs /\ evidence'[p].hash = version[p].expected
                    /\ seen'[p][evidence'[p].hash] <= evidence'[p].age
  <2>1. CASE p \in checked
    <3>1. evidence'[p] = [hash |-> version[p].expected, status |-> Check(p), age |-> 0]
      BY <1>1, <2>1
    <3>2. /\ Check(p) \in {"verified", "corrupt", "missing"}
          /\ Check(p) = "verified" => version[p].content = version[p].expected
                                      /\ version[p].content # None
      BY DEF Check
    <3>3. version[p].expected \in Bytestrings /\ version[p].content \in Bytestrings
      BY <1>4
    <3>4. Check(p) = "verified" => seen'[p][version[p].expected] = 0
      BY <1>1, <2>1, <3>2, <3>3 DEF Bytestrings
    <3> QED
      BY <1>4, <3>1, <3>2, <3>3, <3>4 DEF Bytestrings
  <2>2. CASE p \notin checked /\ Applies(p)
    <3>1. /\ evidence'[p] = [evidence[p] EXCEPT !.age = Plus(@, gap)]
          /\ evidence[p] # None /\ evidence[p].hash = version[p].expected
      BY <1>1, <2>2 DEF Applies
    <3>2. /\ evidence[p] \in [hash : Bytestrings, age : 0..Oldest,
                              status : {"verified", "corrupt", "missing"}]
          /\ evidence'[p].hash = evidence[p].hash /\ evidence'[p].status = evidence[p].status
          /\ evidence'[p].age = Plus(evidence[p].age, gap)
      BY <1>4, <3>1
    <3>3. evidence'[p] \in [hash : Bytestrings, age : 0..Oldest,
                            status : {"verified", "corrupt", "missing"}]
      BY <3>1, <3>2, Ages
    <3>4. ASSUME evidence[p].status = "verified"
          PROVE  /\ evidence[p].hash \in Blobs
                 /\ seen'[p][evidence[p].hash] <= Plus(evidence[p].age, gap)
      <4>1. evidence[p].hash \in Blobs /\ seen[p][evidence[p].hash] <= evidence[p].age
        BY <3>1, <3>4 DEF IntegrityInv
      <4>2. seen'[p][evidence[p].hash] = Plus(seen[p][evidence[p].hash], gap)
        BY <1>1, <2>2, <4>1
      <4>3. seen[p][evidence[p].hash] \in 0..Oldest
        BY <1>4, <4>1
      <4> QED
        BY <3>2, <4>1, <4>2, <4>3, Ages
    <3> QED
      BY <3>1, <3>2, <3>3, <3>4
  <2>3. CASE p \notin checked /\ ~Applies(p)
    BY <1>1, <2>3
  <2> QED
    BY <2>1, <2>2, <2>3
<1>7. evidence' \in [Paths -> {None} \cup [hash : Bytestrings, age : 0..Oldest,
                                           status : {"verified", "corrupt", "missing"}]]
  BY <1>1, <1>6, Zenon
<1>8. full' \in 0..Oldest
  BY <1>2, <1>4, Ages
<1>9. IntegrityInv'
  BY <1>3, <1>5, <1>6, <1>7, <1>8 DEF IntegrityInv
<1>10. ASSUME NEW p \in Tracked, full' = 0 PROVE seen'[p][version[p].expected] <= AgeLimit
  <2>1. p \in Paths /\ version[p].expected \in Blobs
    BY <1>4 DEF Tracked, Bytestrings
  <2>2. seen'[p][version[p].expected] \in 0..Oldest
    BY <1>5, <2>1
  <2>3. CASE full' = Plus(full, gap)
    BY <1>4, <1>10, <2>2, <2>3, Ages
  <2>4. CASE /\ {q \in Paths : evidence'[q] # None /\ evidence'[q].status # "verified"} = {}
             /\ {q \in Tracked : evidence'[q] = None \/ evidence'[q].age > AgeLimit} = {}
    <3>1. /\ evidence'[p] # None /\ evidence'[p].status = "verified"
          /\ ~(evidence'[p].age > AgeLimit)
      BY <2>1, <2>4
    <3>2. evidence'[p].age \in 0..Oldest
      BY <1>6, <2>1, <3>1
    <3>3. evidence'[p].age <= AgeLimit
      BY <1>4, <3>1, <3>2
    <3>4. seen'[p][version[p].expected] <= evidence'[p].age
      BY <1>6, <2>1, <3>1
    <3> QED
      BY <1>4, <2>2, <3>2, <3>3, <3>4
  <2> QED
    BY <1>2, <2>3, <2>4
<1> QED
  BY <1>9, <1>10 DEF FullMeansAll

\* The bytes a row replaces go into quarantine before they are replaced.
LEMMA RowKeeps ==
    ASSUME IntegrityAssumption, IntegrityInv, Quarantine \/ CopySource \/ VerifyRow
    PROVE  IntegrityInv' /\ RepairKeepsBytes
<1> DEFINE p   == repair.path
           old == repair.before.content
<1>1. /\ version \in [Paths -> [expected : Bytestrings, content : Bytestrings,
                                source : Bytestrings]]
      /\ quarantine \in [Blobs -> Bytestrings] /\ None \notin Blobs
      /\ UNCHANGED <<evidence, full, seen>>
  BY DEF IntegrityInv, IntegrityAssumption, Quarantine, CopySource, VerifyRow
<1>2. /\ p \in Paths /\ repair.todo \subseteq Paths
      /\ old \in Bytestrings /\ repair.before.quarantine \in [Blobs -> Bytestrings]
      /\ repair.before \in [content : Bytestrings, quarantine : [Blobs -> Bytestrings]]
  BY DEF IntegrityInv, Quarantine, CopySource, VerifyRow
<1>3. CASE Undone /\ repair' = [repair EXCEPT !.pc = "next"]
  <2>1. /\ version' \in [Paths -> [expected : Bytestrings, content : Bytestrings,
                                   source : Bytestrings]]
        /\ version'[p].content = old
    BY <1>1, <1>2, <1>3 DEF Undone
  <2>2. quarantine' \in [Blobs -> Bytestrings] /\ repair'.pc = "next" /\ repair'.todo = repair.todo
    BY <1>2, <1>3 DEF Undone, IntegrityInv
  <2> QED
    BY <1>1, <1>2, <2>1, <2>2 DEF IntegrityInv, RepairKeepsBytes
<1>4. CASE Quarantine
  <2>1. repair.pc = "open" /\ Bad = old /\ Bad # None /\ UNCHANGED version /\ Bad \in Blobs
    BY <1>1, <1>2, <1>4 DEF Quarantine, IntegrityInv, Bad, Bytestrings
  <2>2. CASE CopyTrusted
    <3>1. /\ quarantine' = [quarantine EXCEPT ![Bad] = IF @ = None THEN Bad ELSE @]
          /\ repair' = [repair EXCEPT !.pc = "saved"]
      BY <1>4, <2>2 DEF Quarantine
    <3>2. quarantine' \in [Blobs -> Bytestrings] /\ quarantine'[old] = old
      BY <1>1, <2>1, <2>2, <3>1 DEF CopyTrusted, Bytestrings
    <3>3. /\ repair'.pc = "saved" /\ repair'.todo = repair.todo /\ repair'.path = p
          /\ repair'.before = repair.before
      BY <2>1, <3>1 DEF IntegrityInv
    <3>4. repair'.before.content = version'[repair'.path].content
      BY <2>1, <3>3 DEF Bad
    <3> QED
      BY <1>1, <1>2, <2>1, <3>2, <3>3, <3>4 DEF IntegrityInv, RepairKeepsBytes
  <2>3. CASE ~CopyTrusted
    <3>1. repair' = [repair EXCEPT !.pc = "next"] /\ UNCHANGED quarantine
      BY <1>4, <2>3 DEF Quarantine
    <3>2. /\ repair'.pc = "next" /\ repair'.todo = repair.todo
          /\ version'[p].content = old
      BY <2>1, <3>1 DEF Bad
    <3> QED
      BY <1>1, <1>2, <2>1, <3>1, <3>2 DEF IntegrityInv, RepairKeepsBytes
  <2> QED
    BY <2>2, <2>3
<1>5. CASE CopySource /\ version[p].source # None
  <2>1. /\ version' = [version EXCEPT ![p].content = version[p].source]
        /\ repair' = [repair EXCEPT !.pc = "copied"] /\ UNCHANGED quarantine
        /\ repair.pc = "saved" \/ (repair.pc = "open" /\ Bad = None)
    BY <1>5 DEF CopySource
  <2>2. version' \in [Paths -> [expected : Bytestrings, content : Bytestrings,
                                source : Bytestrings]]
    BY <1>1, <1>2, <2>1
  <2>3. /\ repair'.pc = "copied" /\ repair'.todo = repair.todo /\ repair'.path = p
        /\ repair'.before = repair.before
    BY <2>1
  <2>4. old # None => quarantine'[old] = old
    BY <2>1 DEF IntegrityInv, Bad
  <2> QED
    BY <1>1, <1>2, <2>1, <2>2, <2>3, <2>4 DEF IntegrityInv, RepairKeepsBytes
<1>6. CASE VerifyRow /\ Check(p) = "verified"
  <2>1. /\ UNCHANGED <<version, quarantine>> /\ repair.pc = "copied"
        /\ repair'.pc = "next" /\ repair'.todo = repair.todo
        /\ version[p].content = version[p].expected
    BY <1>6 DEF VerifyRow, Check
  <2>2. old = None \/ quarantine'[old] = old
    BY <2>1 DEF IntegrityInv
  <2> QED
    BY <1>1, <1>2, <2>1, <2>2 DEF IntegrityInv, RepairKeepsBytes
<1> QED
  BY <1>3, <1>4, <1>5, <1>6 DEF CopySource, VerifyRow

LEMMA IntegritySteps ==
    ASSUME IntegrityAssumption, IntegrityInv, [IntegrityNext]_ivars
    PROVE  IntegrityInv' /\ FullMeansAll /\ RepairKeepsBytes
<1>1. /\ version \in [Paths -> [expected : Bytestrings, content : Bytestrings,
                                source : Bytestrings]]
      /\ quarantine \in [Blobs -> Bytestrings] /\ None \notin Blobs
  BY DEF IntegrityInv, IntegrityAssumption
<1>2. CASE Scrub
  <2>1. UNCHANGED repair
    BY <1>2 DEF Scrub
  <2> QED
    BY <1>2, <2>1, ScrubKeeps DEF RepairKeepsBytes
<1>3. ASSUME UNCHANGED <<evidence, full, seen>> PROVE FullMeansAll
  BY <1>3 DEF FullMeansAll
<1>4. CASE Quarantine \/ CopySource \/ VerifyRow
  BY <1>3, <1>4, RowKeeps DEF Quarantine, CopySource, VerifyRow
<1>5. CASE PlanRepair \/ Refuse \/ EndRepair
  <2>1. UNCHANGED <<version, evidence, full, seen, quarantine>>
    BY <1>5 DEF PlanRepair, Refuse, EndRepair
  <2>2. repair.pc \in {"none", "planned", "next"} /\ repair'.pc \in {"none", "planned"}
    <3>1. CASE PlanRepair
      BY <3>1 DEF PlanRepair, NoRepair
    <3>2. CASE Refuse \/ EndRepair
      BY <3>2 DEF Refuse, EndRepair, NoRepair
    <3> QED
      BY <1>5, <3>1, <3>2
  <2> QED
    BY <1>3, <2>1, <2>2 DEF IntegrityInv, RepairKeepsBytes
<1>6. CASE Apply
  <2>1. UNCHANGED <<version, evidence, full, seen, quarantine>> /\ repair.pc = "planned"
    BY <1>6 DEF Apply
  <2>2. DOMAIN Plan \subseteq Paths
    BY DEF Plan, Tracked
  <2>3. repair' = [repair EXCEPT !.pc = "next", !.todo = {p \in DOMAIN Plan : Repairable(p)}]
    BY <1>6 DEF Apply
  <2>4. repair'.pc = "next"
    BY <2>3
  <2>5. repair'.todo \subseteq Paths
    BY <2>2, <2>3
  <2> QED
    BY <1>3, <2>1, <2>4, <2>5 DEF IntegrityInv, RepairKeepsBytes
<1>7. CASE BeginRow
  <2>1. PICK p \in repair.todo :
            repair' = [repair EXCEPT !.pc = "open", !.path = p, !.todo = @ \ {p},
                          !.before = [content |-> version[p].content, quarantine |-> quarantine]]
    BY <1>7 DEF BeginRow
  <2>2. /\ UNCHANGED <<version, evidence, full, seen, quarantine>> /\ repair.pc = "next"
        /\ repair.todo \subseteq Paths
    BY <1>7 DEF BeginRow, IntegrityInv
  <2>3. /\ repair'.pc = "open" /\ repair'.path = p /\ repair'.todo \subseteq repair.todo
        /\ repair'.before = [content |-> version[p].content, quarantine |-> quarantine]
    BY <2>1
  <2>4. repair'.before \in [content : Bytestrings, quarantine : [Blobs -> Bytestrings]]
    BY <1>1, <2>2, <2>3
  <2> QED
    BY <1>3, <2>2, <2>3, <2>4 DEF IntegrityInv, RepairKeepsBytes
<1>8. CASE DieAndReconcile
  <2>1. /\ repair.pc \in {"open", "saved", "copied"} /\ Undone /\ repair'.pc = "none"
        /\ UNCHANGED <<evidence, full, seen>>
    BY <1>8 DEF DieAndReconcile, NoRepair
  <2>2. /\ repair.path \in Paths /\ repair.before.content \in Bytestrings
        /\ repair.before.quarantine \in [Blobs -> Bytestrings]
    BY <2>1 DEF IntegrityInv
  <2>3. /\ version' \in [Paths -> [expected : Bytestrings, content : Bytestrings,
                                   source : Bytestrings]]
        /\ version'[repair.path].content = repair.before.content
        /\ quarantine' \in [Blobs -> Bytestrings]
    BY <1>1, <2>1, <2>2 DEF Undone
  <2> QED
    BY <1>3, <2>1, <2>3 DEF IntegrityInv, RepairKeepsBytes
<1>9. ASSUME NEW p \in Paths, StoreRecord(p) \/ RemoveRecord(p) \/ DamageVersion(p)
      PROVE  IntegrityInv' /\ FullMeansAll /\ RepairKeepsBytes
  <2>1. repair.pc \in {"none", "planned"} /\ UNCHANGED <<evidence, full, seen, quarantine, repair>>
    BY <1>9 DEF StoreRecord, RemoveRecord, DamageVersion, Free
  <2>2. version' \in [Paths -> [expected : Bytestrings, content : Bytestrings,
                                source : Bytestrings]]
    BY <1>1, <1>9 DEF StoreRecord, RemoveRecord, DamageVersion, Bytestrings
  <2> QED
    BY <1>3, <2>1, <2>2 DEF IntegrityInv, RepairKeepsBytes
<1>10. ASSUME NEW p \in Paths, ChangeSource(p)
       PROVE  IntegrityInv' /\ FullMeansAll /\ RepairKeepsBytes
  <2>1. UNCHANGED <<evidence, full, seen, quarantine, repair>>
    BY <1>10 DEF ChangeSource
  <2>2. PICK c \in Bytestrings : version' = [version EXCEPT ![p].source = c]
    BY <1>10 DEF ChangeSource, Bytestrings
  <2>3. version' \in [Paths -> [expected : Bytestrings, content : Bytestrings,
                                source : Bytestrings]]
    BY <1>1, <2>2
  <2>4. \A q \in Paths : version'[q].content = version[q].content
    BY <1>1, <2>2
  <2> QED
    BY <1>3, <2>1, <2>3, <2>4 DEF IntegrityInv, RepairKeepsBytes
<1>11. CASE UNCHANGED ivars
  BY <1>11 DEF ivars, IntegrityInv, FullMeansAll, RepairKeepsBytes
<1> QED
  BY <1>2, <1>4, <1>5, <1>6, <1>7, <1>8, <1>9, <1>10, <1>11 DEF IntegrityNext, RepairStep

-----------------------------------------------------------------------------
(* The recorder's worker                                                   *)

\* Chunks are indexed in the order they were captured, the note names the one
\* that is being captured, and none while old ones are removed.
RecorderInv ==
    /\ index \in Seq([created : Int, chunk : Nat]) /\ clock \in Int
    /\ worker.chunk \in Nat /\ worker.created \in Int
    /\ \A i, j \in 1..Len(index) : i < j => index[i].chunk < index[j].chunk
    /\ \A i \in 1..Len(index) : index[i].chunk <= worker.chunk
    /\ pending \in Nat \cup {None} /\ \A f \in files : f[1] \in Nat
    /\ worker.pc = "record" => pending = worker.chunk /\ pending \notin Indexed
    /\ worker.pc \in {"capture", "retain"} => pending = None
    /\ CapturesAccounted

LEMMA RecorderStarts == ASSUME RecorderAssumption, RecorderInit PROVE RecorderInv
  BY DEF RecorderAssumption, RecorderInit, RecorderInv, CapturesAccounted, Off

\* The newest chunk is whole as long as none of its files changes.
LEMMA NewestWhole ==
    ASSUME RecorderInv, UNCHANGED <<backend, index>>,
           index # <<>> => \A f : f[1] = index[Len(index)].chunk => (f \in files <=> f \in files')
    PROVE  (index # <<>> => Whole(Len(index)))'
<1> SUFFICES ASSUME index' # <<>> PROVE Whole(Len(index))'
  OBVIOUS
<1>1. Whole(Len(index))
  BY DEF RecorderInv, CapturesAccounted
<1>2. Of(index[Len(index)].chunk)' = Of(index[Len(index)].chunk)
  BY DEF Of
<1> QED
  BY <1>1, <1>2 DEF Whole, ChunkParts

LEMMA Rows ==
    ASSUME NEW S, NEW s \in Seq(S)
    PROVE  /\ DOMAIN s = 1..Len(s) /\ Len(s) \in Nat /\ \A i \in 1..Len(s) : s[i] \in S
           /\ s = <<>> <=> Len(s) = 0
<1>1. DOMAIN s = 1..Len(s) /\ Len(s) \in Nat /\ \A i \in 1..Len(s) : s[i] \in S
  OBVIOUS
<1>2. s = <<>> => Len(s) = 0
  OBVIOUS
<1>3. Len(s) = 0 => s = <<>>
  OBVIOUS
<1> QED
  BY <1>1, <1>2, <1>3

LEMMA Tails ==
    ASSUME NEW S, NEW s \in Seq(S), NEW n \in 0..Len(s)
    PROVE  LET t == SubSeq(s, n + 1, Len(s))
           IN  /\ t \in Seq(S) /\ Len(t) = Len(s) - n
               /\ \A i \in 1..(Len(s) - n) : t[i] = s[i + n]
<1>1. Len(s) \in Nat /\ n \in Nat /\ n + 1 \in 1..(Len(s) + 1)
  OBVIOUS
<1> QED
  BY <1>1

LEMMA RecorderSteps ==
    ASSUME RecorderAssumption, RecorderInv, [RecorderNext]_wvars PROVE RecorderInv'
<1> USE DEF RecorderAssumption
<1>0. /\ index \in Seq([created : Int, chunk : Nat]) /\ clock \in Int
      /\ worker.chunk \in Nat /\ worker.created \in Int /\ pending \in Nat \cup {None}
      /\ Indexed = {index[i].chunk : i \in 1..Len(index)}
      /\ Len(index) \in Nat /\ \A i \in 1..Len(index) : index[i].chunk \in Nat
      /\ \A f \in files : f[1] \in Nat
      /\ \A f \in files : f[1] \in Indexed \/ f[1] = pending
      /\ index # <<>> => Len(index) \in 1..Len(index) /\ index[Len(index)].chunk \in Indexed
  <2>1. index \in Seq([created : Int, chunk : Nat])
    BY DEF RecorderInv
  <2>2. /\ DOMAIN index = 1..Len(index) /\ (index # <<>> => Len(index) \in 1..Len(index))
        /\ Len(index) \in Nat /\ \A i \in 1..Len(index) : index[i].chunk \in Nat
    <3>1. /\ DOMAIN index = 1..Len(index) /\ Len(index) \in Nat
          /\ \A i \in 1..Len(index) : index[i] \in [created : Int, chunk : Nat]
          /\ index = <<>> <=> Len(index) = 0
      BY <2>1, Rows
    <3> QED
      BY <3>1
  <2> QED
    BY <2>1, <2>2 DEF RecorderInv, CapturesAccounted, Indexed
<1>1. ASSUME UNCHANGED <<backend, files, index, pending>>, clock' \in Int,
             worker'.chunk = worker.chunk, worker'.created \in Int,
             \/ worker'.pc \in {"off", "settle", "resettle"}
             \/ worker'.pc \in {"capture", "retain"} /\ pending = None
             \/ worker'.pc = worker.pc
      PROVE  RecorderInv'
  BY <1>0, <1>1 DEF RecorderInv, CapturesAccounted, Indexed, Whole, Of, ChunkParts
<1>2. CASE Launch \/ NothingToReconcile \/ IndexRefused \/ WorkerDies
  <2>1. UNCHANGED <<backend, files, index, pending, clock>>
    BY <1>2 DEF Launch, NothingToReconcile, IndexRefused, WorkerDies
  <2>2. CASE Launch
    BY <1>0, <1>1, <2>1, <2>2 DEF Launch, Off
  <2>3. ASSUME NEW pc1, At(pc1)
        PROVE  worker'.chunk = worker.chunk /\ worker'.created \in Int /\ worker'.pc = pc1
    BY <1>0, <2>3 DEF At
  <2>4. CASE NothingToReconcile
    <3>1. At(AfterSettling(worker.pc)) /\ pending = None
      BY <2>4 DEF NothingToReconcile
    <3>2. AfterSettling(worker.pc) \in {"capture", "retain"}
      BY DEF AfterSettling
    <3> QED
      BY <1>0, <1>1, <2>1, <2>3, <3>1, <3>2
  <2>5. CASE IndexRefused \/ WorkerDies
    <3>1. At("off")
      BY <2>5 DEF IndexRefused, WorkerDies
    <3> QED
      BY <1>0, <1>1, <2>1, <2>3, <3>1
  <2> QED
    BY <1>2, <2>2, <2>4, <2>5
<1>3. CASE Reclaim
  <2>1. /\ UNCHANGED <<backend, clock, index, pending, worker>>
        /\ files' = files \ Of(pending) /\ pending \notin Indexed
    BY <1>3 DEF Reclaim, Uncommitted
  <2>2. index # <<>> => \A f : f[1] = index[Len(index)].chunk => (f \in files <=> f \in files')
    BY <1>0, <2>1 DEF Of
  <2>3. Indexed' = Indexed
    BY <2>1 DEF Indexed
  <2> QED
    BY <1>0, <2>1, <2>2, <2>3, NewestWhole DEF RecorderInv, CapturesAccounted
<1>4. CASE ClearNote
  <2>1. /\ UNCHANGED <<backend, clock, files, index>> /\ pending' = None
        /\ worker' = [worker EXCEPT !.pc = AfterSettling(worker.pc)] /\ Settled
    BY <1>4 DEF ClearNote, At
  <2>2. AfterSettling(worker.pc) \in {"capture", "retain"}
    BY DEF AfterSettling
  <2>3. /\ worker'.chunk = worker.chunk /\ worker'.created = worker.created
        /\ worker'.pc \in {"capture", "retain"}
    BY <1>0, <2>1, <2>2
  <2>4. \A f \in files : f[1] \in Indexed
    BY <1>0, <2>1 DEF Settled, Of
  <2> QED
    BY <1>0, <2>1, <2>3, <2>4
       DEF RecorderInv, CapturesAccounted, Indexed, Whole, Of, ChunkParts
<1>n. Len(index) \in Nat /\ worker.chunk \in Nat
  BY <1>0
<1>i. \A i \in 1..Len(index) : index[i].chunk \in Nat /\ index[i].chunk <= worker.chunk
  BY <1>0 DEF RecorderInv
<1>5. CASE BeginCapture
  <2>1. /\ UNCHANGED <<backend, files, index>> /\ pending = None
        /\ pending' = worker.chunk + 1
        /\ worker'.pc = "record" /\ worker'.chunk = worker.chunk + 1 /\ worker'.created = clock'
        /\ clock' \in Int
    BY <1>0, <1>5 DEF BeginCapture, RecorderInv
  <2>2. Indexed' = Indexed /\ worker.chunk + 1 \notin Indexed
    <3>1. Indexed' = Indexed
      BY <2>1 DEF Indexed
    <3>2. \A i \in 1..Len(index) : index[i].chunk # worker.chunk + 1
      BY <1>n, <1>i
    <3> QED
      BY <1>0, <3>1, <3>2
  <2>3. \A f \in files : f[1] \in Indexed
    BY <1>0, <2>1
  <2>4. \A i \in 1..Len(index') : index'[i].chunk <= worker'.chunk
    BY <1>n, <1>i, <2>1
  <2> QED
    BY <1>0, <2>1, <2>2, <2>3, <2>4 DEF RecorderInv, CapturesAccounted, Whole, Of, ChunkParts
<1>6. CASE Native \/ Fallback
  <2>1. /\ UNCHANGED <<backend, clock, index, pending, worker>>
        /\ pending = worker.chunk /\ pending \notin Indexed
        /\ \A f : f[1] # pending => (f \in files <=> f \in files')
    <3>1. worker.pc = "record" /\ UNCHANGED <<backend, clock, index, pending, worker>>
      BY <1>6 DEF Native, Fallback
    <3> DEFINE c == worker.chunk
    <3>2. \/ files' = files \cup {<<c, "sa">>}
          \/ files' = files \cup {<<c, "partial">>}
          \/ files' = (files \ {<<c, "partial">>}) \cup {<<c, "json">>}
          \/ files' = files \cup {<<c, "json">>}
      BY <1>6 DEF Native, Fallback
    <3>3. \A f : f[1] # c => f \notin {<<c, "sa">>, <<c, "partial">>, <<c, "json">>}
      OBVIOUS
    <3> QED
      BY <3>1, <3>2, <3>3 DEF RecorderInv
  <2>2. index # <<>> => \A f : f[1] = index[Len(index)].chunk => (f \in files <=> f \in files')
    BY <1>0, <2>1
  <2>3. Indexed' = Indexed
    BY <2>1 DEF Indexed
  <2> QED
    BY <1>0, <2>1, <2>2, <2>3, NewestWhole DEF RecorderInv, CapturesAccounted
<1>7. CASE CaptureFails
  <2>1. /\ UNCHANGED <<backend, clock, index>> /\ files' = files \ Of(worker.chunk)
        /\ pending' = None /\ pending = worker.chunk /\ pending \notin Indexed
        /\ worker' = [worker EXCEPT !.pc = "off"]
    BY <1>7 DEF CaptureFails, RecorderInv, At
  <2>2. worker'.chunk = worker.chunk /\ worker'.created = worker.created /\ worker'.pc = "off"
    BY <1>0, <2>1
  <2>3. index # <<>> => \A f : f[1] = index[Len(index)].chunk => (f \in files <=> f \in files')
    BY <1>0, <2>1 DEF Of
  <2>4. Indexed' = Indexed /\ \A f \in files' : f[1] \in Indexed
    BY <1>0, <2>1 DEF Indexed, Of
  <2> QED
    BY <1>0, <2>1, <2>2, <2>3, <2>4, NewestWhole DEF RecorderInv, CapturesAccounted
<1>8. CASE CommitChunk
  <2> DEFINE row == [created |-> worker.created, chunk |-> worker.chunk]
  <2>1. /\ UNCHANGED <<backend, clock, files, pending>> /\ index' = Append(index, row)
        /\ Of(worker.chunk) = {worker.chunk} \X ChunkParts
        /\ worker' = [worker EXCEPT !.pc = "resettle"]
        /\ pending = worker.chunk /\ pending \notin Indexed
    BY <1>8 DEF CommitChunk, At, RecorderInv
  <2>2. row \in [created : Int, chunk : Nat]
    BY <1>0
  <2>3. worker'.chunk = worker.chunk /\ worker'.created = worker.created /\ worker'.pc = "resettle"
    BY <1>0, <2>1
  <2>4. /\ index' \in Seq([created : Int, chunk : Nat]) /\ Len(index') = Len(index) + 1
        /\ \A i \in 1..Len(index) : index'[i] = index[i]
        /\ index'[Len(index) + 1] = row /\ Len(index) \in Nat
        /\ DOMAIN index' = 1..Len(index')
    BY <1>0, <2>1, <2>2
  <2>5. \A i \in 1..Len(index) : index[i].chunk < worker.chunk
    <3> SUFFICES ASSUME NEW i \in 1..Len(index) PROVE index[i].chunk < worker.chunk
      OBVIOUS
    <3>1. index[i].chunk <= worker.chunk /\ index[i].chunk \in Nat
      BY <1>0 DEF RecorderInv
    <3>2. index[i].chunk # worker.chunk
      BY <1>0, <2>1
    <3> QED
      BY <1>n, <3>1, <3>2
  <2>6. Indexed' = Indexed \cup {worker.chunk}
    <3>1. Indexed' = {index'[i].chunk : i \in 1..(Len(index) + 1)}
      BY <2>4 DEF Indexed
    <3>2. row.chunk = worker.chunk
      OBVIOUS
    <3> HIDE DEF row
    <3>3. 1..(Len(index) + 1) = 1..Len(index) \cup {Len(index) + 1}
      BY <1>n
    <3>4. {index'[i].chunk : i \in 1..Len(index)} = Indexed
      <4>1. \A i \in 1..Len(index) : index'[i].chunk = index[i].chunk
        BY <2>4
      <4>2. Indexed = {index[i].chunk : i \in 1..Len(index)}
        BY <1>0
      <4> QED
        BY <4>1, <4>2
    <3>5. index'[Len(index) + 1].chunk = worker.chunk
      BY <2>4, <3>2
    <3> QED
      BY <3>1, <3>3, <3>4, <3>5
  <2>7. \A i, j \in 1..Len(index') : i < j => index'[i].chunk < index'[j].chunk
    <3> SUFFICES ASSUME NEW i \in 1..Len(index'), NEW j \in 1..Len(index'), i < j
                 PROVE  index'[i].chunk < index'[j].chunk
      OBVIOUS
    <3>1. i \in 1..Len(index) /\ (j \in 1..Len(index) \/ j = Len(index) + 1)
      <4>1. Len(index') = Len(index) + 1
        BY <2>4
      <4> QED
        BY <1>n, <4>1
    <3>2. CASE j \in 1..Len(index)
      <4>1. index'[i] = index[i] /\ index'[j] = index[j]
        BY <2>4, <3>1, <3>2
      <4>2. \A k, l \in 1..Len(index) : k < l => index[k].chunk < index[l].chunk
        BY DEF RecorderInv
      <4> QED
        BY <3>1, <3>2, <4>1, <4>2
    <3>3. CASE j = Len(index) + 1
      <4>1. index'[i].chunk = index[i].chunk /\ index'[j].chunk = worker.chunk
        BY <2>4, <3>1, <3>3
      <4> QED
        BY <2>5, <3>1, <4>1
    <3> QED
      BY <3>1, <3>2, <3>3
  <2>8. \A i \in 1..Len(index') : index'[i].chunk <= worker'.chunk
    <3> SUFFICES ASSUME NEW i \in 1..Len(index') PROVE index'[i].chunk <= worker'.chunk
      OBVIOUS
    <3>1. Len(index') = Len(index) + 1
      BY <2>4
    <3>2. i \in 1..Len(index) \/ i = Len(index) + 1
      BY <1>n, <3>1
    <3>3. CASE i \in 1..Len(index)
      <4>1. index'[i] = index[i]
        BY <2>4, <3>3
      <4> QED
        BY <1>i, <2>3, <3>3, <4>1
    <3>4. CASE i = Len(index) + 1
      <4>1. index'[i].chunk = worker.chunk
        BY <2>4, <3>4
      <4> QED
        BY <1>n, <2>3, <4>1
    <3> QED
      BY <3>2, <3>3, <3>4
  <2>9. Whole(Len(index))'
    BY <2>1, <2>4 DEF Whole, Of, ChunkParts
  <2> QED
    BY <1>0, <2>1, <2>3, <2>4, <2>6, <2>7, <2>8, <2>9 DEF RecorderInv, CapturesAccounted
<1>9. CASE Unlink
  <2>1. PICK i \in Doomed : \E f \in Of(index[i].chunk) : files' = files \ {f}
    BY <1>9 DEF Unlink
  <2>2. PICK f \in Of(index[i].chunk) : files' = files \ {f}
    BY <2>1
  <2>3. /\ UNCHANGED <<backend, clock, index, pending, worker>> /\ index # <<>>
        /\ i \in 1..Len(index) /\ i < Len(index)
    <3>1. UNCHANGED <<backend, clock, index, pending, worker>> /\ index # <<>>
      BY <1>9 DEF Unlink
    <3>2. DOMAIN index = 1..Len(index)
      BY <1>0, Rows
    <3> QED
      BY <2>1, <3>1, <3>2 DEF Doomed
  <2>4. f[1] # index[Len(index)].chunk
    <3>1. index[i].chunk < index[Len(index)].chunk
      BY <1>0, <2>3 DEF RecorderInv
    <3>2. f[1] = index[i].chunk /\ index[i].chunk \in Nat /\ index[Len(index)].chunk \in Nat
      BY <1>0, <2>2, <2>3 DEF Of
    <3> QED
      BY <3>1, <3>2
  <2>5. \A g : g[1] = index[Len(index)].chunk => (g \in files <=> g \in files')
    BY <2>2, <2>4
  <2>6. Indexed' = Indexed
    BY <2>3 DEF Indexed
  <2> QED
    BY <1>0, <2>2, <2>3, <2>5, <2>6, NewestWhole DEF RecorderInv, CapturesAccounted
<1>10. CASE Reindex
  <2>1. PICK gone \in 0..Len(index) :
            Doomed = 1..gone /\ index' = SubSeq(index, gone + 1, Len(index))
    BY <1>10 DEF Reindex
  <2>2. /\ UNCHANGED <<backend, clock, files, pending>> /\ pending = None
        /\ \A i \in Doomed : Of(index[i].chunk) = {}
        /\ worker' = [worker EXCEPT !.pc = "capture"]
    BY <1>10 DEF Reindex, At, RecorderInv
  <2>3. worker'.chunk = worker.chunk /\ worker'.created = worker.created /\ worker'.pc = "capture"
    BY <1>0, <2>2
  <2>4. gone < Len(index) \/ index = <<>>
    <3>1. ASSUME gone = Len(index), index # <<>> PROVE FALSE
      <4>1. Len(index) \in Doomed
        BY <1>0, <2>1, <3>1
      <4> QED
        BY <1>0, <4>1 DEF Doomed
    <3> QED
      BY <1>0, <2>1, <3>1
  <2> DEFINE left == Len(index) - gone
  <2>5. /\ index' \in Seq([created : Int, chunk : Nat]) /\ Len(index') = left
        /\ \A i \in 1..left : index'[i] = index[i + gone]
        /\ left \in Nat /\ gone \in Nat /\ Len(index) \in Nat
        /\ DOMAIN index' = 1..Len(index')
        /\ index' = <<>> <=> left = 0
    <3>1. gone \in Nat /\ left \in Nat /\ Len(index) - gone = left
      BY <1>n
    <3>2. /\ index' \in Seq([created : Int, chunk : Nat]) /\ Len(index') = left
          /\ \A i \in 1..left : index'[i] = index[i + gone]
      <4>1. index \in Seq([created : Int, chunk : Nat])
        BY <1>0
      <4>2. gone \in 0..Len(index) /\ index' = SubSeq(index, gone + 1, Len(index))
        BY <2>1
      <4> QED
        BY <4>1, <4>2, Tails
    <3>3. DOMAIN index' = 1..Len(index') /\ (index' = <<>> <=> Len(index') = 0)
      BY <3>2, Rows
    <3> QED
      BY <1>n, <3>1, <3>2, <3>3
  <2>6. index' # <<>> => gone < Len(index) /\ index'[Len(index')] = index[Len(index)]
    <3> SUFFICES ASSUME index' # <<>>
                 PROVE  gone < Len(index) /\ index'[Len(index')] = index[Len(index)]
      OBVIOUS
    <3>1. left \in Nat \ {0} /\ gone < Len(index) /\ left + gone = Len(index)
      BY <1>n, <2>5
    <3> HIDE DEF left
    <3>2. left \in 1..left
      BY <3>1
    <3> QED
      BY <2>5, <3>1, <3>2
  <2> HIDE DEF left
  <2>7. \A f \in files : f[1] \in Indexed'
    <3> SUFFICES ASSUME NEW f \in files PROVE f[1] \in Indexed'
      OBVIOUS
    <3>1. f[1] \in Indexed
      BY <1>0, <2>2
    <3>2. PICK k \in 1..Len(index) : f[1] = index[k].chunk
      BY <1>0, <3>1
    <3>3. k \notin 1..gone
      BY <2>1, <2>2, <3>2 DEF Of
    <3>4. k - gone \in 1..left /\ index'[k - gone] = index[k]
      BY <2>5, <3>2, <3>3 DEF left
    <3>5. k - gone \in DOMAIN index'
      BY <2>5, <3>4
    <3> QED
      BY <3>2, <3>4, <3>5 DEF Indexed
  <2>8. \A i, j \in 1..Len(index') : i < j => index'[i].chunk < index'[j].chunk
    <3> SUFFICES ASSUME NEW i \in 1..Len(index'), NEW j \in 1..Len(index'), i < j
                 PROVE  index'[i].chunk < index'[j].chunk
      OBVIOUS
    <3>1. i + gone \in 1..Len(index) /\ j + gone \in 1..Len(index) /\ i + gone < j + gone
      BY <2>5 DEF left
    <3> QED
      BY <2>5, <3>1 DEF RecorderInv
  <2>9. \A i \in 1..Len(index') : index'[i].chunk <= worker'.chunk
    <3> SUFFICES ASSUME NEW i \in 1..Len(index') PROVE index'[i].chunk <= worker'.chunk
      OBVIOUS
    <3>1. i + gone \in 1..Len(index)
      BY <2>5 DEF left
    <3> QED
      BY <2>3, <2>5, <3>1 DEF RecorderInv
  <2>10. (index # <<>> => Whole(Len(index)))'
    <3>1. index # <<>> => Whole(Len(index))
      BY DEF RecorderInv, CapturesAccounted
    <3>2. index' # <<>> => index # <<>> /\ index'[Len(index')] = index[Len(index)]
      BY <2>4, <2>6, <1>0
    <3> QED
      BY <2>2, <3>1, <3>2 DEF Whole, Of, ChunkParts
  <2> QED
    BY <1>0, <2>2, <2>3, <2>5, <2>7, <2>8, <2>9, <2>10 DEF RecorderInv, CapturesAccounted
<1>11. CASE SetBack
  <2>1. clock' \in Int /\ UNCHANGED <<backend, files, index, pending, worker>>
    BY <1>0, <1>11 DEF SetBack
  <2> QED
    BY <1>0, <1>1, <2>1
<1>12. CASE UNCHANGED wvars
  BY <1>0, <1>1, <1>12 DEF wvars
<1> QED
  BY <1>2, <1>3, <1>4, <1>5, <1>6, <1>7, <1>8, <1>9, <1>10, <1>11, <1>12
     DEF RecorderNext, WorkerStep

-----------------------------------------------------------------------------
(* Registering the recorder                                                *)

BootCommands    == {"new_task", "replace_task", "boot_on"}
EnableCommands  == {"stop", "update", "create", "bootout", "start"} \cup BootCommands
DisableCommands == {"disable_task", "stop", "all_off", "boot_off", "bootout"}

\* The commands still ahead.
Ahead == {commands[i] : i \in DOMAIN commands}

ControlType ==
    /\ system \in Systems /\ asked \in Settings
    /\ anchor \in Anchors \cup {None}
    /\ native \subseteq {"counter", "boot", "running"}
    /\ plan # None => /\ plan.action \in {"enable", "disable"} /\ plan.settings \in Settings
                      /\ plan.action = "disable" => plan.anchor # None
    /\ commands # None => /\ anchor # None /\ anchor.status = "configuring"
                          /\ plan # None

\* What enabling still has to do: start comes last, the boot entry is there or
\* ahead, and on Windows neither is made before the counter that is noted.
Enabling ==
    /\ commands \in Seq(EnableCommands)
    /\ commands # <<>> => commands[Len(commands)] = "start"
    /\ commands = <<>> => "running" \in native
    /\ "boot" \in native \/ Ahead \cap BootCommands # {}
    /\ system # "Windows" => Owned
    /\ system = "Windows" =>
           \A j \in 1..Len(commands) :
               /\ commands[j] # "boot_on"
               /\ \/ commands[j] \notin BootCommands \cup {"start"}
                  \/ Owned /\ "counter" \in NotedParts
                  \/ \E i \in 1..(j - 1) : commands[i] \in {"create", "update"}

\* What disabling still has to remove.
Disabling ==
    /\ commands \in Seq(DisableCommands)
    /\ "boot" \in native \ orphans => Ahead \cap {"disable_task", "boot_off", "all_off"} # {}
    /\ "running" \in native \ orphans => Ahead \cap {"stop", "bootout", "all_off"} # {}

\* What is registered whatever is under way.
Registered ==
    /\ anchor # None /\ anchor.status = "disabled"
           => native \cap {"boot", "running"} \subseteq orphans
    /\ anchor # None /\ anchor.status = "enabled" => {"boot", "running"} \subseteq native
    /\ system = "Windows" => /\ native \ {"running"} \subseteq NotedParts \cup orphans
                             /\ "running" \in native \ orphans => "counter" \in NotedParts
    /\ native # {} => Owned \/ orphans # {}

ControlInv ==
    /\ ControlType /\ Registered
    /\ commands # None => IF plan.action = "enable" THEN Enabling ELSE Disabling

LEMMA ControlStarts == ASSUME ControlAssumption, ControlInit PROVE ControlInv
  BY DEF ControlAssumption, ControlInit, ControlInv, ControlType, Registered, Owned, NotedParts

LEMMA Enablers ==
    /\ "stop" \in EnableCommands /\ "update" \in EnableCommands /\ "create" \in EnableCommands
    /\ "bootout" \in EnableCommands /\ "start" \in EnableCommands
    /\ "new_task" \in EnableCommands /\ "replace_task" \in EnableCommands
    /\ "boot_on" \in EnableCommands
  BY DEF EnableCommands, BootCommands

LEMMA Disablers ==
    /\ "disable_task" \in DisableCommands /\ "stop" \in DisableCommands
    /\ "all_off" \in DisableCommands /\ "boot_off" \in DisableCommands
    /\ "bootout" \in DisableCommands
  BY DEF DisableCommands

\* One sequence of commands after another.
LEMMA Joined ==
    ASSUME NEW S, NEW first \in Seq(S), NEW second \in Seq(S)
    PROVE  /\ first \o second \in Seq(S) /\ Len(first \o second) = Len(first) + Len(second)
           /\ \A i \in 1..Len(first) : (first \o second)[i] = first[i]
           /\ \A i \in 1..Len(second) : (first \o second)[Len(first) + i] = second[i]
  OBVIOUS

\* Applying a plan notes first that the registration is the program's.
LEMMA ApplyPlanKeeps ==
    ASSUME ControlAssumption, ControlInv, ApplyPlan PROVE ControlInv'
<1> USE DEF ControlAssumption
<1>1. /\ ControlType /\ Registered /\ commands = None /\ plan # None /\ plan.anchor = anchor
      /\ UNCHANGED <<system, asked, native, calls>>
      /\ file' = IF Writes THEN plan.settings ELSE file
  BY DEF ControlInv, ApplyPlan, Unchanged
<1>2. CASE /\ anchor' = [owned |-> Owned \/ system # "Windows", status |-> "configuring",
                         parts |-> NotedParts, file |-> IF Writes THEN file' ELSE anchor.file,
                         settings |-> plan.settings]
           /\ commands' = Commands(plan.action)
           /\ UNCHANGED <<plan, orphans, upsets>>
  <2>1. anchor' \in Anchors /\ anchor' # None
    <3>1. NotedParts \subseteq {"counter", "boot"}
      BY <1>1 DEF ControlType, NotedParts, Anchors
    <3>4. ASSUME NEW owned, owned = (Owned \/ system # "Windows") PROVE owned \in BOOLEAN
      BY <3>4
    <3>2. plan.settings \in Settings
      BY <1>1 DEF ControlType
    <3>3. (IF Writes THEN file' ELSE anchor.file) \in Settings \cup {None, Foreign}
      BY <1>1, <3>2 DEF ControlType, Writes, Anchors
    <3> QED
      BY <1>2, <3>1, <3>2, <3>3, <3>4 DEF Anchors
  <2>2. Owned' = (Owned \/ system # "Windows") /\ NotedParts' = NotedParts
    BY <1>2, <2>1 DEF Owned, NotedParts
  <2>3. ControlType'
    BY <1>1, <1>2, <2>1 DEF ControlType
  <2>4. Registered'
    BY <1>1, <1>2, <2>1, <2>2 DEF Registered
  <2>5. ASSUME plan.action = "enable" PROVE Enabling'
    <3>1. CASE system = "Windows"
      <4> DEFINE first == IF "counter" \in NotedParts THEN <<"stop", "update">> ELSE <<"create">>
                 second == IF "boot" \in NotedParts THEN <<"replace_task">> ELSE <<"new_task">>
      <4>1. commands' = first \o second \o <<"start">>
        BY <1>2, <2>5, <3>1 DEF Commands
      <4> DEFINE n == Len(first)
                 last == <<"start">>
      <4>2. /\ first \in Seq(EnableCommands) /\ n \in 1..2
            /\ \A i \in 1..n : first[i] \in {"stop", "update", "create"}
            /\ first[n] \in {"create", "update"}
        <5>1. CASE "counter" \in NotedParts
          BY <5>1, Enablers
        <5>2. CASE "counter" \notin NotedParts
          BY <5>2, Enablers
        <5> QED
          BY <5>1, <5>2
      <4>3. second \in Seq(EnableCommands) /\ Len(second) = 1 /\ second[1] \in BootCommands \ {"boot_on"}
        BY Enablers DEF BootCommands
      <4>4. last \in Seq(EnableCommands) /\ Len(last) = 1 /\ last[1] = "start"
        BY Enablers
      <4> HIDE DEF first, second, last
      <4>5. /\ first \o second \in Seq(EnableCommands) /\ Len(first \o second) = n + 1
            /\ \A i \in 1..n : (first \o second)[i] = first[i]
            /\ (first \o second)[n + 1] \in BootCommands \ {"boot_on"}
        <5>1. /\ first \o second \in Seq(EnableCommands)
              /\ Len(first \o second) = Len(first) + Len(second)
              /\ \A i \in 1..Len(first) : (first \o second)[i] = first[i]
              /\ \A i \in 1..Len(second) : (first \o second)[Len(first) + i] = second[i]
          <6>1. first \in Seq(EnableCommands) /\ second \in Seq(EnableCommands)
            BY <4>2, <4>3
          <6> QED
            BY <6>1, Joined
        <5>2. 1 \in 1..Len(second)
          BY <4>3
        <5> QED
          BY <4>3, <5>1, <5>2
      <4>6. /\ commands' \in Seq(EnableCommands) /\ Len(commands') = n + 2
            /\ \A i \in 1..(n + 1) : commands'[i] = (first \o second)[i]
            /\ commands'[n + 2] = "start"
        BY <4>1, <4>2, <4>4, <4>5, Joined DEF last
      <4>7. commands' # <<>> /\ commands'[Len(commands')] = "start"
        BY <4>2, <4>6
      <4>8. Ahead' \cap BootCommands # {}
        <5>1. n + 1 \in DOMAIN commands' /\ commands'[n + 1] \in BootCommands
          BY <4>2, <4>5, <4>6
        <5> QED
          BY <5>1 DEF Ahead
      <4>9. ASSUME NEW j \in 1..Len(commands')
            PROVE  /\ commands'[j] # "boot_on"
                   /\ \/ commands'[j] \notin BootCommands \cup {"start"}
                      \/ \E i \in 1..(j - 1) : commands'[i] \in {"create", "update"}
        <5>1. CASE j \in 1..n
          BY <4>2, <4>5, <4>6, <5>1 DEF BootCommands
        <5>2. CASE j \notin 1..n
          <6>1. n \in 1..(j - 1) /\ commands'[n] = first[n]
            BY <4>2, <4>5, <4>6, <5>2
          <6>2. j = n + 1 \/ j = n + 2
            BY <4>2, <4>6, <5>2
          <6> QED
            BY <4>2, <4>5, <4>6, <6>1, <6>2
        <5> QED
          BY <5>1, <5>2
      <4> QED
        BY <1>1, <3>1, <4>6, <4>7, <4>8, <4>9 DEF Enabling
    <3>2. CASE system # "Windows"
      <4> DEFINE first == IF system = "Darwin" /\ Owned THEN <<"bootout">> ELSE <<>>
                 second == <<"boot_on", "start">>
      <4>1. commands' = first \o second \/ commands' = second
        BY <1>1, <1>2, <2>5, <3>2 DEF Commands, ControlType
      <4>2. first \in Seq(EnableCommands) /\ Len(first) \in 0..1
        BY Enablers
      <4>3. /\ second \in Seq(EnableCommands) /\ Len(second) = 2
            /\ second[1] = "boot_on" /\ second[2] = "start"
        BY Enablers
      <4> HIDE DEF first, second
      <4>4. PICK n \in 0..1 : /\ commands' \in Seq(EnableCommands) /\ Len(commands') = n + 2
                              /\ commands'[n + 1] = "boot_on" /\ commands'[n + 2] = "start"
        <5>1. CASE commands' = second
          BY <4>3, <5>1
        <5>2. CASE commands' = first \o second
          <6>1. /\ commands' \in Seq(EnableCommands)
                /\ Len(commands') = Len(first) + Len(second)
                /\ \A i \in 1..Len(second) : commands'[Len(first) + i] = second[i]
            <7>1. first \in Seq(EnableCommands) /\ second \in Seq(EnableCommands)
              BY <4>2, <4>3
            <7> QED
              BY <5>2, <7>1, Joined
          <6>2. 1 \in 1..Len(second) /\ 2 \in 1..Len(second)
            BY <4>3
          <6> QED
            BY <4>2, <4>3, <6>1, <6>2
        <5> QED
          BY <4>1, <5>1, <5>2
      <4>5. commands' # <<>> /\ commands'[Len(commands')] = "start"
        BY <4>4
      <4>6. Ahead' \cap BootCommands # {}
        <5>1. n + 1 \in DOMAIN commands' /\ commands'[n + 1] \in BootCommands
          BY <4>4 DEF BootCommands
        <5> QED
          BY <5>1 DEF Ahead
      <4> QED
        BY <1>1, <2>2, <3>2, <4>4, <4>5, <4>6 DEF Enabling
    <3> QED
      BY <3>1, <3>2
  <2>6. ASSUME plan.action # "enable" PROVE Disabling'
    <3> plan.action = "disable"
      BY <1>1, <2>6 DEF ControlType
    <3>1. CASE system = "Windows"
      <4> DEFINE first == IF "boot" \in NotedParts THEN <<"disable_task">> ELSE <<>>
                 second == IF "counter" \in NotedParts THEN <<"stop">> ELSE <<>>
      <4>1. commands' = first \o second
        BY <1>2, <2>6, <3>1 DEF Commands
      <4> QED
        BY <1>1, <1>2, <3>1, <4>1 DEF Disabling, DisableCommands, Ahead, Registered
    <3>2. CASE system # "Windows"
      <4>1. \/ system = "Linux" /\ commands' = <<"all_off">>
            \/ system = "Darwin" /\ commands' = <<"boot_off", "bootout">>
        BY <1>1, <1>2, <2>6, <3>2 DEF Commands, ControlType
      <4>2. commands' \in Seq(DisableCommands)
        <5>1. <<"all_off">> \in Seq(DisableCommands)
          BY Disablers
        <5>2. <<"boot_off", "bootout">> \in Seq(DisableCommands)
          BY Disablers
        <5> QED
          BY <4>1, <5>1, <5>2
      <4>3. /\ Ahead' \cap {"disable_task", "boot_off", "all_off"} # {}
            /\ Ahead' \cap {"stop", "bootout", "all_off"} # {}
        <5>1. CASE commands' = <<"all_off">>
          <6>1. 1 \in DOMAIN commands' /\ commands'[1] = "all_off"
            BY <5>1
          <6> QED
            BY <6>1 DEF Ahead
        <5>2. CASE commands' = <<"boot_off", "bootout">>
          <6>1. /\ 1 \in DOMAIN commands' /\ commands'[1] = "boot_off"
                /\ 2 \in DOMAIN commands' /\ commands'[2] = "bootout"
            BY <5>2
          <6> QED
            BY <6>1 DEF Ahead
        <5> QED
          BY <4>1, <5>1, <5>2
      <4> QED
        BY <4>2, <4>3 DEF Disabling
    <3> QED
      BY <3>1, <3>2
  <2> QED
    BY <1>1, <1>2, <2>3, <2>4, <2>5, <2>6 DEF ControlInv
<1>3. CASE /\ plan' = None /\ orphans' = orphans \cup {"file"}
           /\ UNCHANGED <<anchor, commands>>
  BY <1>1, <1>3 DEF ControlInv, ControlType, Registered, Owned, NotedParts
<1> QED
  BY <1>2, <1>3 DEF ApplyPlan

\* Carrying a command out leaves the ones after it.
LEMMA AheadAfter ==
    ASSUME NEW S, commands \in Seq(S), commands # <<>>, commands' = Tail(commands)
    PROVE  /\ Head(commands) \in S /\ commands' \in Seq(S)
           /\ Head(commands) = commands[1] /\ Len(commands') = Len(commands) - 1
           /\ \A i \in 1..Len(commands') : commands'[i] = commands[i + 1]
           /\ Ahead = Ahead' \cup {Head(commands)}
<1>1. /\ Head(commands) \in S /\ commands' \in Seq(S)
      /\ Head(commands) = commands[1] /\ Len(commands') = Len(commands) - 1
      /\ Len(commands) \in Nat \ {0}
      /\ \A i \in 1..Len(commands') : commands'[i] = commands[i + 1]
  OBVIOUS
<1>2. DOMAIN commands = 1..Len(commands) /\ DOMAIN commands' = 1..Len(commands')
  BY <1>1
<1>3. ASSUME NEW c \in Ahead PROVE c \in Ahead' \cup {Head(commands)}
  <2>1. PICK i \in 1..Len(commands) : c = commands[i]
    BY <1>2 DEF Ahead
  <2>2. CASE i = 1
    BY <1>1, <2>1, <2>2
  <2>3. CASE i # 1
    <3>1. i - 1 \in 1..Len(commands') /\ commands'[i - 1] = c
      BY <1>1, <2>1, <2>3
    <3> QED
      BY <1>2, <3>1 DEF Ahead
  <2> QED
    BY <2>2, <2>3
<1>4. ASSUME NEW c \in Ahead' PROVE c \in Ahead
  <2>1. PICK i \in 1..Len(commands') : c = commands'[i]
    BY <1>2 DEF Ahead
  <2>2. i + 1 \in 1..Len(commands) /\ commands[i + 1] = c
    BY <1>1, <2>1
  <2> QED
    BY <1>2, <2>2 DEF Ahead
<1>5. Head(commands) \in Ahead
  BY <1>1, <1>2 DEF Ahead
<1> QED
  BY <1>1, <1>3, <1>4, <1>5

LEMMA RunKeeps ==
    ASSUME ControlAssumption, ControlInv, Run PROVE ControlInv'
<1> DEFINE cmd == Head(commands)
<1>1. /\ commands # None /\ commands # <<>> /\ ControlType /\ Registered
      /\ native' = (native \ Removed(cmd)) \cup Made(cmd)
      /\ UNCHANGED <<system, asked, file, calls>>
  BY DEF ControlInv, Run
<1>2. anchor # None /\ anchor \in Anchors /\ anchor.status = "configuring" /\ plan # None
  BY <1>1 DEF ControlType
<1>3. native' \subseteq {"counter", "boot", "running"}
  BY <1>1 DEF ControlType, Made
<1>4. CASE /\ anchor' = [anchor EXCEPT !.parts = @ \cup
                            (IF system = "Windows" THEN Noted(cmd) ELSE {}),
                                      !.owned = @ \/ cmd \in {"create", "update"}]
           /\ commands' = Tail(commands)
           /\ UNCHANGED <<plan, orphans, upsets>>
  <2>1. /\ anchor' \in Anchors /\ anchor' # None /\ anchor'.status = "configuring"
        /\ Owned' = (Owned \/ cmd \in {"create", "update"})
        /\ NotedParts' = NotedParts \cup (IF system = "Windows" THEN Noted(cmd) ELSE {})
    <3>1. ASSUME NEW owned, owned = (anchor.owned \/ cmd \in {"create", "update"})
          PROVE  owned \in BOOLEAN
      BY <3>1
    <3>2. Noted(cmd) \subseteq {"counter", "boot"}
      BY DEF Noted
    <3> HIDE DEF cmd
    <3>3. anchor' \in Anchors
      BY <1>2, <1>4, <3>1, <3>2 DEF Anchors
    <3>4. anchor' # None
      BY <3>3 DEF ControlAssumption
    <3> QED
      BY <1>2, <1>4, <3>3, <3>4 DEF Anchors, Owned, NotedParts
  <2>2. ControlType'
    BY <1>1, <1>2, <1>3, <1>4, <2>1 DEF ControlType
  <2>3. CASE plan.action = "enable"
    <3>1. Enabling
      BY <1>1, <2>3 DEF ControlInv
    <3>2. /\ cmd \in EnableCommands /\ commands' \in Seq(EnableCommands)
          /\ cmd = commands[1] /\ Len(commands') = Len(commands) - 1
          /\ \A i \in 1..Len(commands') : commands'[i] = commands[i + 1]
          /\ Ahead = Ahead' \cup {cmd}
      BY <1>1, <1>4, <3>1, AheadAfter DEF Enabling
    <3>3. Len(commands) \in Nat \ {0}
      BY <1>1, <3>1 DEF Enabling
    <3> HIDE DEF cmd
    <3>4. system = "Windows" => /\ cmd # "boot_on"
                                /\ cmd \in BootCommands \cup {"start"}
                                       => Owned /\ "counter" \in NotedParts
      BY <3>1, <3>2, <3>3 DEF Enabling
    <3>5. Registered'
      <4>1. system = "Windows" =>
              /\ native' \ {"running"} \subseteq NotedParts' \cup orphans'
              /\ "running" \in native' \ orphans' => "counter" \in NotedParts'
        <5>1. system = "Windows" =>
                /\ native \ {"running"} \subseteq NotedParts \cup orphans
                /\ "running" \in native \ orphans => "counter" \in NotedParts
          BY <1>1 DEF Registered
        <5>2. system = "Windows" => Made(cmd) \ {"running"} \subseteq Noted(cmd)
          BY <3>2, <3>4 DEF Made, Noted, EnableCommands, BootCommands
        <5>3. system = "Windows" /\ "running" \in Made(cmd) => "counter" \in NotedParts
          BY <3>4 DEF Made
        <5> QED
          BY <1>1, <1>4, <2>1, <5>1, <5>2, <5>3
      <4>2. native' # {} => Owned' \/ orphans' # {}
        <5>1. native # {} => Owned \/ orphans # {}
          BY <1>1 DEF Registered
        <5>2. Made(cmd) # {} => Owned'
          BY <2>1, <3>1, <3>2, <3>4 DEF Enabling, EnableCommands, Made
        <5> QED
          BY <1>1, <1>4, <2>1, <5>1, <5>2
      <4> QED
        BY <1>1, <2>1, <4>1, <4>2 DEF Registered
    <3>6. commands' # <<>> => commands'[Len(commands')] = "start"
      BY <1>1, <3>1, <3>2, <3>3 DEF Enabling
    <3>7. commands' = <<>> => "running" \in native'
      <4>1. commands' = <<>> => cmd = "start"
        <5>1. commands' = <<>> => Len(commands') = 0
          OBVIOUS
        <5>2. commands' = <<>> => Len(commands) = 1
          BY <3>2, <3>3, <5>1
        <5> QED
          BY <1>1, <3>1, <3>2, <5>2 DEF Enabling
      <4> QED
        BY <1>1, <4>1 DEF Made
    <3>8. "boot" \in native' \/ Ahead' \cap BootCommands # {}
      <4>1. CASE cmd \in BootCommands
        BY <1>1, <4>1 DEF Made, BootCommands
      <4>2. CASE cmd \notin BootCommands
        BY <1>1, <3>1, <3>2, <4>2 DEF Enabling, Removed, EnableCommands
      <4> QED
        BY <4>1, <4>2
    <3>9. ASSUME system' = "Windows", NEW j \in 1..Len(commands')
          PROVE  /\ commands'[j] # "boot_on"
                 /\ \/ commands'[j] \notin BootCommands \cup {"start"}
                    \/ Owned' /\ "counter" \in NotedParts'
                    \/ \E i \in 1..(j - 1) : commands'[i] \in {"create", "update"}
      <4>3. j + 1 \in 1..Len(commands) /\ commands'[j] = commands[j + 1]
        BY <3>2, <3>3
      <4>1. CASE Owned /\ "counter" \in NotedParts
        BY <1>1, <2>1, <3>1, <3>9, <4>1, <4>3 DEF Enabling
      <4>2. ASSUME NEW i \in 1..((j + 1) - 1), commands[i] \in {"create", "update"}
            PROVE  \/ Owned' /\ "counter" \in NotedParts'
                   \/ \E k \in 1..(j - 1) : commands'[k] \in {"create", "update"}
        <5>1. CASE i = 1
          BY <1>1, <2>1, <3>2, <3>9, <4>2, <5>1 DEF Noted
        <5>2. CASE i # 1
          <6>1. i - 1 \in 1..(j - 1) /\ commands'[i - 1] = commands[i]
            BY <3>2, <3>3, <5>2
          <6> QED
            BY <4>2, <6>1
        <5> QED
          BY <5>1, <5>2
      <4> QED
        BY <1>1, <3>1, <3>9, <4>1, <4>2, <4>3 DEF Enabling
    <3>10. Enabling'
      BY <1>1, <2>1, <3>1, <3>2, <3>6, <3>7, <3>8, <3>9 DEF Enabling
    <3> QED
      BY <1>4, <2>2, <2>3, <3>5, <3>10 DEF ControlInv
  <2>4. CASE plan.action # "enable"
    <3>1. Disabling
      BY <1>1, <2>4 DEF ControlInv
    <3>2. /\ cmd \in DisableCommands /\ commands' \in Seq(DisableCommands)
          /\ Ahead = Ahead' \cup {cmd}
      BY <1>1, <1>4, <3>1, AheadAfter DEF Disabling
    <3> HIDE DEF cmd
    <3>3. Made(cmd) = {} /\ native' = native \ Removed(cmd)
      BY <1>1, <3>2 DEF DisableCommands, Made
    <3>4. Registered'
      BY <1>1, <1>2, <1>4, <2>1, <3>3 DEF Registered
    <3>5. Disabling'
      <4>1. cmd \in {"disable_task", "boot_off", "all_off"} => "boot" \notin native'
        BY <3>3 DEF Removed
      <4>2. cmd \in {"stop", "bootout", "all_off"} => "running" \notin native'
        BY <3>3 DEF Removed
      <4> QED
        BY <1>4, <3>1, <3>2, <3>3, <4>1, <4>2 DEF Disabling
    <3> QED
      BY <1>4, <2>2, <2>4, <3>4, <3>5 DEF ControlInv
  <2> QED
    BY <2>3, <2>4
<1>5. CASE /\ plan' = None /\ commands' = None /\ orphans' = orphans \cup Made(cmd)
           /\ UNCHANGED anchor
  <2>1. Owned' = Owned /\ NotedParts' = NotedParts
    BY <1>5 DEF Owned, NotedParts
  <2>2. Registered'
    BY <1>1, <1>2, <1>5, <2>1 DEF Registered
  <2> QED
    BY <1>1, <1>3, <1>5, <2>2 DEF ControlInv, ControlType
<1> QED
  BY <1>4, <1>5 DEF Run

LEMMA ControlSteps == ASSUME ControlAssumption, ControlInv, [ControlNext]_nvars PROVE ControlInv'
<1> USE DEF ControlAssumption
<1>1. ASSUME NEW action \in {"enable", "disable"}, MakePlan(action) PROVE ControlInv'
  BY <1>1 DEF MakePlan, ControlInv, ControlType, Registered, Owned, NotedParts, Anchors
<1>2. CASE ApplyRefused
  BY <1>2 DEF ApplyRefused, ControlInv, ControlType, Registered, Owned, NotedParts
<1>3. CASE CommandFails
  <2>1. /\ anchor \in Anchors /\ anchor # None /\ ControlType /\ Registered
        /\ anchor' = [anchor EXCEPT !.status = "failed"]
        /\ plan' = None /\ commands' = None
        /\ UNCHANGED <<system, asked, native, file, orphans, calls>>
    BY <1>3 DEF CommandFails, ControlInv, ControlType
  <2>2. anchor' \in Anchors /\ anchor' # None /\ anchor'.status = "failed"
    BY <2>1 DEF Anchors
  <2>3. Owned' = Owned /\ NotedParts' = NotedParts
    BY <2>1, <2>2 DEF Owned, NotedParts, Anchors
  <2> QED
    BY <2>1, <2>2, <2>3 DEF ControlInv, ControlType, Registered
<1>4. CASE Done
  <2>1. /\ ControlType /\ Registered /\ commands = <<>> /\ plan # None
        /\ anchor \in Anchors /\ anchor # None
        /\ anchor' = [anchor EXCEPT !.status =
                         IF plan.action = "enable" THEN "enabled" ELSE "disabled"]
        /\ plan' = None /\ commands' = None
        /\ UNCHANGED <<system, asked, native, file, orphans, calls>>
    BY <1>4 DEF Done, ControlInv, ControlType
  <2> DEFINE status == IF plan.action = "enable" THEN "enabled" ELSE "disabled"
  <2>2. anchor' \in Anchors /\ anchor' # None /\ anchor'.status = status
    BY <2>1 DEF Anchors
  <2>3. Owned' = Owned /\ NotedParts' = NotedParts
    BY <2>1, <2>2 DEF Owned, NotedParts, Anchors
  <2> HIDE DEF status
  <2>4. CASE plan.action = "enable"
    <3>1. {"boot", "running"} \subseteq native /\ anchor'.status = "enabled"
      BY <1>4, <2>1, <2>2, <2>4 DEF ControlInv, Enabling, Ahead, status
    <3>2. /\ system' = "Windows" =>
                /\ native' \ {"running"} \subseteq NotedParts' \cup orphans'
                /\ "running" \in native' \ orphans' => "counter" \in NotedParts'
          /\ native' # {} => Owned' \/ orphans' # {}
      BY <2>1, <2>3 DEF Registered
    <3>3. Registered'
      BY <2>1, <2>2, <3>1, <3>2 DEF Registered
    <3> QED
      BY <2>1, <2>2, <3>3 DEF ControlInv, ControlType
  <2>5. CASE plan.action # "enable"
    <3>1. native \cap {"boot", "running"} \subseteq orphans /\ anchor'.status = "disabled"
      BY <1>4, <2>1, <2>2, <2>5 DEF ControlInv, Disabling, Ahead, status
    <3>2. /\ system' = "Windows" =>
                /\ native' \ {"running"} \subseteq NotedParts' \cup orphans'
                /\ "running" \in native' \ orphans' => "counter" \in NotedParts'
          /\ native' # {} => Owned' \/ orphans' # {}
      BY <2>1, <2>3 DEF Registered
    <3>3. Registered'
      BY <2>1, <2>2, <3>1, <3>2 DEF Registered
    <3> QED
      BY <2>1, <2>2, <3>3 DEF ControlInv, ControlType
  <2> QED
    BY <2>1, <2>2, <2>4, <2>5 DEF ControlInv, ControlType
<1>5. CASE Others
  <2>1. asked' \in Settings /\ UNCHANGED <<system, native, anchor, plan, commands, orphans>>
    BY <1>5 DEF Others, ControlInv, ControlType
  <2> QED
    BY <2>1 DEF ControlInv, ControlType, Registered, Owned, NotedParts, Enabling, Disabling, Ahead
<1>6. CASE UNCHANGED nvars
  BY <1>6 DEF nvars, ControlInv, ControlType, Registered, Owned, NotedParts, Enabling, Disabling,
     Ahead
<1> QED
  BY <1>1, <1>2, <1>3, <1>4, <1>5, <1>6, ApplyPlanKeeps, RunKeeps DEF ControlNext

-----------------------------------------------------------------------------
(* The monitor                                                             *)

Notices == [alert : Alerts, status : Statuses]
OutboxRows ==
    [channel : Channels, kind : {"heartbeat", "digest", "event"}, about : SUBSET Notices,
     attempts : Nat, wait : Int, picked : BOOLEAN]

QueueOf(box, ch) == {i \in DOMAIN box : box[i].channel = ch}
InBox(box, ch, e) == \E i \in DOMAIN box : box[i].channel = ch /\ e \in box[i].about

\* Snapshots report nothing, a channel has one of each kind at most, and no
\* channel has more messages pending than the limit.
BoxInv(box) ==
    /\ box \in Seq(OutboxRows)
    /\ \A i \in 1..Len(box) : box[i].kind \in {"heartbeat", "digest"} =>
           /\ box[i].about = {}
           /\ \A j \in 1..Len(box) :
                  box[j].kind = box[i].kind /\ box[j].channel = box[i].channel => i = j
    /\ \A ch \in Channels : Cardinality(QueueOf(box, ch)) <= Limit

\* What a channel is owed is pending, or died in memory, or is about to be
\* queued by the run that decided it.
DebtsKnown ==
    /\ pc = "idle" => events = {}
    /\ \A ch \in Channels : \A e \in owed[ch] :
           /\ Routed(ch, e.status)
           /\ \/ InBox(outbox, ch, e) \/ e \in interrupted[ch]
              \/ pc \in {"drain", "queue"} /\ ch \in todo /\ e \in events

OutboxInv ==
    /\ BoxInv(outbox) /\ events \subseteq Notices
    /\ owed \in [Channels -> SUBSET Notices] /\ interrupted \in [Channels -> SUBSET Notices]
    /\ digestAge \in [Channels -> 0..DigestInterval]
    /\ told \in [Channels -> [Alerts -> Statuses]]
    /\ pc \in {"idle", "drain", "queue", "last"} /\ todo \subseteq Channels
    /\ DebtsKnown

AlertRows ==
    [status : Statuses, candidate : Statuses \cup {""}, consecutive : 0..Window,
     unknown : BOOLEAN, muted : BOOLEAN, notified : Statuses, silent : 0..Cooldown]
Samples == [reading : Readings \cup {"ok"}, age : 0..StaleAfter + 1, fresh : BOOLEAN]

Trailing(o, k, c) == k <= Len(o) /\ \A i \in 1..Len(o) : i > Len(o) - k => o[i] = c

\* The candidate c of an alert has as many of the last distinct observations
\* behind it as the alert counts, unless it is the "ok" of one that is no problem.
Backed(o, row, c) ==
    \/ Trailing(o, row.consecutive, c)
    \/ c = "ok" /\ row.status \in {"ok", "disabled"}

\* The candidate of an alert is backed, and so is the one that reading the
\* same observation again would give.
Grounded(o, row, s) ==
    /\ row.candidate \in {"ok", "warning", "critical"} => Backed(o, row, row.candidate)
    /\ ~s.fresh /\ s.age <= StaleAfter /\ Candidate(row, s.reading, FALSE) # "unknown" =>
           Backed(o, row, Candidate(row, s.reading, FALSE))

EvidenceInv ==
    /\ sample \in [Alerts -> Samples] /\ alert \in [Alerts -> AlertRows]
    /\ observed \in [Alerts -> Seq(Statuses)]
    /\ \A a \in Alerts : Grounded(observed[a], alert[a], sample[a])

MonitorInv == OutboxInv /\ EvidenceInv

LEMMA WindowNat ==
    ASSUME MonitoringAssumption
    PROVE  /\ Consecutive \in 1..Window /\ ClearConsecutive \in 1..Window /\ Window \in Nat \ {0}
           /\ Cooldown \in Nat /\ StaleAfter \in Nat /\ DigestInterval \in Nat
           /\ \A gap \in Gaps : gap \in Nat \ {0}
<1>1. Consecutive \in Nat \ {0} /\ ClearConsecutive \in Nat \ {0}
  BY DEF MonitoringAssumption
<1>2. Cooldown \in Nat /\ StaleAfter \in Nat /\ DigestInterval \in Nat
      /\ \A gap \in Gaps : gap \in Nat \ {0}
  BY DEF MonitoringAssumption
<1> QED
  BY <1>1, <1>2 DEF Window, Larger

LEMMA RowTyped ==
    ASSUME NEW st \in Statuses, NEW c \in Statuses \cup {""}, NEW k \in 0..Window,
           NEW u \in BOOLEAN, NEW m \in BOOLEAN, NEW n \in Statuses, NEW q \in 0..Cooldown
    PROVE  [status |-> st, candidate |-> c, consecutive |-> k, unknown |-> u, muted |-> m,
            notified |-> n, silent |-> q] \in AlertRows
  BY DEF AlertRows

\* One more observation that agrees makes the run of them one longer, up to the
\* window, and one that does not starts another.
LEMMA Observing ==
    ASSUME MonitoringAssumption, NEW o \in Seq(Statuses), NEW c \in Statuses,
           NEW k \in 0..Window, NEW next, next = LastOf(Append(o, c), Window)
    PROVE  /\ next \in Seq(Statuses)
           /\ Trailing(next, 1, c)
           /\ Trailing(o, k, c) => Trailing(next, Smaller(Window, k + 1), c)
<1>1. Window \in Nat \ {0} /\ k \in Nat /\ Len(o) \in Nat
  BY WindowNat
<1> DEFINE long == Append(o, c)
<1>2. long \in Seq(Statuses) /\ Len(long) = Len(o) + 1 /\ long[Len(o) + 1] = c
      /\ \A i \in 1..Len(o) : long[i] = o[i]
  OBVIOUS
<1>3. Smaller(Window, k + 1) \in Nat /\ Smaller(Window, k + 1) <= Window
      /\ Smaller(Window, k + 1) <= k + 1 /\ Smaller(Window, k + 1) >= 1
  BY <1>1 DEF Smaller
<1>4. ASSUME Trailing(o, k, c) PROVE Trailing(long, Smaller(Window, k + 1), c)
  BY <1>1, <1>2, <1>3, <1>4 DEF Trailing
<1>5. Trailing(long, 1, c)
  BY <1>1, <1>2 DEF Trailing
<1> HIDE DEF long
<1>6. CASE Len(long) <= Window
  <2>1. next = long
    BY <1>6 DEF LastOf, long
  <2> QED
    BY <2>1, <1>2, <1>4, <1>5
<1>7. CASE Len(long) > Window
  <2>1. next = SubSeq(long, Len(long) - Window + 1, Len(long))
    <3>1. next = LastOf(long, Window) /\ ~(Len(long) <= Window)
      BY <1>7, <1>1, <1>2 DEF long
    <3> QED
      BY <3>1 DEF LastOf
  <2>2. Len(long) \in Nat /\ Len(long) - Window + 1 \in 1..Len(long)
    BY <1>1, <1>2, <1>7
  <2>3. next \in Seq(Statuses) /\ Len(next) = Window
        /\ \A i \in 1..Window : next[i] = long[Len(long) - Window + i]
    BY <2>1, <2>2, <1>1, <1>2
  <2>4. ASSUME NEW n \in Nat, n <= Window, Trailing(long, n, c) PROVE Trailing(next, n, c)
    <3>1. \A i \in 1..Len(long) : i > Len(long) - n => long[i] = c
      BY <2>4 DEF Trailing
    <3> SUFFICES ASSUME NEW i \in 1..Window, i > Window - n PROVE next[i] = c
      BY <2>3, <2>4, <1>1 DEF Trailing
    <3>2. Len(long) - Window + i \in 1..Len(long) /\ Len(long) - Window + i > Len(long) - n
      BY <2>2, <2>4, <1>1, <1>7
    <3> QED
      BY <3>1, <3>2, <2>3
  <2> QED
    BY <2>3, <2>4, <1>1, <1>3, <1>4, <1>5
<1> QED
  BY <1>1, <1>2, <1>6, <1>7

\* Judging a sample keeps an alert grounded, and changes its status to a
\* decided one only for as many observations as the rule asks for.
LEMMA JudgeKeeps ==
    ASSUME MonitoringAssumption, NEW row \in AlertRows, NEW s \in Samples, NEW hushed \in BOOLEAN,
           NEW o \in Seq(Statuses), Grounded(o, row, s), NEW j, j = Judge(row, s, hushed),
           NEW next, next = (IF s.fresh THEN LastOf(Append(o, j.candidate), Window) ELSE o),
           NEW after, after = [s EXCEPT !.fresh = FALSE]
    PROVE  /\ j \in AlertRows /\ next \in Seq(Statuses) /\ after \in Samples
           /\ Grounded(next, j, after)
           /\ j.status # row.status /\ j.status \in Problems \cup {"ok"} /\ row.status # "disabled" =>
                  Trailing(next, IF j.status = "ok" THEN ClearConsecutive ELSE Consecutive, j.status)
<1> DEFINE c == Candidate(row, s.reading, s.age > StaleAfter)
           k == Streak(row, c, s.fresh)
           st == NextStatus(row, c, k)
           due == Due(row, st, c, hushed)
           needed == IF c = "ok" THEN ClearConsecutive ELSE Consecutive
<1>1. j = [status |-> st, candidate |-> c, consecutive |-> k, unknown |-> c = "unknown",
           muted |-> hushed, notified |-> IF due THEN st ELSE row.notified,
           silent |-> IF due THEN 0 ELSE row.silent]
  BY DEF Judge
<1>2. s.fresh \in BOOLEAN /\ s.reading \in {"ok", "band", "warning", "critical", "none"}
      /\ s.age \in 0..StaleAfter + 1
  BY DEF Samples, MonitoringAssumption
<1>3. row.status \in Statuses /\ row.notified \in Statuses /\ row.silent \in 0..Cooldown
      /\ row.consecutive \in 0..Window /\ row.candidate \in Statuses \cup {""}
  BY DEF AlertRows
<1>4. c \in {"ok", "warning", "critical", "unknown"} /\ c \in Statuses
      /\ (s.reading = "band" => c \in {row.status, "ok", "unknown"})
      /\ (s.reading = "band" /\ row.status \in Problems => c \in {row.status, "unknown"})
  BY <1>2, <1>3 DEF Candidate, Problems, Statuses
<1>5. k \in 0..Window
  <2>1. k \in {row.consecutive, Smaller(Window, row.consecutive + 1), 1}
    BY <1>2 DEF Streak
  <2>2. Smaller(Window, row.consecutive + 1) \in 0..Window /\ 1 \in 0..Window
    <3>1. row.consecutive \in 0..Window /\ Window \in Nat \ {0}
      BY <1>3, WindowNat
    <3> QED
      BY <3>1 DEF Smaller
  <2> QED
    BY <2>1, <2>2, <1>3
<1>6. st \in Statuses /\ (c # "unknown" => st \in {row.status, c})
      /\ (c # "unknown" /\ st # row.status => k >= needed)
      /\ (c = "unknown" => st \in {row.status, "unknown"})
  BY <1>3, <1>4 DEF NextStatus, Statuses, Problems
<1>7. after \in Samples /\ after.reading = s.reading /\ after.age = s.age /\ ~after.fresh
  BY DEF Samples
<1> HIDE DEF c, k, st, due, needed
<1>10. j.status = st /\ j.candidate = c /\ j.consecutive = k
  BY <1>1
<1>8. next \in Seq(Statuses)
      /\ (c # "unknown" => Trailing(next, k, c) \/ (c = "ok" /\ row.status \in {"ok", "disabled"}))
  <2>1. CASE ~s.fresh
    <3>1. next = o /\ k = row.consecutive
      BY <2>1 DEF Streak, k
    <3>2. c # "unknown" => ~(s.age > StaleAfter) /\ c = Candidate(row, s.reading, FALSE)
      <4>1. c # "unknown" => ~(s.age > StaleAfter) /\ s.reading # "none"
        BY DEF Candidate, c
      <4> QED
        BY <4>1 DEF Candidate, c
    <3>3. c # "unknown" => s.age <= StaleAfter
      BY <3>2, <1>2, WindowNat
    <3>4. c # "unknown" => Backed(o, row, c)
      BY <2>1, <3>2, <3>3 DEF Grounded
    <3> QED
      BY <3>1, <3>4 DEF Backed
  <2>2. CASE s.fresh
    <3>1. next = LastOf(Append(o, c), Window) /\ row.consecutive \in 0..Window
      BY <2>2, <1>10, <1>3
    <3>2. CASE c # row.candidate
      <4>1. k = 1
        BY <2>2, <3>2 DEF Streak, k
      <4> QED
        BY <3>1, <4>1, <1>4, Observing
    <3>3. CASE c = row.candidate
      <4>1. k = Smaller(Window, row.consecutive + 1)
        BY <2>2, <3>3 DEF Streak, k
      <4>2. c # "unknown" => Backed(o, row, c)
        BY <3>3, <1>4 DEF Grounded
      <4>3. next \in Seq(Statuses) /\ (Trailing(o, row.consecutive, c) => Trailing(next, k, c))
        BY <3>1, <4>1, <1>4, Observing
      <4> QED
        BY <4>2, <4>3 DEF Backed
    <3> QED
      BY <3>2, <3>3
  <2> QED
    BY <2>1, <2>2, <1>2
<1>9. j \in AlertRows
  <2>1. \E n \in Statuses, q \in 0..Cooldown, u \in BOOLEAN :
            j = [status |-> st, candidate |-> c, consecutive |-> k, unknown |-> u,
                 muted |-> hushed, notified |-> n, silent |-> q]
    <3>1. (c = "unknown") \in BOOLEAN /\ 0 \in 0..Cooldown
      BY WindowNat
    <3>2. CASE due
      BY <3>1, <3>2, <1>1, <1>6
    <3>3. CASE ~due
      BY <3>1, <3>3, <1>1, <1>3
    <3> QED
      BY <3>2, <3>3
  <2>2. c \in Statuses \cup {""} /\ st \in Statuses
    BY <1>4, <1>6
  <2>3. PICK n \in Statuses, q \in 0..Cooldown, u \in BOOLEAN :
            j = [status |-> st, candidate |-> c, consecutive |-> k, unknown |-> u,
                 muted |-> hushed, notified |-> n, silent |-> q]
    BY <2>1
  <2>4. [status |-> st, candidate |-> c, consecutive |-> k, unknown |-> u, muted |-> hushed,
         notified |-> n, silent |-> q] \in AlertRows
    BY <2>2, <1>5, RowTyped
  <2> QED
    BY <2>3, <2>4
<1>11. c # "unknown" => Backed(next, j, c)
  BY <1>6, <1>8, <1>10 DEF Backed
<1>12. after.age <= StaleAfter /\ Candidate(j, s.reading, FALSE) # "unknown" =>
           Candidate(j, s.reading, FALSE) = c
  <2> SUFFICES ASSUME s.age <= StaleAfter, Candidate(j, s.reading, FALSE) # "unknown"
               PROVE  Candidate(j, s.reading, FALSE) = c
    BY <1>7
  <2>1. ~(s.age > StaleAfter) /\ s.reading # "none"
    BY <1>2, WindowNat DEF Candidate
  <2>2. CASE s.reading # "band"
    BY <2>1, <2>2 DEF Candidate, c
  <2>3. CASE s.reading = "band"
    <3>1. c = IF row.status \in Problems THEN row.status ELSE "ok"
      BY <2>1, <2>3 DEF Candidate, c
    <3>2. Candidate(j, s.reading, FALSE) = IF st \in Problems THEN st ELSE "ok"
      BY <2>1, <2>3, <1>10 DEF Candidate
    <3> QED
      BY <3>1, <3>2, <1>6 DEF Problems
  <2> QED
    BY <2>2, <2>3
<1>13. Grounded(next, j, after)
  BY <1>7, <1>10, <1>11, <1>12, <1>4 DEF Grounded
<1>14. ASSUME st # row.status, st \in Problems \cup {"ok"}, row.status # "disabled"
       PROVE  Trailing(next, IF st = "ok" THEN ClearConsecutive ELSE Consecutive, st)
  <2>1. c # "unknown" /\ st = c /\ k >= needed
    BY <1>14, <1>6 DEF Problems
  <2>2. Trailing(next, k, c)
    BY <2>1, <1>8, <1>14
  <2>3. needed \in 0..Window
    BY WindowNat DEF needed
  <2>4. Trailing(next, needed, c)
    BY <2>1, <2>2, <2>3, <1>5, <1>8, WindowNat DEF Trailing
  <2> QED
    BY <2>1, <2>4 DEF needed
<1> QED
  BY <1>7, <1>8, <1>9, <1>10, <1>13, <1>14

\* Whatever leaves the observations alone keeps an alert grounded: no sample
\* in this run, an older sample, or a notification that is due again.
LEMMA RestKeeps ==
    ASSUME MonitoringAssumption, NEW row \in AlertRows, NEW s \in Samples, NEW o \in Seq(Statuses),
           Grounded(o, row, s), NEW r \in AlertRows, NEW t \in Samples,
           r.status = row.status \/ r.status = "disabled",
           r.candidate = row.candidate \/ r.candidate \in {"unknown", "disabled"},
           r.consecutive = row.consecutive,
           t.fresh \/ (t.reading = s.reading /\ t.fresh = s.fresh /\ t.age >= s.age)
    PROVE  Grounded(o, r, t)
<1>1. s.age \in Int /\ t.age \in Int /\ StaleAfter \in Int
  BY WindowNat DEF Samples
<1>2. r.candidate \in {"ok", "warning", "critical"} => Backed(o, r, r.candidate)
  BY DEF Grounded, Backed
<1>3. ASSUME ~t.fresh, t.age <= StaleAfter, Candidate(r, t.reading, FALSE) # "unknown"
      PROVE  Backed(o, r, Candidate(r, t.reading, FALSE))
  <2>1. ~s.fresh /\ s.age <= StaleAfter /\ t.reading = s.reading
    BY <1>3, <1>1
  <2>2. Candidate(row, s.reading, FALSE) # "unknown" => Backed(o, row, Candidate(row, s.reading, FALSE))
    BY <2>1 DEF Grounded
  <2>3. \/ Candidate(r, t.reading, FALSE) = Candidate(row, s.reading, FALSE)
        \/ Candidate(r, t.reading, FALSE) = "ok" /\ r.status = "disabled"
    BY <2>1, <1>3 DEF Candidate, Problems
  <2> QED
    BY <2>2, <2>3, <1>3 DEF Backed
<1> QED
  BY <1>2, <1>3 DEF Grounded

LEMMA TrailingLast ==
    ASSUME NEW o \in Seq(Statuses), NEW k \in Nat \ {0}, NEW c, Trailing(o, k, c)
    PROVE  Len(o) >= k /\ \A i \in DOMAIN LastOf(o, k) : LastOf(o, k)[i] = c
<1>1. Len(o) \in Nat /\ Len(o) >= k /\ \A i \in 1..Len(o) : i > Len(o) - k => o[i] = c
  BY DEF Trailing
<1>2. CASE Len(o) <= k
  <2>1. LastOf(o, k) = o /\ DOMAIN o = 1..Len(o)
    BY <1>2 DEF LastOf
  <2> QED
    BY <2>1, <1>1, <1>2
<1>3. CASE ~(Len(o) <= k)
  <2>1. LastOf(o, k) = SubSeq(o, Len(o) - k + 1, Len(o))
    BY <1>3 DEF LastOf
  <2>2. Len(o) - k + 1 \in 1..Len(o)
    BY <1>1, <1>3
  <2>3. DOMAIN LastOf(o, k) = 1..k
        /\ \A i \in 1..k : LastOf(o, k)[i] = o[Len(o) - k + i]
    BY <2>1, <2>2, <1>1
  <2>4. \A i \in 1..k : Len(o) - k + i \in 1..Len(o) /\ Len(o) - k + i > Len(o) - k
    BY <1>1
  <2> QED
    BY <1>1, <2>3, <2>4
<1> QED
  BY <1>2, <1>3

LEMMA EvidenceShown ==
    ASSUME MonitoringAssumption, observed' \in [Alerts -> Seq(Statuses)],
           \A a \in Alerts :
               LET now  == alert'[a].status
                   need == IF now = "ok" THEN ClearConsecutive ELSE Consecutive
               IN  now # alert[a].status /\ now \in Problems \cup {"ok"}
                       /\ alert[a].status # "disabled"
                   => Trailing(observed'[a], need, now)
    PROVE  StatusFromEvidence
<1> SUFFICES ASSUME NEW a \in Alerts
             PROVE  LET now  == alert'[a].status
                        need == IF now = "ok" THEN ClearConsecutive ELSE Consecutive
                    IN  now # alert[a].status /\ now \in Problems \cup {"ok"}
                            /\ alert[a].status # "disabled"
                        => /\ Len(observed'[a]) >= need
                           /\ \A i \in DOMAIN LastOf(observed'[a], need) :
                                  LastOf(observed'[a], need)[i] = now
  BY Zenon DEF StatusFromEvidence
<1> DEFINE now == alert'[a].status
           need == IF now = "ok" THEN ClearConsecutive ELSE Consecutive
<1> SUFFICES ASSUME now # alert[a].status, now \in Problems \cup {"ok"},
                    alert[a].status # "disabled"
             PROVE  /\ Len(observed'[a]) >= need
                    /\ \A i \in DOMAIN LastOf(observed'[a], need) :
                           LastOf(observed'[a], need)[i] = now
  BY Zenon
<1>1. need \in Nat \ {0}
  BY WindowNat
<1>2. Trailing(observed'[a], need, now)
  OBVIOUS
<1>3. observed'[a] \in Seq(Statuses)
  OBVIOUS
<1> QED
  BY <1>1, <1>2, <1>3, TrailingLast

LEMMA EvaluateKeeps ==
    ASSUME MonitoringAssumption, EvidenceInv, Evaluate PROVE EvidenceInv' /\ StatusFromEvidence
<1>1. PICK gap \in Gaps, new \in [Alerts -> Readings \cup {"same"}],
           visible \in [Alerts -> Visibilities], mutes \in Mutes :
        EvaluateWith(gap, new, visible, mutes)
  BY DEF Evaluate
<1> DEFINE arrived == [a \in Alerts |->
               IF new[a] = "same"
               THEN [sample[a] EXCEPT !.age = Smaller(StaleAfter + 1, @ + gap)]
               ELSE [reading |-> new[a], age |-> 0, fresh |-> TRUE]]
           aged == [a \in Alerts |-> [alert[a] EXCEPT !.silent = Smaller(Cooldown, @ + gap)]]
           judged == [a \in Alerts |->
               IF visible[a] = "seen" THEN Judge(aged[a], arrived[a], a \in mutes)
               ELSE Unmatched(aged[a], visible[a])]
<1>2. /\ alert' = judged
      /\ sample' = [a \in Alerts |->
             IF visible[a] = "seen" THEN [arrived[a] EXCEPT !.fresh = FALSE] ELSE arrived[a]]
      /\ observed' = [a \in Alerts |->
             IF visible[a] = "seen" /\ arrived[a].fresh
             THEN LastOf(Append(observed[a], alert'[a].candidate), Window) ELSE observed[a]]
  BY <1>1, Zenon DEF EvaluateWith
<1>3. ASSUME NEW a \in Alerts
      PROVE  /\ sample'[a] \in Samples /\ alert'[a] \in AlertRows /\ observed'[a] \in Seq(Statuses)
             /\ Grounded(observed'[a], alert'[a], sample'[a])
             /\ LET now  == alert'[a].status
                    need == IF now = "ok" THEN ClearConsecutive ELSE Consecutive
                IN  now # alert[a].status /\ now \in Problems \cup {"ok"}
                        /\ alert[a].status # "disabled"
                    => Trailing(observed'[a], need, now)
  <2>1. sample[a] \in Samples /\ alert[a] \in AlertRows /\ observed[a] \in Seq(Statuses)
        /\ Grounded(observed[a], alert[a], sample[a]) /\ gap \in Nat /\ StaleAfter \in Nat
        /\ Cooldown \in Nat
    BY WindowNat DEF EvidenceInv
  <2>2. /\ arrived[a] \in Samples
        /\ \/ arrived[a].fresh
           \/ /\ arrived[a].reading = sample[a].reading /\ arrived[a].fresh = sample[a].fresh
              /\ arrived[a].age >= sample[a].age
    <3>1. CASE new[a] = "same"
      <4>1. arrived[a] = [sample[a] EXCEPT !.age = Smaller(StaleAfter + 1, @ + gap)]
        BY <3>1
      <4>2. sample[a].age \in 0..StaleAfter + 1
        BY <2>1 DEF Samples
      <4>3. Smaller(StaleAfter + 1, sample[a].age + gap) \in 0..StaleAfter + 1
            /\ Smaller(StaleAfter + 1, sample[a].age + gap) >= sample[a].age
        BY <4>2, <2>1 DEF Smaller
      <4> QED
        BY <4>1, <4>3, <2>1 DEF Samples
    <3>2. CASE new[a] # "same"
      <4>1. arrived[a] = [reading |-> new[a], age |-> 0, fresh |-> TRUE] /\ new[a] \in Readings
        BY <3>2
      <4>2. 0 \in 0..StaleAfter + 1
        BY <2>1
      <4> QED
        BY <4>1, <4>2 DEF Samples
    <3> QED
      BY <3>1, <3>2
  <2>3. aged[a] \in AlertRows /\ aged[a].status = alert[a].status
        /\ aged[a].candidate = alert[a].candidate /\ aged[a].consecutive = alert[a].consecutive
    <3>1. aged[a] = [alert[a] EXCEPT !.silent = Smaller(Cooldown, @ + gap)]
      OBVIOUS
    <3>2. alert[a].silent \in 0..Cooldown
      BY <2>1 DEF AlertRows
    <3>3. Smaller(Cooldown, alert[a].silent + gap) \in 0..Cooldown
      BY <3>2, <2>1 DEF Smaller
    <3> QED
      BY <3>1, <3>3, <2>1 DEF AlertRows
  <2>4. sample'[a] = (IF visible[a] = "seen" THEN [arrived[a] EXCEPT !.fresh = FALSE]
                      ELSE arrived[a])
        /\ alert'[a] = (IF visible[a] = "seen" THEN Judge(aged[a], arrived[a], a \in mutes)
                        ELSE Unmatched(aged[a], visible[a]))
        /\ observed'[a] = (IF visible[a] = "seen" /\ arrived[a].fresh
                           THEN LastOf(Append(observed[a], alert'[a].candidate), Window)
                           ELSE observed[a])
    BY <1>2, Zenon
  <2> HIDE DEF arrived, aged, judged
  <2>5. Grounded(observed[a], aged[a], arrived[a])
    BY <2>1, <2>2, <2>3, RestKeeps
  <2>6. CASE visible[a] = "seen"
    <3>1. (a \in mutes) \in BOOLEAN
      OBVIOUS
    <3>2. alert'[a] = Judge(aged[a], arrived[a], a \in mutes)
          /\ sample'[a] = [arrived[a] EXCEPT !.fresh = FALSE]
          /\ observed'[a] = (IF arrived[a].fresh
                             THEN LastOf(Append(observed[a], alert'[a].candidate), Window)
                             ELSE observed[a])
      BY <2>4, <2>6
    <3>3. /\ alert'[a] \in AlertRows /\ observed'[a] \in Seq(Statuses) /\ sample'[a] \in Samples
          /\ Grounded(observed'[a], alert'[a], sample'[a])
          /\ /\ alert'[a].status # aged[a].status /\ alert'[a].status \in Problems \cup {"ok"}
             /\ aged[a].status # "disabled"
             => Trailing(observed'[a], IF alert'[a].status = "ok" THEN ClearConsecutive
                                       ELSE Consecutive, alert'[a].status)
      <4>1. aged[a] \in AlertRows /\ arrived[a] \in Samples /\ observed[a] \in Seq(Statuses)
        BY <2>1, <2>2, <2>3
      <4>2. PICK hushed \in BOOLEAN : alert'[a] = Judge(aged[a], arrived[a], hushed)
        BY <3>1, <3>2, Zenon
      <4> QED
        BY <3>2, <4>1, <4>2, <2>5, JudgeKeeps
    <3> QED
      BY <3>3, <2>3
  <2>7. CASE visible[a] # "seen"
    <3>1. alert'[a] = Unmatched(aged[a], visible[a]) /\ sample'[a] = arrived[a]
          /\ observed'[a] = observed[a]
      BY <2>4, <2>7
    <3>2. /\ alert'[a] \in AlertRows /\ alert'[a].consecutive = aged[a].consecutive
          /\ alert'[a].status = aged[a].status \/ alert'[a].status = "disabled"
          /\ alert'[a].candidate = aged[a].candidate
             \/ alert'[a].candidate \in {"unknown", "disabled"}
      <4>1. \/ alert'[a] = aged[a]
            \/ alert'[a] = [aged[a] EXCEPT !.status = "disabled", !.candidate = "disabled",
                                           !.unknown = FALSE]
            \/ alert'[a] = [aged[a] EXCEPT !.candidate = "unknown", !.unknown = TRUE]
        BY <3>1 DEF Unmatched
      <4> QED
        BY <4>1, <2>3 DEF AlertRows, Statuses
    <3>3. Grounded(observed[a], alert'[a], arrived[a])
      BY <3>2, <2>1, <2>2, <2>3, <2>5, RestKeeps
    <3> QED
      BY <3>1, <3>2, <3>3, <2>1, <2>2, <2>3 DEF Problems
  <2> QED
    BY <2>6, <2>7
<1>4. EvidenceInv'
  BY <1>2, <1>3 DEF EvidenceInv
<1>5. StatusFromEvidence
  <2>1. observed' \in [Alerts -> Seq(Statuses)]
    BY <1>4 DEF EvidenceInv
  <2> QED
    BY <2>1, <1>3, EvidenceShown
<1> QED
  BY <1>4, <1>5

LEMMA EvidenceNext ==
    ASSUME MonitoringAssumption, EvidenceInv, [MonitorNext]_mvars
    PROVE  EvidenceInv' /\ StatusFromEvidence
<1>1. CASE Evaluate
  BY <1>1, EvaluateKeeps
<1>2. CASE UNCHANGED <<sample, alert, observed>>
  BY <1>2 DEF EvidenceInv, StatusFromEvidence
<1>3. ASSUME NEW ch \in Channels, QueueFull(ch) PROVE EvidenceInv' /\ StatusFromEvidence
  <2>1. UNCHANGED <<sample, observed>> /\ alert' = Forgotten
    BY <1>3 DEF QueueFull
  <2>2. ASSUME NEW a \in Alerts
        PROVE  /\ alert'[a] \in AlertRows /\ alert'[a].status = alert[a].status
               /\ alert'[a].candidate = alert[a].candidate
               /\ alert'[a].consecutive = alert[a].consecutive
    <3>1. alert'[a] = alert[a]
          \/ alert'[a] = [alert[a] EXCEPT !.notified = "unknown", !.silent = Cooldown]
      BY <2>1 DEF Forgotten
    <3>2. alert[a] \in AlertRows /\ Cooldown \in 0..Cooldown
      BY WindowNat DEF EvidenceInv
    <3> QED
      BY <3>1, <3>2 DEF AlertRows, Statuses
  <2>3. alert' \in [Alerts -> AlertRows]
    <3>1. alert' = [a \in Alerts |-> alert'[a]]
      BY <2>1 DEF Forgotten
    <3> QED
      BY <3>1, <2>2
  <2>4. \A a \in Alerts : Grounded(observed'[a], alert'[a], sample'[a])
    BY <2>1, <2>2 DEF EvidenceInv, Grounded, Backed, Candidate
  <2> QED
    BY <2>1, <2>2, <2>3, <2>4 DEF EvidenceInv, StatusFromEvidence
<1> QED
  BY <1>1, <1>2, <1>3 DEF MonitorNext, MonitorStep, SendRow, SendFails, EndDrain,
     NothingToQueue, Enqueue, EndQueue, EndRun, MonitorDies, mvars

-----------------------------------------------------------------------------
(* Its outbox *)

\* A row of the outbox that is marked, put off or made due stays the message it is.
LEMMA Rewritten ==
    ASSUME NEW box, BoxInv(box), NEW next \in Seq(OutboxRows), Len(next) = Len(box),
           \A i \in 1..Len(box) : /\ next[i].channel = box[i].channel
                                  /\ next[i].kind = box[i].kind /\ next[i].about = box[i].about
    PROVE  BoxInv(next) /\ \A ch, e : InBox(next, ch, e) <=> InBox(box, ch, e)
<1>1. box \in Seq(OutboxRows) /\ DOMAIN box = 1..Len(box) /\ DOMAIN next = 1..Len(box)
  BY DEF BoxInv
<1>2. \A ch : QueueOf(next, ch) = QueueOf(box, ch)
  BY <1>1 DEF QueueOf
<1>3. \A ch, e : InBox(next, ch, e) <=> InBox(box, ch, e)
  BY <1>1 DEF InBox
<1>4. \A i \in 1..Len(next) : next[i].kind \in {"heartbeat", "digest"} =>
          /\ next[i].about = {}
          /\ \A j \in 1..Len(next) :
                 next[j].kind = next[i].kind /\ next[j].channel = next[i].channel => i = j
  BY <1>1 DEF BoxInv
<1> QED
  BY <1>2, <1>3, <1>4 DEF BoxInv

LEMMA PickedRewrites ==
    ASSUME NEW box \in Seq(OutboxRows)
    PROVE  /\ Picked(box) \in Seq(OutboxRows) /\ Len(Picked(box)) = Len(box)
           /\ \A i \in 1..Len(box) : /\ Picked(box)[i].channel = box[i].channel
                                     /\ Picked(box)[i].kind = box[i].kind
                                     /\ Picked(box)[i].about = box[i].about
<1>1. \A i \in 1..Len(box) : box[i] \in OutboxRows
  OBVIOUS
<1>2. ASSUME NEW i \in 1..Len(box)
      PROVE  \E b \in BOOLEAN : Picked(box)[i] = [box[i] EXCEPT !.picked = b]
  <2> DEFINE b == i \in Ripe(box) /\ Cardinality({j \in Ripe(box) : j < i}) < Batch
  <2>1. b \in BOOLEAN
    OBVIOUS
  <2>2. Picked(box)[i] = [box[i] EXCEPT !.picked = b]
    BY DEF Picked
  <2> QED
    BY <2>1, <2>2, Zenon
<1>3. \A i \in 1..Len(box) : /\ Picked(box)[i] \in OutboxRows
                             /\ Picked(box)[i].channel = box[i].channel
                             /\ Picked(box)[i].kind = box[i].kind
                             /\ Picked(box)[i].about = box[i].about
  <2> TAKE i \in 1..Len(box)
  <2>1. PICK b \in BOOLEAN : Picked(box)[i] = [box[i] EXCEPT !.picked = b]
    BY <1>2
  <2>2. box[i] \in OutboxRows
    BY <1>1
  <2> QED
    BY <2>1, <2>2 DEF OutboxRows
<1>4. Picked(box) = [i \in 1..Len(box) |-> Picked(box)[i]]
  BY DEF Picked
<1> QED
  BY <1>3, <1>4

LEMMA OlderRewrites ==
    ASSUME NEW box \in Seq(OutboxRows), NEW gap \in Nat
    PROVE  /\ Older(box, gap) \in Seq(OutboxRows) /\ Len(Older(box, gap)) = Len(box)
           /\ \A i \in 1..Len(box) : /\ Older(box, gap)[i].channel = box[i].channel
                                     /\ Older(box, gap)[i].kind = box[i].kind
                                     /\ Older(box, gap)[i].about = box[i].about
<1>1. \A i \in 1..Len(box) : box[i] \in OutboxRows
  OBVIOUS
<1>2. ASSUME NEW i \in 1..Len(box)
      PROVE  \E w \in Int : Older(box, gap)[i] = [box[i] EXCEPT !.wait = w]
  <2>1. box[i].wait \in Int
    BY <1>1 DEF OutboxRows
  <2>2. Larger(0, box[i].wait - gap) \in Int
    BY <2>1 DEF Larger
  <2> QED
    BY <2>2 DEF Older
<1>3. \A i \in 1..Len(box) : /\ Older(box, gap)[i] \in OutboxRows
                             /\ Older(box, gap)[i].channel = box[i].channel
                             /\ Older(box, gap)[i].kind = box[i].kind
                             /\ Older(box, gap)[i].about = box[i].about
  BY <1>1, <1>2 DEF OutboxRows
<1>4. Older(box, gap) = [i \in 1..Len(box) |-> Older(box, gap)[i]]
  BY DEF Older
<1> QED
  BY <1>3, <1>4

LEMMA QueueFinite ==
    ASSUME NEW box \in Seq(OutboxRows), NEW ch
    PROVE  IsFiniteSet(QueueOf(box, ch)) /\ Cardinality(QueueOf(box, ch)) \in Nat
           /\ QueueOf(box, ch) \subseteq 1..Len(box)
<1>1. QueueOf(box, ch) \subseteq 1..Len(box)
  BY DEF QueueOf
<1>2. IsFiniteSet(1..Len(box))
  <2>1. Len(box) \in Nat
    OBVIOUS
  <2> QED
    BY <2>1, FS_Interval
<1>3. IsFiniteSet(QueueOf(box, ch))
  BY <1>1, <1>2, FS_Subset
<1> QED
  BY <1>1, <1>3, FS_CardinalityType

\* A message that is taken out leaves the others as they were, in their order.
Less(box, i) == [j \in 1..Len(box) - 1 |-> box[IF j < i THEN j ELSE j + 1]]
Was(i, j) == IF j < i THEN j ELSE j + 1

LEMMA TakenOut ==
    ASSUME NEW box, BoxInv(box), NEW i \in 1..Len(box), Limit \in Nat,
           NEW next, next = Less(box, i)
    PROVE  /\ BoxInv(next)
           /\ \A j \in 1..Len(next) : \E k \in 1..Len(box) : k # i /\ next[j] = box[k]
           /\ \A ch, e : InBox(box, ch, e) =>
                  InBox(next, ch, e) \/ (ch = box[i].channel /\ e \in box[i].about)
           /\ \A ch : Cardinality(QueueOf(next, ch)) <= Cardinality(QueueOf(box, ch) \ {i})
<1>1. box \in Seq(OutboxRows) /\ Len(box) \in Nat /\ DOMAIN box = 1..Len(box)
  BY DEF BoxInv
<1>2. /\ next \in Seq(OutboxRows) /\ Len(next) = Len(box) - 1 /\ DOMAIN next = 1..Len(box) - 1
      /\ \A j \in 1..Len(box) - 1 : next[j] = box[Was(i, j)]
  <2>1. i \in Nat /\ i >= 1 /\ i <= Len(box)
    BY <1>1
  <2>2. next = [j \in 1..Len(box) - 1 |-> box[Was(i, j)]]
    BY DEF Was, Less
  <2>3. \A j \in 1..Len(box) - 1 : Was(i, j) \in 1..Len(box)
    BY <1>1, <2>1 DEF Was
  <2>4. Len(box) - 1 \in Nat
    BY <1>1, <2>1
  <2> QED
    BY <1>1, <2>2, <2>3, <2>4
<1>3. \A j, k \in 1..Len(box) - 1 :
          Was(i, j) \in 1..Len(box) /\ Was(i, j) # i /\ (Was(i, j) = Was(i, k) => j = k)
  BY <1>1 DEF Was
<1>4. \A k \in 1..Len(box) : k # i => \E j \in 1..Len(box) - 1 : Was(i, j) = k
  <2> TAKE k \in 1..Len(box)
  <2>1. CASE k < i
    <3>1. k \in 1..Len(box) - 1 /\ Was(i, k) = k
      BY <2>1, <1>1 DEF Was
    <3> QED
      BY <3>1
  <2>2. CASE k > i
    <3>1. k - 1 \in 1..Len(box) - 1 /\ Was(i, k - 1) = k
      BY <2>2, <1>1 DEF Was
    <3> QED
      BY <3>1
  <2> QED
    BY <2>1, <2>2
<1>5. ASSUME NEW ch
      PROVE  Cardinality(QueueOf(next, ch)) <= Cardinality(QueueOf(box, ch) \ {i})
  <2> DEFINE f == [j \in QueueOf(next, ch) |-> Was(i, j)]
  <2>1. f \in Injection(QueueOf(next, ch), QueueOf(box, ch) \ {i})
    BY <1>1, <1>2, <1>3 DEF QueueOf, Injection, IsInjective
  <2>2. IsFiniteSet(QueueOf(box, ch) \ {i})
    BY <1>1, QueueFinite, FS_RemoveElement
  <2> QED
    BY <2>1, <2>2, FS_Injection
<1>6. \A ch : Cardinality(QueueOf(next, ch)) <= Cardinality(QueueOf(box, ch))
  <2> TAKE ch
  <2>1. IsFiniteSet(QueueOf(box, ch)) /\ Cardinality(QueueOf(box, ch)) \in Nat
    BY <1>1, QueueFinite
  <2>2. Cardinality(QueueOf(box, ch) \ {i}) <= Cardinality(QueueOf(box, ch))
    <3>1. Cardinality(QueueOf(box, ch) \ {i}) =
             IF i \in QueueOf(box, ch) THEN Cardinality(QueueOf(box, ch)) - 1
             ELSE Cardinality(QueueOf(box, ch))
      BY <2>1, FS_RemoveElement
    <3> QED
      BY <2>1, <3>1
  <2>3. Cardinality(QueueOf(next, ch)) \in Nat /\ Cardinality(QueueOf(box, ch) \ {i}) \in Nat
    BY <1>2, <2>1, QueueFinite, FS_RemoveElement, FS_CardinalityType
  <2> QED
    BY <1>5, <2>1, <2>2, <2>3
<1>7. \A ch \in Channels : Cardinality(QueueOf(next, ch)) <= Limit
  <2> TAKE ch \in Channels
  <2>1. Cardinality(QueueOf(box, ch)) <= Limit /\ Cardinality(QueueOf(box, ch)) \in Nat
        /\ Cardinality(QueueOf(next, ch)) \in Nat
    BY <1>1, <1>2, QueueFinite DEF BoxInv
  <2> QED
    BY <2>1, <1>6
<1>8. \A j \in 1..Len(next) : next[j].kind \in {"heartbeat", "digest"} =>
          /\ next[j].about = {}
          /\ \A k \in 1..Len(next) :
                 next[k].kind = next[j].kind /\ next[k].channel = next[j].channel => j = k
  <2> SUFFICES ASSUME NEW j \in 1..Len(next), next[j].kind \in {"heartbeat", "digest"}
               PROVE  /\ next[j].about = {}
                      /\ \A k \in 1..Len(next) :
                             next[k].kind = next[j].kind /\ next[k].channel = next[j].channel
                                 => j = k
    OBVIOUS
  <2>1. next[j] = box[Was(i, j)] /\ Was(i, j) \in 1..Len(box)
        /\ box[Was(i, j)].kind \in {"heartbeat", "digest"}
    BY <1>2, <1>3
  <2>2. \A k \in 1..Len(next) : /\ next[k] = box[Was(i, k)] /\ Was(i, k) \in 1..Len(box)
                                /\ Was(i, j) = Was(i, k) => j = k
    BY <1>2, <1>3
  <2>3. /\ box[Was(i, j)].about = {}
        /\ \A k \in 1..Len(box) :
               box[k].kind = box[Was(i, j)].kind /\ box[k].channel = box[Was(i, j)].channel
                   => Was(i, j) = k
    BY <2>1 DEF BoxInv
  <2> QED
    BY <2>1, <2>2, <2>3
<1>9. \A ch, e : InBox(box, ch, e) =>
          InBox(next, ch, e) \/ (ch = box[i].channel /\ e \in box[i].about)
  <2> TAKE ch, e
  <2> SUFFICES ASSUME NEW k \in 1..Len(box), k # i, box[k].channel = ch, e \in box[k].about
               PROVE  InBox(next, ch, e)
    BY <1>1 DEF InBox
  <2>1. PICK j \in 1..Len(box) - 1 : Was(i, j) = k
    BY <1>4
  <2> QED
    BY <2>1, <1>2 DEF InBox
<1>10. \A j \in 1..Len(next) : \E k \in 1..Len(box) : k # i /\ next[j] = box[k]
  BY <1>2, <1>3
<1>11. BoxInv(next)
  BY <1>2, <1>7, <1>8 DEF BoxInv
<1> QED
  BY <1>5, <1>9, <1>10, <1>11

\* A message joins a queue that has room and no snapshot it supersedes.
LEMMA PutIn ==
    ASSUME NEW box, BoxInv(box), NEW row \in OutboxRows, Limit \in Nat,
           Cardinality(QueueOf(box, row.channel)) < Limit,
           row.kind \in {"heartbeat", "digest"} =>
               /\ row.about = {}
               /\ \A j \in 1..Len(box) : ~(box[j].kind = row.kind /\ box[j].channel = row.channel)
    PROVE  /\ BoxInv(Append(box, row))
           /\ \A ch, e : InBox(box, ch, e) => InBox(Append(box, row), ch, e)
           /\ \A e \in row.about : InBox(Append(box, row), row.channel, e)
<1> DEFINE next == Append(box, row)
<1>1. box \in Seq(OutboxRows) /\ Len(box) \in Nat /\ DOMAIN box = 1..Len(box)
  BY DEF BoxInv
<1>2. /\ next \in Seq(OutboxRows) /\ Len(next) = Len(box) + 1 /\ DOMAIN next = 1..Len(box) + 1
      /\ next[Len(box) + 1] = row /\ \A j \in 1..Len(box) : next[j] = box[j]
  BY <1>1
<1>3. \A j \in 1..Len(box) + 1 : j \in 1..Len(box) \/ j = Len(box) + 1
  BY <1>1
<1>4. \A j \in 1..Len(box) : j \in 1..Len(box) + 1 /\ j # Len(box) + 1
  BY <1>1
<1>5. Len(box) + 1 \in 1..Len(box) + 1 /\ Len(box) + 1 \notin 1..Len(box)
  BY <1>1
<1> HIDE DEF next
<1>6. \A ch : ch # row.channel => QueueOf(next, ch) = QueueOf(box, ch)
  BY <1>1, <1>2, <1>3, <1>4 DEF QueueOf
<1>7. QueueOf(next, row.channel) = QueueOf(box, row.channel) \cup {Len(box) + 1}
  BY <1>1, <1>2, <1>3, <1>4, <1>5 DEF QueueOf
<1>8. Cardinality(QueueOf(next, row.channel)) <= Limit
  <2>1. IsFiniteSet(QueueOf(box, row.channel)) /\ Cardinality(QueueOf(box, row.channel)) \in Nat
    BY <1>1, QueueFinite
  <2>2. Cardinality(QueueOf(next, row.channel)) = Cardinality(QueueOf(box, row.channel)) + 1
    <3>1. Len(box) + 1 \notin QueueOf(box, row.channel)
      BY <1>1, <1>5 DEF QueueOf
    <3> QED
      BY <1>7, <2>1, <3>1, FS_AddElement
  <2> QED
    BY <2>1, <2>2
<1>9. \A ch \in Channels : Cardinality(QueueOf(next, ch)) <= Limit
  BY <1>6, <1>8 DEF BoxInv
<1>10. \A i \in 1..Len(next) : next[i].kind \in {"heartbeat", "digest"} =>
          /\ next[i].about = {}
          /\ \A j \in 1..Len(next) :
                 next[j].kind = next[i].kind /\ next[j].channel = next[i].channel => i = j
  BY <1>2, <1>3 DEF BoxInv
<1>11. \A ch, e : InBox(box, ch, e) => InBox(next, ch, e)
  BY <1>1, <1>2, <1>4 DEF InBox
<1>12. \A e \in row.about : InBox(next, row.channel, e)
  BY <1>2, <1>5 DEF InBox
<1> QED
  BY <1>2, <1>9, <1>10, <1>11, <1>12 DEF BoxInv, next

\* Where a message is picked, the drain takes the first of them.
LEMMA FirstIsPicked ==
    ASSUME NEW i \in DOMAIN outbox, outbox[i].picked, outbox \in Seq(OutboxRows)
    PROVE  FirstPicked \in 1..Len(outbox) /\ outbox[FirstPicked] \in OutboxRows
<1> DEFINE P == {j \in DOMAIN outbox : outbox[j].picked}
<1>1. P \subseteq Nat /\ P # {} /\ DOMAIN outbox = 1..Len(outbox)
  OBVIOUS
<1>2. PICK a \in P : \A b \in P : ~ (<<b, a>> \in OpToRel(<, Nat))
  <2> HIDE DEF P
  <2> QED
    BY <1>1, NatLessThanWellFounded, WFMin, Zenon
<1>3. \A b \in P : ~ (b < a)
  BY <1>1, <1>2 DEF OpToRel
<1>4. \A b \in DOMAIN outbox : outbox[b].picked => a <= b
  BY <1>1, <1>3
<1>5. FirstPicked \in DOMAIN outbox
  BY <1>2, <1>4 DEF FirstPicked
<1> QED
  BY <1>1, <1>5

\* The snapshot that is superseded was the only one, and reported nothing.
LEMMA WithoutOldKeeps ==
    ASSUME BoxInv(outbox), Limit \in Nat, NEW ch \in Channels,
           NEW kind \in {"heartbeat", "digest", "event"}
    PROVE  /\ BoxInv(WithoutOld(ch, kind))
           /\ \A c, e : InBox(outbox, c, e) => InBox(WithoutOld(ch, kind), c, e)
           /\ Cardinality(QueueOf(WithoutOld(ch, kind), ch))
                  <= Cardinality(Pending(ch) \ Old(ch, kind))
           /\ kind \in {"heartbeat", "digest"} =>
                  \A j \in 1..Len(WithoutOld(ch, kind)) :
                      ~(WithoutOld(ch, kind)[j].kind = kind
                        /\ WithoutOld(ch, kind)[j].channel = ch)
<1>1. outbox \in Seq(OutboxRows) /\ DOMAIN outbox = 1..Len(outbox)
      /\ Pending(ch) = QueueOf(outbox, ch)
  BY DEF BoxInv, Pending, QueueOf
<1>2. CASE Old(ch, kind) = {}
  <2>1. WithoutOld(ch, kind) = outbox /\ Pending(ch) \ Old(ch, kind) = QueueOf(outbox, ch)
    BY <1>1, <1>2 DEF WithoutOld
  <2>2. Cardinality(QueueOf(outbox, ch)) \in Nat
    BY <1>1, QueueFinite
  <2>3. kind \in {"heartbeat", "digest"} =>
            \A j \in 1..Len(outbox) : ~(outbox[j].kind = kind /\ outbox[j].channel = ch)
    BY <1>1, <1>2 DEF Old, Pending
  <2>4. Cardinality(QueueOf(outbox, ch)) <= Cardinality(QueueOf(outbox, ch))
    BY <2>2
  <2> QED
    BY <2>1, <2>3, <2>4, Zenon
<1>3. CASE Old(ch, kind) # {}
  <2>1. PICK i \in Old(ch, kind) : WithoutOld(ch, kind) = Without(i)
    BY <1>3 DEF WithoutOld
  <2>2. /\ i \in 1..Len(outbox) /\ outbox[i].channel = ch /\ outbox[i].kind = kind
        /\ kind \in {"heartbeat", "digest"}
    BY <1>1, <2>1 DEF Old, Pending
  <2>3. /\ outbox[i].about = {}
        /\ \A j \in 1..Len(outbox) : outbox[j].kind = kind /\ outbox[j].channel = ch => i = j
    BY <2>2 DEF BoxInv
  <2>4. Old(ch, kind) = {i}
    BY <1>1, <2>1, <2>2, <2>3 DEF Old, Pending
  <2> DEFINE next == Without(i)
  <2>5. /\ BoxInv(next)
        /\ \A j \in 1..Len(next) : \E k \in 1..Len(outbox) : k # i /\ next[j] = outbox[k]
        /\ \A c, e : InBox(outbox, c, e) =>
               InBox(next, c, e) \/ (c = outbox[i].channel /\ e \in outbox[i].about)
        /\ \A c : Cardinality(QueueOf(next, c)) <= Cardinality(QueueOf(outbox, c) \ {i})
    <3>1. next = Less(outbox, i)
      BY DEF Without, Less
    <3>2. BoxInv(outbox) /\ i \in 1..Len(outbox) /\ Limit \in Nat
      BY <2>2
    <3> HIDE DEF next
    <3>3. BoxInv(next)
      BY <3>1, <3>2, TakenOut
    <3>4. \A j \in 1..Len(next) : \E k \in 1..Len(outbox) : k # i /\ next[j] = outbox[k]
      BY <3>1, <3>2, TakenOut
    <3>5. \A c, e : InBox(outbox, c, e) =>
               InBox(next, c, e) \/ (c = outbox[i].channel /\ e \in outbox[i].about)
      BY <3>1, <3>2, TakenOut
    <3>6. \A c : Cardinality(QueueOf(next, c)) <= Cardinality(QueueOf(outbox, c) \ {i})
      BY <3>1, <3>2, TakenOut
    <3> QED
      BY <3>3, <3>4, <3>5, <3>6
  <2> HIDE DEF next
  <2>6. \A j \in 1..Len(next) : ~(next[j].kind = kind /\ next[j].channel = ch)
    BY <2>3, <2>5
  <2>7. WithoutOld(ch, kind) = next
    BY <2>1 DEF next
  <2> QED
    BY <1>1, <2>3, <2>4, <2>5, <2>6, <2>7
<1> QED
  BY <1>2, <1>3

\* A delivery only ever pays what is owed.
LEMMA DeliveryPays ==
    ASSUME OutboxInv, NEW row \in OutboxRows, Deliver(row)
    PROVE  /\ told' \in [Channels -> [Alerts -> Statuses]]
           /\ owed' = [owed EXCEPT ![row.channel] = @ \ row.about]
           /\ owed' \in [Channels -> SUBSET Notices]
           /\ \A c \in Channels : owed'[c] \subseteq owed[c]
           /\ owed'[row.channel] \cap row.about = {}
<1>1. owed \in [Channels -> SUBSET Notices] /\ told \in [Channels -> [Alerts -> Statuses]]
      /\ row.channel \in Channels /\ row.about \subseteq Notices
  BY DEF OutboxInv, OutboxRows
<1>2. owed' = [owed EXCEPT ![row.channel] = @ \ row.about]
  BY DEF Deliver
<1>3. told' \in [Channels -> [Alerts -> Statuses]]
  <2> DEFINE heard == [a \in Alerts |-> IF \E e \in row.about : e.alert = a
                          THEN (CHOOSE e \in row.about : e.alert = a).status
                          ELSE told[row.channel][a]]
  <2>1. told' = [told EXCEPT ![row.channel] = heard]
    BY <1>1 DEF Deliver
  <2>2. ASSUME NEW a \in Alerts PROVE heard[a] \in Statuses
    <3>1. CASE \E e \in row.about : e.alert = a
      <4>1. (CHOOSE e \in row.about : e.alert = a) \in Notices
        BY <3>1, <1>1
      <4> QED
        BY <3>1, <4>1 DEF Notices
    <3>2. CASE ~\E e \in row.about : e.alert = a
      BY <3>2, <1>1
    <3> QED
      BY <3>1, <3>2
  <2>3. heard \in [Alerts -> Statuses]
    BY <2>2
  <2> HIDE DEF heard
  <2> QED
    BY <1>1, <2>1, <2>3
<1> QED
  BY <1>1, <1>2, <1>3

LEMMA Limits ==
    ASSUME MonitoringAssumption
    PROVE  /\ Limit \in Nat /\ MaxExponent \in Nat /\ MaxDelay \in Nat /\ DigestInterval \in Nat
           /\ \A n \in Nat : Smaller(MaxExponent, n + 1) \in Nat /\ Delay(n) \in Int
<1>1. Limit \in Nat /\ MaxExponent \in Nat /\ MaxDelay \in Nat /\ DigestInterval \in Nat
  BY DEF MonitoringAssumption
<1>2. ASSUME NEW n \in Nat
      PROVE  Smaller(MaxExponent, n + 1) \in Nat /\ Smaller(n, MaxExponent) \in Nat
  BY <1>1 DEF Smaller
<1>3. ASSUME NEW n \in Nat PROVE Delay(n) \in Int
  <2>1. 2 ^ Smaller(n, MaxExponent) \in Int
    BY <1>2
  <2> QED
    BY <1>1, <2>1 DEF Delay, Smaller
<1> QED
  BY <1>1, <1>2, <1>3

LEMMA MonitorStarts == ASSUME MonitoringAssumption, MonitorInit PROVE MonitorInv
<1>1. BoxInv(outbox)
  <2>1. outbox = <<>> /\ \A ch : QueueOf(outbox, ch) = {}
    BY DEF MonitorInit, QueueOf
  <2>2. \A ch : Cardinality(QueueOf(outbox, ch)) = 0
    BY <2>1, FS_EmptySet
  <2> QED
    BY <2>1, <2>2, Limits DEF BoxInv
<1>2. OutboxInv
  <2>1. digestAge \in [Channels -> 0..DigestInterval]
    BY Limits DEF MonitorInit
  <2> QED
    BY <1>1, <2>1 DEF MonitorInit, OutboxInv, DebtsKnown, Statuses
<1>3. EvidenceInv
  <2>1. StaleAfter \in Nat /\ Window \in Nat /\ Cooldown \in Nat
    BY WindowNat
  <2>2. NoAlert \in AlertRows
    <3>1. 0 \in 0..Window /\ Cooldown \in 0..Cooldown
      BY <2>1
    <3> QED
      BY <3>1 DEF NoAlert, AlertRows, Statuses
  <2>3. [reading |-> "ok", age |-> 0, fresh |-> TRUE] \in Samples
    BY <2>1 DEF Samples
  <2>4. sample \in [Alerts -> Samples] /\ alert \in [Alerts -> AlertRows]
        /\ observed \in [Alerts -> Seq(Statuses)]
    BY <2>2, <2>3 DEF MonitorInit
  <2>5. \A a \in Alerts : alert[a].candidate = "" /\ sample[a].fresh
    BY DEF MonitorInit, NoAlert
  <2> QED
    BY <2>4, <2>5 DEF EvidenceInv, Grounded
<1> QED
  BY <1>2, <1>3 DEF MonitorInv

\* A run decides what it owes, and is about to queue it.
LEMMA EvaluateOwes == ASSUME MonitoringAssumption, MonitorInv, EvidenceInv', Evaluate PROVE OutboxInv'
<1>1. PICK gap \in Gaps, new \in [Alerts -> Readings \cup {"same"}],
           visible \in [Alerts -> Visibilities], mutes \in Mutes :
        EvaluateWith(gap, new, visible, mutes)
  BY DEF Evaluate
<1>2. gap \in Nat /\ DigestInterval \in Nat
  BY WindowNat
<1>3. \A e \in events' : \E a \in Alerts : e = [alert |-> a, status |-> alert'[a].status]
  BY <1>1, Zenon DEF EvaluateWith
<1>4. /\ owed' = [ch \in Channels |-> owed[ch] \cup {e \in events' : Routed(ch, e.status)}]
      /\ interrupted' = [ch \in Channels |-> interrupted[ch] \ events']
      /\ outbox' = Picked(Older(outbox, gap))
      /\ digestAge' = [ch \in Channels |-> Smaller(DigestInterval, digestAge[ch] + gap)]
  BY <1>1, Zenon DEF EvaluateWith
<1>5. events' \subseteq Notices
  <2>1. \A a \in Alerts : alert'[a].status \in Statuses
    BY DEF EvidenceInv, AlertRows
  <2> QED
    BY <1>3, <2>1 DEF Notices
<1>6. BoxInv(outbox') /\ \A ch, e : InBox(outbox', ch, e) <=> InBox(outbox, ch, e)
  <2> DEFINE older == Older(outbox, gap)
  <2>1. BoxInv(outbox) /\ outbox \in Seq(OutboxRows)
    BY DEF MonitorInv, OutboxInv, BoxInv
  <2>2. BoxInv(older) /\ \A ch, e : InBox(older, ch, e) <=> InBox(outbox, ch, e)
    BY <1>2, <2>1, OlderRewrites, Rewritten
  <2>3. older \in Seq(OutboxRows)
    BY <2>2 DEF BoxInv
  <2> HIDE DEF older
  <2>4. BoxInv(Picked(older)) /\ \A ch, e : InBox(Picked(older), ch, e) <=> InBox(older, ch, e)
    BY <2>2, <2>3, PickedRewrites, Rewritten
  <2> QED
    BY <1>4, <2>2, <2>4 DEF older
<1>7. digestAge' \in [Channels -> 0..DigestInterval]
  <2>1. ASSUME NEW ch \in Channels PROVE Smaller(DigestInterval, digestAge[ch] + gap) \in 0..DigestInterval
    <3>1. digestAge[ch] \in 0..DigestInterval
      BY DEF MonitorInv, OutboxInv
    <3> QED
      BY <3>1, <1>2 DEF Smaller
  <2> QED
    BY <1>4, <2>1
<1>8. owed' \in [Channels -> SUBSET Notices] /\ interrupted' \in [Channels -> SUBSET Notices]
  BY <1>4, <1>5 DEF MonitorInv, OutboxInv
<1>9. pc = "idle" /\ pc' = "drain" /\ todo' = Channels /\ told' = told
  BY DEF Evaluate
<1>10. DebtsKnown'
  <2> SUFFICES ASSUME NEW ch \in Channels, NEW e \in owed'[ch]
               PROVE  /\ Routed(ch, e.status)
                      /\ \/ InBox(outbox', ch, e) \/ e \in interrupted'[ch]
                         \/ e \in events'
    BY <1>9 DEF DebtsKnown, Routed
  <2>1. e \in owed[ch] \/ (e \in events' /\ Routed(ch, e.status))
    BY <1>4
  <2>2. e \in owed[ch] => Routed(ch, e.status) /\ (InBox(outbox, ch, e) \/ e \in interrupted[ch])
    BY <1>9 DEF MonitorInv, OutboxInv, DebtsKnown
  <2> QED
    BY <1>4, <1>6, <2>1, <2>2
<1> QED
  BY <1>5, <1>6, <1>7, <1>8, <1>9, <1>10 DEF MonitorInv, OutboxInv

LEMMA SendKeeps == ASSUME MonitoringAssumption, OutboxInv, SendRow \/ SendFails PROVE OutboxInv'
<1> DEFINE row == outbox[FirstPicked]
<1>1. outbox \in Seq(OutboxRows) /\ BoxInv(outbox) /\ Limit \in Nat
  BY Limits DEF OutboxInv, BoxInv
<1>2. FirstPicked \in 1..Len(outbox) /\ row \in OutboxRows
  BY <1>1, FirstIsPicked DEF SendRow, SendFails, Draining
<1>3. pc \in {"drain", "last"} /\ UNCHANGED <<digestAge, pc, todo, events, interrupted>>
  BY DEF SendRow, SendFails, Draining
<1>4. ASSUME SendRow PROVE OutboxInv'
  <2>1. Deliver(row) /\ outbox' = Without(FirstPicked)
    BY <1>4 DEF SendRow
  <2>2. outbox' = Less(outbox, FirstPicked)
    BY <2>1 DEF Without, Less
  <2>3. BoxInv(outbox')
    BY <1>1, <1>2, <2>2, TakenOut
  <2>4. \A c, e : InBox(outbox, c, e) => InBox(outbox', c, e) \/ (c = row.channel /\ e \in row.about)
    BY <1>1, <1>2, <2>2, TakenOut
  <2>5. /\ told' \in [Channels -> [Alerts -> Statuses]]
        /\ owed' \in [Channels -> SUBSET Notices]
        /\ \A c \in Channels : owed'[c] \subseteq owed[c]
        /\ owed'[row.channel] \cap row.about = {}
    BY <1>2, <2>1, DeliveryPays
  <2> HIDE DEF row
  <2>6. DebtsKnown'
    BY <1>3, <2>4, <2>5 DEF OutboxInv, DebtsKnown, Routed
  <2> QED
    BY <1>3, <2>3, <2>5, <2>6 DEF OutboxInv
<1>5. ASSUME SendFails PROVE OutboxInv'
  <2>1. /\ outbox' = [outbox EXCEPT ![FirstPicked] =
               [row EXCEPT !.attempts = Smaller(MaxExponent, @ + 1),
                           !.wait = Delay(row.attempts), !.picked = FALSE]]
        /\ Deliver(row) \/ UNCHANGED <<told, owed>>
    BY <1>5 DEF SendFails
  <2>2. BoxInv(outbox') /\ \A c, e : InBox(outbox', c, e) <=> InBox(outbox, c, e)
    <3> DEFINE again == [row EXCEPT !.attempts = Smaller(MaxExponent, @ + 1),
                                    !.wait = Delay(row.attempts), !.picked = FALSE]
    <3>1. row.attempts \in Nat
      BY <1>2 DEF OutboxRows
    <3>2. Smaller(MaxExponent, row.attempts + 1) \in Nat /\ Delay(row.attempts) \in Int
      BY <3>1, Limits
    <3>3. again \in OutboxRows /\ again.channel = row.channel /\ again.kind = row.kind
          /\ again.about = row.about
      BY <1>2, <3>2 DEF OutboxRows
    <3>4. outbox' = [outbox EXCEPT ![FirstPicked] = again]
      BY <2>1
    <3> HIDE DEF again
    <3>5. outbox' \in Seq(OutboxRows) /\ Len(outbox') = Len(outbox)
      BY <1>1, <1>2, <3>3, <3>4
    <3>6. \A i \in 1..Len(outbox) : /\ outbox'[i].channel = outbox[i].channel
                                    /\ outbox'[i].kind = outbox[i].kind
                                    /\ outbox'[i].about = outbox[i].about
      BY <1>1, <1>2, <3>3, <3>4
    <3> QED
      BY <1>1, <3>5, <3>6, Rewritten
  <2>3. /\ told' \in [Channels -> [Alerts -> Statuses]]
        /\ owed' \in [Channels -> SUBSET Notices]
        /\ \A c \in Channels : owed'[c] \subseteq owed[c]
    BY <1>2, <2>1, DeliveryPays DEF OutboxInv
  <2> HIDE DEF row
  <2>4. DebtsKnown'
    BY <1>3, <2>2, <2>3 DEF OutboxInv, DebtsKnown, Routed
  <2> QED
    BY <1>3, <2>2, <2>3, <2>4 DEF OutboxInv
<1> QED
  BY <1>4, <1>5

\* An event of this run that a channel is owed is one of those it selects, and
\* is queued as an event.
LEMMA DebtSelected ==
    ASSUME NEW ch \in Channels, NEW e \in events, Routed(ch, e.status)
    PROVE  e \in Selected(ch) /\ Kind(ch) = "event"
<1>1. e \in Selected(ch)
  BY DEF Routed, Selected
<1>2. Route[ch].type # "heartbeat" /\ Route[ch].immediate
  BY DEF Routed
<1> QED
  BY <1>1, <1>2 DEF Kind

LEMMA QueueKeeps ==
    ASSUME MonitoringAssumption, MonitorInv, NEW ch \in Channels,
           NothingToQueue(ch) \/ Enqueue(ch) \/ QueueFull(ch)
    PROVE  OutboxInv'
<1>1. OutboxInv /\ BoxInv(outbox) /\ Limit \in Nat
  BY Limits DEF MonitorInv, OutboxInv
<1>2. pc = "queue" /\ todo' = todo \ {ch} /\ UNCHANGED <<pc, events, told, interrupted>>
  BY DEF NothingToQueue, Enqueue, QueueFull
<1>3. \A e \in events : Routed(ch, e.status) => e \in Selected(ch) /\ Kind(ch) = "event"
  BY DebtSelected
<1>4. Kind(ch) \in {"heartbeat", "digest", "event", "none"}
  BY DEF Kind
<1>5. CASE NothingToQueue(ch)
  <2>1. UNCHANGED <<outbox, owed, digestAge>> /\ Kind(ch) = "none"
    BY <1>5 DEF NothingToQueue
  <2>2. DebtsKnown'
    BY <1>1, <1>2, <1>3, <2>1 DEF OutboxInv, DebtsKnown, Routed
  <2> QED
    BY <1>1, <1>2, <2>1, <2>2 DEF OutboxInv
<1>6. CASE Enqueue(ch)
  <2> DEFINE rest == WithoutOld(ch, Kind(ch))
             row == Row(ch, Kind(ch), IF Kind(ch) = "event" THEN Selected(ch) ELSE {})
  <2>1. /\ Kind(ch) # "none" /\ RoomFor(ch, Kind(ch)) /\ outbox' = Append(rest, row)
        /\ digestAge' = IF Kind(ch) = "digest" THEN [digestAge EXCEPT ![ch] = 0] ELSE digestAge
        /\ owed' = owed
    BY <1>6 DEF Enqueue
  <2>2. /\ BoxInv(rest)
        /\ \A c, e : InBox(outbox, c, e) => InBox(rest, c, e)
        /\ Cardinality(QueueOf(rest, ch)) <= Cardinality(Pending(ch) \ Old(ch, Kind(ch)))
        /\ Kind(ch) \in {"heartbeat", "digest"} =>
               \A j \in 1..Len(rest) : ~(rest[j].kind = Kind(ch) /\ rest[j].channel = ch)
    BY <1>1, <1>4, <2>1, WithoutOldKeeps
  <2>3. /\ row \in OutboxRows /\ row.channel = ch /\ row.kind = Kind(ch)
        /\ row.about = (IF Kind(ch) = "event" THEN Selected(ch) ELSE {})
    <3>1. Selected(ch) \subseteq Notices
      BY <1>1 DEF Selected, OutboxInv
    <3> QED
      BY <1>4, <2>1, <3>1 DEF Row, OutboxRows
  <2> HIDE DEF rest, row
  <2>4. Cardinality(QueueOf(rest, ch)) < Limit
    <3>1. Cardinality(Pending(ch) \ Old(ch, Kind(ch))) < Limit
      BY <2>1 DEF RoomFor
    <3>2. Cardinality(QueueOf(rest, ch)) \in Nat
      BY <2>2, QueueFinite DEF BoxInv
    <3>3. Cardinality(Pending(ch) \ Old(ch, Kind(ch))) \in Nat
      <4>1. IsFiniteSet(Pending(ch))
        BY <1>1, QueueFinite DEF BoxInv, QueueOf, Pending
      <4>2. IsFiniteSet(Pending(ch) \ Old(ch, Kind(ch)))
        BY <4>1, FS_Subset
      <4> QED
        BY <4>2, FS_CardinalityType
    <3> QED
      BY <1>1, <2>2, <3>1, <3>2, <3>3
  <2>5. /\ BoxInv(outbox')
        /\ \A c, e : InBox(rest, c, e) => InBox(outbox', c, e)
        /\ \A e \in row.about : InBox(outbox', ch, e)
    BY <1>1, <2>1, <2>2, <2>3, <2>4, PutIn
  <2>6. digestAge' \in [Channels -> 0..DigestInterval]
    <3>1. 0 \in 0..DigestInterval
      BY Limits
    <3> QED
      BY <1>1, <2>1, <3>1 DEF OutboxInv
  <2>7. DebtsKnown'
    BY <1>1, <1>2, <1>3, <2>1, <2>2, <2>3, <2>5 DEF OutboxInv, DebtsKnown, Routed
  <2> QED
    BY <1>1, <1>2, <2>1, <2>5, <2>6, <2>7 DEF OutboxInv
<1>7. CASE QueueFull(ch)
  <2>1. /\ Kind(ch) # "none" /\ outbox' = WithoutOld(ch, Kind(ch)) /\ alert' = Forgotten
        /\ owed' = [c \in Channels |-> {e \in owed[c] : alert'[e.alert].notified # "unknown"}]
        /\ digestAge' = digestAge
    BY <1>7 DEF QueueFull
  <2>2. BoxInv(outbox') /\ \A c, e : InBox(outbox, c, e) => InBox(outbox', c, e)
    BY <1>1, <1>4, <2>1, WithoutOldKeeps
  <2>3. \A e \in events : alert'[e.alert].notified = "unknown"
    <3> SUFFICES ASSUME NEW e \in events PROVE alert'[e.alert].notified = "unknown"
      OBVIOUS
    <3>1. e.alert \in Alerts
      BY <1>1 DEF OutboxInv, Notices
    <3>2. alert[e.alert] \in AlertRows
      BY <3>1 DEF MonitorInv, EvidenceInv
    <3>3. alert'[e.alert] = [alert[e.alert] EXCEPT !.notified = "unknown", !.silent = Cooldown]
      BY <2>1, <3>1 DEF Forgotten
    <3> QED
      BY <3>2, <3>3 DEF AlertRows
  <2>4. owed' \in [Channels -> SUBSET Notices]
    BY <1>1, <2>1 DEF OutboxInv
  <2>5. \A c \in Channels : owed'[c] \subseteq owed[c] /\ owed'[c] \cap events = {}
    BY <2>1, <2>3
  <2>6. DebtsKnown'
    BY <1>1, <1>2, <2>2, <2>5 DEF OutboxInv, DebtsKnown, Routed
  <2> QED
    BY <1>1, <1>2, <2>1, <2>2, <2>4, <2>6 DEF OutboxInv
<1> QED
  BY <1>5, <1>6, <1>7

LEMMA RunKeepsBox ==
    ASSUME MonitoringAssumption, OutboxInv, EndDrain \/ EndQueue \/ EndRun \/ MonitorDies
    PROVE  OutboxInv'
<1>1. outbox \in Seq(OutboxRows) /\ BoxInv(outbox)
  BY DEF OutboxInv, BoxInv
<1>2. CASE EndDrain
  BY <1>2 DEF EndDrain, OutboxInv, DebtsKnown, Routed
<1>3. CASE EndRun
  BY <1>3 DEF EndRun, OutboxInv, DebtsKnown, Routed
<1>4. CASE EndQueue
  <2>1. outbox' = Picked(outbox) /\ todo = {} /\ pc' = "last"
        /\ UNCHANGED <<digestAge, todo, events, told, owed, interrupted>>
    BY <1>4 DEF EndQueue
  <2>2. BoxInv(outbox') /\ \A c, e : InBox(outbox', c, e) <=> InBox(outbox, c, e)
    BY <1>1, <2>1, PickedRewrites, Rewritten
  <2>3. DebtsKnown'
    BY <2>1, <2>2 DEF OutboxInv, DebtsKnown, Routed
  <2> QED
    BY <2>1, <2>2, <2>3 DEF OutboxInv
<1>5. CASE MonitorDies
  <2>1. /\ interrupted' = [c \in Channels |->
              interrupted[c] \cup {e \in events \cap owed[c] : ~Awaiting(c, e)}]
        /\ outbox' = [i \in DOMAIN outbox |-> [outbox[i] EXCEPT !.picked = FALSE]]
        /\ pc' = "idle" /\ todo' = {} /\ events' = {} /\ digestAge' = digestAge
    BY <1>5 DEF MonitorDies
  <2>2. BoxInv(outbox') /\ \A c, e : InBox(outbox', c, e) <=> InBox(outbox, c, e)
    <3>1. \A i \in 1..Len(outbox) : outbox[i] \in OutboxRows
      BY <1>1
    <3>2. /\ outbox' = [i \in 1..Len(outbox) |-> outbox'[i]]
          /\ \A i \in 1..Len(outbox) : outbox'[i] = [outbox[i] EXCEPT !.picked = FALSE]
      <4>1. outbox' = [i \in DOMAIN outbox |-> [outbox[i] EXCEPT !.picked = FALSE]]
        BY <2>1
      <4>2. DOMAIN outbox = 1..Len(outbox)
        BY <1>1
      <4> QED
        BY <4>1, <4>2
    <3>3. \A i \in 1..Len(outbox) :
              /\ outbox'[i] \in OutboxRows /\ outbox'[i].channel = outbox[i].channel
              /\ outbox'[i].kind = outbox[i].kind /\ outbox'[i].about = outbox[i].about
      <4> SUFFICES ASSUME NEW r \in OutboxRows, NEW s, s = [r EXCEPT !.picked = FALSE]
                   PROVE  /\ s \in OutboxRows /\ s.channel = r.channel
                          /\ s.kind = r.kind /\ s.about = r.about
        BY <3>1, <3>2
      <4> QED
        BY DEF OutboxRows
    <3>4. outbox' \in Seq(OutboxRows) /\ Len(outbox') = Len(outbox)
      BY <1>1, <3>2, <3>3
    <3> QED
      BY <1>1, <3>3, <3>4, Rewritten
  <2>3. /\ told' \in [Channels -> [Alerts -> Statuses]]
        /\ owed' \in [Channels -> SUBSET Notices]
        /\ \A c \in Channels : owed'[c] \subseteq owed[c]
    <3>1. CASE UNCHANGED <<told, owed>>
      BY <3>1 DEF OutboxInv
    <3>2. CASE Draining /\ Deliver(outbox[FirstPicked])
      <4>1. outbox[FirstPicked] \in OutboxRows
        BY <1>1, <3>2, FirstIsPicked DEF Draining
      <4> QED
        BY <3>2, <4>1, DeliveryPays
    <3> QED
      BY <1>5, <3>1, <3>2 DEF MonitorDies
  <2>4. interrupted' \in [Channels -> SUBSET Notices]
    BY <2>1 DEF OutboxInv
  <2>5. DebtsKnown'
    <3> SUFFICES ASSUME NEW c \in Channels, NEW e \in owed'[c]
                 PROVE  Routed(c, e.status) /\ (InBox(outbox', c, e) \/ e \in interrupted'[c])
      BY <2>1 DEF DebtsKnown, Routed
    <3>1. e \in owed[c]
      BY <2>3
    <3>2. Routed(c, e.status)
          /\ (InBox(outbox, c, e) \/ e \in interrupted[c] \/ e \in events)
      BY <3>1 DEF OutboxInv, DebtsKnown
    <3>3. Awaiting(c, e) <=> InBox(outbox, c, e)
      BY DEF Awaiting, InBox
    <3> QED
      BY <2>1, <2>2, <3>1, <3>2, <3>3
  <2> QED
    BY <2>1, <2>2, <2>3, <2>4, <2>5 DEF OutboxInv
<1> QED
  BY <1>2, <1>3, <1>4, <1>5

LEMMA MonitorSteps ==
    ASSUME MonitoringAssumption, MonitorInv, [MonitorNext]_mvars
    PROVE  MonitorInv' /\ StatusFromEvidence
<1>1. EvidenceInv' /\ StatusFromEvidence
  BY EvidenceNext DEF MonitorInv
<1>2. OutboxInv'
  <2>5. CASE UNCHANGED mvars
    BY <2>5 DEF mvars, MonitorInv, OutboxInv, DebtsKnown, Routed
  <2>1. CASE Evaluate
    BY <1>1, <2>1, EvaluateOwes
  <2>2. CASE SendRow \/ SendFails
    BY <2>2, SendKeeps DEF MonitorInv
  <2>3. CASE EndDrain \/ EndQueue \/ EndRun \/ MonitorDies
    BY <2>3, RunKeepsBox DEF MonitorInv
  <2>4. CASE \E ch \in Channels : NothingToQueue(ch) \/ Enqueue(ch) \/ QueueFull(ch)
    BY <2>4, QueueKeeps
  <2> QED
    BY <2>1, <2>2, <2>3, <2>4, <2>5 DEF MonitorNext, MonitorStep
<1> QED
  BY <1>1, <1>2 DEF MonitorInv

\* Between two runs there is nothing left that is about to be queued.
LEMMA MonitorHolds == MonitorInv => MonitorTypeOK /\ EventsKept
<1> SUFFICES ASSUME MonitorInv PROVE MonitorTypeOK /\ EventsKept
  OBVIOUS
<1>1. OutboxInv /\ EvidenceInv /\ BoxInv(outbox) /\ outbox \in Seq(OutboxRows)
      /\ DOMAIN outbox = 1..Len(outbox)
  BY DEF MonitorInv, OutboxInv, BoxInv
<1>2. \A ch : Pending(ch) = QueueOf(outbox, ch) /\ \A e : Awaiting(ch, e) <=> InBox(outbox, ch, e)
  BY DEF Pending, QueueOf, Awaiting, InBox
<1>3. EventsKept
  BY <1>1, <1>2 DEF EventsKept, OutboxInv, DebtsKnown
<1>4. \A i \in DOMAIN outbox : outbox[i].channel \in Channels
  <2>1. \A i \in DOMAIN outbox : outbox[i] \in OutboxRows
    BY <1>1
  <2> QED
    BY <2>1 DEF OutboxRows
<1>5. \A ch \in Channels : Cardinality(Pending(ch)) <= Limit
  BY <1>1, <1>2 DEF BoxInv
<1> QED
  BY <1>1, <1>3, <1>4, <1>5 DEF MonitorTypeOK, OutboxInv, EvidenceInv, Samples, AlertRows

-----------------------------------------------------------------------------
(* All of them                                                             *)

\* The program that a behaviour is about keeps its invariant.
UpkeepInv ==
    /\ subject = "copies" => CopiesInv
    /\ subject = "drill" => DrillInv
    /\ subject = "identity" => IdentityInv
    /\ subject = "integrity" => IntegrityInv
    /\ subject = "recording" => RecorderInv
    /\ subject = "control" => ControlInv
    /\ subject = "monitor" => MonitorInv

LEMMA UpkeepStarts == Init => UpkeepInv
<1> SUFFICES ASSUME Init PROVE UpkeepInv
  OBVIOUS
<1> USE UpkeepAssumption DEF Init, UpkeepInv
<1>1. subject = "copies" => CopiesInv
  BY CopiesStarts DEF UpkeepAssumption
<1>2. subject = "drill" => DrillInv
  BY DrillStarts
<1>3. subject = "identity" => IdentityInv
  BY IdentityStarts
<1>4. subject = "integrity" => IntegrityInv
  BY IntegrityStarts
<1>5. subject = "recording" => RecorderInv
  BY RecorderStarts
<1>6. subject = "control" => ControlInv
  BY ControlStarts
<1>7. subject = "monitor" => MonitorInv
  BY MonitorStarts
<1> QED
  BY <1>1, <1>2, <1>3, <1>4, <1>5, <1>6, <1>7

\* A step is a step of the program the behaviour is about, or of none.
LEMMA OneProgram ==
    ASSUME [Next]_vars
    PROVE  /\ subject' = subject
           /\ subject = "copies" => [RecoveryNext]_rvars
           /\ subject = "drill" => [DrillNext]_dvars
           /\ subject = "identity" => [IdentityNext]_tvars
           /\ subject = "integrity" => [IntegrityNext]_ivars
           /\ subject = "recording" => [RecorderNext]_wvars
           /\ subject = "control" => [ControlNext]_nvars
           /\ subject = "monitor" => [MonitorNext]_mvars
  BY DEF vars, others, Next, CopiesOnly, DrillOnly, IdentityOnly, IntegrityOnly, RecordingOnly,
     ControlOnly, MonitorOnly

LEMMA UpkeepSteps ==
    UpkeepInv /\ [Next]_vars =>
        /\ UpkeepInv'
        /\ subject = "copies" => LastGoodStays
        /\ subject = "integrity" => FullMeansAll /\ RepairKeepsBytes
        /\ subject = "identity" => RetiredRests
        /\ subject = "monitor" => StatusFromEvidence
<1> SUFFICES ASSUME UpkeepInv, [Next]_vars
             PROVE  /\ UpkeepInv'
                    /\ subject = "copies" => LastGoodStays
                    /\ subject = "integrity" => FullMeansAll /\ RepairKeepsBytes
                    /\ subject = "identity" => RetiredRests
                    /\ subject = "monitor" => StatusFromEvidence
  OBVIOUS
<1> USE UpkeepAssumption DEF UpkeepInv
<1>0. subject' = subject
  BY OneProgram
<1>1. subject = "copies" => CopiesInv' /\ LastGoodStays
  BY OneProgram, CopiesSteps, LastGoodKept
<1>2. subject = "drill" => DrillInv'
  BY OneProgram, DrillSteps
<1>3. subject = "identity" => IdentityInv' /\ RetiredRests
  BY OneProgram, IdentitySteps
<1>4. subject = "integrity" => IntegrityInv' /\ FullMeansAll /\ RepairKeepsBytes
  BY OneProgram, IntegritySteps
<1>5. subject = "recording" => RecorderInv'
  BY OneProgram, RecorderSteps
<1>6. subject = "control" => ControlInv'
  BY OneProgram, ControlSteps
<1>7. subject = "monitor" => MonitorInv' /\ StatusFromEvidence
  BY OneProgram, MonitorSteps
<1> QED
  BY <1>0, <1>1, <1>2, <1>3, <1>4, <1>5, <1>6, <1>7

\* The invariant of the program that runs holds in every reachable state.
THEOREM UpkeepInvariance == Spec => []UpkeepInv
<1>1. Init => UpkeepInv
  BY UpkeepStarts
<1>2. UpkeepInv /\ [Next]_vars => UpkeepInv'
  BY UpkeepSteps
<1> QED
  BY <1>1, <1>2, PTL DEF Spec

\* A complete bundle holds what its inputs were together at one moment, and
\* latest.json names one that is there; a rehearsal counts for the very bytes
\* it passed on; and a task has one history, which no other task shares and
\* which renaming or migrating it does not lose (recovery_maintenance.py
\* refresh, setup_recovery.py drill, task_lifecycle.py plan).
THEOREM RecoveryStands == Spec => []RecoveryHolds
<1>1. UpkeepInv => RecoveryHolds
  BY UpkeepAssumption, CopiesHold, IdentityHolds DEF UpkeepInv, RecoveryHolds, DrillInv
<1> QED
  BY <1>1, UpkeepInvariance, PTL

\* No program removes the last bundle of a place that still verifies, calls an
\* archive fully verified of which it has not found every version intact in
\* time, replaces the only copy of a file's bytes, or changes a history that is
\* retired (recovery_maintenance.py retain, archive_integrity.py scrub, repair,
\* task_lifecycle.py --retire).
THEOREM NothingLost == Spec => NothingLastLost
<1> DEFINE Keeps == /\ subject = "copies" => LastGoodStays
                    /\ subject = "integrity" => FullMeansAll /\ RepairKeepsBytes
                    /\ subject = "identity" => RetiredRests
<1>1. UpkeepInv /\ [Next]_vars => [Keeps]_vars
  BY UpkeepSteps
<1> QED
  BY <1>1, UpkeepInvariance, PTL DEF Spec, NothingLastLost

\* Every sample file is in the index or named by the note of a capture, and
\* what is registered as the recorder's is what the operating system holds
\* (native_recording.py record, apply).
THEOREM RecordingStands == Spec => []RecordingHolds
<1>1. UpkeepInv => RecordingHolds
  BY DEF UpkeepInv, RecordingHolds, RecorderInv, ControlInv, Registered, RegistrationTrue
<1> QED
  BY <1>1, UpkeepInvariance, PTL

\* The monitor loses no event that it has decided, other than in memory with
\* its process: it is pending where it is routed to, or due again
\* (monitoring.py run, queue, drain).
THEOREM NoEventDropped == Spec => []NothingDropped
<1>1. UpkeepInv => NothingDropped
  BY MonitorHolds DEF UpkeepInv, NothingDropped
<1> QED
  BY <1>1, UpkeepInvariance, PTL

\* An alert opens or closes only on as many distinct observations as its rule
\* asks for, however often one of them is read again (monitoring.py evaluate).
THEOREM EvidenceAlways == Spec => EvidenceDecides
<1>1. UpkeepInv /\ [Next]_vars => [subject = "monitor" => StatusFromEvidence]_vars
  BY UpkeepSteps
<1> QED
  BY <1>1, UpkeepInvariance, PTL DEF Spec, EvidenceDecides
=============================================================================
