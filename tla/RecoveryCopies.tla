--------------------------- MODULE RecoveryCopies ---------------------------
(***************************************************************************)
(* Recovery exports and their copies (recovery/recovery_assets.py and      *)
(* recovery/recovery_maintenance.py).  A refresh lists the selected inputs *)
(* with their hashes, copies each while others may edit it and checks that *)
(* what it copied is what it listed; it copies the program's own files,    *)
(* unlisted and unchecked, and publishes the bundle under the hash of its  *)
(* inventory; it then copies the bundle to a second place and moves        *)
(* latest.json.  Retention deletes verified bundles beyond the newest few. *)
(* Both hold the directory's refresh lock.  Bundles may be damaged at any  *)
(* time, and either program may die.                                       *)
(***************************************************************************)
EXTENDS Naturals, FiniteSets, Common

CONSTANTS
    Inputs,      \* number of selected inputs, in the order of the inventory
    Programs,    \* number of the program's own files, which follow them
    Texts,       \* what a file may hold; a content stands for its hash
    Keep,        \* verified bundles that retention keeps
    MaxEdits,    \* bound: edits of the files
    MaxMishaps   \* bound: bundles damaged and deaths of a program

(* What the program guarantees of the constants.                           *)
RecoveryAssumption ==
    {Inputs, Keep} \subseteq Nat \ {0} /\ Programs \in Nat /\ Texts # {}

Places == {"local", "secondary"}
Parts  == 1..(Inputs + Programs)
Idents == [Parts -> Texts]             \* a bundle is named by what it holds

VARIABLES
    input,       \* the bytes of each input and of each of the program's files
    copies,      \* the bundles at each place: [ident, born, good]
    latest,      \* latest.json: [ident, secondary]
    refresher,   \* [pc, done, listed, born, secondary, moment, returned]; auxiliary:
                 \* what all files were when the listing ended, and the inputs that
                 \* were edited since they were listed, and edited back
    pruner,      \* [pc, place, survivor, doomed, target, stood]; auxiliary: stood,
                 \* the survivor verified when it was looked at for this removal
    edits, mishaps

rvars == <<input, copies, latest, refresher, pruner, edits, mishaps>>

(* No content is told from another: each file starts with the same one.    *)
Blank == [n \in Parts |-> CHOOSE b \in Texts : TRUE]

NoRefresh == [pc |-> "idle", done |-> 0, listed |-> Blank, born |-> 0, secondary |-> "none",
              moment |-> Blank, returned |-> {}]
Unlocked  == [NoRefresh EXCEPT !.born = refresher.born]
NoPrune   == [pc |-> "idle", place |-> None, survivor |-> None, doomed |-> {},
              target |-> None, stood |-> FALSE]

RecoveryInit ==
    /\ input = Blank
    /\ copies = [place \in Places |-> {}]
    /\ latest = [ident |-> None, secondary |-> "none"]
    /\ refresher = NoRefresh /\ pruner = NoPrune
    /\ edits = 0 /\ mishaps = 0

Locked(place) ==
    pruner.place = place \/ (place = "local" /\ refresher.pc # "idle")

Named(place, ident) == {c \in copies[place] : c.ident = ident}

(* check_copy(): the bundle under this name holds what its name says.      *)
Verified(place, ident) == \E c \in Named(place, ident) : c.good

-----------------------------------------------------------------------------
(* inventory() and export_recovery(): list all inputs, copy each, and then *)
(* copy the program's files.                                               *)

BeginRefresh ==
    /\ refresher.pc = "idle" /\ ~Locked("local")
    /\ refresher' = [NoRefresh EXCEPT !.pc = "list", !.born = refresher.born]
    /\ UNCHANGED <<input, copies, latest, pruner, edits, mishaps>>

ListInput ==
    /\ refresher.pc = "list"
    /\ LET n == refresher.done + 1
       IN  refresher' = [refresher EXCEPT !.listed[n] = input[n],
                                          !.done = IF n = Inputs THEN 0 ELSE n,
                                          !.pc = IF n = Inputs THEN "copy" ELSE "list",
                                          !.moment = IF n = Inputs THEN input ELSE @]
    /\ UNCHANGED <<input, copies, latest, pruner, edits, mishaps>>

(* Variant: the inventory records the hash of what was copied.             *)
SameBytesUnchecked(n) == TRUE

(* What is copied of an input must be what the inventory lists; of one of  *)
(* the program's files, the inventory lists what was copied.               *)
SameBytes(n) == n <= Inputs => input[n] = refresher.listed[n]

CopyInput ==
    /\ refresher.pc = "copy"
    /\ LET n == refresher.done + 1
       IN  /\ SameBytes(n)
           /\ refresher' = [refresher EXCEPT !.listed[n] = input[n],
                                             !.done = IF n = Inputs + Programs THEN 0 ELSE n,
                                             !.pc = IF n = Inputs + Programs THEN "publish" ELSE "copy"]
    /\ UNCHANGED <<input, copies, latest, pruner, edits, mishaps>>

(* A file that cannot be read, an input that was edited, or an existing   *)
(* bundle of the same name that is damaged: nothing is published, and the  *)
(* scratch is removed.                                                     *)
RefreshFails ==
    /\ \/ refresher.pc \in {"list", "copy"}
       \/ /\ refresher.pc = "publish"
          /\ \E c \in Named("local", refresher.listed) : ~c.good
    /\ refresher' = Unlocked
    /\ UNCHANGED <<input, copies, latest, pruner, edits, mishaps>>

Publish ==
    /\ refresher.pc = "publish"
    /\ \A c \in Named("local", refresher.listed) : c.good
    /\ copies' = IF Named("local", refresher.listed) # {} THEN copies
                 ELSE [copies EXCEPT !["local"] = @ \cup
                         {[ident |-> refresher.listed, born |-> refresher.born + 1, good |-> TRUE]}]
    /\ refresher' = [refresher EXCEPT !.pc = "secondary",
                                      !.born = IF copies' = copies THEN @ ELSE @ + 1]
    /\ UNCHANGED <<input, latest, pruner, edits, mishaps>>

(* The copy is made in scratch from the local bundle, checked, renamed and *)
(* checked again.  A failure is recorded, and the refresh goes on.         *)
CopyAway ==
    /\ refresher.pc = "secondary"
    /\ LET ident   == refresher.listed
           fresh   == {c \in Named("local", ident) : c.good}
           present == Named("secondary", ident) # {}
           made    == IF present \/ Locked("secondary") THEN copies
                      ELSE [copies EXCEPT !["secondary"] = @ \cup fresh]
           holds   == \E c \in made["secondary"] : c.ident = ident /\ c.good
       IN  \/ /\ copies' = made
              /\ refresher' = [refresher EXCEPT !.pc = "point", !.secondary =
                     IF ~Locked("secondary") /\ holds THEN "verified" ELSE "failed"]
           \/ /\ refresher' = [refresher EXCEPT !.pc = "point", !.secondary = "failed"]
              /\ UNCHANGED copies
    /\ UNCHANGED <<input, latest, pruner, edits, mishaps>>

Point ==
    /\ refresher.pc = "point"
    /\ latest' = [ident |-> refresher.listed, secondary |-> refresher.secondary]
    /\ refresher' = Unlocked
    /\ UNCHANGED <<input, copies, pruner, edits, mishaps>>

-----------------------------------------------------------------------------
(* retain(): verify every bundle, newest first, then delete those beyond   *)
(* the newest `Keep` that latest.json does not name.                       *)

Good(place) == {c \in copies[place] : c.good}
Newer(place, c) == {d \in Good(place) : d.born > c.born}
Newest(place) == CHOOSE c \in Good(place) : Newer(place, c) = {}

(* Variant: every bundle that has a bundle's name counts as a copy.        *)
RankUnverified(place, c) == Cardinality({d \in copies[place] : d.born > c.born})

Rank(place, c) == Cardinality(Newer(place, c))

(* latest.json lies beside the local bundles only.                         *)
Pointed(place) == IF place = "local" THEN latest.ident ELSE None

BeginRetain(place) ==
    /\ pruner.pc = "idle" /\ ~Locked(place) /\ Good(place) # {}
    /\ pruner' = [NoPrune EXCEPT !.pc = "check", !.place = place,
                                 !.survivor = Newest(place).ident,
                                 !.doomed = {c.ident : c \in {d \in Good(place) :
                                     Rank(place, d) >= Keep /\ d.ident # Pointed(place)}}]
    /\ UNCHANGED <<input, copies, latest, refresher, edits, mishaps>>

(* Variant: the survivor is not looked at again.                           *)
SurvivorStandsOnce == TRUE

(* The newest verified bundle is verified again before each deletion.      *)
SurvivorStands == Verified(pruner.place, pruner.survivor)

CheckSurvivor(ident) ==
    /\ pruner.pc = "check" /\ ident \in pruner.doomed /\ SurvivorStands
    /\ pruner' = [pruner EXCEPT !.pc = "delete", !.target = ident,
                                !.stood = Verified(pruner.place, pruner.survivor)]
    /\ UNCHANGED <<input, copies, latest, refresher, edits, mishaps>>

(* The deletion succeeds, or fails and may leave a part of the bundle.     *)
DeleteBundle ==
    /\ pruner.pc = "delete"
    /\ LET named == Named(pruner.place, pruner.target)
           rest  == copies[pruner.place] \ named
           torn  == {[c EXCEPT !.good = FALSE] : c \in named}
       IN  \E left \in {rest, rest \cup torn, copies[pruner.place]} :
               copies' = [copies EXCEPT ![pruner.place] = left]
    /\ pruner' = [pruner EXCEPT !.pc = "check", !.doomed = @ \ {pruner.target},
                                !.target = None, !.stood = FALSE]
    /\ UNCHANGED <<input, latest, refresher, edits, mishaps>>

EndRetain ==
    /\ pruner.pc = "check"
    /\ pruner.doomed = {} \/ ~SurvivorStands
    /\ pruner' = NoPrune
    /\ UNCHANGED <<input, copies, latest, refresher, edits, mishaps>>

-----------------------------------------------------------------------------
(* Listed and not copied yet.                                              *)
Awaited(n) ==
    /\ n <= Inputs
    /\ \/ refresher.pc = "list" /\ n <= refresher.done
       \/ refresher.pc = "copy" /\ n > refresher.done

(* Anyone may write a file, and write what it held before.                 *)
Edit(n) ==
    /\ edits < MaxEdits
    /\ \E b \in Texts \ {input[n]} :
          /\ input' = [input EXCEPT ![n] = b]
          /\ refresher' = IF ~Awaited(n) THEN refresher ELSE
                 [refresher EXCEPT !.returned = IF b = refresher.listed[n] THEN @ \cup {n}
                                                ELSE @ \ {n}]
    /\ edits' = edits + 1
    /\ UNCHANGED <<copies, latest, pruner, mishaps>>

Damage(place, c) ==
    /\ mishaps < MaxMishaps /\ c.good
    /\ mishaps' = mishaps + 1
    /\ copies' = [copies EXCEPT ![place] = (@ \ {c}) \cup {[c EXCEPT !.good = FALSE]}]
    /\ UNCHANGED <<input, latest, refresher, pruner, edits>>

\* The lock goes with the process; its scratch directory is no bundle.
CrashRecovery ==
    /\ mishaps < MaxMishaps
    /\ mishaps' = mishaps + 1
    /\ \/ /\ refresher.pc # "idle" /\ refresher' = Unlocked
          /\ UNCHANGED pruner
       \/ pruner.pc # "idle" /\ pruner' = NoPrune /\ UNCHANGED refresher
    /\ UNCHANGED <<input, copies, latest, edits>>

RecoveryNext ==
    \/ BeginRefresh \/ ListInput \/ CopyInput \/ RefreshFails \/ Publish \/ CopyAway \/ Point
    \/ \E place \in Places : BeginRetain(place)
    \/ \E ident \in Idents : CheckSurvivor(ident)
    \/ DeleteBundle \/ EndRetain
    \/ \E n \in Parts : Edit(n)
    \/ \E place \in Places : \E c \in copies[place] : Damage(place, c)
    \/ CrashRecovery

RecoverySpec == RecoveryInit /\ [][RecoveryNext]_rvars

-----------------------------------------------------------------------------
(* The selected inputs are read one by one while others edit them, and      *)
(* each of them is in the bundle as it was when the listing ended, so that  *)
(* together they are what they were at one moment: but for an input that    *)
(* was edited between its two readings and edited back, which equal hashes  *)
(* do not tell (recovery_assets.py 206-208).  Nothing is said of the        *)
(* program's own files, which are read once (211-217).  A place has one     *)
(* bundle of a name, and the bundle latest.json names is there.             *)
BundlesTogether ==
    /\ refresher.pc = "publish" =>
           \A n \in 1..Inputs :
               refresher.listed[n] = refresher.moment[n] \/ n \in refresher.returned
    /\ \A place \in Places : \A c, d \in copies[place] : c.ident = d.ident => c = d
    /\ latest.ident # None => Named("local", latest.ident) # {}

(* The survivor was damaged between its verification for this removal and  *)
(* the removal.                                                            *)
FellMeanwhile == pruner.stood /\ ~Verified(pruner.place, pruner.survivor)

(* docs/recovery-and-scheduling-details.md:54: retention protects at least  *)
(* one verified copy and rechecks a survivor before deletion. Whatever was  *)
(* damaged, failed or died before, the last bundle that still verifies at a *)
(* place is not removed by a program, unless the survivor is damaged after  *)
(* its recheck and before that one removal (recovery_maintenance.py         *)
(* 103-133).                                                                *)
LastGoodStays ==
    mishaps' = mishaps /\ ~FellMeanwhile =>
        \A place \in Places : Good(place) # {} => \E c \in copies'[place] : c.good
=============================================================================
