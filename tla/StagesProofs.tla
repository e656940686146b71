---------------------------- MODULE StagesProofs -----------------------------
(***************************************************************************)
(* Theorems about the stages of a run, for any constants that satisfy the  *)
(* assumptions, with the lemmas about retention, the search for source     *)
(* files and the worktrees; those about loading and the collectors are in  *)
(* CollectorProofs.                                                        *)
(***************************************************************************)
EXTENDS Stages, CollectorProofs

-----------------------------------------------------------------------------
(* The inductive invariant *)

Here       == [active |-> active, gens |-> gens, disk |-> disk]
Held(r, k) == r.active[k] \cup UNION {g.versions : g \in r.gens[k]}
FilesIn(r)   == UNION {Held(r, k) : k \in Keys}

\* Each version has been stored for its key and is in one history.
Sound(r) ==
    \A k \in Keys :
        /\ \A v \in Held(r, k) : made[v] # None /\ made[v].key = k
        /\ \A g \in r.gens[k] :
              /\ r.active[k] \cap g.versions = {}
              /\ \A h \in r.gens[k] : g # h => g.versions \cap h.versions = {}

\* Versions are numbered as they are stored.
OwnInv ==
    /\ \E n \in 0..MaxVersions : \A v \in Versions : made[v] # None <=> v <= n
    /\ Sound(Here)

\* The files are those of the records, less what the scope has removed so far.
FileInv ==
    /\ disk = FilesIn(Here) \ gone
    /\ pc # "remove" => gone = {}
    /\ pc = "remove" => gone \subseteq (UNION {Tracked(k) : k \in KeysIn({scope})}) \cap doomed

\* What a start after a crash brings back is sound as well.
BaseInv == pc # "idle" => Sound(base) /\ base.disk = FilesIn(base)

\* A plan spares the floor of each history it does not purge, and purges a
\* generation as a whole in each key it touches.
Spares(r, d) ==
    \A k \in Keys :
        /\ Protected(r.active[k], task.active) \cap d = {}
        /\ \A g \in r.gens[k] :
              /\ Purgeable(g) \/ Protected(g.versions, task.deleted) \cap d = {}
              /\ Purgeable(g) /\ Held(r, k) \cap d # {} => g.versions \subseteq d

DoomInv == pc # "idle" => Spares(base, doomed)

\* The plan has been carried out for a key as a whole or not at all, and where
\* it has, all that is left is intact.
Same(k) == active[k] = base.active[k] /\ gens[k] = base.gens[k]
Cut(k)  == /\ active[k] = base.active[k] \ doomed
           /\ gens[k] = {Thin(g) : g \in {h \in base.gens[k] : ~Purgeable(h)}}
           /\ \A v \in Tracked(k) : Intact(v)

StepInv == pc # "idle" => \A k \in Keys : Same(k) \/ Cut(k)

\* What stays of the scope being processed has been looked at.
CheckedInv ==
    pc = "remove" =>
        /\ scope \in Scopes
        /\ Validated(scope)

RetentionInv == RetentionTypeOK /\ OwnInv /\ FileInv /\ BaseInv /\ DoomInv /\ StepInv /\ CheckedInv

-----------------------------------------------------------------------------
(* A floor spares something *)

\* A policy of the task keeps at least one version.
LEMMA FloorPositive ==
    ASSUME RetentionAssumption, RetentionTypeOK
    PROVE  task.active.min \in Nat \ {0} /\ task.deleted.min \in Nat \ {0}
BY DEF RetentionAssumption, RetentionTypeOK, IsPolicy

\* How many versions of a history are newer is a number.
LEMMA RankType ==
    ASSUME RetentionAssumption, NEW S \in SUBSET Versions, NEW v \in S
    PROVE  Rank(v, S) \in Nat
<1>1. IsFiniteSet(Versions)
  BY FS_Interval DEF RetentionAssumption, Versions
<1>2. IsFiniteSet({w \in S : Older(v, w)})
  BY <1>1, FS_Subset
<1> QED
  BY <1>2, FS_CardinalityType DEF Rank

\* A newer version has fewer that are newer.
LEMMA RankFalls ==
    ASSUME RetentionAssumption, RetentionTypeOK,
           NEW S \in SUBSET Versions, \A u \in S : made[u] # None,
           NEW v \in S, NEW w \in S, Older(v, w)
    PROVE  Rank(w, S) < Rank(v, S)
<1> DEFINE Newer(u) == {x \in S : Older(u, x)}
<1>1. \A u \in S : u \in Nat /\ made[u].day \in Nat
  <2> TAKE u \in S
  <2>1. u \in Versions /\ u \in Nat
    BY DEF Versions
  <2>2. made[u] \in Made
    BY <2>1 DEF RetentionTypeOK
  <2> QED
    BY <2>1, <2>2 DEF RetentionAssumption, Made
<1>2. Newer(w) \subseteq Newer(v)
  BY <1>1 DEF Older
<1>3. w \in Newer(v) /\ w \notin Newer(w)
  BY <1>1 DEF Older
<1>4. IsFiniteSet(Newer(v))
  <2>1. IsFiniteSet(Versions)
    BY FS_Interval DEF RetentionAssumption, Versions
  <2> QED
    BY <2>1, FS_Subset
<1>5. Cardinality(Newer(w)) < Cardinality(Newer(v))
  BY <1>2, <1>3, <1>4, FS_Subset, FS_CardinalityType
<1> QED
  BY <1>5 DEF Rank

\* Where there is a version, one is protected.
LEMMA FloorSpares ==
    ASSUME RetentionAssumption, RetentionTypeOK,
           NEW S \in SUBSET Versions, S # {}, \A u \in S : made[u] # None,
           NEW p, p.min \in Nat \ {0}
    PROVE  Protected(S, p) # {}
<1> DEFINE Ranks == {Rank(v, S) : v \in S}
<1>1. Ranks \subseteq Nat /\ Ranks # {}
  BY RankType
<1>2. PICK a \in Ranks : \A b \in Ranks : ~ (<<b, a>> \in OpToRel(<, Nat))
  <2> HIDE DEF Ranks
  <2> QED
    BY <1>1, NatLessThanWellFounded, WFMin, Zenon
<1>3. \A b \in Ranks : ~ (b < a)
  BY <1>1, <1>2 DEF OpToRel
<1>4. PICK v \in S : a = Rank(v, S)
  OBVIOUS
<1>5. {w \in S : Older(v, w)} = {}
  BY <1>3, <1>4, RankFalls
<1>6. Rank(v, S) = 0
  BY <1>5, FS_EmptySet DEF Rank
<1> QED
  BY <1>6 DEF Protected

-----------------------------------------------------------------------------
(* What a plan spares *)

\* Neither thinning nor the size target takes what the floor of a history
\* protects.
LEMMA LimitsSpare ==
    ASSUME NEW groups, NEW p, NEW candidates, NEW v \in SizeLimited(groups, p, candidates)
    PROVE  \/ v \in candidates
           \/ \E S \in groups : v \in S /\ \A R \in groups : v \notin Protected(R, p)
BY DEF SizeLimited

LEMMA ThinningSpares ==
    ASSUME NEW S, NEW p, NEW age, NEW v \in Candidates(S, p, age)
    PROVE  v \in S /\ v \notin Protected(S, p)
BY DEF Candidates

LEMMA DoomedActiveSpares ==
    ASSUME NEW E \in SUBSET Keys, NEW v \in DoomedActive(E)
    PROVE  \E k \in E : /\ v \in active[k]
                        /\ v \notin Protected(active[k], task.active)
<1> DEFINE groups == {active[k] : k \in E} \ {{}}
<1> DEFINE thinned == UNION {Candidates(S, task.active, None) : S \in groups}
<1>1. v \in SizeLimited(groups, task.active, thinned)
  BY DEF DoomedActive
<1>2. CASE v \in thinned
  BY <1>2, ThinningSpares
<1>3. CASE \E S \in groups : v \in S /\ \A R \in groups : v \notin Protected(R, task.active)
  BY <1>3
<1> QED
  <2> HIDE DEF groups, thinned
  <2> QED
    BY <1>1, <1>2, <1>3, LimitsSpare

LEMMA DoomedDeletedSpares ==
    ASSUME NEW E \in SUBSET Keys, NEW v \in DoomedDeleted(E)
    PROVE  \E k \in E : \E g \in gens[k] :
               /\ v \in g.versions /\ ~ Purgeable(g)
               /\ v \notin Protected(g.versions, task.deleted)
<1> DEFINE old == {g \in Generations(E) : Thinnable(g)}
<1> DEFINE groups == {g.versions : g \in old}
<1> DEFINE thinned == UNION {Candidates(g.versions, task.deleted, Since(g.at)) : g \in old}
<1>1. v \in SizeLimited(groups, task.deleted, thinned)
  BY DEF DoomedDeleted
<1>2. \A g \in old : ~ Purgeable(g) /\ \E k \in E : g \in gens[k]
  BY DEF Thinnable, Generations
<1>3. CASE v \in thinned
  <2>1. PICK g \in old : v \in Candidates(g.versions, task.deleted, Since(g.at))
    BY <1>3
  <2> QED
    BY <1>2, <2>1, ThinningSpares
<1>4. CASE \E S \in groups : v \in S /\ \A R \in groups : v \notin Protected(R, task.deleted)
  <2>1. PICK g \in old : v \in g.versions /\ v \notin Protected(g.versions, task.deleted)
    BY <1>4
  <2> QED
    BY <1>2, <2>1
<1> QED
  <2> HIDE DEF groups, thinned, old
  <2> QED
    BY <1>1, <1>3, <1>4, LimitsSpare

\* What is doomed is in a history, where it is not protected, or in a generation
\* that is purged.
LEMMA DoomedFrom ==
    ASSUME NEW E \in SUBSET Keys, NEW v \in Doomed(E)
    PROVE  \E k \in E :
               \/ v \in active[k] /\ v \notin Protected(active[k], task.active)
               \/ \E g \in gens[k] :
                     /\ v \in g.versions
                     /\ Purgeable(g) \/ v \notin Protected(g.versions, task.deleted)
<1>1. CASE v \in DoomedActive(E)
  BY <1>1, DoomedActiveSpares
<1>2. CASE v \in DoomedDeleted(E)
  BY <1>2, DoomedDeletedSpares
<1>3. CASE v \in UNION {g.versions : g \in {h \in Generations(E) : Purgeable(h)}}
  BY <1>3 DEF Generations
<1> QED
  BY <1>1, <1>2, <1>3 DEF Doomed

LEMMA PlanSpares ==
    ASSUME RetentionAssumption, RetentionTypeOK, Sound(Here), NEW E \in SUBSET Keys
    PROVE  Doomed(E) \subseteq Versions /\ Spares(Here, Doomed(E))
<1>1. \A v \in Doomed(E) : \E k \in E : v \in Held(Here, k)
  BY DoomedFrom DEF Held, Here
<1>2. \A k \in Keys : Held(Here, k) \subseteq Versions
  BY DEF RetentionTypeOK, Generation, Held, Here
<1>3. \A k, j \in Keys : \A v : v \in Held(Here, k) /\ v \in Held(Here, j) => k = j
  BY DEF Sound
<1>4. ASSUME NEW k \in Keys, NEW v \in Protected(active[k], task.active) PROVE v \notin Doomed(E)
  <2>1. v \in active[k] /\ v \in Held(Here, k)
    BY <1>4 DEF Protected, Held, Here
  <2>2. \A g \in gens[k] : v \notin g.versions
    BY <2>1 DEF Sound, Here
  <2>3. \A j \in E : v \in active[j] \/ (\E g \in gens[j] : v \in g.versions) => j = k
    BY <1>3, <2>1 DEF Held, Here
  <2> QED
    BY <1>4, <2>2, <2>3, DoomedFrom
<1>5. ASSUME NEW k \in Keys, NEW g \in gens[k], ~ Purgeable(g),
             NEW v \in Protected(g.versions, task.deleted)
      PROVE  v \notin Doomed(E)
  <2>1. v \in g.versions /\ v \in Held(Here, k)
    BY <1>5 DEF Protected, Held, Here
  <2>2. v \notin active[k] /\ \A h \in gens[k] : v \in h.versions => h = g
    BY <2>1 DEF Sound, Here
  <2>3. \A j \in E : v \in active[j] \/ (\E h \in gens[j] : v \in h.versions) => j = k
    BY <1>3, <2>1 DEF Held, Here
  <2> QED
    BY <1>5, <2>2, <2>3, DoomedFrom
<1>6. ASSUME NEW k \in Keys, NEW g \in gens[k], Purgeable(g), Held(Here, k) \cap Doomed(E) # {}
      PROVE  g.versions \subseteq Doomed(E)
  <2>1. k \in E
    BY <1>1, <1>3, <1>6
  <2> QED
    BY <1>6, <2>1 DEF Doomed, Generations
<1>7. Here.active = active /\ Here.gens = gens
  BY DEF Here
<1> QED
  BY <1>1, <1>2, <1>4, <1>5, <1>6, <1>7 DEF Spares

-----------------------------------------------------------------------------
(* What a step that stores nothing and keeps the clock leaves as it was *)

LEMMA SparesStay ==
    ASSUME UNCHANGED <<task, now, made>>, Spares(base', doomed')
    PROVE  Spares(base, doomed)'
BY DEF Spares, Protected, Rank, Older, Purgeable, Since, Held

LEMMA SoundStays ==
    ASSUME UNCHANGED made, Sound(base')
    PROVE  Sound(base)'
BY DEF Sound, Held

LEMMA HereStays ==
    ASSUME UNCHANGED <<made, active, gens>>, Sound(Here)
    PROVE  Sound(Here)'
BY DEF Sound, Held, Here

LEMMA StepsStay ==
    ASSUME UNCHANGED <<task, now, active, gens, base, doomed, bad>>, NEW k \in Keys,
           Same(k) \/ Cut(k), Tracked(k) \cap disk \subseteq disk'
    PROVE  (Same(k) \/ Cut(k))'
BY DEF Same, Cut, Tracked, Thin, Purgeable, Since, Intact

-----------------------------------------------------------------------------
(* One lemma for each action between runs *)

LEMMA RetentionStarts == ASSUME RetentionAssumption, RetentionInit PROVE RetentionInv
<1>1. RetentionTypeOK
  <2>1. faults \in 0..MaxFaults
    BY DEF RetentionInit, RetentionAssumption
  <2> QED
    BY <2>1 DEF RetentionInit, RetentionTypeOK
<1>2. OwnInv /\ FileInv
  BY DEF RetentionInit, OwnInv, FileInv, Sound, Held, FilesIn, Here,
     RetentionAssumption, Versions
<1> QED
  BY <1>1, <1>2 DEF RetentionInit, RetentionInv, BaseInv, DoomInv, StepInv, CheckedInv

LEMMA TickKeepsBooks ==
    ASSUME RetentionAssumption, RetentionInv, NEW day \in Days, Tick(day)
    PROVE  RetentionInv'
<1> USE DEF RetentionInv, Tick, records, plan
<1>1. RetentionTypeOK'
  BY DEF RetentionTypeOK
<1>2. OwnInv' /\ FileInv'
  BY HereStays DEF OwnInv, FileInv, FilesIn, Held, Here
<1> QED
  BY <1>1, <1>2 DEF BaseInv, DoomInv, StepInv, CheckedInv

\* The number a new version gets is that of no version before.
LEMMA NextVersion ==
    ASSUME RetentionAssumption, NEW n \in 0..MaxVersions,
           \A v \in Versions : made[v] # None <=> v <= n
    PROVE  Cardinality({w \in Versions : made[w] # None}) = n
<1>1. {w \in Versions : made[w] # None} = 1..n
  BY DEF Versions, RetentionAssumption
<1>2. n \in Nat /\ 1 \in Int /\ n \in Int
  OBVIOUS
<1>3. Cardinality(1..n) = IF 1 > n THEN 0 ELSE n - 1 + 1
  BY <1>2, FS_Interval
<1>4. (IF 1 > n THEN 0 ELSE n - 1 + 1) = n
  BY <1>2
<1> QED
  BY <1>1, <1>3, <1>4

LEMMA StoreKeepsBooks ==
    ASSUME RetentionAssumption, RetentionInv, NEW k \in Keys, Store(k)
    PROVE  RetentionInv'
<1> USE DEF RetentionInv, plan
<1>1. PICK n \in 0..MaxVersions : \A v \in Versions : made[v] # None <=> v <= n
  BY DEF OwnInv
<1> DEFINE v == n + 1
<1> DEFINE entry == [key |-> k, day |-> now, life |-> life[k]]
<1>2. /\ pc = "idle" /\ v \in Versions
      /\ made' = [made EXCEPT ![v] = entry]
      /\ active' = [active EXCEPT ![k] = @ \cup {v}]
      /\ disk' = disk \cup {v}
      /\ UNCHANGED <<task, now, life, gens, bad, pc, plan, base, faults>>
  <2>1. 1 + Cardinality({w \in Versions : made[w] # None}) = v
    BY <1>1, NextVersion
  <2> QED
    BY <2>1 DEF Store
<1> HIDE DEF v
<1>3. entry \in Made /\ entry # None
  BY DEF RetentionTypeOK, Made, RetentionAssumption
<1>4. made[v] = None
  BY <1>1, <1>2 DEF v, Versions
<1>5. RetentionTypeOK'
  BY <1>2, <1>3 DEF RetentionTypeOK
<1>6. OwnInv'
  <2>1. \E m \in 0..MaxVersions : \A w \in Versions : made'[w] # None <=> w <= m
    <3>1. v \in 0..MaxVersions
      BY <1>2 DEF Versions
    <3>2. \A w \in Versions : made'[w] # None <=> w <= v
      BY <1>1, <1>2, <1>3 DEF v, Versions, RetentionTypeOK
    <3> QED
      BY <3>1, <3>2
  <2>2. \A j \in Keys : v \notin Held(Here, j)
    BY <1>4 DEF OwnInv, Sound
  <2>3. Sound(Here)'
    BY <1>2, <1>3, <2>2 DEF OwnInv, Sound, Held, Here, RetentionTypeOK
  <2> QED
    BY <2>1, <2>3 DEF OwnInv
<1>7. FileInv'
  BY <1>2 DEF FileInv, FilesIn, Held, Here, RetentionTypeOK
<1> QED
  BY <1>2, <1>5, <1>6, <1>7 DEF BaseInv, DoomInv, StepInv, CheckedInv

LEMMA MarkDeletedKeepsBooks ==
    ASSUME RetentionAssumption, RetentionInv, NEW k \in Keys, MarkDeleted(k)
    PROVE  RetentionInv'
<1> USE DEF RetentionInv, plan
<1> DEFINE g == [at |-> now, versions |-> active[k]]
<1>1. /\ pc = "idle" /\ active[k] # {}
      /\ gens' = [gens EXCEPT ![k] = @ \cup {g}]
      /\ active' = [active EXCEPT ![k] = {}]
      /\ life' = [life EXCEPT ![k] = @ + 1]
      /\ UNCHANGED <<task, now, made, disk, bad, pc, plan, base, faults>>
  BY DEF MarkDeleted
<1>2. g \in Generation /\ g.versions = active[k]
  BY <1>1 DEF RetentionTypeOK, Generation
<1> HIDE DEF g
<1>3. RetentionTypeOK'
  BY <1>1, <1>2 DEF RetentionTypeOK
<1>4. \A j \in Keys : Held(Here, j)' = Held(Here, j)
  BY <1>1, <1>2 DEF Held, Here, RetentionTypeOK
<1>5. OwnInv'
  <2>1. ASSUME NEW j \in Keys
        PROVE  /\ \A v \in Held(Here, j) : made[v] # None /\ made[v].key = j
               /\ \A h \in gens'[j] :
                     /\ active'[j] \cap h.versions = {}
                     /\ \A i \in gens'[j] : h # i => h.versions \cap i.versions = {}
    <3>1. CASE j = k
      <4>1. gens'[j] = gens[j] \cup {g} /\ active'[j] = {}
        BY <1>1, <3>1 DEF RetentionTypeOK
      <4>2. \A h \in gens[j] : g.versions \cap h.versions = {}
        BY <1>2, <3>1 DEF OwnInv, Sound, Here
      <4> QED
        BY <4>1, <4>2 DEF OwnInv, Sound, Here
    <3>2. CASE j # k
      <4>1. gens'[j] = gens[j] /\ active'[j] = active[j]
        BY <1>1, <3>2 DEF RetentionTypeOK
      <4> QED
        BY <4>1 DEF OwnInv, Sound, Here
    <3> QED
      BY <3>1, <3>2
  <2>2. Sound(Here)'
    BY <1>1, <1>4, <2>1, ZenonT(40) DEF Sound, Here
  <2> QED
    BY <1>1, <2>2 DEF OwnInv
<1>6. FileInv'
  BY <1>1, <1>4, ZenonT(40) DEF FileInv, FilesIn, Here
<1> QED
  BY <1>1, <1>3, <1>5, <1>6 DEF BaseInv, DoomInv, StepInv, CheckedInv

LEMMA DamageKeepsBooks ==
    ASSUME RetentionAssumption, RetentionInv, NEW v \in Versions, Damage(v)
    PROVE  RetentionInv'
<1> USE DEF RetentionInv, Damage, records, plan
<1>1. RetentionTypeOK'
  BY DEF RetentionTypeOK, RetentionAssumption
<1>2. OwnInv' /\ FileInv'
  BY HereStays DEF OwnInv, FileInv, FilesIn, Held, Here
<1> QED
  BY <1>1, <1>2 DEF BaseInv, DoomInv, StepInv, CheckedInv

-----------------------------------------------------------------------------
(* One lemma for each action of a run *)

\* Thinning takes the doomed versions out of a generation and nothing else.
LEMMA ThinIs ==
    ASSUME NEW g \in Generation
    PROVE  Thin(g) = [at |-> g.at, versions |-> g.versions \ doomed]
BY DEF Thin, Generation

\* What a scope touches has not been cut yet.
LEMMA TouchedIsSame ==
    ASSUME RetentionInv, pc # "idle", NEW k \in Affected(doomed)
    PROVE  Same(k)
<1>1. k \in Keys /\ Tracked(k) \cap doomed # {}
  BY DEF Affected
<1>2. CASE Cut(k)
  <2>1. \A g \in gens[k] : g.versions \cap doomed = {}
    <3>1. base.gens[k] \subseteq Generation
      BY <1>1 DEF RetentionInv, RetentionTypeOK, Archives
    <3> QED
      BY <1>2, <3>1, ThinIs DEF Cut
  <2> QED
    BY <1>1, <1>2, <2>1 DEF Cut, Tracked
<1> QED
  BY <1>1, <1>2 DEF RetentionInv, StepInv

LEMMA PlanRetentionKeepsBooks ==
    ASSUME RetentionAssumption, RetentionInv, NEW complete \in SUBSET Scopes, PlanRetention(complete)
    PROVE  RetentionInv'
<1> USE DEF RetentionInv, records
<1>1. /\ base' = Here /\ doomed' = Doomed(KeysIn(complete)) /\ pc = "idle" /\ pc' = "apply"
      /\ UNCHANGED <<task, now, made, active, gens, disk, bad>>
  BY DEF PlanRetention, Here
<1>2. Doomed(KeysIn(complete)) \subseteq Versions /\ Spares(Here, Doomed(KeysIn(complete)))
  BY PlanSpares DEF OwnInv, KeysIn
<1>3. base' \in Archives
  BY <1>1 DEF RetentionTypeOK, Here, Archives
<1>4. gone = {} /\ disk = FilesIn(Here)
  BY <1>1 DEF FileInv
<1>5. left' \subseteq Scopes
  BY DEF PlanRetention, RetentionTypeOK, RetentionAssumption, Affected
<1>6. RetentionTypeOK'
  BY <1>1, <1>2, <1>3, <1>4, <1>5 DEF PlanRetention, RetentionTypeOK
<1>7. OwnInv'
  BY <1>1, HereStays DEF OwnInv
<1>8. FileInv'
  BY <1>1, <1>4 DEF PlanRetention, FileInv, FilesIn, Held, Here
<1>9. BaseInv'
  <2>1. Sound(base)'
    BY <1>1, SoundStays DEF OwnInv
  <2>2. base'.disk = disk
    BY <1>1 DEF Here
  <2>3. FilesIn(base)' = FilesIn(Here)
    BY <1>1 DEF FilesIn, Held, Here
  <2> QED
    BY <1>4, <2>1, <2>2, <2>3 DEF BaseInv
<1>10. DoomInv'
  BY <1>1, <1>2, SparesStay DEF DoomInv
<1>11. StepInv'
  BY <1>1 DEF StepInv, Same, Here
<1> QED
  BY <1>1, <1>6, <1>7, <1>8, <1>9, <1>10, <1>11 DEF CheckedInv

LEMMA BeginScopeKeepsBooks ==
    ASSUME RetentionAssumption, RetentionInv, NEW s \in Scopes, BeginScope(s)
    PROVE  RetentionInv'
<1> USE DEF RetentionInv, BeginScope, records
<1>1. RetentionTypeOK'
  BY DEF RetentionTypeOK
<1>2. OwnInv'
  BY HereStays DEF OwnInv
<1>3. FileInv'
  BY DEF FileInv, FilesIn, Held, Here, KeysIn, Tracked
<1>4. BaseInv' /\ DoomInv'
  BY SparesStay, SoundStays DEF BaseInv, DoomInv, FilesIn, Held
<1>5. StepInv'
  BY StepsStay DEF StepInv
<1>6. CheckedInv'
  BY DEF CheckedInv, Validated, Affected, KeysIn, Tracked, Intact
<1> QED
  BY <1>1, <1>2, <1>3, <1>4, <1>5, <1>6

LEMMA PreserveScopeKeepsBooks ==
    ASSUME RetentionAssumption, RetentionInv, NEW s \in Scopes, PreserveScope(s)
    PROVE  RetentionInv'
<1> USE DEF RetentionInv, PreserveScope, records
<1>1. RetentionTypeOK'
  BY DEF RetentionTypeOK
<1>2. OwnInv'
  BY HereStays DEF OwnInv
<1>3. FileInv'
  BY DEF FileInv, FilesIn, Held, Here
<1>4. BaseInv' /\ DoomInv'
  BY SparesStay, SoundStays DEF BaseInv, DoomInv, FilesIn, Held
<1>5. StepInv'
  BY StepsStay DEF StepInv
<1> QED
  BY <1>1, <1>2, <1>3, <1>4, <1>5 DEF CheckedInv

LEMMA RemoveFileKeepsBooks ==
    ASSUME RetentionAssumption, RetentionInv, NEW v \in Versions, RemoveFile(v)
    PROVE  RetentionInv'
<1> USE DEF RetentionInv, RemoveFile
<1>1. v \in doomed /\ v \in UNION {Tracked(k) : k \in KeysIn({scope})}
  BY DEF Todo
<1>2. RetentionTypeOK'
  BY <1>1 DEF RetentionTypeOK
<1>3. OwnInv'
  BY HereStays DEF OwnInv
<1>4. FileInv'
  BY <1>1 DEF FileInv, FilesIn, Held, Here, KeysIn, Tracked
<1>5. BaseInv' /\ DoomInv'
  BY SparesStay, SoundStays DEF BaseInv, DoomInv, FilesIn, Held
<1>6. StepInv'
  <2> SUFFICES ASSUME NEW k \in Keys PROVE (Same(k) \/ Cut(k))'
    BY DEF StepInv
  <2>1. CASE Same(k)
    BY <2>1 DEF Same
  <2>2. CASE Cut(k)
    <3>1. k \notin Affected(doomed) \/ Same(k)
      BY TouchedIsSame
    <3>2. CASE k \notin Affected(doomed)
      <4>1. v \notin Tracked(k)
        BY <1>1, <3>2 DEF Affected
      <4> QED
        BY <2>2, <4>1 DEF Cut, Tracked, Thin, Purgeable, Since, Intact
    <3> QED
      BY <2>1, <3>1, <3>2 DEF Same
  <2> QED
    BY <2>1, <2>2 DEF StepInv
<1>7. CheckedInv'
  BY <1>1 DEF CheckedInv, Validated, Affected, KeysIn, Tracked, Intact
<1> QED
  BY <1>2, <1>3, <1>4, <1>5, <1>6, <1>7

\* What the records of a key become when its scope is ended.
LEMMA EndScopeCuts ==
    ASSUME RetentionAssumption, RetentionInv, EndScope, NEW k \in Keys,
           k \in KeysIn({scope}) \cap Affected(doomed)
    PROVE  /\ active'[k] = active[k] \ doomed
           /\ gens'[k] = {Thin(g) : g \in {h \in gens[k] : ~ Purgeable(h)}}
           /\ gens'[k] \subseteq Generation
           /\ Held(Here, k)' = Held(Here, k) \ doomed
           /\ Cut(k)'
<1> USE DEF RetentionInv, EndScope
<1>1. pc = "remove" /\ scope \in Scopes
  BY DEF CheckedInv
<1>2. /\ active'[k] = active[k] \ doomed
      /\ gens'[k] = {Thin(g) : g \in {h \in gens[k] : ~ Purgeable(h)}}
  OBVIOUS
<1>3. active[k] = base.active[k] /\ gens[k] = base.gens[k] /\ gens[k] \subseteq Generation
  BY <1>1, TouchedIsSame DEF Same, RetentionTypeOK
<1>4. \A g \in gens[k] : Purgeable(g) => g.versions \subseteq doomed
  <2>1. Held(base, k) \cap doomed # {}
    BY <1>3 DEF Held, Affected, Tracked
  <2> QED
    BY <1>1, <1>3, <2>1 DEF DoomInv, Spares
<1>5. \A g \in gens[k] : ~ Purgeable(g) => g.versions \ doomed # {}
  <2> SUFFICES ASSUME NEW g \in gens[k], ~ Purgeable(g) PROVE g.versions \ doomed # {}
    OBVIOUS
  <2>1. g.versions \in SUBSET Versions /\ g.versions # {}
    BY <1>3 DEF Generation
  <2>2. \A v \in g.versions : made[v] # None
    BY DEF OwnInv, Sound, Held, Here
  <2>3. Protected(g.versions, task.deleted) # {}
    BY <2>1, <2>2, FloorSpares, FloorPositive
  <2>4. Protected(g.versions, task.deleted) \cap doomed = {}
    BY <1>1, <1>3 DEF DoomInv, Spares
  <2> QED
    BY <2>3, <2>4 DEF Protected
<1>6. \A g \in gens[k] : /\ Thin(g).versions = g.versions \ doomed
                         /\ Thin(g) = [at |-> g.at, versions |-> g.versions \ doomed]
  BY <1>3, ThinIs
<1>7. gens'[k] \subseteq Generation
  BY <1>2, <1>3, <1>5, <1>6 DEF Generation
<1>8. Held(Here, k)' = Held(Here, k) \ doomed
  BY <1>2, <1>4, <1>6 DEF Held, Here
<1>9. Cut(k)'
  <2>1. \A v \in Tracked(k) \ doomed : Intact(v)
    BY <1>1 DEF CheckedInv, Validated
  <2>2. Tracked(k)' = Tracked(k) \ doomed
    BY <1>8 DEF Held, Here, Tracked
  <2>3. \A v \in Tracked(k)' : Intact(v)'
    BY <2>1, <2>2 DEF Intact
  <2> QED
    BY <1>2, <1>3, <2>3 DEF Cut, Thin, Purgeable, Since
<1> QED
  BY <1>2, <1>7, <1>8, <1>9

LEMMA EndScopeKeepsBooks ==
    ASSUME RetentionAssumption, RetentionInv, EndScope
    PROVE  RetentionInv'
<1> USE DEF RetentionInv
<1> DEFINE ended == KeysIn({scope}) \cap Affected(doomed)
<1>1. /\ pc = "remove" /\ pc' = "apply" /\ gone' = {} /\ scope' = None
      /\ UNCHANGED <<task, now, made, life, disk, bad, eligible, doomed, left, failed, base, faults>>
      /\ active' = [k \in Keys |-> IF k \in ended THEN active[k] \ doomed ELSE active[k]]
      /\ DOMAIN gens' = Keys
      /\ gens' = [k \in Keys |-> gens'[k]]
      /\ \A k \in Keys \ ended : active'[k] = active[k] /\ gens'[k] = gens[k]
      /\ ended \subseteq Keys
  BY DEF EndScope, KeysIn
<1>2. \A k \in ended : /\ active'[k] = active[k] \ doomed
                      /\ gens'[k] = {Thin(g) : g \in {h \in gens[k] : ~ Purgeable(h)}}
                      /\ gens'[k] \subseteq Generation
                      /\ Held(Here, k)' = Held(Here, k) \ doomed
                      /\ Cut(k)'
  BY <1>1, EndScopeCuts
<1> HIDE DEF ended
<1>3. RetentionTypeOK'
  <2>1. gens' \in [Keys -> SUBSET Generation]
    BY <1>1, <1>2 DEF RetentionTypeOK
  <2>2. active' \in [Keys -> SUBSET Versions]
    BY <1>1 DEF RetentionTypeOK
  <2> QED
    BY <1>1, <2>1, <2>2 DEF RetentionTypeOK
<1>4. \A k \in Keys \ ended : Held(Here, k)' = Held(Here, k)
  BY <1>1 DEF Held, Here
<1>5. OwnInv'
  <2>1. \A k \in Keys \ ended : \A v \in Held(Here, k)' : made'[v] # None /\ made'[v].key = k
    BY <1>1, <1>4 DEF OwnInv, Sound
  <2>2. \A k \in ended : \A v \in Held(Here, k)' : made'[v] # None /\ made'[v].key = k
    BY <1>1, <1>2 DEF OwnInv, Sound
  <2>3. ASSUME NEW k \in Keys
        PROVE  \A g \in gens'[k] : /\ active'[k] \cap g.versions = {}
                                   /\ \A h \in gens'[k] : g # h => g.versions \cap h.versions = {}
    <3>1. CASE k \in ended
      <4>1. \A g \in gens[k] : Thin(g).versions \subseteq g.versions
        BY ThinIs DEF RetentionTypeOK
      <4> QED
        BY <1>2, <3>1, <4>1 DEF OwnInv, Sound, Here
    <3>2. CASE k \notin ended
      BY <1>1, <3>2 DEF OwnInv, Sound, Here
    <3> QED
      BY <3>1, <3>2
  <2>4. Sound(Here)'
    BY <2>1, <2>2, <2>3 DEF Sound, Here
  <2> QED
    BY <1>1, <2>4 DEF OwnInv
<1>6. FileInv'
  <2>1. gone = (UNION {Tracked(k) : k \in KeysIn({scope})}) \cap doomed
    BY <1>1 DEF EndScope, Todo, FileInv
  <2>2. \A k \in Keys : Tracked(k) = Held(Here, k)
    BY DEF Tracked, Held, Here
  <2>3. gone \subseteq doomed /\ \A v \in gone : \A k \in Keys : v \in Held(Here, k) => k \in ended
    BY <2>1, <2>2 DEF OwnInv, Sound, KeysIn, Affected, ended
  <2>4. \A k \in ended : Held(Here, k) \cap doomed \subseteq gone
    BY <2>1, <2>2 DEF ended
  <2>5. disk = FilesIn(Here) \ gone
    BY DEF FileInv
  <2>6. FilesIn(Here)' = FilesIn(Here) \ gone
    <3>1. \A k \in Keys : Held(Here, k)' = Held(Here, k) \ gone
      BY <1>2, <1>4, <2>3, <2>4
    <3> QED
      BY <3>1 DEF FilesIn
  <2> QED
    BY <1>1, <2>5, <2>6 DEF FileInv
<1>7. BaseInv' /\ DoomInv'
  BY <1>1, SparesStay, SoundStays DEF BaseInv, DoomInv, FilesIn, Held
<1>8. StepInv'
  <2> SUFFICES ASSUME NEW k \in Keys PROVE (Same(k) \/ Cut(k))'
    BY DEF StepInv
  <2>1. CASE k \in ended
    BY <1>2, <2>1
  <2>2. CASE k \notin ended
    <3>1. Same(k) \/ Cut(k)
      BY <1>1 DEF StepInv
    <3> QED
      BY <1>1, <2>2, <3>1 DEF Same, Cut, Tracked, Thin, Purgeable, Since, Intact
  <2> QED
    BY <2>1, <2>2
<1> QED
  BY <1>1, <1>3, <1>5, <1>6, <1>7, <1>8 DEF CheckedInv

LEMMA RollBackScopeKeepsBooks ==
    ASSUME RetentionAssumption, RetentionInv, RollBackScope
    PROVE  RetentionInv'
<1> USE DEF RetentionInv, RollBackScope
<1>1. RetentionTypeOK'
  BY DEF RetentionTypeOK, RetentionAssumption
<1>2. OwnInv'
  BY HereStays DEF OwnInv
<1>3. FileInv'
  BY DEF FileInv, FilesIn, Held, Here, KeysIn, Tracked
<1>4. BaseInv' /\ DoomInv'
  BY SparesStay, SoundStays DEF BaseInv, DoomInv, FilesIn, Held
<1>5. StepInv'
  BY StepsStay DEF StepInv
<1> QED
  BY <1>1, <1>2, <1>3, <1>4, <1>5 DEF CheckedInv

LEMMA RestartKeepsBooks ==
    ASSUME RetentionAssumption, RetentionInv, pc # "idle", Restart, faults' \in 0..MaxFaults
    PROVE  RetentionInv'
<1> USE DEF RetentionInv, Restart
<1>1. RetentionTypeOK'
  BY DEF RetentionTypeOK, Archives
<1>2. OwnInv' /\ FileInv'
  <2>1. \A k \in Keys : Held(Here, k)' = Held(base, k)
    BY DEF Held, Here
  <2>2. FilesIn(Here)' = FilesIn(base)
    BY <2>1 DEF FilesIn
  <2>3. Sound(Here)'
    BY <2>1 DEF BaseInv, Sound, Here
  <2> QED
    BY <2>2, <2>3 DEF BaseInv, OwnInv, FileInv
<1> QED
  BY <1>1, <1>2 DEF BaseInv, DoomInv, StepInv, CheckedInv

LEMMA FinishKeepsBooks ==
    ASSUME RetentionAssumption, RetentionInv, Finish
    PROVE  RetentionInv'
<1> USE DEF RetentionInv, Finish, records
<1>1. RetentionTypeOK'
  BY DEF RetentionTypeOK, FileInv
<1>2. OwnInv' /\ FileInv'
  BY HereStays DEF OwnInv, FileInv, FilesIn, Held, Here
<1> QED
  BY <1>1, <1>2 DEF BaseInv, DoomInv, StepInv, CheckedInv

\* An undo that fails and a death leave the run to the next start.
LEMMA EndsWithRestart ==
    ASSUME RetentionAssumption, RetentionInv, UndoFails \/ Crash
    PROVE  pc # "idle" /\ Restart /\ faults' \in 0..MaxFaults
BY DEF RetentionInv, RetentionTypeOK, UndoFails, Crash, RetentionAssumption

-----------------------------------------------------------------------------
(* What holds of every state and every step *)

\* Each action preserves the invariant.
LEMMA RetentionSteps ==
    ASSUME RetentionAssumption, RetentionInv, [RetentionNext]_kvars PROVE RetentionInv'
<1>1. ASSUME NEW day \in Days, Tick(day) PROVE RetentionInv'
  BY <1>1, TickKeepsBooks
<1>2. ASSUME NEW k \in Keys, Store(k) PROVE RetentionInv'
  BY <1>2, StoreKeepsBooks
<1>3. ASSUME NEW k \in Keys, MarkDeleted(k) PROVE RetentionInv'
  BY <1>3, MarkDeletedKeepsBooks
<1>4. ASSUME NEW v \in Versions, Damage(v) PROVE RetentionInv'
  BY <1>4, DamageKeepsBooks
<1>5. ASSUME NEW complete \in SUBSET Scopes, PlanRetention(complete) PROVE RetentionInv'
  BY <1>5, PlanRetentionKeepsBooks
<1>6. ASSUME NEW s \in Scopes, BeginScope(s) PROVE RetentionInv'
  BY <1>6, BeginScopeKeepsBooks
<1>7. ASSUME NEW s \in Scopes, PreserveScope(s) PROVE RetentionInv'
  BY <1>7, PreserveScopeKeepsBooks
<1>8. ASSUME NEW v \in Versions, RemoveFile(v) PROVE RetentionInv'
  BY <1>8, RemoveFileKeepsBooks
<1>9. CASE EndScope
  BY <1>9, EndScopeKeepsBooks
<1>10. CASE RollBackScope
  BY <1>10, RollBackScopeKeepsBooks
<1>11. CASE UndoFails \/ Crash
  BY <1>11, EndsWithRestart, RestartKeepsBooks
<1>12. CASE Finish
  BY <1>12, FinishKeepsBooks
<1>13. CASE UNCHANGED kvars
  <2> USE <1>13 DEF kvars, records, plan, RetentionInv
  <2>1. RetentionTypeOK'
    BY DEF RetentionTypeOK
  <2>2. OwnInv' /\ FileInv' /\ BaseInv'
    BY DEF OwnInv, FileInv, BaseInv, Sound, Held, FilesIn, Here, Tracked, KeysIn
  <2>3. DoomInv'
    BY DEF DoomInv, Spares, Protected, Rank, Older, Purgeable, Since, Held
  <2>4. StepInv'
    BY DEF StepInv, Same, Cut, Thin, Purgeable, Since, Tracked, Intact
  <2>5. CheckedInv'
    BY DEF CheckedInv, Validated, Affected, Tracked, KeysIn, Intact
  <2> QED
    BY <2>1, <2>2, <2>3, <2>4, <2>5
<1> QED
  BY <1>1, <1>2, <1>3, <1>4, <1>5, <1>6, <1>7, <1>8, <1>9, <1>10, <1>11, <1>12, <1>13
  DEF RetentionNext

\* Between runs the records of a task name exactly the files it has.
LEMMA RetentionHolds == RetentionInv => RetentionTypeOK /\ StateMatchesArchive
BY DEF RetentionInv, FileInv, FilesIn, Held, Here, Tracked, StateMatchesArchive

\* Only the end of a run takes the program back to "idle".
LEMMA RunEnds ==
    ASSUME RetentionAssumption, RetentionInv, [RetentionNext]_kvars, pc # "idle", pc' = "idle"
    PROVE  Restart \/ Finish
BY EndsWithRestart
DEF RetentionNext, Tick, Store, MarkDeleted, Damage, PlanRetention, BeginScope,
       PreserveScope, RemoveFile, EndScope, RollBackScope, kvars, plan

\* What a run that comes to its end leaves of each key.
LEMMA FinishLeaves ==
    ASSUME RetentionAssumption, RetentionInv, Finish, NEW k \in Keys
    PROVE  /\ disk' = disk /\ active' = active /\ gens' = gens
           /\ Tracked(k) \subseteq disk
           /\ Same(k) \/ Cut(k)
BY DEF RetentionInv, Finish, records, FileInv, StepInv, FilesIn, Held, Here, Tracked

\* The floor of every history of a plan spares something of it.
LEMMA BaseFloors ==
    ASSUME RetentionAssumption, RetentionInv, pc # "idle", NEW k \in Keys
    PROVE  /\ base.active[k] # {} => base.active[k] \ doomed # {}
           /\ \A g \in base.gens[k] : g \in Generation /\ (Purgeable(g) \/ g.versions \ doomed # {})
<1> USE DEF RetentionInv
<1>1. base.active[k] \in SUBSET Versions /\ base.gens[k] \in SUBSET Generation
  BY DEF RetentionTypeOK, Archives
<1>2. \A v \in Held(base, k) : made[v] # None
  BY DEF BaseInv, Sound
<1>3. ASSUME base.active[k] # {} PROVE base.active[k] \ doomed # {}
  <2>1. Protected(base.active[k], task.active) # {}
    BY <1>1, <1>2, <1>3, FloorSpares, FloorPositive DEF Held
  <2> QED
    BY <2>1 DEF DoomInv, Spares, Protected
<1>4. ASSUME NEW g \in base.gens[k], ~ Purgeable(g) PROVE g.versions \ doomed # {}
  <2>1. g.versions \in SUBSET Versions /\ g.versions # {}
    BY <1>1 DEF Generation
  <2>2. \A v \in g.versions : made[v] # None
    BY <1>2 DEF Held
  <2>3. Protected(g.versions, task.deleted) # {}
    BY <2>1, <2>2, FloorSpares, FloorPositive
  <2>4. Protected(g.versions, task.deleted) \cap doomed = {}
    BY <1>4 DEF DoomInv, Spares
  <2> QED
    BY <2>3, <2>4 DEF Protected
<1> QED
  BY <1>1, <1>3, <1>4

\* No run takes the newest versions of a history below its floor, in the records
\* or on disk, however it ends; a purge of a whole generation is the exception.
LEMMA FloorsStay ==
    ASSUME RetentionAssumption, RetentionInv, [RetentionNext]_kvars PROVE FloorKept
<1> SUFFICES ASSUME pc # "idle", pc' = "idle", NEW k \in Keys
             PROVE  /\ Protected(base.active[k], task.active) \subseteq active'[k] \cap disk'
                    /\ \A g \in base.gens[k] :
                          \/ Purgeable(g)
                          \/ \E h \in gens'[k] :
                                Protected(g.versions, task.deleted) \subseteq h.versions \cap disk'
  BY DEF FloorKept
<1> DEFINE Guarded(S, p) == Protected(S, p)
<1>1. \A S, p : Guarded(S, p) \subseteq S
  BY DEF Protected
<1>2. /\ Guarded(base.active[k], task.active) \cap doomed = {}
      /\ \A g \in base.gens[k] : Purgeable(g) \/ Guarded(g.versions, task.deleted) \cap doomed = {}
  BY DEF RetentionInv, DoomInv, Spares
<1>3. CASE Restart
  <2>1. Held(base, k) \subseteq disk'
    BY <1>3 DEF Restart, RetentionInv, BaseInv, FilesIn
  <2> HIDE DEF Guarded
  <2>2. Guarded(base.active[k], task.active) \subseteq active'[k] \cap disk'
    BY <1>1, <1>3, <2>1 DEF Restart, Held
  <2>3. \A g \in base.gens[k] : Guarded(g.versions, task.deleted) \subseteq g.versions \cap disk'
    BY <1>1, <2>1 DEF Held
  <2>4. gens'[k] = base.gens[k]
    BY <1>3 DEF Restart
  <2> QED
    BY <2>2, <2>3, <2>4 DEF Guarded
<1>4. CASE Finish
  <2>1. /\ active'[k] = active[k] /\ gens'[k] = gens[k] /\ disk' = disk
        /\ Tracked(k) \subseteq disk /\ (Same(k) \/ Cut(k))
    BY <1>4, FinishLeaves
  <2> HIDE DEF Guarded
  <2>2. Guarded(base.active[k], task.active) \subseteq active[k] \cap disk
    BY <1>1, <1>2, <2>1 DEF Same, Cut, Tracked
  <2>3. ASSUME NEW g \in base.gens[k], ~ Purgeable(g)
        PROVE  \E h \in gens[k] : Guarded(g.versions, task.deleted) \subseteq h.versions \cap disk
    <3>1. CASE Same(k)
      BY <1>1, <2>1, <3>1 DEF Same, Tracked
    <3>2. CASE Cut(k)
      <4>1. Thin(g) \in gens[k] /\ Thin(g).versions = g.versions \ doomed
        BY <2>3, <3>2, BaseFloors, ThinIs DEF Cut
      <4>2. Guarded(g.versions, task.deleted) \subseteq Thin(g).versions \cap disk
        BY <1>1, <1>2, <2>1, <2>3, <4>1 DEF Tracked
      <4> QED
        BY <4>1, <4>2
    <3> QED
      BY <2>1, <3>1, <3>2
  <2> QED
    BY <2>1, <2>2, <2>3 DEF Guarded
<1> QED
  BY <1>3, <1>4, RunEnds

\* A history that had an intact copy when a run began has one when it ends.
LEMMA GoodCopiesStay ==
    ASSUME RetentionAssumption, RetentionInv, [RetentionNext]_kvars PROVE LastGoodCopyKept
<1> DEFINE Whole(S) == \E v \in S : v \in disk' \ bad
<1> SUFFICES ASSUME pc # "idle", pc' = "idle", NEW k \in Keys
             PROVE  /\ (\E v \in base.active[k] : v \in base.disk \ bad) => Whole(active'[k])
                    /\ \A g \in base.gens[k] :
                          (\E v \in g.versions : v \in base.disk \ bad)
                             => Purgeable(g) \/ \E h \in gens'[k] :
                                    h.at = g.at /\ h.versions \subseteq g.versions /\ Whole(h.versions)
  BY DEF LastGoodCopyKept
<1>1. CASE Restart
  <2>1. active'[k] = base.active[k] /\ gens'[k] = base.gens[k] /\ disk' = base.disk
    BY <1>1 DEF Restart
  <2> QED
    BY <2>1
<1>2. CASE Finish
  <2>1. /\ active'[k] = active[k] /\ gens'[k] = gens[k] /\ disk' = disk
        /\ Tracked(k) \subseteq disk /\ (Same(k) \/ Cut(k))
    BY <1>2, FinishLeaves
  <2>2. CASE Same(k)
    BY <2>1, <2>2 DEF Same, Tracked
  <2>3. CASE Cut(k)
    <3>1. \A v \in Tracked(k) : v \in disk \ bad
      BY <2>3 DEF Cut, Intact
    <3>2. base.active[k] # {} => active[k] # {}
      BY <2>3, BaseFloors DEF Cut
    <3>3. base.active[k] # {} => Whole(active'[k])
      BY <2>1, <3>1, <3>2 DEF Tracked
    <3>4. ASSUME NEW g \in base.gens[k], ~ Purgeable(g)
          PROVE  \E h \in gens[k] : h.at = g.at /\ h.versions \subseteq g.versions
                                      /\ h.versions # {}
      <4>1. g \in Generation /\ g.versions \ doomed # {}
        BY <3>4, BaseFloors
      <4>2. Thin(g) \in gens[k]
        BY <2>3, <3>4 DEF Cut
      <4>3. Thin(g).at = g.at /\ Thin(g).versions = g.versions \ doomed
        BY <4>1, ThinIs
      <4> QED
        BY <4>1, <4>2, <4>3
    <3>5. \A h \in gens[k] : h.versions # {} => Whole(h.versions)
      BY <2>1, <3>1 DEF Tracked
    <3> QED
      BY <2>1, <3>3, <3>4, <3>5
  <2> QED
    BY <2>1, <2>2, <2>3
<1> QED
  BY <1>1, <1>2, RunEnds

-----------------------------------------------------------------------------
(* Sums and the newest version                                             *)

\* What a record says of a version that has one.
LEMMA Stamped ==
    ASSUME RetentionAssumption, RetentionTypeOK,
           NEW S \in SUBSET Versions, \A u \in S : made[u] # None
    PROVE  /\ IsFiniteSet(S)
           /\ \A u \in S : /\ u \in Nat /\ made[u] \in Made
                           /\ made[u].day \in Nat /\ made[u].day \in Days
                           /\ made[u].key \in Keys
                           /\ task.size[made[u].key] \in Nat
<1>1. IsFiniteSet(Versions)
  BY FS_Interval DEF RetentionAssumption, Versions
<1>2. IsFiniteSet(S)
  BY <1>1, FS_Subset
<1>3. ASSUME NEW u \in S
      PROVE  /\ u \in Nat /\ made[u] \in Made
             /\ made[u].day \in Nat /\ made[u].day \in Days
             /\ made[u].key \in Keys
             /\ task.size[made[u].key] \in Nat
  <2>1. u \in Versions /\ u \in Nat
    BY DEF Versions
  <2>2. made[u] \in Made
    BY <2>1 DEF RetentionTypeOK
  <2>3. task.size \in [Keys -> Nat] /\ Days \subseteq Nat
    BY DEF RetentionTypeOK, RetentionAssumption
  <2> QED
    BY <2>1, <2>2, <2>3 DEF Made
<1> QED
  BY <1>2, <1>3

\* The days of a policy's first tiers are a number.
LEMMA UpperType ==
    ASSUME NEW tiers \in Seq(Tier), NEW i \in 0..Len(tiers)
    PROVE  Upper(tiers, i) \in Nat /\ (i = 0 => Upper(tiers, i) = 0)
<1> DEFINE T == {{j} \X (1..tiers[j].days) : j \in 1..i}
<1> DEFINE f == [j \in 1..i |-> {j} \X (1..tiers[j].days)]
<1>1. f \in Surjection(1..i, T)
  BY DEF Surjection
<1>2. IsFiniteSet(1..i)
  BY FS_Interval
<1>3. IsFiniteSet(T)
  <2> HIDE DEF f, T
  <2> QED
    BY <1>1, <1>2, FS_Surjection
<1>4. \A j \in 1..i : IsFiniteSet({j} \X (1..tiers[j].days))
  <2> TAKE j \in 1..i
  <2>1. tiers[j] \in Tier
    BY ElementOfSeq
  <2>2. tiers[j].days \in Int /\ 1 \in Int
    BY <2>1 DEF Tier
  <2>3. IsFiniteSet({j})
    BY FS_Singleton
  <2>4. IsFiniteSet(1..tiers[j].days)
    BY <2>2, FS_Interval
  <2> QED
    BY <2>3, <2>4, FS_Product
<1>5. IsFiniteSet(UNION T)
  <2>1. \A x \in T : IsFiniteSet(x)
    BY <1>4
  <2> HIDE DEF T
  <2> QED
    BY <1>3, <2>1, FS_UNION
<1>6. i = 0 => UNION T = {}
  OBVIOUS
<1> QED
  BY <1>5, <1>6, FS_CardinalityType, FS_EmptySet DEF Upper

\* The units of storage that versions take.
Units(S) == UNION {{v} \X (1..task.size[made[v].key]) : v \in S}

LEMMA UnitsFinite ==
    ASSUME RetentionAssumption, RetentionTypeOK,
           NEW S \in SUBSET Versions, \A u \in S : made[u] # None
    PROVE  IsFiniteSet(Units(S)) /\ TotalSize(S) \in Nat
<1> DEFINE T == {{v} \X (1..task.size[made[v].key]) : v \in S}
<1> DEFINE f == [v \in S |-> {v} \X (1..task.size[made[v].key])]
<1>1. f \in Surjection(S, T)
  BY DEF Surjection
<1>2. IsFiniteSet(T)
  <2>1. IsFiniteSet(S)
    BY Stamped
  <2> HIDE DEF f, T
  <2> QED
    BY <1>1, <2>1, FS_Surjection
<1>3. \A v \in S : IsFiniteSet({v} \X (1..task.size[made[v].key]))
  <2> TAKE v \in S
  <2>1. task.size[made[v].key] \in Int /\ 1 \in Int
    BY Stamped
  <2>2. IsFiniteSet({v})
    BY FS_Singleton
  <2>3. IsFiniteSet(1..task.size[made[v].key])
    BY <2>1, FS_Interval
  <2> QED
    BY <2>2, <2>3, FS_Product
<1>4. IsFiniteSet(UNION T)
  <2>1. \A x \in T : IsFiniteSet(x)
    BY <1>3
  <2> HIDE DEF T
  <2> QED
    BY <1>2, <2>1, FS_UNION
<1> QED
  BY <1>4, FS_CardinalityType DEF Units, TotalSize

\* The size of two histories that share nothing is the sum of their sizes.
LEMMA SizeAdds ==
    ASSUME RetentionAssumption, RetentionTypeOK,
           NEW S \in SUBSET Versions, \A u \in S : made[u] # None,
           NEW T \in SUBSET S
    PROVE  /\ TotalSize(S) \in Nat /\ TotalSize(T) \in Nat /\ TotalSize(S \ T) \in Nat
           /\ TotalSize(S) = TotalSize(T) + TotalSize(S \ T)
<1>1. T \in SUBSET Versions /\ S \ T \in SUBSET Versions
  OBVIOUS
<1>2. IsFiniteSet(Units(T)) /\ IsFiniteSet(Units(S \ T))
  BY <1>1, UnitsFinite
<1>3. Units(S) = Units(T) \cup Units(S \ T)
  BY DEF Units
<1>4. Units(T) \cap Units(S \ T) = {}
  BY DEF Units
<1>5. Cardinality(Units(S)) = Cardinality(Units(T)) + Cardinality(Units(S \ T))
  <2>1. Cardinality(Units(S)) = Cardinality(Units(T)) + Cardinality(Units(S \ T))
                                 - Cardinality(Units(T) \cap Units(S \ T))
    BY <1>2, <1>3, FS_Union
  <2>2. Cardinality(Units(T) \cap Units(S \ T)) = 0
    BY <1>4, FS_EmptySet
  <2>3. Cardinality(Units(T)) \in Nat /\ Cardinality(Units(S \ T)) \in Nat
    BY <1>2, FS_CardinalityType
  <2> QED
    BY <2>1, <2>2, <2>3
<1> QED
  BY <1>1, <1>5, UnitsFinite DEF Units, TotalSize

\* Of some versions one is the newest.
LEMMA Newest ==
    ASSUME RetentionAssumption, RetentionTypeOK,
           NEW S \in SUBSET Versions, \A u \in S : made[u] # None,
           NEW T \in SUBSET S, T # {}
    PROVE  \E u \in T : \A w \in T : ~ Older(u, w)
<1> DEFINE Ranks == {Rank(v, S) : v \in T}
<1>1. Ranks \subseteq Nat /\ Ranks # {}
  BY RankType
<1>2. PICK a \in Ranks : \A b \in Ranks : ~ (<<b, a>> \in OpToRel(<, Nat))
  <2> HIDE DEF Ranks
  <2> QED
    BY <1>1, NatLessThanWellFounded, WFMin, Zenon
<1>3. \A b \in Ranks : ~ (b < a)
  BY <1>1, <1>2 DEF OpToRel
<1>4. PICK u \in T : a = Rank(u, S)
  OBVIOUS
<1> QED
  BY <1>3, <1>4, RankFalls

\* Of two versions one is the older.
LEMMA OlderTotal ==
    ASSUME RetentionAssumption, RetentionTypeOK,
           NEW v \in Versions, NEW w \in Versions, made[v] # None, made[w] # None, v # w
    PROVE  Older(v, w) \/ Older(w, v)
<1>1. v \in Nat /\ w \in Nat /\ made[v].day \in Nat /\ made[w].day \in Nat
  <2>1. \A u \in {v, w} : made[u] # None /\ u \in Versions
    OBVIOUS
  <2> QED
    BY <2>1, Stamped
<1> QED
  BY <1>1 DEF Older

-----------------------------------------------------------------------------
(* A second plan                                                           *)

\* Histories, each with the age that a ceiling counts, and what a policy takes.
Thinned(H, p) == UNION {Candidates(h.versions, p, h.age) : h \in H}
Taken(H, p)   == SizeLimited({h.versions : h \in H}, p, Thinned(H, p))

Disjoint(H) ==
    /\ \A h \in H : h.versions \subseteq Versions /\ \A v \in h.versions : made[v] # None
    /\ \A h, g \in H : h # g => h.versions \cap g.versions = {}

\* A history that loses nothing of its floor keeps its floor.
LEMMA FloorStays ==
    ASSUME RetentionAssumption, RetentionTypeOK,
           NEW S \in SUBSET Versions, \A u \in S : made[u] # None,
           NEW p, p.min \in Nat, NEW T \in SUBSET S, Protected(S, p) \subseteq T
    PROVE  /\ \A v \in T : Rank(v, T) \in Nat /\ Rank(v, S) \in Nat /\ Rank(v, T) <= Rank(v, S)
           /\ Protected(T, p) = Protected(S, p)
<1>0. T \in SUBSET Versions /\ IsFiniteSet(S) /\ IsFiniteSet(T)
  BY Stamped
<1>1. ASSUME NEW v \in T PROVE Rank(v, T) \in Nat /\ Rank(v, S) \in Nat /\ Rank(v, T) <= Rank(v, S)
  <2>1. IsFiniteSet({w \in S : Older(v, w)})
    BY <1>0, FS_Subset
  <2>2. {w \in T : Older(v, w)} \in SUBSET {w \in S : Older(v, w)}
    OBVIOUS
  <2>3. Rank(v, T) \in Nat /\ Rank(v, S) \in Nat
    BY <1>0, RankType
  <2> QED
    BY <2>1, <2>2, <2>3, FS_Subset DEF Rank
<1>2. Protected(S, p) \subseteq Protected(T, p)
  BY <1>1 DEF Protected
<1>3. ASSUME NEW v \in Protected(T, p), v \notin Protected(S, p) PROVE FALSE
  <2> DEFINE P == Protected(S, p)
  <2>1. v \in T /\ v \in S /\ Rank(v, T) < p.min /\ ~ (Rank(v, S) < p.min)
    BY <1>3 DEF Protected
  <2>2. PICK u \in S \ P : \A w \in S \ P : ~ Older(u, w)
    <3>1. S \ P \in SUBSET S /\ S \ P # {}
      BY <1>3, <2>1
    <3> HIDE DEF P
    <3> QED
      BY <3>1, Newest
  <2>3. {w \in S : Older(u, w)} \in SUBSET P
    BY <2>2
  <2>4. IsFiniteSet(P)
    BY <1>0, FS_Subset DEF Protected
  <2>5. p.min <= Cardinality(P)
    <3>1. Rank(u, S) <= Cardinality(P)
      BY <2>3, <2>4, FS_Subset DEF Rank
    <3>2. ~ (Rank(u, S) < p.min) /\ Rank(u, S) \in Nat
      BY <2>2, RankType DEF Protected
    <3> QED
      BY <2>4, <3>1, <3>2, FS_CardinalityType
  <2>6. P \in SUBSET {w \in T : Older(v, w)}
    <3> SUFFICES ASSUME NEW w \in P PROVE w \in T /\ Older(v, w)
      OBVIOUS
    <3>1. w \in S /\ w \in T /\ Rank(w, S) < p.min /\ Rank(w, S) \in Nat /\ Rank(v, S) \in Nat
      BY <2>1, RankType DEF Protected
    <3>2. v # w
      BY <2>1, <3>1
    <3>3. ~ Older(w, v)
      BY <2>1, <3>1, RankFalls
    <3> QED
      BY <2>1, <3>1, <3>2, <3>3, OlderTotal
  <2>7. Cardinality(P) <= Rank(v, T)
    <3>1. IsFiniteSet({w \in T : Older(v, w)})
      BY <1>0, FS_Subset
    <3> QED
      BY <2>6, <3>1, FS_Subset DEF Rank
  <2> QED
    <3>1. Cardinality(P) \in Nat /\ Rank(v, T) \in Nat
      BY <1>1, <2>1, <2>4, FS_CardinalityType
    <3> QED
      BY <2>1, <2>5, <2>7, <3>1
<1> QED
  BY <1>1, <1>2, <1>3

\* What thinning left, thinning leaves.
LEMMA ThinnedOnce ==
    ASSUME RetentionAssumption, RetentionTypeOK,
           NEW S \in SUBSET Versions, \A u \in S : made[u] # None,
           NEW p, p.min \in Nat, p.maxVersions \in Limits, NEW age,
           NEW T \in SUBSET S, Protected(S, p) \subseteq T,
           T \cap Candidates(S, p, age) = {}
    PROVE  Candidates(T, p, age) = {}
<1> SUFFICES ASSUME NEW v \in Candidates(T, p, age) PROVE FALSE
  OBVIOUS
<1>1. /\ \A w \in T : Rank(w, T) \in Nat /\ Rank(w, S) \in Nat /\ Rank(w, T) <= Rank(w, S)
      /\ Protected(T, p) = Protected(S, p)
  BY FloorStays
<1> DEFINE old == IF age = None THEN Age(v) ELSE age
<1>2. /\ v \in T \ Protected(T, p)
      /\ p.mode # "indefinite"
      /\ OverLimit(v, T, p, old) \/ (p.mode = "tiered" /\ ~ KeptByTier(v, T, p))
  BY DEF Candidates
<1>3. v \in S \ Protected(S, p) /\ v \notin Candidates(S, p, age)
  BY <1>1, <1>2
<1>4. /\ ~ OverLimit(v, S, p, old)
      /\ p.mode = "tiered" => KeptByTier(v, S, p)
  BY <1>2, <1>3 DEF Candidates
<1> HIDE DEF old
<1>5. ~ OverLimit(v, T, p, old)
  BY <1>1, <1>2, <1>4 DEF OverLimit, Limits
<1>6. KeptByTier(v, S, p) => KeptByTier(v, T, p)
  BY <1>1 DEF KeptByTier
<1> QED
  BY <1>2, <1>4, <1>5, <1>6

\* What a policy takes of histories is none of their floors.
LEMMA TakenSpares ==
    ASSUME NEW H, Disjoint(H), NEW p, NEW h \in H
    PROVE  Protected(h.versions, p) \cap Taken(H, p) = {}
<1> SUFFICES ASSUME NEW v \in Protected(h.versions, p), v \in Taken(H, p) PROVE FALSE
  OBVIOUS
<1>1. v \in h.versions
  BY DEF Protected
<1>2. \A g \in H : v \in g.versions => g = h
  BY <1>1 DEF Disjoint
<1>3. v \notin Thinned(H, p)
  <2> SUFFICES ASSUME NEW g \in H, v \in Candidates(g.versions, p, g.age) PROVE FALSE
    BY DEF Thinned
  <2> QED
    BY <1>2, ThinningSpares
<1>4. ~ \E S \in {g.versions : g \in H} :
            v \in S /\ \A R \in {g.versions : g \in H} : v \notin Protected(R, p)
  OBVIOUS
<1> QED
  BY <1>3, <1>4, LimitsSpare DEF Taken

\* What is left of histories without D.
Rest(H, D) == {[versions |-> h.versions \ D, age |-> h.age] : h \in H}

\* A policy takes nothing of what it has left.
LEMMA TakenOnce ==
    ASSUME RetentionAssumption, RetentionTypeOK,
           NEW H, Disjoint(H), NEW D, NEW p, p.min \in Nat,
           p.maxVersions \in Limits, p.maxSize \in Limits,
           \A h \in H : h.versions \cap D = h.versions \cap Taken(H, p)
    PROVE  Taken(Rest(H, D), p) = {}
<1> DEFINE G == Rest(H, D)
<1>0. G = {[versions |-> h.versions \ D, age |-> h.age] : h \in H}
  BY DEF Rest
<1> SUFFICES Taken(G, p) = {}
  OBVIOUS
<1> HIDE DEF G
<1> DEFINE Whole == UNION {h.versions : h \in H}
<1> DEFINE Floors == UNION {Protected(h.versions, p) : h \in H}
<1> DEFINE Kept == Whole \ Thinned(H, p)
<1> DEFINE Spare == Kept \ Floors
<1> DEFINE R == {v \in Spare :
                    /\ p.maxSize # None
                    /\ TotalSize(Kept) - TotalSize({w \in Spare : Older(w, v)}) > p.maxSize}
<1>1. Taken(H, p) = Thinned(H, p) \cup R
  <2>1. UNION {Protected(S, p) : S \in {h.versions : h \in H}} = Floors
    OBVIOUS
  <2> QED
    BY <2>1 DEF Taken, SizeLimited
<1>2. ASSUME NEW h \in H
      PROVE  /\ h.versions \ D = h.versions \ Taken(H, p)
             /\ h.versions \in SUBSET Versions
             /\ \A v \in h.versions : made[v] # None
             /\ Protected(h.versions, p) \subseteq h.versions \ D
             /\ Protected(h.versions \ D, p) = Protected(h.versions, p)
             /\ Candidates(h.versions \ D, p, h.age) = {}
  <2>1. h.versions \ D = h.versions \ Taken(H, p)
    OBVIOUS
  <2>2. h.versions \in SUBSET Versions /\ \A v \in h.versions : made[v] # None
    BY DEF Disjoint
  <2>3. Protected(h.versions, p) \subseteq h.versions \ D
    BY <2>1, TakenSpares DEF Protected
  <2>4. Protected(h.versions \ D, p) = Protected(h.versions, p)
    BY <2>2, <2>3, FloorStays
  <2>5. Candidates(h.versions, p, h.age) \subseteq Taken(H, p)
    BY <1>1 DEF Thinned
  <2>6. (h.versions \ D) \cap Candidates(h.versions, p, h.age) = {}
    BY <2>1, <2>5
  <2>7. Candidates(h.versions \ D, p, h.age) = {}
    BY <2>2, <2>3, <2>6, ThinnedOnce
  <2> QED
    BY <2>1, <2>2, <2>3, <2>4, <2>7
<1>3. Thinned(G, p) = {}
  <2> SUFFICES ASSUME NEW g \in G PROVE Candidates(g.versions, p, g.age) = {}
    BY DEF Thinned
  <2>1. PICK h \in H : g = [versions |-> h.versions \ D, age |-> h.age]
    BY <1>0
  <2>2. g.versions = h.versions \ D /\ g.age = h.age
    BY <2>1
  <2> QED
    BY <1>2, <2>2
<1>4. /\ UNION {g.versions : g \in G} = Kept \ R
      /\ UNION {Protected(S, p) : S \in {g.versions : g \in G}} = Floors
  <2>1. {g.versions : g \in G} = {h.versions \ D : h \in H}
    <3>1. \A h \in H : [versions |-> h.versions \ D, age |-> h.age].versions = h.versions \ D
      OBVIOUS
    <3>2. {g.versions : g \in G}
            = {[versions |-> h.versions \ D, age |-> h.age].versions : h \in H}
      BY <1>0, Zenon
    <3> QED
      BY <3>1, <3>2
  <2>2. {h.versions \ D : h \in H} = {h.versions \ Taken(H, p) : h \in H}
    BY <1>2
  <2>3. UNION {h.versions \ Taken(H, p) : h \in H} = Whole \ Taken(H, p)
    OBVIOUS
  <2>4. {Protected(S, p) : S \in {h.versions \ D : h \in H}}
          = {Protected(h.versions \ D, p) : h \in H}
    OBVIOUS
  <2>5. {Protected(h.versions \ D, p) : h \in H} = {Protected(h.versions, p) : h \in H}
    BY <1>2
  <2>6. Whole \ Taken(H, p) = Kept \ R
    BY <1>1
  <2> QED
    BY <2>1, <2>2, <2>3, <2>4, <2>5, <2>6
<1> SUFFICES ASSUME NEW v \in (Kept \ R) \ Floors, p.maxSize # None,
                    TotalSize(Kept \ R)
                      - TotalSize({w \in (Kept \ R) \ Floors : Older(w, v)}) > p.maxSize
             PROVE  FALSE
  <2> HIDE DEF Kept, Floors, R
  <2>1. (UNION {g.versions : g \in G}) \ {} = Kept \ R
    BY <1>4
  <2> QED
    BY <1>3, <1>4, <2>1 DEF Taken, SizeLimited
<1> DEFINE Before == {w \in Spare : Older(w, v)}
<1> DEFINE Still == {w \in (Kept \ R) \ Floors : Older(w, v)}
<1>5. Kept \in SUBSET Versions /\ \A w \in Kept : made[w] # None
  BY DEF Disjoint
<1>6. /\ R \in SUBSET Kept /\ Before \in SUBSET Kept /\ Still \in SUBSET Before
      /\ Before \ Still \in SUBSET R
  OBVIOUS
<1>7. ~ (TotalSize(Kept) - TotalSize(Before) > p.maxSize)
  OBVIOUS
<1> HIDE DEF Before, Still, R, Kept
<1>8. /\ TotalSize(Kept) = TotalSize(R) + TotalSize(Kept \ R)
      /\ TotalSize(Kept) \in Nat /\ TotalSize(R) \in Nat /\ TotalSize(Kept \ R) \in Nat
  BY <1>5, <1>6, SizeAdds
<1>9. /\ TotalSize(Before) = TotalSize(Still) + TotalSize(Before \ Still)
      /\ TotalSize(Before) \in Nat /\ TotalSize(Still) \in Nat
      /\ TotalSize(Before \ Still) \in Nat
  <2>1. Before \in SUBSET Versions /\ \A w \in Before : made[w] # None
    BY <1>5, <1>6
  <2> QED
    BY <1>6, <2>1, SizeAdds
<1>10. TotalSize(Before \ Still) <= TotalSize(R)
  <2>1. R \in SUBSET Versions /\ \A w \in R : made[w] # None
    BY <1>5, <1>6
  <2>2. /\ TotalSize(R) = TotalSize(Before \ Still) + TotalSize(R \ (Before \ Still))
        /\ TotalSize(R \ (Before \ Still)) \in Nat
    BY <1>6, <2>1, SizeAdds
  <2> QED
    BY <1>8, <1>9, <2>2
<1>11. TotalSize(Kept \ R) - TotalSize(Still) > p.maxSize
  BY DEF Still
<1> QED
  BY <1>7, <1>8, <1>9, <1>10, <1>11 DEF Limits

-----------------------------------------------------------------------------
(* The plan of a run                                                       *)

\* The histories of keys, and what a plan made of records r dooms of them.
Present(r, E) == {[versions |-> r.active[k], age |-> None] : k \in E}
Past(r, E)    == {[versions |-> g.versions, age |-> Since(g.at)] :
                     g \in {h \in UNION {r.gens[k] : k \in E} : Thinnable(h)}}
Purged(r, E)  == UNION {g.versions : g \in {h \in UNION {r.gens[k] : k \in E} : Purgeable(h)}}
Planned(r, E) ==
    Taken(Present(r, E), task.active) \cup Taken(Past(r, E), task.deleted) \cup Purged(r, E)

\* The plan is what the policies take of the records it was made of; until a
\* scope fails, each key has been cut, has nothing to be cut, or is in a scope
\* that is still to come.
Carried(k) == /\ active[k] = base.active[k] \ doomed
              /\ gens[k] = {Thin(g) : g \in {h \in base.gens[k] : ~ Purgeable(h)}}
Waits(k)   == task.scopeOf[k] \in left \/ (pc = "remove" /\ task.scopeOf[k] = scope)

PlanInv ==
    pc # "idle" =>
        /\ doomed = Planned(base, KeysIn(eligible))
        /\ ~ failed =>
              \A k \in Keys : \/ Carried(k)
                              \/ Same(k) /\ (Held(base, k) \cap doomed = {} \/ Waits(k))

\* A policy takes versions of the histories it is given.
LEMMA TakenFrom ==
    ASSUME NEW H, NEW p, NEW v \in Taken(H, p)
    PROVE  \E h \in H : v \in h.versions
BY ThinningSpares, LimitsSpare DEF Taken, Thinned

\* plan() as the policies make it.
LEMMA DoomedIs ==
    ASSUME NEW E \in SUBSET Keys
    PROVE  Doomed(E) = Planned(Here, E)
<1>1. DoomedActive(E) = Taken(Present(Here, E), task.active)
  <2> DEFINE full == {active[k] : k \in E} \ {{}}
  <2> DEFINE every == {active[k] : k \in E}
  <2> DEFINE p == task.active
  <2>1. {h.versions : h \in Present(Here, E)} = every
    <3>1. \A k \in E : [versions |-> Here.active[k], age |-> None].versions = active[k]
      BY DEF Here
    <3>2. {h.versions : h \in Present(Here, E)}
            = {[versions |-> Here.active[k], age |-> None].versions : k \in E}
      BY Zenon DEF Present
    <3> QED
      BY <3>1, <3>2
  <2>2. Thinned(Present(Here, E), p) = UNION {Candidates(S, p, None) : S \in full}
    <3>1. \A h \in Present(Here, E) : h.age = None /\ h.versions \in every
      BY DEF Present, Here
    <3>2. \A S \in every : \E h \in Present(Here, E) : h.versions = S /\ h.age = None
      <4> TAKE S \in every
      <4> DEFINE h == [versions |-> S, age |-> None]
      <4>1. h \in Present(Here, E) /\ h.versions = S /\ h.age = None
        BY DEF Present, Here
      <4> HIDE DEF h
      <4> QED
        BY <4>1
    <3>3. Candidates({}, p, None) = {}
      BY DEF Candidates
    <3> HIDE DEF p, every
    <3> QED
      BY <3>1, <3>2, <3>3 DEF Thinned, every
  <2>3. /\ UNION full = UNION every
        /\ UNION {Protected(S, p) : S \in full} = UNION {Protected(S, p) : S \in every}
    <3>1. Protected({}, p) = {}
      BY DEF Protected
    <3> QED
      BY <3>1
  <2> QED
    <3>1. \A c : SizeLimited(full, p, c) = SizeLimited(every, p, c)
      <4> HIDE DEF full, every, p
      <4> QED
        BY <2>3 DEF SizeLimited
    <3>2. DoomedActive(E) = SizeLimited(full, p, UNION {Candidates(S, p, None) : S \in full})
      BY DEF DoomedActive
    <3>3. Taken(Present(Here, E), p) = SizeLimited(every, p, Thinned(Present(Here, E), p))
      BY <2>1 DEF Taken
    <3> HIDE DEF full, every, p
    <3>4. DoomedActive(E) = Taken(Present(Here, E), p)
      BY <2>2, <3>1, <3>2, <3>3
    <3> QED
      BY <3>4 DEF p
<1>2. DoomedDeleted(E) = Taken(Past(Here, E), task.deleted)
  <2> DEFINE old == {g \in Generations(E) : Thinnable(g)}
  <2> DEFINE p == task.deleted
  <2>1. old = {h \in UNION {Here.gens[k] : k \in E} : Thinnable(h)}
    BY DEF Generations, Here
  <2>2. Past(Here, E) = {[versions |-> g.versions, age |-> Since(g.at)] : g \in old}
    BY <2>1 DEF Past
  <2> HIDE DEF old
  <2>3. {h.versions : h \in Past(Here, E)} = {g.versions : g \in old}
    <3>1. \A h \in Past(Here, E) : \E g \in old : h.versions = g.versions
      BY <2>2
    <3>2. \A g \in old : \E h \in Past(Here, E) : h.versions = g.versions
      <4> TAKE g \in old
      <4> DEFINE h == [versions |-> g.versions, age |-> Since(g.at)]
      <4>1. h \in Past(Here, E) /\ h.versions = g.versions /\ h.age = Since(g.at)
        BY <2>2
      <4> HIDE DEF h
      <4> QED
        BY <4>1
    <3> QED
      BY <3>1, <3>2
  <2>4. Thinned(Past(Here, E), p) = UNION {Candidates(g.versions, p, Since(g.at)) : g \in old}
    <3>1. \A h \in Past(Here, E) : \E g \in old : h.versions = g.versions /\ h.age = Since(g.at)
      BY <2>2
    <3>2. \A g \in old : \E h \in Past(Here, E) : h.versions = g.versions /\ h.age = Since(g.at)
      <4> TAKE g \in old
      <4> DEFINE h == [versions |-> g.versions, age |-> Since(g.at)]
      <4>1. h \in Past(Here, E) /\ h.versions = g.versions /\ h.age = Since(g.at)
        BY <2>2
      <4> HIDE DEF h
      <4> QED
        BY <4>1
    <3> HIDE DEF p
    <3> QED
      BY <3>1, <3>2 DEF Thinned
  <2> QED
    BY <2>3, <2>4 DEF Taken, DoomedDeleted, old
<1>3. UNION {g.versions : g \in {h \in Generations(E) : Purgeable(h)}} = Purged(Here, E)
  BY DEF Generations, Purged, Here
<1> QED
  BY <1>1, <1>2, <1>3 DEF Doomed, Planned

\* What a policy makes of versions depends on the task, the time and the stamps.
LEMMA PolicyStays ==
    ASSUME UNCHANGED <<task, now, made>>
    PROVE  /\ \A S, p, age : Candidates(S, p, age)' = Candidates(S, p, age)
           /\ \A G, p, C : SizeLimited(G, p, C)' = SizeLimited(G, p, C)
           /\ \A g : (Purgeable(g)' <=> Purgeable(g)) /\ (Thinnable(g)' <=> Thinnable(g))
           /\ \A day : Since(day)' = Since(day)
<1>1. \A v, w : Older(v, w)' <=> Older(v, w)
  BY DEF Older
<1>2. \A v : Age(v)' = Age(v)
  BY DEF Age, Since
<1>3. \A S, v : Rank(v, S)' = Rank(v, S)
  <2> SUFFICES ASSUME NEW S, NEW v PROVE Rank(v, S)' = Rank(v, S)
    OBVIOUS
  <2>1. {w \in S : Older(v, w)}' = {w \in S : Older(v, w)}
    BY <1>1
  <2> QED
    BY <2>1 DEF Rank
<1>4. \A S, p : Protected(S, p)' = Protected(S, p)
  BY <1>3 DEF Protected
<1>5. \A v, i, tiers : InTier(v, i, tiers)' <=> InTier(v, i, tiers)
  BY <1>2 DEF InTier
<1>6. \A v, S, p : KeptByTier(v, S, p)' <=> KeptByTier(v, S, p)
  BY <1>1, <1>4, <1>5 DEF KeptByTier
<1>7. \A v, S, p, age : OverLimit(v, S, p, age)' <=> OverLimit(v, S, p, age)
  BY <1>3 DEF OverLimit
<1>8. ASSUME NEW S, NEW p, NEW age
      PROVE  Candidates(S, p, age)' = Candidates(S, p, age)
  BY <1>2, <1>4, <1>6, <1>7 DEF Candidates
<1>9. \A S : TotalSize(S)' = TotalSize(S)
  BY DEF TotalSize
<1>10. ASSUME NEW G, NEW p, NEW C
       PROVE  SizeLimited(G, p, C)' = SizeLimited(G, p, C)
  <2> DEFINE kept == (UNION G) \ C
  <2>1. {Protected(S, p) : S \in G}' = {Protected(S, p) : S \in G}
    BY <1>4
  <2> DEFINE optional == kept \ UNION {Protected(S, p) : S \in G}
  <2>2. optional' = optional
    BY <2>1
  <2>3. ASSUME NEW v PROVE {w \in optional : Older(w, v)}' = {w \in optional : Older(w, v)}
    <3> HIDE DEF optional
    <3> QED
      BY <1>1, <2>2
  <2>4. ASSUME NEW v
        PROVE  TotalSize({w \in optional : Older(w, v)})' = TotalSize({w \in optional : Older(w, v)})
    <3> HIDE DEF optional
    <3> QED
      BY <1>9, <2>3
  <2>5. SizeLimited(G, p, C)
          = C \cup {v \in optional :
                      /\ p.maxSize # None
                      /\ TotalSize(kept) - TotalSize({w \in optional : Older(w, v)}) > p.maxSize}
    BY DEF SizeLimited
  <2>6. SizeLimited(G, p, C)'
          = (C \cup {v \in optional :
                      /\ p.maxSize # None
                      /\ TotalSize(kept) - TotalSize({w \in optional : Older(w, v)}) > p.maxSize})'
    BY DEF SizeLimited
  <2> HIDE DEF optional, kept
  <2> QED
    BY <1>9, <2>2, <2>4, <2>5, <2>6 DEF kept
<1>11. ASSUME NEW g PROVE (Purgeable(g)' <=> Purgeable(g)) /\ (Thinnable(g)' <=> Thinnable(g))
  BY DEF Purgeable, Thinnable, Since
<1>12. \A day : Since(day)' = Since(day)
  BY DEF Since
<1> QED
  BY <1>8, <1>10, <1>11, <1>12

LEMMA PlannedStays ==
    ASSUME UNCHANGED <<task, now, made>>, NEW r, NEW E
    PROVE  Planned(r, E)' = Planned(r, E)
<1>1. \A H, p : Thinned(H, p)' = Thinned(H, p)
  <2> SUFFICES ASSUME NEW H, NEW p PROVE Thinned(H, p)' = Thinned(H, p)
    OBVIOUS
  <2>1. {Candidates(h.versions, p, h.age) : h \in H}' = {Candidates(h.versions, p, h.age) : h \in H}
    BY PolicyStays
  <2> QED
    BY <2>1 DEF Thinned
<1>2. \A H, p : Taken(H, p)' = Taken(H, p)
  BY <1>1, PolicyStays DEF Taken
<1>3. Past(r, E)' = Past(r, E) /\ Purged(r, E)' = Purged(r, E)
  BY PolicyStays DEF Past, Purged
<1>4. Present(r, E)' = Present(r, E)
  BY DEF Present
<1> QED
  BY <1>2, <1>3, <1>4 DEF Planned

LEMMA SameStays ==
    ASSUME UNCHANGED <<task, now, active, gens, base, doomed>>, NEW k \in Keys
    PROVE  /\ Same(k)' = Same(k)
           /\ Carried(k)' = Carried(k)
           /\ (Held(base, k) \cap doomed = {})' = (Held(base, k) \cap doomed = {})
BY DEF Same, Carried, Thin, Purgeable, Since, Held

\* A step that leaves the records and the plan, and takes no scope off the list.
LEMMA PlanWaits ==
    ASSUME PlanInv, pc # "idle",
           UNCHANGED <<task, now, made, active, gens, base, doomed, eligible>>,
           ~ failed' => ~ failed /\ \A k \in Keys : Waits(k) => Waits(k)'
    PROVE  PlanInv'
<1>1. doomed' = Planned(base, KeysIn(eligible))'
  <2>1. KeysIn(eligible)' = KeysIn(eligible)
    BY DEF KeysIn
  <2>2. Planned(base, KeysIn(eligible))' = Planned(base, KeysIn(eligible))
    BY <2>1, PlannedStays
  <2> QED
    BY <2>2 DEF PlanInv
<1>2. ASSUME ~ failed', NEW k \in Keys
      PROVE  (\/ Carried(k)
              \/ Same(k) /\ (Held(base, k) \cap doomed = {} \/ Waits(k)))'
  <2>1. \/ Carried(k)
        \/ Same(k) /\ (Held(base, k) \cap doomed = {} \/ Waits(k))
    BY <1>2 DEF PlanInv
  <2>2. Waits(k) => Waits(k)'
    BY <1>2
  <2> QED
    BY <2>1, <2>2, SameStays
<1> QED
  BY <1>1, <1>2 DEF PlanInv

LEMMA PlanRetentionPlans ==
    ASSUME RetentionAssumption, RetentionInv, NEW complete \in SUBSET Scopes, PlanRetention(complete)
    PROVE  PlanInv'
<1> DEFINE E == KeysIn(complete)
<1>1. /\ base' = Here /\ doomed' = Doomed(E) /\ eligible' = complete /\ pc' = "apply"
      /\ left' = {task.scopeOf[k] : k \in Affected(doomed')}
      /\ UNCHANGED <<task, now, made, active, gens>>
  BY DEF PlanRetention, Here, records
<1>2. doomed' = Planned(base, KeysIn(eligible))'
  <2>1. E \in SUBSET Keys /\ KeysIn(eligible)' = E
    BY <1>1 DEF KeysIn
  <2> HIDE DEF E
  <2>2. Planned(Here, E) = Planned(base, KeysIn(eligible))'
    <3>1. Planned(base, KeysIn(eligible))' = Planned(base', E)
      BY <1>1, <2>1, PlannedStays
    <3> QED
      BY <1>1, <3>1
  <2> QED
    BY <1>1, <2>1, <2>2, DoomedIs
<1>3. ASSUME NEW k \in Keys
      PROVE  Same(k)' /\ (Held(base, k) \cap doomed = {} \/ Waits(k))'
  <2>1. Same(k)'
    BY <1>1 DEF Same, Here
  <2>2. Held(base, k)' = Tracked(k)
    BY <1>1 DEF Held, Here, Tracked
  <2>3. ASSUME k \in Affected(doomed') PROVE Waits(k)'
    <3>1. task.scopeOf[k] \in left'
      BY <1>1, <2>3
    <3>2. task'.scopeOf[k] \in left'
      BY <1>1, <3>1
    <3> QED
      BY <3>2 DEF Waits
  <2>4. ASSUME k \notin Affected(doomed') PROVE (Held(base, k) \cap doomed = {})'
    <3>1. Tracked(k) \cap doomed' = {}
      BY <2>4 DEF Affected
    <3>2. Held(base, k)' \cap doomed' = {}
      BY <2>2, <3>1
    <3> QED
      BY <3>2
  <2> QED
    BY <2>1, <2>3, <2>4
<1> QED
  BY <1>2, <1>3 DEF PlanInv

LEMMA EndScopePlans ==
    ASSUME RetentionAssumption, RetentionInv, PlanInv, EndScope
    PROVE  PlanInv'
<1> DEFINE ended == KeysIn({scope}) \cap Affected(doomed)
<1>1. /\ pc = "remove" /\ pc' = "apply"
      /\ UNCHANGED <<task, now, made, doomed, eligible, left, failed, base>>
      /\ \A k \in Keys \ ended : active'[k] = active[k] /\ gens'[k] = gens[k]
  BY DEF EndScope
<1>2. doomed' = Planned(base, KeysIn(eligible))'
  <2>1. KeysIn(eligible)' = KeysIn(eligible)
    BY <1>1 DEF KeysIn
  <2>2. Planned(base, KeysIn(eligible))' = Planned(base, KeysIn(eligible))
    BY <1>1, <2>1, PlannedStays
  <2> QED
    BY <1>1, <2>2 DEF PlanInv
<1>3. ASSUME ~ failed', NEW k \in Keys
      PROVE  (\/ Carried(k)
              \/ Same(k) /\ (Held(base, k) \cap doomed = {} \/ Waits(k)))'
  <2>1. CASE k \in ended
    BY <2>1, EndScopeCuts DEF Cut, Carried
  <2>2. CASE k \notin ended
    <3>1. active'[k] = active[k] /\ gens'[k] = gens[k]
      BY <1>1, <2>2
    <3>2. Carried(k) => Carried(k)'
      BY <1>1, <3>1 DEF Carried, Thin, Purgeable, Since
    <3>3. Same(k) => Same(k)'
      BY <1>1, <3>1 DEF Same
    <3>4. Same(k) /\ Waits(k) => Waits(k)' \/ Held(base, k) \cap doomed = {}
      <4>1. Same(k) => Held(base, k) = Tracked(k)
        BY DEF Same, Held, Tracked
      <4>2. Waits(k) /\ ~ Waits(k)' => k \in KeysIn({scope})
        BY <1>1 DEF Waits, KeysIn
      <4>3. k \in KeysIn({scope}) => Tracked(k) \cap doomed = {}
        BY <2>2 DEF Affected
      <4> QED
        BY <4>1, <4>2, <4>3
    <3>5. (Held(base, k) \cap doomed = {}) => (Held(base, k) \cap doomed = {})'
      BY <1>1 DEF Held
    <3> QED
      BY <1>1, <1>3, <3>2, <3>3, <3>4, <3>5 DEF PlanInv
  <2> QED
    BY <2>1, <2>2
<1> QED
  BY <1>2, <1>3 DEF PlanInv

\* Each action keeps the account of the plan.
LEMMA PlanSteps ==
    ASSUME RetentionAssumption, RetentionInv, PlanInv, [RetentionNext]_kvars PROVE PlanInv'
<1>1. ASSUME pc' = "idle" PROVE PlanInv'
  BY <1>1 DEF PlanInv
<1>2. ASSUME NEW day \in Days, Tick(day) PROVE PlanInv'
  BY <1>1, <1>2 DEF Tick
<1>3. ASSUME NEW k \in Keys, Store(k) \/ MarkDeleted(k) PROVE PlanInv'
  BY <1>1, <1>3 DEF Store, MarkDeleted
<1>4. ASSUME NEW v \in Versions, Damage(v) PROVE PlanInv'
  BY <1>1, <1>4 DEF Damage
<1>5. ASSUME NEW complete \in SUBSET Scopes, PlanRetention(complete) PROVE PlanInv'
  BY <1>5, PlanRetentionPlans
<1>6. ASSUME NEW s \in Scopes, BeginScope(s) PROVE PlanInv'
  <2>1. /\ pc # "idle"
        /\ UNCHANGED <<task, now, made, active, gens, base, doomed, eligible, failed>>
        /\ \A k \in Keys : Waits(k) => Waits(k)'
    BY <1>6 DEF BeginScope, records, Waits
  <2> QED
    BY <2>1, PlanWaits
<1>7. ASSUME NEW s \in Scopes, PreserveScope(s) PROVE PlanInv'
  <2>1. /\ pc # "idle" /\ failed' = TRUE
        /\ UNCHANGED <<task, now, made, active, gens, base, doomed, eligible>>
    BY <1>7 DEF PreserveScope, records
  <2> QED
    BY <2>1, PlanWaits
<1>8. ASSUME NEW v \in Versions, RemoveFile(v) PROVE PlanInv'
  <2>1. /\ pc # "idle"
        /\ UNCHANGED <<task, now, made, active, gens, base, doomed, eligible, failed>>
        /\ \A k \in Keys : Waits(k) => Waits(k)'
    BY <1>8 DEF RemoveFile, Waits
  <2> QED
    BY <2>1, PlanWaits
<1>9. CASE EndScope
  BY <1>9, EndScopePlans
<1>10. CASE RollBackScope
  <2>1. /\ pc # "idle" /\ failed' = TRUE
        /\ UNCHANGED <<task, now, made, active, gens, base, doomed, eligible>>
    BY <1>10 DEF RollBackScope
  <2> QED
    BY <2>1, PlanWaits
<1>11. CASE UndoFails \/ Crash
  BY <1>1, <1>11 DEF UndoFails, Crash, Restart
<1>12. CASE Finish
  BY <1>1, <1>12 DEF Finish
<1>13. CASE UNCHANGED kvars
  <2>1. /\ UNCHANGED <<task, now, made, active, gens, base, doomed, eligible, failed, pc>>
        /\ \A k \in Keys : Waits(k) => Waits(k)'
    BY <1>13 DEF kvars, records, plan, Waits
  <2> QED
    BY <1>1, <2>1, PlanWaits
<1> QED
  BY <1>2, <1>3, <1>4, <1>5, <1>6, <1>7, <1>8, <1>9, <1>10, <1>11, <1>12, <1>13
  DEF RetentionNext

\* What a policy of the task says of its limits.
LEMMA PolicyLimits ==
    ASSUME RetentionAssumption, RetentionTypeOK, NEW p \in {task.active, task.deleted}
    PROVE  p.min \in Nat /\ p.maxVersions \in Limits /\ p.maxAge \in Limits /\ p.maxSize \in Limits
BY DEF RetentionAssumption, RetentionTypeOK, IsPolicy

\* A run in which no scope failed has cut each of its keys.
LEMMA AllCarried ==
    ASSUME RetentionAssumption, RetentionInv, PlanInv, Finish, ~ failed, NEW k \in KeysIn(eligible)
    PROVE  Carried(k)
<1>1. pc = "apply" /\ left = {} /\ k \in Keys
  BY DEF Finish, KeysIn
<1>2. doomed = Planned(base, KeysIn(eligible))
  BY <1>1 DEF PlanInv
<1>3. Carried(k) \/ (Same(k) /\ Held(base, k) \cap doomed = {})
  BY <1>1 DEF PlanInv, Waits
<1>4. ASSUME Same(k), Held(base, k) \cap doomed = {} PROVE Carried(k)
  <2>1. base.gens[k] \in SUBSET Generation
    BY <1>1 DEF RetentionInv, RetentionTypeOK, Archives
  <2>2. ASSUME NEW g \in base.gens[k] PROVE ~ Purgeable(g) /\ Thin(g) = g
    <3>1. g.versions # {} /\ g.versions \cap doomed = {}
      BY <1>4, <2>1 DEF Held, Generation
    <3>2. Purgeable(g) => g.versions \subseteq doomed
      BY <1>2 DEF Planned, Purged
    <3>3. g = [at |-> g.at, versions |-> g.versions]
      BY <2>1 DEF Generation
    <3>4. Thin(g) = [at |-> g.at, versions |-> g.versions \ doomed]
      BY <2>1, ThinIs
    <3>5. g.versions \ doomed = g.versions
      BY <3>1
    <3> QED
      BY <3>1, <3>2, <3>3, <3>4, <3>5
  <2>3. {Thin(g) : g \in {h \in base.gens[k] : ~ Purgeable(h)}} = base.gens[k]
    BY <2>2
  <2> QED
    BY <1>4, <2>3 DEF Carried, Same, Held
<1> QED
  BY <1>3, <1>4

\* The histories of sound records share nothing, and the parts of a plan neither.
LEMMA PartsApart ==
    ASSUME RetentionAssumption, RetentionInv, pc # "idle", NEW E \in SUBSET Keys
    PROVE  /\ Disjoint(Present(base, E))
           /\ Disjoint(Past(base, E))
           /\ \A h \in Present(base, E) : \A v \in h.versions :
                 v \notin Taken(Past(base, E), task.deleted) /\ v \notin Purged(base, E)
           /\ \A h \in Past(base, E) : \A v \in h.versions :
                 v \notin Taken(Present(base, E), task.active) /\ v \notin Purged(base, E)
<1>1. Sound(base) /\ base \in Archives
  BY DEF RetentionInv, RetentionTypeOK, BaseInv
<1>2. \A k \in Keys : base.active[k] \in SUBSET Versions /\ base.gens[k] \in SUBSET Generation
  BY <1>1 DEF Archives
<1>3. \A k \in Keys : \A v \in base.active[k] : made[v] # None /\ made[v].key = k
  BY <1>1 DEF Sound, Held
<1>4. \A k \in Keys : \A g \in base.gens[k] : \A v \in g.versions : made[v] # None /\ made[v].key = k
  BY <1>1 DEF Sound, Held
<1>5. \A h \in Present(base, E) : \E k \in E : h = [versions |-> base.active[k], age |-> None]
  BY DEF Present
<1>6. \A h \in Past(base, E) :
         \E k \in E : \E g \in base.gens[k] :
            Thinnable(g) /\ h = [versions |-> g.versions, age |-> Since(g.at)]
  BY DEF Past
<1>7. \A k, j \in Keys : \A g \in base.gens[k], h \in base.gens[j] :
         g # h => g.versions \cap h.versions = {}
  BY <1>1, <1>4 DEF Sound
<1>8. \A k, j \in Keys : \A g \in base.gens[k] : base.active[j] \cap g.versions = {}
  BY <1>1, <1>3, <1>4 DEF Sound
<1>9. Disjoint(Present(base, E))
  <2>1. \A h \in Present(base, E) : h.versions \subseteq Versions /\ \A v \in h.versions : made[v] # None
    BY <1>2, <1>3, <1>5
  <2>2. ASSUME NEW h \in Present(base, E), NEW g \in Present(base, E), h # g
        PROVE  h.versions \cap g.versions = {}
    BY <1>3, <1>5, <2>2
  <2> QED
    BY <2>1, <2>2 DEF Disjoint
<1>10. Disjoint(Past(base, E))
  <2>1. \A h \in Past(base, E) : h.versions \subseteq Versions /\ \A v \in h.versions : made[v] # None
    BY <1>2, <1>4, <1>6 DEF Generation
  <2>2. ASSUME NEW h \in Past(base, E), NEW g \in Past(base, E), h # g
        PROVE  h.versions \cap g.versions = {}
    BY <1>6, <1>7, <2>2
  <2> QED
    BY <2>1, <2>2 DEF Disjoint
<1>11. \A v \in Purged(base, E) : \E k \in E : \E g \in base.gens[k] : Purgeable(g) /\ v \in g.versions
  BY DEF Purged
<1>12. ASSUME NEW h \in Present(base, E), NEW v \in h.versions
       PROVE  v \notin Taken(Past(base, E), task.deleted) /\ v \notin Purged(base, E)
  <2>1. PICK k \in E : v \in base.active[k]
    BY <1>5
  <2>2. v \notin Purged(base, E)
    BY <1>8, <1>11, <2>1
  <2>3. v \notin Taken(Past(base, E), task.deleted)
    <3>1. \A g \in Past(base, E) : v \notin g.versions
      BY <1>6, <1>8, <2>1
    <3> QED
      BY <3>1, TakenFrom
  <2> QED
    BY <2>2, <2>3
<1>13. ASSUME NEW h \in Past(base, E), NEW v \in h.versions
       PROVE  v \notin Taken(Present(base, E), task.active) /\ v \notin Purged(base, E)
  <2>1. PICK k \in E : \E g \in base.gens[k] : Thinnable(g) /\ v \in g.versions
    BY <1>6
  <2>2. v \notin Purged(base, E)
    BY <1>7, <1>11, <2>1 DEF Thinnable
  <2>3. v \notin Taken(Present(base, E), task.active)
    <3>1. \A g \in Present(base, E) : v \notin g.versions
      BY <1>5, <1>8, <2>1
    <3> QED
      BY <3>1, TakenFrom
  <2> QED
    BY <2>2, <2>3
<1> QED
  BY <1>9, <1>10, <1>12, <1>13

\* What such a run leaves: the histories of the plan without what it doomed.
LEMMA LeftOver ==
    ASSUME RetentionAssumption, RetentionInv, pc # "idle", NEW E \in SUBSET Keys,
           \A k \in E : Carried(k)
    PROVE  /\ Present(Here, E) = Rest(Present(base, E), doomed)
           /\ Past(Here, E) = Rest(Past(base, E), doomed)
           /\ Purged(Here, E) = {}
<1>1. \A k \in E : base.gens[k] \in SUBSET Generation
  BY DEF RetentionInv, RetentionTypeOK, Archives
<1>2. \A k \in E : active[k] = base.active[k] \ doomed
  BY DEF Carried
<1>3. \A k \in E : gens[k] = {Thin(g) : g \in {h \in base.gens[k] : ~ Purgeable(h)}}
  BY DEF Carried
<1>4. \A k \in E : \A g \in base.gens[k] :
         /\ Thin(g).at = g.at /\ Thin(g).versions = g.versions \ doomed
         /\ Purgeable(Thin(g)) = Purgeable(g) /\ Thinnable(Thin(g)) = Thinnable(g)
  BY <1>1, ThinIs DEF Purgeable, Thinnable
<1> DEFINE Cutting(h) == [versions |-> h.versions \ doomed, age |-> h.age]
<1>5. Present(Here, E) = {Cutting(h) : h \in Present(base, E)}
  <2>1. \A k \in E : Cutting([versions |-> base.active[k], age |-> None])
                      = [versions |-> Here.active[k], age |-> None]
    BY <1>2 DEF Here
  <2>2. ASSUME NEW h \in Present(Here, E) PROVE \E g \in Present(base, E) : h = Cutting(g)
    <3>1. PICK k \in E : h = [versions |-> Here.active[k], age |-> None]
      BY DEF Present
    <3> HIDE DEF Cutting
    <3>2. [versions |-> base.active[k], age |-> None] \in Present(base, E)
      BY DEF Present
    <3> QED
      BY <2>1, <3>1, <3>2
  <2>3. ASSUME NEW g \in Present(base, E) PROVE Cutting(g) \in Present(Here, E)
    <3>1. PICK k \in E : g = [versions |-> base.active[k], age |-> None]
      BY DEF Present
    <3> HIDE DEF Cutting
    <3>2. Cutting(g) = [versions |-> Here.active[k], age |-> None]
      BY <2>1, <3>1
    <3> QED
      BY <3>2 DEF Present
  <2> HIDE DEF Cutting
  <2> QED
    BY <2>2, <2>3
<1>6. Past(Here, E) = {Cutting(h) : h \in Past(base, E)}
  <2> DEFINE Rec(g) == [versions |-> g.versions, age |-> Since(g.at)]
  <2>1. \A k \in E : \A g \in base.gens[k] : Cutting(Rec(g)) = Rec(Thin(g))
    BY <1>4
  <2>2. \A r : Past(r, E) = {Rec(g) : g \in {h \in UNION {r.gens[k] : k \in E} : Thinnable(h)}}
    BY DEF Past
  <2> HIDE DEF Cutting, Rec
  <2>3. ASSUME NEW h \in Past(Here, E) PROVE \E g \in Past(base, E) : h = Cutting(g)
    <3>1. PICK k \in E : \E g \in gens[k] : Thinnable(g) /\ h = Rec(g)
      BY <2>2 DEF Here
    <3>2. PICK g \in base.gens[k] : Thinnable(Thin(g)) /\ h = Rec(Thin(g))
      BY <1>3, <3>1
    <3>3. Thinnable(g) /\ h = Cutting(Rec(g))
      BY <1>4, <2>1, <3>2
    <3> QED
      BY <2>2, <3>3
  <2>4. ASSUME NEW h \in Past(base, E) PROVE Cutting(h) \in Past(Here, E)
    <3>1. PICK k \in E : \E g \in base.gens[k] : Thinnable(g) /\ h = Rec(g)
      BY <2>2
    <3>2. PICK g \in base.gens[k] : Thinnable(g) /\ h = Rec(g)
      BY <3>1
    <3>3. Thin(g) \in gens[k] /\ Thinnable(Thin(g)) /\ Cutting(h) = Rec(Thin(g))
      BY <1>3, <1>4, <2>1, <3>2 DEF Thinnable
    <3> QED
      BY <2>2, <3>3 DEF Here
  <2> QED
    BY <2>3, <2>4
<1>7. Purged(Here, E) = {}
  <2>1. \A k \in E : \A g \in gens[k] : ~ Purgeable(g)
    BY <1>3, <1>4
  <2> QED
    BY <2>1 DEF Purged, Here
<1> QED
  BY <1>5, <1>6, <1>7 DEF Rest

\* After a run in which no scope failed a second plan removes nothing.
LEMMA NothingMore ==
    ASSUME RetentionAssumption, RetentionInv, PlanInv, Finish, ~ failed
    PROVE  Planned(Here, KeysIn(eligible)) = {}
<1> DEFINE E == KeysIn(eligible)
<1>1. pc = "apply" /\ E \in SUBSET Keys /\ RetentionTypeOK
  BY DEF Finish, KeysIn, RetentionInv
<1>2. doomed = Planned(base, E)
  BY <1>1 DEF PlanInv
<1>3. \A k \in E : Carried(k)
  BY AllCarried
<1> HIDE DEF E
<1>4. /\ Present(Here, E) = Rest(Present(base, E), doomed)
      /\ Past(Here, E) = Rest(Past(base, E), doomed)
      /\ Purged(Here, E) = {}
  BY <1>1, <1>3, LeftOver
<1>5. /\ Disjoint(Present(base, E))
      /\ Disjoint(Past(base, E))
      /\ \A h \in Present(base, E) : \A v \in h.versions :
            v \notin Taken(Past(base, E), task.deleted) /\ v \notin Purged(base, E)
      /\ \A h \in Past(base, E) : \A v \in h.versions :
            v \notin Taken(Present(base, E), task.active) /\ v \notin Purged(base, E)
  BY <1>1, PartsApart
<1>6. Taken(Rest(Present(base, E), doomed), task.active) = {}
  <2>1. \A h \in Present(base, E) :
           h.versions \cap doomed = h.versions \cap Taken(Present(base, E), task.active)
    BY <1>2, <1>5 DEF Planned
  <2>2. /\ task.active.min \in Nat /\ task.active.maxVersions \in Limits
        /\ task.active.maxSize \in Limits
    BY <1>1, PolicyLimits
  <2> QED
    BY <1>1, <1>5, <2>1, <2>2, TakenOnce
<1>7. Taken(Rest(Past(base, E), doomed), task.deleted) = {}
  <2>1. \A h \in Past(base, E) :
           h.versions \cap doomed = h.versions \cap Taken(Past(base, E), task.deleted)
    BY <1>2, <1>5 DEF Planned
  <2>2. /\ task.deleted.min \in Nat /\ task.deleted.maxVersions \in Limits
        /\ task.deleted.maxSize \in Limits
    BY <1>1, PolicyLimits
  <2> QED
    BY <1>1, <1>5, <2>1, <2>2, TakenOnce
<1> QED
  BY <1>4, <1>6, <1>7 DEF Planned, E

\* In every state, the next one too.
PlansExact == \A E \in SUBSET Keys : Doomed(E) = Planned(Here, E)

LEMMA DoomsAll == PlansExact
BY DoomedIs DEF PlansExact

\* Retention settles.
LEMMA SecondRunsSettle ==
    ASSUME RetentionAssumption, RetentionInv, PlanInv, [RetentionNext]_kvars PROVE RetentionSettles
<1> SUFFICES ASSUME pc # "idle", pc' = "idle", ~ failed, faults' = faults,
                    NEW E \in SUBSET Keys, E = KeysIn(eligible)
             PROVE  Doomed(E)' = {}
  BY DEF RetentionSettles
<1>1. Finish
  <2>1. ~ UndoFails /\ ~ Crash
    BY DEF RetentionInv, RetentionTypeOK, UndoFails, Crash
  <2> QED
    BY <2>1
    DEF RetentionNext, Tick, Store, MarkDeleted, Damage, PlanRetention, BeginScope,
        PreserveScope, RemoveFile, EndScope, RollBackScope, kvars, plan
<1>2. Planned(Here, E) = {}
  BY <1>1, NothingMore
<1>3. Doomed(E)' = Doomed(E)
  <2>1. UNCHANGED <<task, now, made, records>>
    BY <1>1 DEF Finish
  <2>2. Here' = Here
    BY <2>1 DEF Here, records
  <2>3. PlansExact'
    BY DoomsAll, PTL
  <2>4. Planned(Here, E)' = Planned(Here, E)
    BY <2>1, <2>2, PlannedStays
  <2>5. Doomed(E)' = Planned(Here, E)'
    BY <2>3 DEF PlansExact
  <2>6. Doomed(E) = Planned(Here, E)
    BY DoomedIs
  <2> QED
    BY <2>4, <2>5, <2>6
<1> QED
  BY <1>2, <1>3, DoomedIs

-----------------------------------------------------------------------------
(* One version for each bucket                                             *)

\* Two versions of one bucket of the interval that the task keeps without end.
Alike(v, w) == Bucket[LastInterval(task)][made[w].day] = Bucket[LastInterval(task)][made[v].day]

\* The versions of a history are of one life of its source, those of the active
\* history of the present one.
Uniform(r) ==
    \A k \in Keys :
        /\ \A v \in r.active[k] : made[v].life = life[k]
        /\ \A g \in r.gens[k] : \A v, w \in g.versions : made[v].life = made[w].life

AllBuckets(r) ==
    \A v \in Versions : made[v] # None =>
        \E w \in Held(r, made[v].key) : made[w].life = made[v].life /\ Alike(v, w)

\* What a plan leaves of a history has a version in each bucket that the history had.
CoversLeft(r, d) ==
    \A k \in Keys :
        /\ \A v \in r.active[k] : \E w \in r.active[k] \ d : Alike(v, w)
        /\ \A g \in r.gens[k] : \A v \in g.versions : \E w \in g.versions \ d : Alike(v, w)

CoverInv ==
    WithoutEnd(task) =>
        IF pc = "idle" THEN Uniform(Here) /\ AllBuckets(Here)
                       ELSE Uniform(base) /\ AllBuckets(base) /\ CoversLeft(base, doomed)

\* A version is in the first of the tiers that has not ended at its age.
LEMMA SomeTier ==
    ASSUME RetentionAssumption, RetentionTypeOK, NEW v \in Versions, made[v] # None,
           NEW tiers \in Seq(Tier), tiers # <<>>, tiers[Len(tiers)].forever
    PROVE  \E i \in DOMAIN tiers : InTier(v, i, tiers)
<1> DEFINE Open == {i \in DOMAIN tiers : tiers[i].forever \/ Age(v) < Upper(tiers, i)}
<1>1. Len(tiers) \in Nat /\ DOMAIN tiers = 1..Len(tiers) /\ Len(tiers) \in DOMAIN tiers
  BY LenProperties, EmptySeq
<1>2. Open \subseteq Nat /\ Open # {}
  BY <1>1
<1>3. PICK i \in Open : \A j \in Open : ~ (<<j, i>> \in OpToRel(<, Nat))
  <2> HIDE DEF Open
  <2> QED
    BY <1>2, NatLessThanWellFounded, WFMin, Zenon
<1>4. \A j \in Open : ~ (j < i)
  BY <1>2, <1>3 DEF OpToRel
<1>5. Age(v) \in Nat
  <2>1. now \in Nat /\ made[v].day \in Nat
    <3>1. \A u \in {v} : made[u] # None /\ {v} \subseteq Versions
      OBVIOUS
    <3>2. now \in Nat
      BY DEF RetentionTypeOK, RetentionAssumption
    <3> QED
      BY <3>1, <3>2, Stamped
  <2> QED
    BY <2>1 DEF Age, Since
<1>6. i \in DOMAIN tiers /\ i \in 1..Len(tiers) /\ i - 1 \in 0..Len(tiers)
  BY <1>1
<1>7. Upper(tiers, i - 1) \in Nat /\ (i - 1 = 0 => Upper(tiers, i - 1) = 0)
  BY <1>6, UpperType
<1>8. Age(v) >= Upper(tiers, i - 1)
  <2>1. CASE i = 1
    BY <1>5, <1>7, <2>1
  <2>2. CASE i # 1
    <3>1. i - 1 \in DOMAIN tiers /\ i - 1 < i
      BY <1>1, <1>6, <2>2
    <3>2. i - 1 \notin Open
      BY <1>4, <3>1
    <3>3. ~ (Age(v) < Upper(tiers, i - 1))
      BY <3>1, <3>2
    <3> QED
      BY <1>5, <1>7, <3>3
  <2> QED
    BY <2>1, <2>2
<1> QED
  BY <1>6, <1>8 DEF InTier

\* Thinning leaves each bucket of a history a version.
LEMMA BucketSurvives ==
    ASSUME RetentionAssumption, RetentionTypeOK, WithoutEnd(task),
           NEW S \in SUBSET Versions, \A u \in S : made[u] # None,
           NEW p \in {task.active, task.deleted}, NEW age, NEW v \in S
    PROVE  \E w \in S \ Candidates(S, p, age) : Alike(v, w)
<1>1. /\ p.mode = "tiered" /\ p.maxVersions = None /\ p.maxAge = None /\ Nests(p, LastInterval(task))
      /\ p.tiers \in Seq(Tier) /\ p.tiers # <<>> /\ p.tiers[Len(p.tiers)].forever
  BY DEF WithoutEnd, Endless, RetentionAssumption, RetentionTypeOK, IsPolicy
<1>2. \A w \in Candidates(S, p, age) : w \in S \ Protected(S, p) /\ ~ KeptByTier(w, S, p)
  BY <1>1 DEF Candidates, OverLimit
<1>3. CASE v \in Protected(S, p)
  BY <1>2, <1>3 DEF Alike
<1>4. CASE v \notin Protected(S, p)
  <2>1. PICK i \in DOMAIN p.tiers : InTier(v, i, p.tiers)
    BY <1>1, SomeTier
  <2> DEFINE interval == p.tiers[i].interval
  <2>2. CASE interval = "all"
    <3>1. KeptByTier(v, S, p)
      BY <2>1, <2>2 DEF KeptByTier
    <3> QED
      BY <1>2, <3>1 DEF Alike
  <2>3. CASE interval # "all"
    <3> DEFINE Peers(u) == {w \in S \ Protected(S, p) :
                              /\ InTier(w, i, p.tiers)
                              /\ Bucket[interval][made[w].day] = Bucket[interval][made[u].day]}
    <3>1. v \in Peers(v) /\ Peers(v) \in SUBSET S /\ Peers(v) # {}
      BY <1>4, <2>1
    <3>2. PICK u \in Peers(v) : \A w \in Peers(v) : ~ Older(u, w)
      <4> HIDE DEF Peers
      <4> QED
        BY <3>1, Newest
    <3>3. Peers(u) = Peers(v)
      BY <3>2
    <3>4. KeptByTier(u, S, p)
      <4>1. InTier(u, i, p.tiers) /\ \A w \in Peers(u) : ~ Older(u, w)
        BY <3>2, <3>3
      <4> QED
        BY <4>1 DEF KeptByTier
    <3>5. Alike(v, u)
      <4>1. made[u].day \in Days /\ made[v].day \in Days /\ u \in S
        BY <3>2, Stamped
      <4>2. Bucket[interval][made[u].day] = Bucket[interval][made[v].day]
        BY <3>2
      <4>3. \A d, e \in Days : Bucket[interval][d] = Bucket[interval][e] =>
                Bucket[LastInterval(task)][d] = Bucket[LastInterval(task)][e]
        BY <1>1, <2>3 DEF Nests
      <4> QED
        BY <4>1, <4>2, <4>3 DEF Alike
    <3> QED
      BY <1>2, <3>2, <3>4, <3>5
  <2> QED
    BY <2>2, <2>3
<1> QED
  BY <1>3, <1>4

\* So does a plan.
LEMMA PlanCovers ==
    ASSUME RetentionAssumption, RetentionTypeOK, Sound(Here), WithoutEnd(task), NEW E \in SUBSET Keys
    PROVE  CoversLeft(Here, Doomed(E))
<1>1. /\ \A k \in Keys : active[k] \in SUBSET Versions /\ gens[k] \in SUBSET Generation
      /\ task.active.maxSize = None /\ task.deleted.maxSize = None /\ task.deleted.purge = None
  BY DEF RetentionTypeOK, WithoutEnd, Endless
<1>2. /\ \A k \in Keys : \A v \in active[k] : made[v] # None /\ made[v].key = k
      /\ \A k \in Keys : \A g \in gens[k] : \A v \in g.versions : made[v] # None /\ made[v].key = k
      /\ \A k \in Keys : \A g, h \in gens[k] : g # h => g.versions \cap h.versions = {}
      /\ \A k \in Keys : \A g \in gens[k] : active[k] \cap g.versions = {}
  BY DEF Sound, Held, Here
<1>3. ASSUME NEW w \in Doomed(E)
      PROVE  \/ \E j \in E : w \in Candidates(active[j], task.active, None)
             \/ \E j \in E : \E h \in gens[j] :
                   w \in Candidates(h.versions, task.deleted, Since(h.at))
  <2>1. w \in Planned(Here, E)
    BY DoomedIs
  <2>2. Purged(Here, E) = {}
    BY <1>1 DEF Purged, Purgeable
  <2>3. /\ Taken(Present(Here, E), task.active) = Thinned(Present(Here, E), task.active)
        /\ Taken(Past(Here, E), task.deleted) = Thinned(Past(Here, E), task.deleted)
    BY <1>1 DEF Taken, SizeLimited
  <2>4. w \in Thinned(Present(Here, E), task.active) \/ w \in Thinned(Past(Here, E), task.deleted)
    BY <2>1, <2>2, <2>3 DEF Planned
  <2>5. CASE w \in Thinned(Present(Here, E), task.active)
    <3>1. PICK h \in Present(Here, E) : w \in Candidates(h.versions, task.active, h.age)
      BY <2>5 DEF Thinned
    <3>2. PICK j \in E : h = [versions |-> active[j], age |-> None]
      BY DEF Present, Here
    <3>3. h.versions = active[j] /\ h.age = None
      BY <3>2
    <3> QED
      BY <3>1, <3>3
  <2>6. CASE w \in Thinned(Past(Here, E), task.deleted)
    <3>1. PICK h \in Past(Here, E) : w \in Candidates(h.versions, task.deleted, h.age)
      BY <2>6 DEF Thinned
    <3>2. PICK j \in E : \E g \in gens[j] : h = [versions |-> g.versions, age |-> Since(g.at)]
      BY DEF Past, Here
    <3>3. PICK g \in gens[j] : h.versions = g.versions /\ h.age = Since(g.at)
      BY <3>2
    <3> QED
      BY <3>1, <3>3
  <2> QED
    BY <2>4, <2>5, <2>6
<1>4. \A S, p, age : Candidates(S, p, age) \subseteq S
  BY DEF Candidates
<1>5. ASSUME NEW k \in Keys, NEW v \in active[k]
      PROVE  \E w \in active[k] \ Doomed(E) : Alike(v, w)
  <2>1. active[k] \in SUBSET Versions /\ \A u \in active[k] : made[u] # None
    BY <1>1, <1>2
  <2>2. PICK w \in active[k] \ Candidates(active[k], task.active, None) : Alike(v, w)
    BY <2>1, BucketSurvives
  <2>3. w \notin Doomed(E)
    BY <1>2, <1>3, <1>4, <2>2
  <2> QED
    BY <2>2, <2>3
<1>6. ASSUME NEW k \in Keys, NEW g \in gens[k], NEW v \in g.versions
      PROVE  \E w \in g.versions \ Doomed(E) : Alike(v, w)
  <2>1. g.versions \in SUBSET Versions /\ \A u \in g.versions : made[u] # None
    BY <1>1, <1>2 DEF Generation
  <2>2. PICK w \in g.versions \ Candidates(g.versions, task.deleted, Since(g.at)) : Alike(v, w)
    BY <2>1, BucketSurvives
  <2>3. w \notin Doomed(E)
    BY <1>2, <1>3, <1>4, <2>2
  <2> QED
    BY <2>2, <2>3
<1>7. Here.active = active /\ Here.gens = gens
  BY DEF Here
<1> QED
  BY <1>5, <1>6, <1>7 DEF CoversLeft

\* A run that has kept to its plan so far covers what it found.
LEMMA StillCovered ==
    ASSUME RetentionAssumption, RetentionInv, CoverInv, WithoutEnd(task)
    PROVE  Uniform(Here) /\ AllBuckets(Here)
<1>1. CASE pc = "idle"
  BY <1>1 DEF CoverInv
<1>2. CASE pc # "idle"
  <2>1. Uniform(base) /\ AllBuckets(base) /\ CoversLeft(base, doomed)
    BY <1>2 DEF CoverInv
  <2>2. \A k \in Keys : base.gens[k] \in SUBSET Generation
    BY <1>2 DEF RetentionInv, RetentionTypeOK, Archives
  <2>3. \A k \in Keys : \A g \in base.gens[k] : Thin(g).versions = g.versions \ doomed
    BY <2>2, ThinIs
  <2>4. ASSUME NEW k \in Keys
        PROVE  /\ active[k] \subseteq base.active[k]
               /\ \A h \in gens[k] : \E g \in base.gens[k] : h.versions \subseteq g.versions
               /\ base.active[k] \ doomed \subseteq active[k]
               /\ \A g \in base.gens[k] :
                     \E h \in gens[k] : g.versions \ doomed \subseteq h.versions
    <3>1. Same(k) \/ Cut(k)
      BY <1>2 DEF RetentionInv, StepInv
    <3>2. \A g \in base.gens[k] : ~ Purgeable(g)
      BY DEF WithoutEnd, Purgeable
    <3>3. CASE Same(k)
      BY <3>3 DEF Same
    <3>4. CASE Cut(k)
      <4>1. \A h \in gens[k] : \E g \in base.gens[k] : h = Thin(g)
        BY <3>4 DEF Cut
      <4>2. \A g \in base.gens[k] : Thin(g) \in gens[k]
        BY <3>2, <3>4 DEF Cut
      <4> QED
        BY <2>3, <3>4, <4>1, <4>2 DEF Cut
    <3> QED
      BY <3>1, <3>3, <3>4
  <2>5. Uniform(Here)
    <3>1. \A k \in Keys : \A v \in active[k] : made[v].life = life[k]
      BY <2>1, <2>4 DEF Uniform
    <3>2. \A k \in Keys : \A g \in gens[k] : \A v, w \in g.versions : made[v].life = made[w].life
      BY <2>1, <2>4 DEF Uniform
    <3> QED
      BY <3>1, <3>2 DEF Uniform, Here
  <2>6. ASSUME NEW v \in Versions, made[v] # None
        PROVE  \E w \in Held(Here, made[v].key) : made[w].life = made[v].life /\ Alike(v, w)
    <3> DEFINE k == made[v].key
    <3>1. k \in Keys
      BY <2>6 DEF RetentionInv, RetentionTypeOK, Made
    <3>2. PICK u \in Held(base, k) : made[u].life = made[v].life /\ Alike(v, u)
      BY <2>1, <2>6 DEF AllBuckets
    <3>3. PICK w \in Held(Here, k) : made[w].life = made[u].life /\ Alike(u, w)
      <4> HIDE DEF k
      <4>1. CASE u \in base.active[k]
        <5>1. PICK w \in base.active[k] \ doomed : Alike(u, w)
          BY <2>1, <3>1, <4>1 DEF CoversLeft
        <5>2. made[w].life = made[u].life
          BY <2>1, <3>1, <4>1, <5>1 DEF Uniform
        <5>3. w \in Held(Here, k)
          BY <2>4, <3>1, <5>1 DEF Held, Here
        <5> QED
          BY <5>1, <5>2, <5>3
      <4>2. ASSUME NEW g \in base.gens[k], u \in g.versions
            PROVE  \E w \in Held(Here, k) : made[w].life = made[u].life /\ Alike(u, w)
        <5>1. PICK w \in g.versions \ doomed : Alike(u, w)
          BY <2>1, <3>1, <4>2 DEF CoversLeft
        <5>2. made[w].life = made[u].life
          BY <2>1, <3>1, <4>2, <5>1 DEF Uniform
        <5>3. w \in Held(Here, k)
          BY <2>4, <3>1, <5>1 DEF Held, Here
        <5> QED
          BY <5>1, <5>2, <5>3
      <4> QED
        BY <3>2, <4>1, <4>2 DEF Held
    <3> QED
      BY <3>2, <3>3 DEF Alike
  <2> QED
    BY <2>5, <2>6 DEF AllBuckets
<1> QED
  BY <1>1, <1>2

LEMMA StoreCovers ==
    ASSUME RetentionAssumption, RetentionInv, CoverInv, NEW k \in Keys, Store(k)
    PROVE  CoverInv'
<1>1. PICK n \in 0..MaxVersions : \A v \in Versions : made[v] # None <=> v <= n
  BY DEF RetentionInv, OwnInv
<1> DEFINE x == n + 1
<1> DEFINE entry == [key |-> k, day |-> now, life |-> life[k]]
<1>2. /\ pc = "idle" /\ x \in Versions
      /\ made' = [made EXCEPT ![x] = entry]
      /\ active' = [active EXCEPT ![k] = @ \cup {x}]
      /\ UNCHANGED <<task, life, gens, pc>>
  <2>1. 1 + Cardinality({w \in Versions : made[w] # None}) = x
    BY <1>1, NextVersion
  <2> QED
    BY <2>1 DEF Store
<1>3. made[x] = None
  BY <1>1, <1>2 DEF Versions
<1> HIDE DEF x
<1>4. /\ \A v \in Versions : v # x => made'[v] = made[v]
      /\ made'[x] = entry
      /\ active'[k] = active[k] \cup {x}
      /\ \A j \in Keys : j # k => active'[j] = active[j]
      /\ gens' = gens /\ life' = life /\ task' = task
  BY <1>2 DEF RetentionInv, RetentionTypeOK
<1>5. \A j \in Keys : \A v \in Held(Here, j) : v # x /\ v \in Versions
  BY <1>3 DEF RetentionInv, OwnInv, Sound, RetentionTypeOK, Held, Here, Generation
<1> SUFFICES ASSUME WithoutEnd(task)' PROVE Uniform(Here)' /\ AllBuckets(Here)'
  BY <1>2 DEF CoverInv
<1>6. WithoutEnd(task) /\ LastInterval(task)' = LastInterval(task)
  BY <1>4
<1>7. Uniform(Here) /\ AllBuckets(Here)
  BY <1>2, <1>6 DEF CoverInv
<1>8. Uniform(Here)'
  <2>1. ASSUME NEW j \in Keys, NEW v \in active'[j] PROVE made'[v].life = life'[j]
    <3>1. CASE v = x
      <4>1. j = k
        BY <1>4, <1>5, <3>1, <2>1 DEF Held, Here
      <4> QED
        BY <1>4, <3>1, <4>1
    <3>2. CASE v # x
      <4>1. v \in active[j] /\ v \in Versions
        BY <1>4, <1>5, <2>1, <3>2 DEF Held, Here
      <4> QED
        BY <1>4, <1>7, <3>2, <4>1 DEF Uniform, Here
    <3> QED
      BY <3>1, <3>2
  <2>2. ASSUME NEW j \in Keys, NEW g \in gens'[j], NEW v \in g.versions, NEW w \in g.versions
        PROVE  made'[v].life = made'[w].life
    <3>1. v # x /\ w # x /\ v \in Versions /\ w \in Versions /\ g \in gens[j]
      BY <1>4, <1>5, <2>2 DEF Held, Here
    <3> QED
      BY <1>4, <1>7, <3>1 DEF Uniform, Here
  <2> QED
    BY <2>1, <2>2 DEF Uniform, Here
<1>9. AllBuckets(Here)'
  <2> SUFFICES ASSUME NEW v \in Versions, made'[v] # None
               PROVE  \E w \in Held(Here, made[v].key)' :
                         made'[w].life = made'[v].life /\ Alike(v, w)'
    BY DEF AllBuckets
  <2>1. CASE v = x
    <3>1. x \in Held(Here, made[x].key)'
      BY <1>4 DEF Held, Here
    <3> QED
      BY <2>1, <3>1 DEF Alike
  <2>2. CASE v # x
    <3>1. made'[v] = made[v] /\ made[v] # None
      BY <1>4, <2>2
    <3>2. made[v].key \in Keys
      BY <3>1 DEF RetentionInv, RetentionTypeOK, Made
    <3>3. PICK w \in Held(Here, made[v].key) : made[w].life = made[v].life /\ Alike(v, w)
      BY <1>7, <3>1 DEF AllBuckets
    <3>4. made'[w] = made[w]
      BY <1>4, <1>5, <3>2, <3>3
    <3>5. w \in Held(Here, made[v].key)'
      BY <1>4, <3>1, <3>2, <3>3 DEF Held, Here
    <3> QED
      BY <1>6, <3>1, <3>3, <3>4, <3>5 DEF Alike
  <2> QED
    BY <2>1, <2>2
<1> QED
  BY <1>8, <1>9

LEMMA MarkDeletedCovers ==
    ASSUME RetentionAssumption, RetentionInv, CoverInv, NEW k \in Keys, MarkDeleted(k)
    PROVE  CoverInv'
<1> DEFINE g == [at |-> now, versions |-> active[k]]
<1>1. /\ pc = "idle" /\ UNCHANGED <<task, now, made, pc>>
      /\ gens'[k] = gens[k] \cup {g}
      /\ active'[k] = {}
      /\ \A j \in Keys : j # k => /\ gens'[j] = gens[j] /\ active'[j] = active[j]
                                  /\ life'[j] = life[j]
  BY DEF MarkDeleted, RetentionInv, RetentionTypeOK
<1>2. g.versions = active[k]
  OBVIOUS
<1> HIDE DEF g
<1> SUFFICES ASSUME WithoutEnd(task)' PROVE Uniform(Here)' /\ AllBuckets(Here)'
  BY <1>1 DEF CoverInv
<1>3. WithoutEnd(task)
  BY <1>1
<1>4. Uniform(Here) /\ AllBuckets(Here)
  BY <1>1, <1>3 DEF CoverInv
<1>5. Uniform(Here)'
  <2>1. \A j \in Keys : \A v \in active[j] : made[v].life = life[j]
    BY <1>4 DEF Uniform, Here
  <2>2. \A j \in Keys : \A h \in gens[j] : \A v, w \in h.versions : made[v].life = made[w].life
    BY <1>4 DEF Uniform, Here
  <2>3. \A j \in Keys : \A v \in active'[j] : made'[v].life = life'[j]
    BY <1>1, <2>1
  <2>4. \A j \in Keys : \A h \in gens'[j] : \A v, w \in h.versions : made'[v].life = made'[w].life
    BY <1>1, <1>2, <2>1, <2>2
  <2> QED
    BY <2>3, <2>4 DEF Uniform, Here
<1>6. AllBuckets(Here)'
  <2>1. \A j \in Keys : Held(Here, j)' = Held(Here, j)
    <3>1. \A j \in Keys : j # k => Held(Here, j)' = Held(Here, j)
      BY <1>1 DEF Held, Here
    <3>2. Held(Here, k)' = Held(Here, k)
      BY <1>1, <1>2 DEF Held, Here
    <3> QED
      BY <3>1, <3>2
  <2>2. \A v \in Versions : made[v] # None => made[v].key \in Keys
    BY DEF RetentionInv, RetentionTypeOK, Made
  <2> QED
    BY <1>1, <1>4, <2>1, <2>2 DEF AllBuckets, Alike
<1> QED
  BY <1>5, <1>6

\* Any other step leaves the record of every version alone, and with it what is covered.
LEMMA OtherStepsCover ==
    ASSUME RetentionAssumption, RetentionInv, CoverInv, UNCHANGED <<task, made, life>>,
           \/ pc = "idle" /\ pc' = "idle" /\ UNCHANGED <<active, gens>>
           \/ pc # "idle" /\ pc' # "idle" /\ UNCHANGED <<base, doomed>>
           \/ pc # "idle" /\ pc' = "idle" /\ UNCHANGED <<active, gens>>
           \/ pc # "idle" /\ pc' = "idle" /\ active' = base.active /\ gens' = base.gens
    PROVE  CoverInv'
<1> SUFFICES ASSUME WithoutEnd(task)' PROVE CoverInv'
  BY DEF CoverInv
<1>1. WithoutEnd(task)
  OBVIOUS
<1>2. Uniform(Here) /\ AllBuckets(Here)
  BY <1>1, StillCovered
<1>3. CASE pc' = "idle" /\ UNCHANGED <<active, gens>>
  <2>1. Uniform(Here)' /\ AllBuckets(Here)'
    BY <1>2, <1>3 DEF Uniform, AllBuckets, Alike, Held, Here
  <2> QED
    BY <1>3, <2>1 DEF CoverInv
<1>4. CASE pc # "idle" /\ pc' # "idle" /\ UNCHANGED <<base, doomed>>
  <2>1. Uniform(base) /\ AllBuckets(base) /\ CoversLeft(base, doomed)
    BY <1>1, <1>4 DEF CoverInv
  <2>2. Uniform(base)'
    BY <1>4, <2>1 DEF Uniform
  <2>3. AllBuckets(base)'
    BY <1>4, <2>1 DEF AllBuckets, Alike, Held
  <2>4. CoversLeft(base, doomed)'
    BY <1>4, <2>1 DEF CoversLeft, Alike
  <2> QED
    BY <1>4, <2>2, <2>3, <2>4 DEF CoverInv
<1>5. CASE pc # "idle" /\ pc' = "idle" /\ active' = base.active /\ gens' = base.gens
  <2>1. Uniform(base) /\ AllBuckets(base)
    BY <1>1, <1>5 DEF CoverInv
  <2>2. Uniform(Here)' /\ AllBuckets(Here)'
    BY <1>5, <2>1 DEF Uniform, AllBuckets, Alike, Held, Here
  <2> QED
    BY <1>5, <2>2 DEF CoverInv
<1> QED
  BY <1>3, <1>4, <1>5

LEMMA PlanRetentionCovers ==
    ASSUME RetentionAssumption, RetentionInv, CoverInv,
           NEW complete \in SUBSET Scopes, PlanRetention(complete)
    PROVE  CoverInv'
<1> DEFINE E == KeysIn(complete)
<1>1. /\ pc = "idle" /\ pc' = "apply" /\ base' = Here /\ doomed' = Doomed(E)
      /\ UNCHANGED <<task, made, life>> /\ E \in SUBSET Keys
  BY DEF PlanRetention, Here, KeysIn
<1> SUFFICES ASSUME WithoutEnd(task)' PROVE CoverInv'
  BY DEF CoverInv
<1>2. WithoutEnd(task)
  BY <1>1
<1>3. Uniform(Here) /\ AllBuckets(Here)
  BY <1>2, StillCovered
<1>4. CoversLeft(Here, Doomed(E))
  BY <1>1, <1>2, PlanCovers DEF RetentionInv, OwnInv
<1> HIDE DEF E
<1>5. Uniform(base)'
  BY <1>1, <1>3 DEF Uniform
<1>6. \A v, w : Alike(v, w)' <=> Alike(v, w)
  BY <1>1 DEF Alike
<1>7. AllBuckets(base)'
  <2>1. \A v \in Versions : made[v] # None => Held(base, made[v].key)' = Held(Here, made[v].key)
    BY <1>1 DEF Held
  <2> QED
    BY <1>1, <1>3, <1>6, <2>1 DEF AllBuckets
<1>8. CoversLeft(base, doomed)'
  BY <1>1, <1>4, <1>6 DEF CoversLeft
<1> QED
  BY <1>1, <1>5, <1>7, <1>8 DEF CoverInv

\* Each action keeps every bucket covered.
LEMMA CoverSteps ==
    ASSUME RetentionAssumption, RetentionInv, CoverInv, [RetentionNext]_kvars PROVE CoverInv'
<1>1. ASSUME NEW day \in Days, Tick(day) PROVE CoverInv'
  BY <1>1, OtherStepsCover DEF Tick, records
<1>2. ASSUME NEW k \in Keys, Store(k) PROVE CoverInv'
  BY <1>2, StoreCovers
<1>3. ASSUME NEW k \in Keys, MarkDeleted(k) PROVE CoverInv'
  BY <1>3, MarkDeletedCovers
<1>4. ASSUME NEW v \in Versions, Damage(v) PROVE CoverInv'
  BY <1>4, OtherStepsCover DEF Damage, records
<1>5. ASSUME NEW complete \in SUBSET Scopes, PlanRetention(complete) PROVE CoverInv'
  BY <1>5, PlanRetentionCovers
<1>6. ASSUME NEW s \in Scopes, BeginScope(s) \/ PreserveScope(s) PROVE CoverInv'
  BY <1>6, OtherStepsCover DEF BeginScope, PreserveScope
<1>7. ASSUME NEW v \in Versions, RemoveFile(v) PROVE CoverInv'
  BY <1>7, OtherStepsCover DEF RemoveFile
<1>8. CASE EndScope \/ RollBackScope
  BY <1>8, OtherStepsCover DEF EndScope, RollBackScope
<1>9. CASE UndoFails \/ Crash
  BY <1>9, OtherStepsCover, EndsWithRestart DEF Restart
<1>10. CASE Finish
  BY <1>10, OtherStepsCover DEF Finish, records
<1>11. CASE UNCHANGED kvars
  BY <1>11, OtherStepsCover DEF kvars, records, plan
<1> QED
  BY <1>1, <1>2, <1>3, <1>4, <1>5, <1>6, <1>7, <1>8, <1>9, <1>10, <1>11 DEF RetentionNext

\* Whatever was stored, thinned and deleted, its bucket still has a version.
LEMMA BucketsKept ==
    ASSUME RetentionAssumption, RetentionInv, CoverInv PROVE EveryBucketKept
<1> SUFFICES ASSUME WithoutEnd(task), NEW v \in Versions, made[v] # None
             PROVE  \E w \in Lineage(made[v].key, made[v].life) :
                       Bucket[LastInterval(task)][made[w].day] = Bucket[LastInterval(task)][made[v].day]
  BY DEF EveryBucketKept
<1>1. PICK w \in Held(Here, made[v].key) : made[w].life = made[v].life /\ Alike(v, w)
  BY StillCovered DEF AllBuckets
<1>2. Held(Here, made[v].key) = Tracked(made[v].key)
  BY DEF Held, Here, Tracked
<1> QED
  BY <1>1, <1>2 DEF Lineage, Alike

\* Before the first run there is no plan, and nothing to cover.
LEMMA PlansStart ==
    ASSUME RetentionInit PROVE PlanInv /\ CoverInv
BY DEF RetentionInit, PlanInv, CoverInv, Uniform, AllBuckets, Here

-----------------------------------------------------------------------------
(* The search for source files                                             *)

Pending == matches \cup UNION {stack[i] : i \in 1..Len(stack)}

Lists == SUBSET Seq(Names)

ScanTypes ==
    /\ matches \subseteq Seq(Names) /\ stack \in Seq(Lists)
    /\ reads \subseteq [dir : Dirs, path : Seq(Names), same : BOOLEAN]
    /\ steady \subseteq Reachable(tree, there, closed)

\* A walk starts at the root, and goes on from each directory it has read.
FromRoot ==
    \/ \E r \in reads : r.dir = Root /\ r.path = <<>> /\ r.same
    \/ search.kind # "glob" /\ reads = {} /\ Pending = {<<>>}

GoesOn ==
    \A p \in steady, r \in reads : \A i \in 0..(Len(p) - 2) :
        r.same /\ r.dir = Trail(tree, p)[i] =>
            \/ \E s \in reads : s.dir = Trail(tree, p)[i + 1]
            \/ Append(r.path, p[i + 1]) \in Pending

TakesFiles ==
    \A p \in steady, r \in reads : r.dir = Trail(tree, p)[Len(p) - 1] =>
        LET q == Append(r.path, p[Len(p)]) IN Keeps(q) => \E f \in found : f.path = q

ReadUnder == \A r \in reads : r.same => End(tree, r.path) = r.dir

WalkInv ==
    /\ steady # {} => FromRoot
    /\ GoesOn /\ TakesFiles /\ ReadUnder
    /\ visited \subseteq {r.dir : r \in reads}
    /\ search.kind # "glob" => visited = {r.dir : r \in reads}

ScanInv ==
    /\ ScanTypes
    /\ scanning \in {"walk", "store"} => WalkInv
    /\ scanning = "walk" /\ search.kind # "glob" =>
          matches = {} \/ (matches = {<<>>} /\ reads = {} /\ stack = <<>>)
    /\ scanning = "store" => Pending = {}
    /\ ScanSound

-----------------------------------------------------------------------------
(* Where a path leads                                                      *)

Fits(t, p, n, f) == f = [i \in 0..n |-> IF i = 0 THEN Root ELSE Below(t, f[i - 1], p[i])]

LEMMA TrailExists == ASSUME NEW t, NEW p, NEW n \in Nat PROVE \E f : Fits(t, p, n, f)
<1> DEFINE Bad == {m \in Nat : ~\E f : Fits(t, p, m, f)}
<1> SUFFICES ASSUME Bad # {} PROVE FALSE
  OBVIOUS
<1>1. PICK a \in Bad : \A b \in Bad : ~(<<b, a>> \in OpToRel(<, Nat))
  BY NatLessThanWellFounded, WFMin, Zenon
<1>2. a \in Nat /\ ~\E f : Fits(t, p, a, f)
  OBVIOUS
<1>3. CASE a = 0
  <2>1. Fits(t, p, 0, [i \in 0..0 |-> Root])
    BY DEF Fits
  <2> QED
    BY <1>2, <1>3, <2>1
<1>4. CASE a # 0
  <2>1. a - 1 \in Nat /\ a - 1 < a
    BY <1>2, <1>4
  <2>2. <<a - 1, a>> \in OpToRel(<, Nat)
    BY <1>2, <2>1 DEF OpToRel
  <2>3. PICK f : Fits(t, p, a - 1, f)
    BY <1>1, <2>1, <2>2
  <2> DEFINE g == [i \in 0..a |-> IF i = a THEN Below(t, f[a - 1], p[a]) ELSE f[i]]
  <2>4. \A i \in 0..(a - 1) : f[i] = IF i = 0 THEN Root ELSE Below(t, f[i - 1], p[i])
    BY <2>3 DEF Fits
  <2>5. \A i \in 0..a : g[i] = IF i = 0 THEN Root ELSE Below(t, g[i - 1], p[i])
    <3> TAKE i \in 0..a
    <3>1. CASE i = a
      <4>1. g[a] = Below(t, f[a - 1], p[a]) /\ g[a - 1] = f[a - 1]
        BY <1>2, <2>1
      <4> QED
        BY <1>4, <3>1, <4>1
    <3>2. CASE i # a
      <4>1. i \in 0..(a - 1) /\ g[i] = f[i] /\ (i # 0 => g[i - 1] = f[i - 1])
        BY <1>2, <3>2
      <4> QED
        BY <2>4, <4>1
    <3> QED
      BY <3>1, <3>2
  <2>6. g = [i \in 0..a |-> g[i]]
    OBVIOUS
  <2> HIDE DEF g
  <2>7. Fits(t, p, a, g)
    BY <2>5, <2>6 DEF Fits
  <2> QED
    BY <1>2, <2>7
<1> QED
  BY <1>3, <1>4

LEMMA TrailIs ==
    ASSUME NEW t, NEW p \in Seq(Names)
    PROVE  /\ Trail(t, p) = [i \in 0..Len(p) |-> Trail(t, p)[i]]
           /\ Trail(t, p)[0] = Root
           /\ \A i \in 1..Len(p) : Trail(t, p)[i] = Below(t, Trail(t, p)[i - 1], p[i])
<1>0. Len(p) \in Nat
  BY LenProperties
<1>1. PICK f : Fits(t, p, Len(p), f)
  BY <1>0, TrailExists
<1>2. Fits(t, p, Len(p), Trail(t, p))
  BY <1>1 DEF Fits, Trail
<1> HIDE DEF Trail
<1> DEFINE T == Trail(t, p)
<1>3. T = [i \in 0..Len(p) |-> IF i = 0 THEN Root ELSE Below(t, T[i - 1], p[i])]
  BY <1>2 DEF Fits
<1> HIDE DEF T
<1>4. \A i \in 0..Len(p) : T[i] = IF i = 0 THEN Root ELSE Below(t, T[i - 1], p[i])
  BY <1>3
<1>5. T = [i \in 0..Len(p) |-> T[i]]
  BY <1>3
<1>6. T[0] = Root /\ \A i \in 1..Len(p) : T[i] = Below(t, T[i - 1], p[i])
  BY <1>0, <1>4
<1> QED
  BY <1>5, <1>6 DEF T

\* The walk down the empty path only stands in the root (SourceScan.Trail).
LEMMA RootTrail ==
    ASSUME NEW t
    PROVE  Trail(t, <<>>) = [i \in 0..0 |-> Root]
<1>0. <<>> \in Seq(Names)
  OBVIOUS
<1>1. PICK e \in Seq(Names) : e = <<>>
  BY <1>0
<1>2. Len(e) = 0
  BY <1>1
<1>3. PICK T : T = Trail(t, e)
  OBVIOUS
<1>4. T = [i \in 0..Len(e) |-> T[i]] /\ T[0] = Root
  BY <1>3, TrailIs
<1>5. \A i \in 0..0 : T[i] = Root
  BY <1>4, SMT
<1>6. T = [i \in 0..0 |-> T[i]]
  BY <1>2, <1>4
<1>7. [i \in 0..0 |-> T[i]] = [i \in 0..0 |-> Root]
  BY <1>5, Zenon
<1> QED
  BY <1>1, <1>3, <1>6, <1>7, Zenon

LEMMA TrailAppended ==
    ASSUME NEW t, NEW p \in Seq(Names), NEW n \in Names
    PROVE  /\ Append(p, n) \in Seq(Names)
           /\ End(t, Append(p, n)) = Below(t, End(t, p), n)
<1> DEFINE q == Append(p, n)
<1>1. /\ q \in Seq(Names) /\ Len(q) = Len(p) + 1 /\ Len(p) \in Nat
      /\ q[Len(p) + 1] = n /\ \A i \in 1..Len(p) : q[i] = p[i]
  BY AppendProperties, LenProperties
<1> HIDE DEF q
<1> DEFINE Bad == {m \in Nat : m <= Len(p) /\ Trail(t, q)[m] # Trail(t, p)[m]}
<1>2. Bad = {}
  <2> SUFFICES ASSUME Bad # {} PROVE FALSE
    OBVIOUS
  <2>1. PICK a \in Bad : \A b \in Bad : ~(<<b, a>> \in OpToRel(<, Nat))
    BY NatLessThanWellFounded, WFMin, Zenon
  <2>2. a \in Nat /\ a <= Len(p) /\ Trail(t, q)[a] # Trail(t, p)[a]
    OBVIOUS
  <2>3. a # 0
    BY <1>1, <2>2, TrailIs
  <2>4. a - 1 \in Nat /\ a - 1 < a /\ a - 1 <= Len(p) /\ a \in 1..Len(p) /\ a \in 1..Len(q)
    BY <1>1, <2>2, <2>3
  <2>5. <<a - 1, a>> \in OpToRel(<, Nat)
    BY <2>2, <2>4 DEF OpToRel
  <2>6. Trail(t, q)[a - 1] = Trail(t, p)[a - 1]
    BY <2>1, <2>4, <2>5
  <2>7. /\ Trail(t, q)[a] = Below(t, Trail(t, q)[a - 1], q[a])
        /\ Trail(t, p)[a] = Below(t, Trail(t, p)[a - 1], p[a])
    BY <1>1, <2>4, TrailIs
  <2> QED
    BY <1>1, <2>2, <2>4, <2>6, <2>7
<1>3. Trail(t, q)[Len(p)] = Trail(t, p)[Len(p)]
  BY <1>1, <1>2
<1>4. Trail(t, q)[Len(q)] = Below(t, Trail(t, q)[Len(q) - 1], q[Len(q)])
  BY <1>1, TrailIs
<1>5. End(t, q) = Below(t, End(t, p), n)
  BY <1>1, <1>3, <1>4 DEF End
<1> QED
  BY <1>1, <1>5 DEF q

LEMMA PathsAre ==
    ASSUME ScanAssumption, NEW p \in Paths
    PROVE  p \in Seq(Names) /\ Len(p) \in Nat \ {0}
<1>1. PICK k \in 1..MaxDepth : p \in [1..k -> Names]
  BY DEF Paths
<1>2. k \in Nat \ {0}
  BY DEF ScanAssumption
<1> QED
  BY <1>1, <1>2, SeqDef

\* What lies on the way to a file is a directory.
LEMMA OnTheWay ==
    ASSUME ScanAssumption, NEW t, NEW p \in Seq(Names), End(t, p) \in Files
    PROVE  \A i \in 0..(Len(p) - 1) : Trail(t, p)[i] \in Dirs
<1> DEFINE n == Len(p)
           Bad == {m \in Nat : m \in 1..n /\ Trail(t, p)[n - m] \notin Dirs}
<1>0. n \in Nat
  BY LenProperties
<1> HIDE DEF n
<1>1. Bad = {}
  <2> SUFFICES ASSUME Bad # {} PROVE FALSE
    OBVIOUS
  <2>1. PICK a \in Bad : \A b \in Bad : ~(<<b, a>> \in OpToRel(<, Nat))
    BY NatLessThanWellFounded, WFMin, Zenon
  <2>2. a \in 1..n /\ Trail(t, p)[n - a] \notin Dirs
    OBVIOUS
  <2> DEFINE j == n - a + 1
  <2>3. j \in 1..n /\ j - 1 = n - a
    BY <1>0, <2>2
  <2>4. Trail(t, p)[j] = None
    BY <2>2, <2>3, TrailIs DEF n, Below
  <2>5. CASE a = 1
    BY <1>0, <2>2, <2>4, <2>5 DEF n, End, ScanAssumption
  <2>6. CASE a # 1
    <3>1. a - 1 \in 1..n /\ a - 1 \in Nat /\ a - 1 < a /\ j = n - (a - 1)
      BY <1>0, <2>2, <2>6
    <3>2. a - 1 \in Bad
      BY <2>4, <3>1 DEF ScanAssumption
    <3>3. <<a - 1, a>> \in OpToRel(<, Nat)
      BY <2>2, <3>1 DEF OpToRel
    <3> QED
      BY <2>1, <3>2, <3>3
  <2> QED
    BY <2>5, <2>6
<1>2. SUFFICES ASSUME NEW i \in 0..(n - 1) PROVE Trail(t, p)[i] \in Dirs
  BY DEF n
<1>3. n - i \in 1..n /\ n - i \in Nat /\ n - (n - i) = i
  BY <1>0
<1> QED
  BY <1>1, <1>3

\* From a name of a directory on the way to a file, one name further.
LEMMA OneFurther ==
    ASSUME ScanAssumption, ScanTypes, NEW p \in steady, NEW i \in 0..(Len(p) - 1),
           NEW x \in Seq(Names), End(tree, x) = Trail(tree, p)[i]
    PROVE  /\ Append(x, p[i + 1]) \in Listing(x)
           /\ End(tree, Append(x, p[i + 1])) = Trail(tree, p)[i + 1]
           /\ ~InBackup(Trail(tree, p)[i + 1])
           /\ i + 1 < Len(p) => Trail(tree, p)[i + 1] \in Dirs
           /\ i + 1 = Len(p) => Trail(tree, p)[i + 1] \in Files
<1>1. p \in Paths /\ p \in Seq(Names) /\ Len(p) \in Nat \ {0} /\ End(tree, p) \in Files
      /\ \A j \in 0..Len(p) : ~InBackup(Trail(tree, p)[j])
  BY PathsAre DEF ScanTypes, Reachable
<1>2. i + 1 \in 1..Len(p) /\ i + 1 \in 0..Len(p) /\ (i + 1) - 1 = i
  BY <1>1
<1>3. p[i + 1] \in Names
  BY <1>1, <1>2, ElementOfSeq
<1>4. End(tree, Append(x, p[i + 1])) = Trail(tree, p)[i + 1]
  BY <1>1, <1>2, <1>3, TrailAppended, TrailIs
<1>5. i + 1 < Len(p) => Trail(tree, p)[i + 1] \in Dirs
  BY <1>1, <1>2, OnTheWay
<1>6. i + 1 = Len(p) => Trail(tree, p)[i + 1] \in Files
  BY <1>1 DEF End
<1>7. Trail(tree, p)[i + 1] # None
  BY <1>1, <1>2, <1>5, <1>6 DEF ScanAssumption
<1> QED
  BY <1>1, <1>2, <1>3, <1>4, <1>5, <1>6, <1>7 DEF Listing

-----------------------------------------------------------------------------
(* The source changes                                                      *)

LEMMA ChangeKeeps == ASSUME ScanAssumption, ScanInv, Change PROVE ScanInv'
<1> DEFINE kept(r) == [r EXCEPT !.same = @ /\ Trail(tree', r.path) = Trail(tree, r.path)]
<1>1. /\ UNCHANGED <<search, scanning, matches, stack, visited, found, current, keys, scanned>>
      /\ reads' = {kept(r) : r \in reads}
      /\ steady' = {p \in steady \cap Reachable(tree', there', closed') : Trail(tree', p) = Trail(tree, p)}
  BY DEF Change
<1>2. /\ steady' \subseteq steady /\ steady' \subseteq Reachable(tree', there', closed')
      /\ \A p \in steady' : Trail(tree', p) = Trail(tree, p)
  BY <1>1
<1>3. \A r \in reads : /\ kept(r).dir = r.dir /\ kept(r).path = r.path
                       /\ kept(r) \in [dir : Dirs, path : Seq(Names), same : BOOLEAN]
                       /\ kept(r).same <=> r.same /\ Trail(tree', r.path) = Trail(tree, r.path)
  BY DEF ScanInv, ScanTypes
<1> HIDE DEF kept
<1>4. /\ \A s \in reads' : \E r \in reads : s = kept(r)
      /\ \A r \in reads : kept(r) \in reads'
  BY <1>1
<1>5. {r.dir : r \in reads'} = {r.dir : r \in reads} /\ (reads = {} => reads' = {})
  BY <1>3, <1>4
<1>6. Pending' = Pending /\ Reachable(tree, there, closed)' = Reachable(tree', there', closed')
  BY <1>1 DEF Pending, Reachable, Paths, InBackup
<1>7. ScanTypes'
  BY <1>1, <1>2, <1>3, <1>4, <1>6 DEF ScanInv, ScanTypes
<1>8. ASSUME WalkInv PROVE WalkInv'
  <2>1. steady' # {} => FromRoot'
    <3> SUFFICES ASSUME steady' # {} PROVE FromRoot'
      OBVIOUS
    <3>1. CASE \E r \in reads : r.dir = Root /\ r.path = <<>> /\ r.same
      <4>1. PICK r \in reads : r.dir = Root /\ r.path = <<>> /\ r.same
        BY <3>1
      <4>2. \A t : Trail(t, <<>>) = [i \in 0..0 |-> Root]
        BY RootTrail
      <4>3. kept(r).same
        BY <1>3, <4>1, <4>2
      <4> QED
        BY <1>3, <1>4, <4>1, <4>3 DEF FromRoot
    <3>2. CASE search.kind # "glob" /\ reads = {} /\ Pending = {<<>>}
      BY <1>1, <1>5, <1>6, <3>2 DEF FromRoot
    <3> QED
      BY <1>2, <1>8, <3>1, <3>2 DEF WalkInv, FromRoot
  <2>2. GoesOn'
    <3> SUFFICES ASSUME NEW p \in steady', NEW s \in reads', NEW i \in 0..(Len(p) - 2),
                        s.same, s.dir = Trail(tree', p)[i]
                 PROVE  \/ \E u \in reads' : u.dir = Trail(tree', p)[i + 1]
                        \/ Append(s.path, p[i + 1]) \in Pending'
      BY DEF GoesOn
    <3>1. PICK r \in reads : s = kept(r)
      BY <1>4
    <3>2. \/ \E u \in reads : u.dir = Trail(tree, p)[i + 1]
          \/ Append(r.path, p[i + 1]) \in Pending
      BY <1>2, <1>3, <1>8, <3>1 DEF WalkInv, GoesOn
    <3> QED
      BY <1>2, <1>3, <1>4, <1>6, <3>1, <3>2
  <2>3. TakesFiles'
    <3> SUFFICES ASSUME NEW p \in steady', NEW s \in reads', s.dir = Trail(tree', p)[Len(p) - 1],
                        Keeps(Append(s.path, p[Len(p)]))'
                 PROVE  \E f \in found' : f.path = Append(s.path, p[Len(p)])
      BY DEF TakesFiles
    <3>1. PICK r \in reads : s = kept(r)
      BY <1>4
    <3>2. Keeps(Append(r.path, p[Len(p)]))
      BY <1>1, <1>3, <3>1 DEF Keeps
    <3>3. \E f \in found : f.path = Append(r.path, p[Len(p)])
      BY <1>2, <1>3, <1>8, <3>1, <3>2 DEF WalkInv, TakesFiles
    <3> QED
      BY <1>1, <1>3, <3>1, <3>3
  <2>4. ReadUnder'
    BY <1>3, <1>4, <1>8 DEF WalkInv, ReadUnder, End
  <2> QED
    BY <1>1, <1>5, <1>8, <2>1, <2>2, <2>3, <2>4 DEF WalkInv
<1>9. NothingOverlooked'
  <2> SUFFICES ASSUME scanning = "idle", scanned = "stored", NEW p \in steady', ~Misled(p)'
               PROVE  \E s \in reads' : /\ s.dir = Trail(tree', p)[Len(p) - 1]
                                        /\ Keeps(Append(s.path, p[Len(p)]))' => Append(s.path, p[Len(p)]) \in current'
    BY <1>1 DEF NothingOverlooked
  <2>1. ~Misled(p)
    <3> SUFFICES ASSUME NEW i \in 0..(Len(p) - 2), \E r \in reads : r.dir = Trail(tree, p)[i],
                        \A r \in reads : r.dir = Trail(tree, p)[i] => ~r.same
                 PROVE  FALSE
      BY DEF Misled
    <3>1. \E s \in reads' : s.dir = Trail(tree', p)[i]
      BY <1>2, <1>3, <1>4
    <3>2. \A s \in reads' : s.dir = Trail(tree', p)[i] => ~s.same
      BY <1>2, <1>3, <1>4
    <3> QED
      BY <3>1, <3>2 DEF Misled
  <2>2. PICK r \in reads : /\ r.dir = Trail(tree, p)[Len(p) - 1]
                           /\ Keeps(Append(r.path, p[Len(p)])) => Append(r.path, p[Len(p)]) \in current
    BY <1>2, <2>1 DEF ScanInv, ScanSound, NothingOverlooked
  <2>3. kept(r) \in reads' /\ kept(r).dir = Trail(tree', p)[Len(p) - 1] /\ kept(r).path = r.path
    BY <1>2, <1>3, <1>4, <2>2
  <2> QED
    BY <1>1, <2>2, <2>3 DEF Keeps
<1>10. ReadOnce'
  BY <1>1, <1>3, <1>4 DEF ScanInv, ScanSound, ReadOnce
<1>11. NeverItself' /\ Portable'
  BY <1>1 DEF ScanInv, ScanSound, NeverItself, InBackup, Portable, Folded
<1> QED
  BY <1>1, <1>5, <1>6, <1>7, <1>8, <1>9, <1>10, <1>11 DEF ScanInv, ScanSound

-----------------------------------------------------------------------------
(* The scan                                                                *)

LEMMA ValidateKeeps == ASSUME ScanAssumption, ScanInv, ValidateRoots PROVE ScanInv'
<1>1. /\ UNCHANGED <<search, tree, there, closed, matches, stack, current, keys>>
      /\ steady' = Reachable(tree, there, closed) /\ found' = {} /\ reads' = {}
      /\ scanning' = "match" \/ (scanning' = "idle" /\ scanned' = "failed")
  BY DEF ValidateRoots, ScanFails, source
<1>2. ScanTypes'
  BY <1>1 DEF ScanInv, ScanTypes, Reachable, Paths, InBackup
<1>3. ScanSound'
  BY <1>1
  DEF ScanInv, ScanSound, NothingOverlooked, NeverItself, ReadOnce, Portable, Folded
<1> QED
  BY <1>1, <1>2, <1>3 DEF ScanInv

LEMMA MatchKeeps == ASSUME ScanAssumption, ScanInv, Match PROVE ScanInv'
<1> DEFINE here == IF Readable(<<>>) THEN Listing(<<>>) ELSE {}
           all  == {p \in here : ~InBackup(End(tree, p))}
<1>0. /\ UNCHANGED <<search, tree, there, closed, current, keys, scanned, steady>>
      /\ scanning' = "walk" /\ stack' = <<>> /\ visited' = {}
  BY DEF Match, source
<1>1. CASE search.kind = "glob"
  <2>1. /\ matches' = {p \in all : End(tree, p) \in Dirs}
        /\ found' = {[path |-> p, node |-> End(tree, p)] :
                        p \in {q \in all : End(tree, q) \in Files /\ Keeps(q)}}
        /\ reads' = {Read(Root, <<>>)}
    BY <1>1 DEF Match
  <2>2. <<>> \in Seq(Names) /\ Len(<<>>) = 0
    OBVIOUS
  <2>3. End(tree, <<>>) = Root
    BY <2>2, TrailIs DEF End
  <2>4. all \subseteq Seq(Names)
    BY <2>2, TrailAppended DEF Listing
  <2>5. Read(Root, <<>>).dir = Root /\ Read(Root, <<>>).path = <<>> /\ Read(Root, <<>>).same
        /\ Read(Root, <<>>) \in [dir : Dirs, path : Seq(Names), same : BOOLEAN]
    BY DEF Read, ScanAssumption
  <2>6. Pending' = matches'
    BY <1>0 DEF Pending
  <2>7. ScanTypes'
    BY <1>0, <2>1, <2>4, <2>5 DEF ScanInv, ScanTypes, Reachable, Paths, InBackup
  <2>8. ASSUME NEW p \in steady, NEW i \in 0..(Len(p) - 1), Trail(tree, p)[i] = Root
        PROVE  Append(<<>>, p[i + 1]) \in all
    <3>1. Readable(<<>>)
      BY <1>1, <2>3 DEF ScanInv, ScanTypes, Reachable, Readable, ScanAssumption
    <3>2. /\ Append(<<>>, p[i + 1]) \in Listing(<<>>)
          /\ ~InBackup(End(tree, Append(<<>>, p[i + 1])))
      BY <2>2, <2>3, <2>8, OneFurther, ZenonT(40) DEF ScanInv
    <3> QED
      BY <3>1, <3>2
  <2>9. WalkInv'
    <3>1. FromRoot'
      BY <2>1, <2>5 DEF FromRoot
    <3>2. GoesOn'
      <4> SUFFICES ASSUME NEW p \in steady, NEW i \in 0..(Len(p) - 2), Trail(tree, p)[i] = Root
                   PROVE  Append(<<>>, p[i + 1]) \in matches'
        BY <1>0, <2>1, <2>5, <2>6, ZenonT(40) DEF GoesOn
      <4>1. Len(p) \in Nat
        BY PathsAre DEF ScanInv, ScanTypes, Reachable
      <4>2. i \in 0..(Len(p) - 1) /\ i + 1 < Len(p)
        BY <4>1
      <4>3. Append(<<>>, p[i + 1]) \in all
        BY <2>8, <4>2
      <4>4. End(tree, Append(<<>>, p[i + 1])) \in Dirs
        BY <2>2, <2>3, <4>2, OneFurther, ZenonT(40) DEF ScanInv
      <4> QED
        BY <2>1, <4>3, <4>4
    <3>3. TakesFiles'
      <4> SUFFICES ASSUME NEW p \in steady, Trail(tree, p)[Len(p) - 1] = Root,
                          Keeps(Append(<<>>, p[Len(p)]))
                   PROVE  \E f \in found' : f.path = Append(<<>>, p[Len(p)])
        BY <1>0, <2>1, <2>5, ZenonT(40) DEF TakesFiles, Keeps
      <4> DEFINE q == Append(<<>>, p[Len(p)])
      <4>1. Len(p) \in Nat \ {0}
        BY PathsAre DEF ScanInv, ScanTypes, Reachable
      <4>2. Len(p) - 1 \in 0..(Len(p) - 1) /\ (Len(p) - 1) + 1 = Len(p)
        BY <4>1
      <4>3. q \in all
        BY <2>8, <4>2
      <4> DEFINE i == Len(p) - 1
      <4>a. i \in 0..(Len(p) - 1) /\ i + 1 = Len(p) /\ Trail(tree, p)[i] = Root
        BY <4>2
      <4> HIDE DEF i
      <4>b. /\ End(tree, Append(<<>>, p[i + 1])) = Trail(tree, p)[i + 1]
            /\ Trail(tree, p)[i + 1] \in Files
        BY <2>2, <2>3, <4>a, OneFurther DEF ScanInv
      <4>4. End(tree, q) \in Files
        BY <4>a, <4>b
      <4> HIDE DEF q, all
      <4>5. [path |-> q, node |-> End(tree, q)] \in found'
        BY <2>1, <4>3, <4>4 DEF q
      <4> QED
        BY <4>5 DEF q
    <3>4. ReadUnder'
      BY <1>0, <2>1, <2>3, <2>5 DEF ReadUnder
    <3> QED
      BY <1>0, <1>1, <3>1, <3>2, <3>3, <3>4 DEF WalkInv
  <2>10. NeverItself'
    <3>1. \A f \in found' : ~InBackup(f.node)
      BY <2>1
    <3> QED
      BY <3>1 DEF NeverItself, InBackup
  <2>11. ScanSound'
    BY <1>0, <1>1, <2>10
    DEF ScanInv, ScanSound, NothingOverlooked, ReadOnce, Portable, Folded
  <2> QED
    BY <1>0, <1>1, <2>7, <2>9, <2>11 DEF ScanInv
<1>2. CASE search.kind # "glob"
  <2>1. matches' = (IF there THEN {<<>>} ELSE {}) /\ found' = found /\ reads' = {}
    BY <1>2 DEF Match
  <2>2. Pending' = matches'
    BY <1>0 DEF Pending
  <2>3. steady # {} => there
    BY DEF ScanInv, ScanTypes, Reachable
  <2>4. ScanTypes'
    <3>1. <<>> \in Seq(Names) /\ <<>> \in Seq(Lists)
      OBVIOUS
    <3>2. matches' \subseteq Seq(Names)
      BY <2>1, <3>1
    <3> QED
      BY <1>0, <2>1, <3>1, <3>2 DEF ScanInv, ScanTypes, Reachable, Paths, InBackup
  <2>5. WalkInv'
    BY <1>0, <1>2, <2>1, <2>2, <2>3 DEF WalkInv, FromRoot, GoesOn, TakesFiles, ReadUnder
  <2>6. ScanSound'
    BY <1>0, <2>1
    DEF ScanInv, ScanSound, NothingOverlooked, NeverItself, InBackup, ReadOnce,
        Portable, Folded
  <2> QED
    BY <1>0, <1>2, <2>1, <2>4, <2>5, <2>6 DEF ScanInv
<1> QED
  BY <1>1, <1>2

\* A step of the walk that reads no directory.
LEMMA PassingKeeps ==
    ASSUME ScanAssumption, ScanInv, scanning = "walk",
           UNCHANGED <<search, tree, there, closed, found, current, keys, scanned, reads, steady>>,
           scanning' \in {"walk", "store"}, matches' \subseteq Seq(Names), stack' \in Seq(Lists),
           scanning' = "store" => Pending' = {},
           scanning' = "walk" /\ search.kind # "glob" =>
               matches' = {} \/ (matches' = {<<>>} /\ reads = {} /\ stack' = <<>>),
           visited' \subseteq {r.dir : r \in reads},
           search.kind # "glob" => visited' = {r.dir : r \in reads},
           \A x \in Pending \ Pending' :
              there => End(tree, x) \notin Dirs \/ End(tree, x) \in {r.dir : r \in reads},
           Pending = {<<>>} /\ reads = {} => steady = {} \/ Pending' = {<<>>}
    PROVE  ScanInv'
<1>1. ScanTypes'
  BY DEF ScanInv, ScanTypes, Reachable, Paths, InBackup
<1>2. ScanSound'
  BY DEF ScanInv, ScanSound, NothingOverlooked, NeverItself, InBackup, ReadOnce,
     Portable, Folded
<1>3. GoesOn'
  <2> SUFFICES ASSUME NEW p \in steady, NEW r \in reads, NEW i \in 0..(Len(p) - 2),
                      r.same, r.dir = Trail(tree, p)[i]
               PROVE  \/ \E s \in reads : s.dir = Trail(tree, p)[i + 1]
                      \/ Append(r.path, p[i + 1]) \in Pending'
    BY DEF GoesOn
  <2>1. CASE \E s \in reads : s.dir = Trail(tree, p)[i + 1]
    BY <2>1
  <2>2. CASE Append(r.path, p[i + 1]) \in Pending \ Pending'
    <3>1. Len(p) \in Nat /\ there
      BY PathsAre DEF ScanInv, ScanTypes, Reachable
    <3>2. i \in 0..(Len(p) - 1) /\ i + 1 < Len(p)
      BY <3>1
    <3>3. r.path \in Seq(Names) /\ End(tree, r.path) = Trail(tree, p)[i]
      BY DEF ScanInv, WalkInv, ReadUnder, ScanTypes
    <3>4. End(tree, Append(r.path, p[i + 1])) = Trail(tree, p)[i + 1] /\ Trail(tree, p)[i + 1] \in Dirs
      BY <3>2, <3>3, OneFurther DEF ScanInv
    <3> QED
      BY <2>2, <3>1, <3>4
  <2> QED
    BY <2>1, <2>2 DEF ScanInv, WalkInv, GoesOn
<1>4. WalkInv'
  BY <1>3 DEF ScanInv, WalkInv, FromRoot, TakesFiles, Keeps, ReadUnder
<1> QED
  BY <1>1, <1>2, <1>4 DEF ScanInv

LEMMA BeginWalkKeeps == ASSUME ScanAssumption, ScanInv, NEW p \in matches, BeginWalk(p) PROVE ScanInv'
<1>1. /\ scanning = "walk" /\ stack = <<>> /\ matches' = matches \ {p} /\ visited' = {}
      /\ stack' = (IF there /\ End(tree, p) \in Dirs THEN <<{p}>> ELSE <<>>)
      /\ UNCHANGED <<search, tree, there, closed, scanning, found, current, keys, scanned, reads, steady>>
  BY DEF BeginWalk, source
<1>2. p \in Seq(Names) /\ matches' \subseteq Seq(Names)
  BY <1>1 DEF ScanInv, ScanTypes
<1>3. Pending = matches
  BY <1>1 DEF Pending
<1>4. CASE there /\ End(tree, p) \in Dirs
  <2>1. stack' = <<{p}>> /\ stack' \in Seq(Lists) /\ Len(stack') = 1 /\ stack'[1] = {p}
    <3>1. {p} \in Lists
      BY <1>2 DEF Lists
    <3>2. stack' = <<{p}>>
      BY <1>1, <1>4
    <3> QED
      BY <3>1, <3>2
  <2>2. Pending' = Pending
    BY <1>1, <1>3, <2>1 DEF Pending
  <2>3. search.kind # "glob" => matches = {<<>>} /\ reads = {} /\ p = <<>>
    BY <1>1 DEF ScanInv
  <2>4. search.kind # "glob" => matches' = {} /\ visited' = {r.dir : r \in reads}
    BY <1>1, <2>3
  <2> QED
    BY <1>1, <1>2, <2>1, <2>2, <2>4, PassingKeeps
<1>5. CASE ~(there /\ End(tree, p) \in Dirs)
  <2>1. stack' = <<>> /\ stack' \in Seq(Lists) /\ Pending' = matches \ {p}
    BY <1>1, <1>5 DEF Pending
  <2>2. search.kind # "glob" => matches = {<<>>} /\ reads = {} /\ p = <<>>
    BY <1>1 DEF ScanInv
  <2>3. search.kind # "glob" => matches' = {} /\ visited' = {r.dir : r \in reads}
    BY <1>1, <2>2
  <2>4. Pending = {<<>>} => p = <<>>
    BY <1>3
  <2>5. End(tree, <<>>) = Root /\ Root \in Dirs
    <3>1. <<>> \in Seq(Names) /\ Len(<<>>) = 0
      OBVIOUS
    <3> QED
      BY <3>1, TrailIs DEF End, ScanAssumption
  <2>6. Pending = {<<>>} /\ reads = {} => steady = {}
    BY <1>5, <2>4, <2>5 DEF ScanInv, ScanTypes, Reachable
  <2>7. \A x \in Pending \ Pending' : there => End(tree, x) \notin Dirs
    BY <1>3, <1>5, <2>1
  <2> QED
    BY <1>1, <1>2, <2>1, <2>3, <2>6, <2>7, PassingKeeps
<1> QED
  BY <1>4, <1>5

LEMMA EndWalkKeeps == ASSUME ScanAssumption, ScanInv, EndWalk PROVE ScanInv'
<1>1. /\ scanning = "walk" /\ stack = <<>> /\ matches = {} /\ scanning' = "store"
      /\ UNCHANGED <<search, tree, there, closed, matches, stack, visited, found, current, keys, scanned, reads, steady>>
  BY DEF EndWalk, source
<1>2. Pending' = Pending /\ Pending = {} /\ Pending' = {}
  BY <1>1 DEF Pending
<1> QED
  BY <1>1, <1>2, PassingKeeps DEF ScanInv, ScanTypes, WalkInv

\* A directory that was still to be read is read, or had been under another name.
RestOf(p) ==
    IF stack[Len(stack)] = {p} THEN SubSeq(stack, 1, Len(stack) - 1)
                               ELSE [stack EXCEPT ![Len(stack)] = @ \ {p}]

LEMMA RestIs ==
    ASSUME ScanTypes, stack # <<>>, NEW p \in stack[Len(stack)], NEW rest, rest = RestOf(p)
    PROVE  /\ rest \in Seq(Lists) /\ p \in Seq(Names)
           /\ \A x \in UNION {stack[i] : i \in 1..Len(stack)} :
                 x = p \/ x \in UNION {rest[i] : i \in 1..Len(rest)}
           /\ UNION {rest[i] : i \in 1..Len(rest)} \subseteq UNION {stack[i] : i \in 1..Len(stack)}
<1> DEFINE n == Len(stack)
<1>1. n \in Nat \ {0} /\ stack \in [1..n -> Lists]
  BY LenProperties, EmptySeq DEF ScanTypes
<1>2. p \in Seq(Names) /\ n \in 1..n
  BY <1>1 DEF Lists
<1>3. CASE stack[n] = {p}
  <2>1. rest = SubSeq(stack, 1, n - 1)
    BY <1>3 DEF RestOf
  <2>2. rest \in Seq(Lists) /\ Len(rest) = n - 1 /\ \A i \in 1..(n - 1) : rest[i] = stack[i]
    <3> DEFINE k == n - 1
    <3>1. k \in Nat /\ k \in Int /\ n - 1 = k /\ \A i \in 1..k : stack[i] \in Lists
      BY <1>1
    <3>2. rest = SubSeq(stack, 1, k)
      BY <2>1
    <3> HIDE DEF n, k
    <3>3. /\ SubSeq(stack, 1, k) \in Seq(Lists)
          /\ Len(SubSeq(stack, 1, k)) = IF 1 <= k THEN k - 1 + 1 ELSE 0
          /\ \A i \in 1..(k - 1 + 1) : SubSeq(stack, 1, k)[i] = stack[1 + i - 1]
      BY <3>1, SubSeqProperties
    <3>4. \A i \in 1..k : 1 + i - 1 = i /\ k - 1 + 1 = k
      BY <3>1
    <3> QED
      BY <3>1, <3>2, <3>3, <3>4
  <2> HIDE DEF n
  <2>3. ASSUME NEW i \in 1..n, NEW x \in stack[i] PROVE x = p \/ \E j \in 1..Len(rest) : x \in rest[j]
    <3>1. CASE i = n
      BY <1>3, <2>3, <3>1
    <3>2. CASE i # n
      <4>1. i \in 1..(n - 1)
        BY <1>1, <3>2
      <4> QED
        BY <2>2, <2>3, <4>1
    <3> QED
      BY <3>1, <3>2
  <2>4. \A i \in 1..Len(rest) : i \in 1..n /\ rest[i] = stack[i]
    BY <1>1, <2>2
  <2>5. UNION {rest[i] : i \in 1..Len(rest)} \subseteq UNION {stack[i] : i \in 1..n}
    BY <2>4
  <2>6. \A x \in UNION {stack[i] : i \in 1..n} : x = p \/ x \in UNION {rest[i] : i \in 1..Len(rest)}
    BY <2>3
  <2> QED
    BY <1>2, <2>2, <2>5, <2>6 DEF n
<1>4. CASE stack[n] # {p}
  <2>1. rest = [stack EXCEPT ![n] = @ \ {p}]
    BY <1>4 DEF RestOf
  <2>2. /\ DOMAIN rest = 1..n /\ rest[n] = stack[n] \ {p}
        /\ \A i \in 1..n : i # n => rest[i] = stack[i]
    BY <1>1, <1>2, <2>1
  <2> HIDE DEF n
  <2>3. rest \in Seq(Lists) /\ Len(rest) = n
    <3>1. rest \in Seq(Lists)
      <4>1. stack[n] \ {p} \in Lists
        BY <1>1, <1>2 DEF Lists
      <4> QED
        BY <1>2, <2>1, <4>1, ExceptSeq DEF ScanTypes, n
    <3>2. DOMAIN rest = 1..n /\ DOMAIN rest = 1..Len(rest) /\ Len(rest) \in Nat
      BY <2>2, <3>1, LenProperties
    <3> QED
      BY <1>1, <3>1, <3>2
  <2>4. \A i \in 1..n : rest[i] \subseteq stack[i] /\ stack[i] \subseteq rest[i] \cup {p}
    BY <2>2
  <2> QED
    BY <1>2, <2>3, <2>4 DEF n
<1> QED
  BY <1>3, <1>4

\* What was read joins the directories read; its directories are still to be read.
LEMMA ReadKeeps ==
    ASSUME ScanAssumption, ScanInv, scanning = "walk", NEW p \in Seq(Names), NEW rest \in Seq(Lists),
           stack # <<>>, Readable(p), ~Seen(End(tree, p)),
           UNCHANGED <<search, tree, there, closed, scanning, matches, current, keys, scanned, steady>>,
           NEW below, below = {q \in Listing(p) : /\ End(tree, q) \in Dirs \ (visited \cup {End(tree, p)})
                                                  /\ ~InBackup(End(tree, q))},
           \A x \in Pending : x = p \/ x \in matches \cup UNION {rest[i] : i \in 1..Len(rest)},
           Pending = {<<>>} => p = <<>>,
           visited' = visited \cup {End(tree, p)}, reads' = reads \cup {Read(End(tree, p), p)},
           found' = found \cup {[path |-> q, node |-> End(tree, q)] : q \in {f \in Listing(p) : Takes(f)}},
           stack' = IF below = {} THEN rest ELSE Append(rest, below)
    PROVE  ScanInv'
<1> DEFINE d == End(tree, p)
           new == Read(d, p)
<1>1. new.dir = d /\ new.path = p /\ new.same /\ d \in Dirs
      /\ new \in [dir : Dirs, path : Seq(Names), same : BOOLEAN]
  BY DEF Read, Readable
<1>2. Listing(p) \subseteq Seq(Names) /\ below \in Lists
  BY TrailAppended DEF Listing, Lists
<1>3. /\ stack' \in Seq(Lists)
      /\ \A x \in below \cup UNION {rest[i] : i \in 1..Len(rest)} : x \in UNION {stack'[i] : i \in 1..Len(stack')}
  <2>1. CASE below = {}
    BY <2>1
  <2>2. CASE below # {}
    <3>1. /\ stack' \in Seq(Lists) /\ Len(stack') = Len(rest) + 1 /\ stack'[Len(rest) + 1] = below
          /\ \A i \in 1..Len(rest) : stack'[i] = rest[i]
      BY <1>2, <2>2, AppendProperties
    <3>2. Len(rest) \in Nat
      BY LenProperties
    <3>3. Len(rest) + 1 \in 1..Len(stack') /\ 1..Len(rest) \subseteq 1..Len(stack')
      BY <3>1, <3>2
    <3> QED
      BY <3>1, <3>3
  <2> QED
    BY <2>1, <2>2
<1>4. \A x \in Pending : x = p \/ x \in Pending'
  BY <1>3 DEF Pending
<1>5. below \subseteq Pending'
  BY <1>3 DEF Pending
<1>6. ScanTypes'
  BY <1>1, <1>3 DEF ScanInv, ScanTypes, Reachable, Paths, InBackup, d
<1> HIDE DEF new
<1>7. FromRoot \/ steady = {}
  BY DEF ScanInv, WalkInv
<1>8. FromRoot => FromRoot'
  <2>1. ASSUME reads = {}, Pending = {<<>>} PROVE \E r \in reads' : r.dir = Root /\ r.path = <<>> /\ r.same
    <3>1. p = <<>> /\ <<>> \in Seq(Names) /\ Len(<<>>) = 0
      BY <2>1
    <3>2. d = Root
      BY <3>1, TrailIs DEF End
    <3> QED
      BY <1>1, <3>1, <3>2 DEF new
  <2> QED
    BY <2>1 DEF FromRoot
<1>9. GoesOn'
  <2> SUFFICES ASSUME NEW w \in steady, NEW r \in reads', NEW i \in 0..(Len(w) - 2),
                      r.same, r.dir = Trail(tree, w)[i]
               PROVE  \/ \E s \in reads' : s.dir = Trail(tree, w)[i + 1]
                      \/ Append(r.path, w[i + 1]) \in Pending'
    BY DEF GoesOn
  <2>1. Len(w) \in Nat
    BY PathsAre DEF ScanInv, ScanTypes, Reachable
  <2>2. i \in 0..(Len(w) - 1) /\ i + 1 < Len(w)
    BY <2>1
  <2>3. CASE r \in reads
    <3>1. CASE \E s \in reads : s.dir = Trail(tree, w)[i + 1]
      BY <3>1
    <3>2. CASE Append(r.path, w[i + 1]) = p
      <4>1. r.path \in Seq(Names) /\ End(tree, r.path) = Trail(tree, w)[i]
        BY <2>3 DEF ScanInv, WalkInv, ReadUnder, ScanTypes
      <4>2. d = Trail(tree, w)[i + 1]
        BY <2>2, <3>2, <4>1, OneFurther DEF ScanInv
      <4> QED
        BY <1>1, <4>2 DEF new
    <3>3. CASE Append(r.path, w[i + 1]) \in Pending
      BY <1>4, <3>2, <3>3
    <3> QED
      BY <2>3, <3>1, <3>3 DEF ScanInv, WalkInv, GoesOn
  <2>4. CASE r = new
    <3> DEFINE c == Append(p, w[i + 1])
    <3>1. /\ c \in Listing(p) /\ End(tree, c) = Trail(tree, w)[i + 1]
          /\ ~InBackup(End(tree, c)) /\ End(tree, c) \in Dirs
      BY <1>1, <2>2, <2>4, OneFurther DEF ScanInv
    <3> HIDE DEF c
    <3>2. CASE End(tree, c) \in visited
      <4>1. \E s \in reads : s.dir = End(tree, c)
        BY <3>2 DEF ScanInv, WalkInv
      <4> QED
        BY <3>1, <4>1
    <3>3. CASE End(tree, c) = d
      BY <1>1, <3>1, <3>3 DEF new
    <3>4. CASE End(tree, c) \notin visited \cup {d}
      <4>1. c \in below
        BY <3>1, <3>4
      <4> QED
        BY <1>1, <1>5, <2>4, <4>1 DEF c
    <3> QED
      BY <3>2, <3>3, <3>4
  <2> QED
    BY <2>3, <2>4 DEF new
<1>10. TakesFiles'
  <2> SUFFICES ASSUME NEW w \in steady, NEW r \in reads', r.dir = Trail(tree, w)[Len(w) - 1],
                      Keeps(Append(r.path, w[Len(w)]))
               PROVE  \E f \in found' : f.path = Append(r.path, w[Len(w)])
    BY DEF TakesFiles, Keeps
  <2>1. CASE r \in reads
    <3>1. \E f \in found : f.path = Append(r.path, w[Len(w)])
      BY <2>1 DEF ScanInv, WalkInv, TakesFiles
    <3> QED
      BY <3>1
  <2>2. CASE r = new
    <3> DEFINE i == Len(w) - 1
               q == Append(p, w[Len(w)])
    <3>1. i \in 0..(Len(w) - 1) /\ i + 1 = Len(w) /\ Trail(tree, w)[i] = d
      <4>1. Len(w) \in Nat \ {0}
        BY PathsAre DEF ScanInv, ScanTypes, Reachable
      <4> QED
        BY <1>1, <2>2, <4>1
    <3> HIDE DEF i
    <3>2. /\ Append(p, w[i + 1]) \in Listing(p)
          /\ End(tree, Append(p, w[i + 1])) = Trail(tree, w)[i + 1]
          /\ ~InBackup(Trail(tree, w)[i + 1]) /\ Trail(tree, w)[i + 1] \in Files
      BY <3>1, OneFurther DEF ScanInv
    <3>3. q \in Listing(p) /\ Takes(q)
      BY <1>1, <2>2, <3>1, <3>2 DEF Takes
    <3> HIDE DEF q
    <3>4. [path |-> q, node |-> End(tree, q)] \in found'
      BY <3>3
    <3>5. q = Append(r.path, w[Len(w)])
      BY <1>1, <2>2 DEF q
    <3> QED
      BY <3>4, <3>5
  <2> QED
    BY <2>1, <2>2 DEF new
<1>11. ReadUnder'
  BY <1>1 DEF ScanInv, WalkInv, ReadUnder, new
<1>12. /\ visited' \subseteq {r.dir : r \in reads'}
       /\ search.kind # "glob" => visited' = {r.dir : r \in reads'}
  <2>1. {r.dir : r \in reads'} = {r.dir : r \in reads} \cup {d}
    BY <1>1 DEF new
  <2> QED
    BY <2>1 DEF ScanInv, WalkInv
<1>13. ReadOnce'
  <2>1. search.kind # "glob" => \A r \in reads : r.dir # d
    BY DEF ScanInv, WalkInv, Seen
  <2>2. search.kind = "directory" => search.kind # "glob"
    OBVIOUS
  <2> QED
    BY <1>1, <2>1, <2>2 DEF ScanInv, ScanSound, ReadOnce, new
<1>14. NeverItself'
  <2>1. \A f \in found' : f \in found \/ ~InBackup(f.node)
    BY DEF Takes
  <2> QED
    BY <2>1 DEF ScanInv, ScanSound, NeverItself, InBackup
<1>15. NothingOverlooked' /\ Portable'
  BY DEF ScanInv, ScanSound, NothingOverlooked, Portable, Folded
<1>16. search.kind # "glob" => matches = {}
  BY DEF ScanInv
<1> QED
  BY <1>6, <1>7, <1>8, <1>9, <1>10, <1>11, <1>12, <1>13, <1>14, <1>15, <1>16
  DEF ScanInv, ScanSound, WalkInv

LEMMA DirectoryKeeps ==
    ASSUME ScanAssumption, ScanInv, NEW p \in UNION {stack[i] : i \in 1..Len(stack)}, ReadDirectory(p)
    PROVE  ScanInv'
<1> DEFINE d == End(tree, p)
           top == stack[Len(stack)]
           below == {q \in Listing(p) : /\ End(tree, q) \in Dirs \ (visited \cup {d})
                                       /\ ~InBackup(End(tree, q))}
<1>1. PICK rest : rest = RestOf(p)
  OBVIOUS
<1>2. /\ scanning = "walk" /\ stack # <<>> /\ p \in top
      /\ UNCHANGED <<search, tree, there, closed, matches, current, keys, steady>>
  BY DEF ReadDirectory, source
<1>3. /\ rest \in Seq(Lists) /\ p \in Seq(Names)
      /\ \A x \in Pending : x = p \/ x \in matches \cup UNION {rest[i] : i \in 1..Len(rest)}
      /\ matches \cup UNION {rest[i] : i \in 1..Len(rest)} \subseteq Pending
  <2>1. /\ rest \in Seq(Lists) /\ p \in Seq(Names)
        /\ \A x \in UNION {stack[i] : i \in 1..Len(stack)} :
              x = p \/ x \in UNION {rest[i] : i \in 1..Len(rest)}
        /\ UNION {rest[i] : i \in 1..Len(rest)} \subseteq UNION {stack[i] : i \in 1..Len(stack)}
    BY <1>1, <1>2, RestIs DEF ScanInv
  <2> QED
    BY <2>1 DEF Pending
<1>4. Pending = {<<>>} => p = <<>>
  BY DEF Pending
<1>5. \/ /\ ~Readable(p) /\ Unreadable(rest) /\ UNCHANGED <<visited, found, reads>>
      \/ /\ Readable(p) /\ Seen(d) /\ stack' = rest
         /\ UNCHANGED <<scanning, scanned, visited, found, reads>>
      \/ /\ Readable(p) /\ ~Seen(d)
         /\ visited' = visited \cup {d} /\ reads' = reads \cup {Read(d, p)}
         /\ found' = found \cup {[path |-> q, node |-> End(tree, q)] : q \in {f \in Listing(p) : Takes(f)}}
         /\ stack' = (IF below = {} THEN rest ELSE Append(rest, below))
         /\ UNCHANGED <<scanning, scanned>>
  BY <1>1 DEF ReadDirectory, RestOf
<1>6. CASE ~Readable(p) /\ Unreadable(rest) /\ UNCHANGED <<visited, found, reads>>
  <2>1. scanning' = "idle" /\ scanned' = "failed" /\ stack' = <<>> /\ stack' \in Seq(Lists)
    BY <1>6 DEF Unreadable, ScanFails
  <2>2. ScanTypes'
    BY <1>2, <1>6, <2>1 DEF ScanInv, ScanTypes, Reachable, Paths, InBackup
  <2>3. ScanSound'
    BY <1>2, <1>6, <2>1
    DEF ScanInv, ScanSound, NothingOverlooked, NeverItself, InBackup, ReadOnce,
        Portable, Folded
  <2> QED
    BY <2>1, <2>2, <2>3 DEF ScanInv
<1>7. CASE Readable(p) /\ Seen(d) /\ stack' = rest /\ UNCHANGED <<scanning, scanned, visited, found, reads>>
  <2>1. Pending' = matches \cup UNION {rest[i] : i \in 1..Len(rest)}
    BY <1>2, <1>7 DEF Pending
  <2>2. d \in {r.dir : r \in reads}
    BY <1>2, <1>7 DEF Seen, ScanInv, WalkInv
  <2>3. /\ visited \subseteq {r.dir : r \in reads}
        /\ search.kind # "glob" => visited = {r.dir : r \in reads}
        /\ search.kind # "glob" => matches = {}
        /\ matches \subseteq Seq(Names)
    BY <1>2 DEF ScanInv, WalkInv, ScanTypes
  <2>4. \A x \in Pending \ Pending' : End(tree, x) \in {r.dir : r \in reads}
    BY <1>3, <2>1, <2>2
  <2> QED
    BY <1>2, <1>3, <1>7, <2>2, <2>3, <2>4, PassingKeeps
<1>8. CASE /\ Readable(p) /\ ~Seen(d)
           /\ visited' = visited \cup {d} /\ reads' = reads \cup {Read(d, p)}
           /\ found' = found \cup {[path |-> q, node |-> End(tree, q)] : q \in {f \in Listing(p) : Takes(f)}}
           /\ stack' = (IF below = {} THEN rest ELSE Append(rest, below))
           /\ UNCHANGED <<scanning, scanned>>
  BY <1>2, <1>3, <1>4, <1>8, ReadKeeps
<1> QED
  BY <1>5, <1>6, <1>7, <1>8

LEMMA StoreFoundKeeps == ASSUME ScanAssumption, ScanInv, StoreFound PROVE ScanInv'
<1> DEFINE new == {f.path : f \in found}
<1>1. /\ scanning = "store" /\ scanning' = "idle"
      /\ UNCHANGED <<search, tree, there, closed, matches, stack, visited, found, reads, steady>>
  BY DEF StoreFound, ScanFails, source
<1>2. ScanTypes' /\ NeverItself' /\ ReadOnce'
  BY <1>1
  DEF ScanInv, ScanTypes, Reachable, Paths, InBackup, ScanSound, NeverItself, ReadOnce
<1>3. CASE UNCHANGED <<current, keys>> /\ scanned' = "failed"
  BY <1>1, <1>2, <1>3 DEF ScanInv, ScanSound, NothingOverlooked, Portable, Folded
<1>4. CASE ~Clashes(new) /\ current' = new /\ keys' = keys \cup new
  <2>1. Portable'
    BY <1>4 DEF Clashes, Portable, Folded
  <2>2. ASSUME NEW p \in steady, ~Misled(p)
        PROVE  \E r \in reads : /\ r.dir = Trail(tree, p)[Len(p) - 1]
                                /\ Keeps(Append(r.path, p[Len(p)])) => Append(r.path, p[Len(p)]) \in new
    <3> DEFINE Bad == {m \in Nat : m <= Len(p) - 1 /\ ~\E r \in reads : r.dir = Trail(tree, p)[m]}
    <3>1. p \in Seq(Names) /\ Len(p) \in Nat \ {0}
      BY PathsAre DEF ScanInv, ScanTypes, Reachable
    <3>2. WalkInv /\ Pending = {} /\ FromRoot
      BY <1>1 DEF ScanInv, WalkInv
    <3>3. Bad = {}
      <4> SUFFICES ASSUME Bad # {} PROVE FALSE
        OBVIOUS
      <4>1. PICK a \in Bad : \A b \in Bad : ~(<<b, a>> \in OpToRel(<, Nat))
        BY NatLessThanWellFounded, WFMin, Zenon
      <4>2. a \in Nat /\ a <= Len(p) - 1 /\ ~\E r \in reads : r.dir = Trail(tree, p)[a]
        OBVIOUS
      <4>3. a # 0
        BY <3>1, <3>2, <4>2, TrailIs DEF FromRoot
      <4> DEFINE i == a - 1
      <4>4. i \in Nat /\ i < a /\ i <= Len(p) - 1 /\ i \in 0..(Len(p) - 2) /\ i + 1 = a
        BY <3>1, <4>2, <4>3
      <4>5. <<i, a>> \in OpToRel(<, Nat)
        BY <4>2, <4>4 DEF OpToRel
      <4>6. \E r \in reads : r.dir = Trail(tree, p)[i]
        BY <4>1, <4>4, <4>5
      <4> HIDE DEF i
      <4>7. PICK r \in reads : r.dir = Trail(tree, p)[i] /\ r.same
        <5>1. ~\A r \in reads : r.dir = Trail(tree, p)[i] => ~r.same
          BY <2>2, <4>4, <4>6 DEF Misled
        <5> QED
          BY <5>1
      <4>8. \E s \in reads : s.dir = Trail(tree, p)[i + 1]
        BY <3>2, <4>4, <4>7 DEF WalkInv, GoesOn
      <4> QED
        BY <4>2, <4>4, <4>8
    <3>4. PICK r \in reads : r.dir = Trail(tree, p)[Len(p) - 1]
      <4>1. Len(p) - 1 \in Nat
        BY <3>1
      <4> QED
        BY <3>3, <4>1
    <3>5. Keeps(Append(r.path, p[Len(p)])) => \E f \in found : f.path = Append(r.path, p[Len(p)])
      BY <3>2, <3>4 DEF WalkInv, TakesFiles
    <3> QED
      BY <3>4, <3>5
  <2>3. NothingOverlooked'
    <3> SUFFICES ASSUME NEW p \in steady, ~Misled(p)
                 PROVE  \E r \in reads : /\ r.dir = Trail(tree, p)[Len(p) - 1]
                                         /\ Keeps(Append(r.path, p[Len(p)])) => Append(r.path, p[Len(p)]) \in new
      BY <1>1, <1>4 DEF NothingOverlooked, Misled, Keeps
    <3> QED
      BY <2>2
  <2> QED
    BY <1>1, <1>2, <2>1, <2>3 DEF ScanInv, ScanSound
<1> QED
  BY <1>3, <1>4 DEF StoreFound, ScanFails

-----------------------------------------------------------------------------
LEMMA ScanStarts == ASSUME ScanAssumption, ScanInit PROVE ScanInv
<1>1. matches = {} /\ stack = <<>> /\ <<>> \in Seq(Lists) /\ reads = {} /\ steady = {}
  BY DEF ScanInit
<1>2. ScanTypes
  BY <1>1 DEF ScanTypes
<1>3. ScanSound
  BY DEF ScanInit, ScanSound, NothingOverlooked, NeverItself, ReadOnce, Portable
<1> QED
  BY <1>2, <1>3 DEF ScanInit, ScanInv

LEMMA ScanSteps == ASSUME ScanAssumption, ScanInv, [ScanNext]_svars PROVE ScanInv'
<1>1. CASE UNCHANGED svars
  <2> USE <1>1 DEF svars
  <2>1. Pending' = Pending
    BY DEF Pending
  <2>2. ScanTypes'
    BY DEF ScanInv, ScanTypes, Reachable, Paths, InBackup
  <2>3. WalkInv => WalkInv'
    BY <2>1 DEF WalkInv, FromRoot, GoesOn, TakesFiles, Keeps, ReadUnder
  <2>4. ScanSound'
    BY DEF ScanInv, ScanSound, NothingOverlooked, Misled, Keeps, NeverItself, InBackup,
       ReadOnce, Portable, Folded
  <2> QED
    BY <2>1, <2>2, <2>3, <2>4 DEF ScanInv
<1> QED
  BY <1>1, ChangeKeeps, ValidateKeeps, MatchKeeps, BeginWalkKeeps, DirectoryKeeps,
     EndWalkKeeps, StoreFoundKeeps
  DEF ScanNext, ScanStep

LEMMA ScanHolds == ScanInv => ScanSound
BY DEF ScanInv

-----------------------------------------------------------------------------
(* Worktrees                                                               *)

GitTypes ==
    /\ registered \in [Places -> Branches \cup {None}]
    /\ content \in [Places -> {None} \cup SUBSET AllFiles]
    /\ head \in [Branches -> SUBSET AllFiles]
    /\ stage \in [Engines -> {"idle", "clear", "release", "branch", "add", "store", "end"}]
    /\ outcome \in [Engines -> {"none", "published", "refused", "failed"}]
    /\ start \in [Engines -> SUBSET AllFiles] /\ stored \in [Engines -> SUBSET AllFiles]
    /\ excused \subseteq Engines /\ moves \in Nat

\* No two worktrees hold one branch, and an engine's place holds its own.
HoldInv ==
    /\ \A p, q \in Places : registered[p] # None /\ registered[p] = registered[q] => p = q
    /\ \A e \in Engines : registered[Place[e]] \in {None, Branch[e]}
    /\ \A p \in Theirs : registered[p] # None => content[p] # None /\ moves > 0

\* What is in an engine's way while it prepares its worktree came up during its
\* run, and what it stores is all that its worktree has beside the base.
RunInv(e) ==
    /\ stage[e] \in {"clear", "release", "branch", "add"} => stored[e] = {}
    /\ stage[e] \in {"release", "branch", "add"} => content[Place[e]] = None \/ e \in excused
    /\ stage[e] \in {"branch", "add"} => Holding(registered, Branch[e]) = {} \/ e \in excused
    /\ stage[e] = "add" => head[Branch[e]] = start[e]
    /\ stage[e] = "store" => /\ registered[Place[e]] = Branch[e]
                             /\ content[Place[e]] = (start[e] \cup stored[e]) \ Ignored[e]
    /\ stage[e] = "end" /\ outcome[e] = "published" =>
           head[Branch[e]] = (start[e] \cup stored[e]) \ Ignored[e]
    /\ outcome[e] = "refused" => moves > 0
    /\ outcome[e] = "failed" => e \in excused

WorktreesInv == GitTypes /\ HoldInv /\ \A e \in Engines : RunInv(e)

LEMMA PlacesAndBranches ==
    /\ \A e \in Engines : Place[e] \in Places /\ Branch[e] \in Branches
    /\ Theirs \subseteq Places
BY DEF Places, Branches

LEMMA WorktreesStart == ASSUME WorktreesAssumption, WorktreesInit PROVE WorktreesInv
<1>1. GitTypes
  BY DEF GitTypes, WorktreesInit, AllFiles
<1>2. HoldInv
  BY PlacesAndBranches DEF HoldInv, WorktreesInit
<1>3. \A e \in Engines : RunInv(e)
  BY PlacesAndBranches DEF RunInv, WorktreesInit
<1> QED
  BY <1>1, <1>2, <1>3 DEF WorktreesInv

\* What an engine does leaves alone the run of an engine whose place and branch
\* it leaves alone, for the branch is held there and nowhere else.
LEMMA RunStays ==
    ASSUME NEW e \in Engines, RunInv(e),
           stage'[e] = stage[e], outcome'[e] = outcome[e], start'[e] = start[e],
           stored'[e] = stored[e], content'[Place[e]] = content[Place[e]],
           head'[Branch[e]] = head[Branch[e]], moves' = moves,
           e \in excused => e \in excused',
           Holding(registered', Branch[e]) \subseteq Holding(registered, Branch[e]),
           content[Place[e]] # None => registered'[Place[e]] = registered[Place[e]],
           stage[e] = "store" => content[Place[e]] # None
    PROVE  RunInv(e)'
BY DEF RunInv

LEMMA PrunedIs ==
    ASSUME GitTypes, HoldInv
    PROVE  /\ Pruned(registered, content) \in [Places -> Branches \cup {None}]
           /\ \A p \in Places : Pruned(registered, content)[p] \in {registered[p], None}
           /\ \A p \in Places : content[p] # None => Pruned(registered, content)[p] = registered[p]
           /\ \A p \in Theirs : Pruned(registered, content)[p] = registered[p]
BY PlacesAndBranches DEF Pruned, GitTypes, HoldInv

\* The clone after a worktree has been removed, or removed in part.
LEMMA ClearedIs ==
    ASSUME WorktreesAssumption, WorktreesInv, NEW e \in Engines, Cleared(e)
    PROVE  /\ registered' \in [Places -> Branches \cup {None}]
           /\ content' \in [Places -> {None} \cup SUBSET AllFiles]
           /\ \A p \in Places : registered'[p] \in {registered[p], None}
           /\ \A p \in Places \ {Place[e]} :
                  content'[p] = content[p] /\ (content[p] # None => registered'[p] = registered[p])
           /\ excused' \subseteq Engines /\ excused \subseteq excused'
           /\ content'[Place[e]] = None \/ e \in excused'
<1> DEFINE known == Pruned(registered, content)
<1>0. GitTypes /\ HoldInv /\ Place[e] \in Places
  BY PlacesAndBranches DEF WorktreesInv
<1>1. /\ known \in [Places -> Branches \cup {None}]
      /\ \A p \in Places : known[p] \in {registered[p], None}
      /\ \A p \in Places : content[p] # None => known[p] = registered[p]
  BY <1>0, PrunedIs
<1>2. PICK reg \in {known[Place[e]], None}, remains \in {None, content[Place[e]]} :
        /\ registered' = [known EXCEPT ![Place[e]] = reg]
        /\ content' = [content EXCEPT ![Place[e]] = remains]
        /\ remains = None \/ e \in excused'
  BY DEF Cleared, Fault
<1>3. excused' \subseteq Engines /\ excused \subseteq excused'
  BY <1>0 DEF Cleared, Fault, NoFault, GitTypes
<1> HIDE DEF known
<1> QED
  BY <1>0, <1>1, <1>2, <1>3 DEF GitTypes

\* Worktrees that are given up disturb neither the rule of one worktree for one
\* branch nor those of other people.
LEMMA HoldStays ==
    ASSUME WorktreesAssumption, WorktreesInv, moves' = moves,
           \A p \in Places : registered'[p] \in {registered[p], None},
           \A p \in Theirs : content'[p] = content[p] /\ registered'[p] = registered[p]
    PROVE  /\ HoldInv'
           /\ \A e \in Engines : Holding(registered', Branch[e]) \subseteq Holding(registered, Branch[e])
BY PlacesAndBranches DEF WorktreesInv, HoldInv, Holding, WorktreesAssumption

LEMMA BeginGitKeeps ==
    ASSUME WorktreesAssumption, WorktreesInv, NEW e \in Engines, BeginRun(e) PROVE WorktreesInv'
<1>1. /\ stage[e] = "idle" /\ stage' = [stage EXCEPT ![e] = "clear"]
      /\ stored' = [stored EXCEPT ![e] = {}] /\ outcome' = [outcome EXCEPT ![e] = "none"]
      /\ excused' = excused \ {e}
      /\ UNCHANGED <<registered, content, head, start, moves>>
  BY DEF BeginRun, To, clone
<1>2. GitTypes'
  BY <1>1 DEF WorktreesInv, GitTypes
<1>3. HoldInv'
  BY <1>1 DEF WorktreesInv, HoldInv
<1>4. \A f \in Engines : RunInv(f)'
  BY <1>1 DEF WorktreesInv, GitTypes, RunInv, Holding
<1> QED
  BY <1>2, <1>3, <1>4 DEF WorktreesInv

LEMMA ClearKeeps ==
    ASSUME WorktreesAssumption, WorktreesInv, NEW e \in Engines, Clear(e) \/ EndRun(e)
    PROVE  WorktreesInv'
<1>1. /\ Cleared(e) /\ UNCHANGED <<head, start, stored, outcome, moves>>
      /\ \/ stage[e] = "clear" /\ stage' = [stage EXCEPT ![e] = "release"]
         \/ stage[e] = "end" /\ stage' = [stage EXCEPT ![e] = "idle"]
  BY DEF Clear, EndRun, To
<1>2. /\ registered' \in [Places -> Branches \cup {None}]
      /\ content' \in [Places -> {None} \cup SUBSET AllFiles]
      /\ \A p \in Places : registered'[p] \in {registered[p], None}
      /\ \A p \in Places \ {Place[e]} :
             content'[p] = content[p] /\ (content[p] # None => registered'[p] = registered[p])
      /\ excused' \subseteq Engines /\ excused \subseteq excused'
      /\ content'[Place[e]] = None \/ e \in excused'
  BY <1>1, ClearedIs
<1>3. GitTypes'
  BY <1>1, <1>2 DEF WorktreesInv, GitTypes
<1>4. \A p \in Theirs : content'[p] = content[p] /\ registered'[p] = registered[p]
  BY <1>2, PlacesAndBranches DEF WorktreesAssumption, WorktreesInv, HoldInv
<1>5. /\ HoldInv'
      /\ \A f \in Engines : Holding(registered', Branch[f]) \subseteq Holding(registered, Branch[f])
  BY <1>1, <1>2, <1>4, HoldStays
<1>6. RunInv(e)'
  BY <1>1, <1>2, <1>5 DEF WorktreesInv, GitTypes, RunInv
<1>7. ASSUME NEW f \in Engines \ {e} PROVE RunInv(f)'
  <2>1. RunInv(f) /\ Place[f] \in Places \ {Place[e]} /\ Branch[f] \in Branches
    BY PlacesAndBranches DEF WorktreesInv, WorktreesAssumption
  <2>2. stage[f] = "store" => content[Place[f]] # None
    BY <2>1 DEF RunInv, WorktreesInv, GitTypes, WorktreesAssumption
  <2> QED
    BY <1>1, <1>2, <1>5, <2>1, <2>2, RunStays DEF WorktreesInv, GitTypes
<1> QED
  BY <1>3, <1>5, <1>6, <1>7 DEF WorktreesInv

LEMMA ReleaseKeeps ==
    ASSUME WorktreesAssumption, WorktreesInv, NEW e \in Engines, Release(e)
    PROVE  WorktreesInv'
<1> DEFINE known   == Pruned(registered, content)
           holding == Holding(known, Branch[e])
<1>0. GitTypes /\ HoldInv /\ RunInv(e) /\ Place[e] \in Places /\ Branch[e] \in Branches
  BY PlacesAndBranches DEF WorktreesInv
<1>1. /\ known \in [Places -> Branches \cup {None}]
      /\ \A p \in Places : known[p] \in {registered[p], None}
      /\ \A p \in Places : content[p] # None => known[p] = registered[p]
      /\ \A p \in Theirs : known[p] = registered[p]
  BY <1>0, PrunedIs
<1>2. stage[e] = "release" /\ UNCHANGED <<head, start, stored, runs, moves>>
  BY DEF Release
<1>3. holding \subseteq {Place[e]} \cup Theirs
  BY <1>0, <1>1 DEF Holding, HoldInv, Places, WorktreesAssumption, Branches
<1>4. \/ /\ \E p \in holding : p \in Theirs
         /\ registered' = known /\ Ends(e, "refused") /\ UNCHANGED <<content, excused>>
      \/ /\ holding \cap Theirs = {}
         /\ registered' = [p \in Places |-> IF p \in holding THEN None ELSE known[p]]
         /\ content' = [p \in Places |-> IF p \in holding THEN None ELSE content[p]]
         /\ To(e, "branch") /\ UNCHANGED <<outcome, excused>>
      \/ /\ holding \cap Theirs = {} /\ excused' = excused \cup {e}
         /\ registered' = known /\ Ends(e, "failed") /\ UNCHANGED content
  BY DEF Release, Owned, NoFault, Fault
<1> HIDE DEF known
<1>5. /\ registered' \in [Places -> Branches \cup {None}]
      /\ content' \in [Places -> {None} \cup SUBSET AllFiles]
      /\ \A p \in Places : registered'[p] \in {registered[p], None}
      /\ \A p \in Places \ {Place[e]} :
             content'[p] = content[p] /\ (content[p] # None => registered'[p] = registered[p])
      /\ \A p \in Theirs : content'[p] = content[p] /\ registered'[p] = registered[p]
  BY <1>0, <1>1, <1>3, <1>4, PlacesAndBranches DEF GitTypes, WorktreesAssumption
<1>6. /\ excused' \subseteq Engines /\ excused \subseteq excused'
      /\ \/ /\ stage' = [stage EXCEPT ![e] = "idle"] /\ outcome' = [outcome EXCEPT ![e] = "refused"]
            /\ moves > 0
         \/ /\ stage' = [stage EXCEPT ![e] = "branch"] /\ outcome' = outcome
            /\ Holding(registered', Branch[e]) = {}
            /\ content'[Place[e]] = content[Place[e]] \/ content'[Place[e]] = None
         \/ /\ stage' = [stage EXCEPT ![e] = "idle"] /\ outcome' = [outcome EXCEPT ![e] = "failed"]
            /\ e \in excused'
  <2>1. CASE /\ \E p \in holding : p \in Theirs
             /\ registered' = known /\ Ends(e, "refused") /\ UNCHANGED <<content, excused>>
    BY <1>0, <1>1, <2>1, PlacesAndBranches
    DEF Holding, HoldInv, Ends, To, WorktreesAssumption, GitTypes
  <2>2. CASE /\ holding \cap Theirs = {}
             /\ registered' = [p \in Places |-> IF p \in holding THEN None ELSE known[p]]
             /\ content' = [p \in Places |-> IF p \in holding THEN None ELSE content[p]]
             /\ To(e, "branch") /\ UNCHANGED <<outcome, excused>>
    BY <1>0, <1>1, <2>2 DEF Holding, To, WorktreesAssumption, GitTypes
  <2>3. CASE /\ holding \cap Theirs = {} /\ excused' = excused \cup {e}
             /\ registered' = known /\ Ends(e, "failed") /\ UNCHANGED content
    BY <1>0, <2>3 DEF Ends, To, GitTypes
  <2> QED
    BY <1>4, <2>1, <2>2, <2>3
<1>7. GitTypes'
  BY <1>0, <1>2, <1>5, <1>6 DEF GitTypes
<1>8. /\ HoldInv'
      /\ \A f \in Engines : Holding(registered', Branch[f]) \subseteq Holding(registered, Branch[f])
  BY <1>2, <1>5, HoldStays
<1>9. RunInv(e)'
  BY <1>0, <1>2, <1>6 DEF GitTypes, RunInv
<1>10. ASSUME NEW f \in Engines \ {e} PROVE RunInv(f)'
  <2>1. RunInv(f) /\ Place[f] \in Places \ {Place[e]} /\ Branch[f] \in Branches
    BY PlacesAndBranches DEF WorktreesInv, WorktreesAssumption
  <2>2. stage[f] = "store" => content[Place[f]] # None
    BY <2>1 DEF RunInv, WorktreesInv, GitTypes, WorktreesAssumption
  <2>3. stage'[f] = stage[f] /\ outcome'[f] = outcome[f]
    BY <1>0, <1>6 DEF GitTypes
  <2> QED
    BY <1>2, <1>5, <1>6, <1>8, <2>1, <2>2, <2>3, RunStays
<1> QED
  BY <1>7, <1>8, <1>9, <1>10 DEF WorktreesInv

\* A branch that nobody holds is reset, or the run was disturbed.
LEMMA ResetKeeps ==
    ASSUME WorktreesAssumption, WorktreesInv, NEW e \in Engines, ResetBranch(e)
    PROVE  WorktreesInv'
<1>0. GitTypes /\ HoldInv /\ RunInv(e) /\ Place[e] \in Places /\ Branch[e] \in Branches
  BY PlacesAndBranches DEF WorktreesInv
<1>1. /\ stage[e] = "branch" /\ UNCHANGED <<registered, content, stored, excused, moves>>
      /\ \/ /\ Holding(registered, Branch[e]) = {}
            /\ head' = [head EXCEPT ![Branch[e]] = BaseFiles]
            /\ start' = [start EXCEPT ![e] = BaseFiles]
            /\ stage' = [stage EXCEPT ![e] = "add"] /\ outcome' = outcome
         \/ /\ Holding(registered, Branch[e]) # {} /\ head' = head /\ start' = start
            /\ stage' = [stage EXCEPT ![e] = "idle"] /\ outcome' = [outcome EXCEPT ![e] = "failed"]
  BY DEF ResetBranch, Ends, To, clone
<1>2. GitTypes'
  BY <1>0, <1>1 DEF GitTypes, AllFiles
<1>3. HoldInv'
  BY <1>0, <1>1 DEF HoldInv
<1>4. RunInv(e)'
  BY <1>0, <1>1 DEF RunInv, GitTypes, Holding
<1>5. ASSUME NEW f \in Engines \ {e} PROVE RunInv(f)'
  <2>1. RunInv(f) /\ Branch[f] # Branch[e] /\ Branch[f] \in Branches
    BY PlacesAndBranches DEF WorktreesInv, WorktreesAssumption
  <2>2. /\ stage'[f] = stage[f] /\ outcome'[f] = outcome[f] /\ start'[f] = start[f]
        /\ head'[Branch[f]] = head[Branch[f]]
    BY <1>0, <1>1, <2>1 DEF GitTypes
  <2> QED
    BY <1>1, <2>1, <2>2 DEF RunInv, Holding
<1> QED
  BY <1>2, <1>3, <1>4, <1>5 DEF WorktreesInv

LEMMA AddKeeps ==
    ASSUME WorktreesAssumption, WorktreesInv, NEW e \in Engines, AddWorktree(e)
    PROVE  WorktreesInv'
<1>0. GitTypes /\ HoldInv /\ RunInv(e) /\ Place[e] \in Places /\ Branch[e] \in Branches
  BY PlacesAndBranches DEF WorktreesInv
<1>1. /\ stage[e] = "add" /\ UNCHANGED <<head, start, stored, excused, moves>>
      /\ \/ /\ content[Place[e]] = None /\ Holding(registered, Branch[e]) = {}
            /\ registered' = [registered EXCEPT ![Place[e]] = Branch[e]]
            /\ content' = [content EXCEPT ![Place[e]] = head[Branch[e]] \ Ignored[e]]
            /\ stage' = [stage EXCEPT ![e] = "store"] /\ outcome' = outcome
         \/ /\ content[Place[e]] # None \/ Holding(registered, Branch[e]) # {}
            /\ registered' = registered /\ content' = content
            /\ stage' = [stage EXCEPT ![e] = "idle"] /\ outcome' = [outcome EXCEPT ![e] = "failed"]
  BY DEF AddWorktree, Ends, To, clone, Without
<1>2. GitTypes'
  BY <1>0, <1>1 DEF GitTypes
<1>3. HoldInv'
  <2>1. Place[e] \notin Theirs
    BY DEF WorktreesAssumption
  <2>2. \A f \in Engines : f # e => Place[f] # Place[e] /\ Place[f] \in Places
    BY PlacesAndBranches DEF WorktreesAssumption
  <2> QED
    BY <1>0, <1>1, <2>1, <2>2, PlacesAndBranches DEF HoldInv, Holding, GitTypes
<1>4. RunInv(e)'
  BY <1>0, <1>1 DEF RunInv, GitTypes, Holding
<1>5. ASSUME NEW f \in Engines \ {e} PROVE RunInv(f)'
  <2>1. /\ RunInv(f) /\ Branch[f] # Branch[e] /\ Branch[f] \in Branches
        /\ Place[f] # Place[e] /\ Place[f] \in Places
    BY PlacesAndBranches DEF WorktreesInv, WorktreesAssumption
  <2>2. /\ stage'[f] = stage[f] /\ outcome'[f] = outcome[f]
        /\ registered'[Place[f]] = registered[Place[f]] /\ content'[Place[f]] = content[Place[f]]
    BY <1>0, <1>1, <2>1 DEF GitTypes
  <2>3. Holding(registered', Branch[f]) \subseteq Holding(registered, Branch[f])
    BY <1>0, <1>1, <2>1 DEF GitTypes, Holding
  <2>4. stage[f] = "store" => content[Place[f]] # None
    BY <2>1 DEF RunInv, WorktreesInv, GitTypes, WorktreesAssumption
  <2> QED
    BY <1>1, <2>1, <2>2, <2>3, <2>4, RunStays
<1> QED
  BY <1>2, <1>3, <1>4, <1>5 DEF WorktreesInv

LEMMA StoreGitKeeps ==
    ASSUME WorktreesAssumption, WorktreesInv, NEW e \in Engines, NEW x \in StoredFiles,
           StoreFile(e, x)
    PROVE  WorktreesInv'
<1>0. GitTypes /\ HoldInv /\ RunInv(e) /\ Place[e] \in Places /\ x \in AllFiles
  BY PlacesAndBranches DEF WorktreesInv, AllFiles
<1>1. /\ stage[e] = "store" /\ stored' = [stored EXCEPT ![e] = stored[e] \cup {x}]
      /\ UNCHANGED <<registered, head, stage, start, outcome, excused, moves>>
      /\ content' = [content EXCEPT ![Place[e]] =
            (IF content[Place[e]] = None THEN {} ELSE content[Place[e]]) \cup ({x} \ Ignored[e])]
  BY DEF StoreFile
<1>2. content[Place[e]] \in SUBSET AllFiles
  BY <1>0, <1>1 DEF RunInv, GitTypes
<1>3. content' = [content EXCEPT ![Place[e]] = content[Place[e]] \cup ({x} \ Ignored[e])]
  BY <1>1, <1>2 DEF WorktreesAssumption
<1>4. GitTypes'
  BY <1>0, <1>1, <1>2, <1>3 DEF GitTypes
<1>5. HoldInv'
  <2>1. Place[e] \notin Theirs
    BY DEF WorktreesAssumption
  <2> QED
    BY <1>0, <1>1, <1>3, <2>1, PlacesAndBranches DEF HoldInv, GitTypes
<1>6. RunInv(e)'
  BY <1>0, <1>1, <1>2, <1>3 DEF RunInv, GitTypes
<1>7. ASSUME NEW f \in Engines \ {e} PROVE RunInv(f)'
  <2>1. RunInv(f) /\ Place[f] # Place[e] /\ Place[f] \in Places
    BY PlacesAndBranches DEF WorktreesInv, WorktreesAssumption
  <2>2. stored'[f] = stored[f] /\ content'[Place[f]] = content[Place[f]]
    BY <1>0, <1>1, <1>3, <2>1 DEF GitTypes
  <2> QED
    BY <1>1, <2>1, <2>2 DEF RunInv, Holding
<1> QED
  BY <1>4, <1>5, <1>6, <1>7 DEF WorktreesInv

LEMMA FinalizeKeeps ==
    ASSUME WorktreesAssumption, WorktreesInv, NEW e \in Engines, Finalize(e)
    PROVE  WorktreesInv'
<1>0. GitTypes /\ HoldInv /\ RunInv(e) /\ Place[e] \in Places /\ Branch[e] \in Branches
  BY PlacesAndBranches DEF WorktreesInv
<1>1. stage[e] = "store" /\ registered[Place[e]] = Branch[e] /\ content[Place[e]] \in SUBSET AllFiles
  BY <1>0 DEF Finalize, RunInv, GitTypes
<1>2. /\ UNCHANGED <<registered, content, start, stored, excused, moves>>
      /\ head' = [head EXCEPT ![Branch[e]] = content[Place[e]]]
      /\ outcome' = [outcome EXCEPT ![e] = "published"] /\ stage' = [stage EXCEPT ![e] = "end"]
  BY <1>1 DEF Finalize, To, clone, WorktreesAssumption
<1>3. GitTypes'
  BY <1>0, <1>1, <1>2 DEF GitTypes
<1>4. HoldInv'
  BY <1>0, <1>2 DEF HoldInv
<1>5. RunInv(e)'
  BY <1>0, <1>1, <1>2 DEF RunInv, GitTypes
<1>6. ASSUME NEW f \in Engines \ {e} PROVE RunInv(f)'
  <2>1. RunInv(f) /\ Branch[f] # Branch[e] /\ Branch[f] \in Branches
    BY PlacesAndBranches DEF WorktreesInv, WorktreesAssumption
  <2>2. stage'[f] = stage[f] /\ outcome'[f] = outcome[f] /\ head'[Branch[f]] = head[Branch[f]]
    BY <1>0, <1>2, <2>1 DEF GitTypes
  <2> QED
    BY <1>2, <2>1, <2>2 DEF RunInv, Holding
<1> QED
  BY <1>3, <1>4, <1>5, <1>6 DEF WorktreesInv

LEMMA DieKeeps ==
    ASSUME WorktreesAssumption, WorktreesInv, NEW e \in Engines, Die(e) PROVE WorktreesInv'
<1>1. /\ UNCHANGED <<registered, content, head, start, stored, moves>>
      /\ excused' = excused \cup {e} /\ stage' = [stage EXCEPT ![e] = "idle"]
      /\ outcome' = [outcome EXCEPT ![e] = "failed"]
  BY DEF Die, Fault, To, clone
<1>2. GitTypes'
  BY <1>1 DEF WorktreesInv, GitTypes
<1>3. HoldInv'
  BY <1>1 DEF WorktreesInv, HoldInv
<1>4. \A f \in Engines : RunInv(f)'
  BY <1>1 DEF WorktreesInv, GitTypes, RunInv, Holding
<1> QED
  BY <1>2, <1>3, <1>4 DEF WorktreesInv

LEMMA TheyKeep ==
    ASSUME WorktreesAssumption, WorktreesInv, NEW p \in Theirs, TheyMove(p) PROVE WorktreesInv'
<1>0. GitTypes /\ HoldInv /\ p \in Places
  BY PlacesAndBranches DEF WorktreesInv
<1>1. /\ moves' = moves + 1 /\ excused' = Engines
      /\ UNCHANGED <<head, stage, start, stored, outcome>>
      /\ \/ \E b \in Branches : /\ content[p] = None /\ Holding(registered, b) = {}
                                /\ registered' = [registered EXCEPT ![p] = b]
                                /\ content' = [content EXCEPT ![p] = head[b]]
         \/ /\ registered' = [registered EXCEPT ![p] = None]
            /\ content' = [content EXCEPT ![p] = None]
  BY DEF TheyMove
<1>2. GitTypes'
  BY <1>0, <1>1 DEF GitTypes
<1>3. \A e \in Engines : Place[e] # p /\ Place[e] \in Places
  BY PlacesAndBranches DEF WorktreesAssumption
<1>4. HoldInv'
  BY <1>0, <1>1, <1>3, PlacesAndBranches
  DEF HoldInv, Holding, GitTypes, WorktreesAssumption
<1>5. ASSUME NEW e \in Engines PROVE RunInv(e)'
  <2>1. RunInv(e) /\ e \in excused' /\ moves' > 0
    BY <1>0, <1>1 DEF WorktreesInv, GitTypes
  <2>2. registered'[Place[e]] = registered[Place[e]] /\ content'[Place[e]] = content[Place[e]]
    BY <1>0, <1>1, <1>3 DEF GitTypes
  <2> QED
    BY <1>1, <2>1, <2>2 DEF RunInv
<1> QED
  BY <1>2, <1>4, <1>5 DEF WorktreesInv

LEMMA WorktreesKeep ==
    ASSUME WorktreesAssumption, WorktreesInv, [WorktreesNext]_gvars PROVE WorktreesInv'
<1>1. CASE UNCHANGED gvars
  BY <1>1 DEF gvars, WorktreesInv, GitTypes, HoldInv, RunInv, Holding
<1>2. CASE \E e \in Engines : BeginRun(e) \/ EngineStep(e) \/ Die(e)
  BY <1>2, BeginGitKeeps, ClearKeeps, ReleaseKeeps, ResetKeeps, AddKeeps,
     StoreGitKeeps, FinalizeKeeps,
     DieKeeps DEF EngineStep
<1>3. CASE \E p \in Theirs : TheyMove(p)
  BY <1>3, TheyKeep
<1> QED
  BY <1>1, <1>2, <1>3 DEF WorktreesNext

LEMMA WorktreesHold == WorktreesInv => RunsSound
BY DEF WorktreesInv, RunInv, RunsSound, OwnWork, FailsForCause

\* Only other people give up a worktree of theirs, and no run commits to a
\* branch that one of them holds.
LEMMA TheirsStay ==
    ASSUME WorktreesAssumption, WorktreesInv, [WorktreesNext]_gvars PROVE TheirsKept
<1> SUFFICES ASSUME NEW p \in Theirs, registered[p] # None, moves' = moves
             PROVE  /\ registered'[p] = registered[p] /\ content'[p] = content[p]
                    /\ head'[registered[p]] = head[registered[p]]
  BY DEF TheirsKept
<1>0. GitTypes /\ HoldInv /\ p \in Places /\ content[p] # None
  BY PlacesAndBranches DEF WorktreesInv, HoldInv
<1>1. CASE UNCHANGED gvars
  BY <1>1 DEF gvars
<1>2. CASE \E q \in Theirs : TheyMove(q)
  BY <1>0, <1>2 DEF TheyMove, GitTypes
<1>3. ASSUME NEW e \in Engines, BeginRun(e) \/ EngineStep(e) \/ Die(e)
      PROVE  /\ registered'[p] = registered[p] /\ content'[p] = content[p]
             /\ head'[registered[p]] = head[registered[p]]
  <2>0. Place[e] # p /\ Place[e] \in Places /\ Branch[e] \in Branches
    BY PlacesAndBranches DEF WorktreesAssumption
  <2>1. CASE BeginRun(e) \/ Die(e)
    BY <2>1 DEF BeginRun, Die, clone
  <2>2. CASE Clear(e) \/ EndRun(e)
    BY <1>0, <2>0, <2>2, ClearedIs DEF Clear, EndRun
  <2>3. CASE Release(e)
    <3>1. Pruned(registered, content)[p] = registered[p]
      BY <1>0, PrunedIs
    <3> QED
      BY <1>0, <2>3, <3>1 DEF Release, Owned, Holding, GitTypes
  <2>4. CASE ResetBranch(e)
    BY <1>0, <2>0, <2>4 DEF ResetBranch, Holding, clone, GitTypes
  <2>5. CASE AddWorktree(e)
    BY <1>0, <2>0, <2>5 DEF AddWorktree, GitTypes, clone
  <2>6. CASE \E x \in StoredFiles : StoreFile(e, x)
    BY <1>0, <2>0, <2>6 DEF StoreFile, GitTypes
  <2>7. CASE Finalize(e)
    BY <1>0, <2>0, <2>7 DEF Finalize, HoldInv, GitTypes, clone
  <2> QED
    BY <1>3, <2>1, <2>2, <2>3, <2>4, <2>5, <2>6, <2>7 DEF EngineStep
<1> QED
  BY <1>1, <1>2, <1>3 DEF WorktreesNext

-----------------------------------------------------------------------------
(* All of them                                                             *)

\* The stage that a behaviour is about keeps its invariant.
StagesInv ==
    /\ subject = "retention" => RetentionInv /\ PlanInv /\ CoverInv
    /\ subject = "handover" => HandoverInv
    /\ subject = "postgres" => PgInv
    /\ subject = "system" => HostInv
    /\ subject = "scan" => ScanInv
    /\ subject = "worktrees" => WorktreesInv
    /\ subject = "loading" => LoadInv

LEMMA StagesStart == Init => StagesInv
<1> SUFFICES ASSUME Init PROVE StagesInv
  OBVIOUS
<1> USE StagesAssumption DEF Init, StagesAssumption, StagesInv
<1>1. subject = "retention" => RetentionInv /\ PlanInv /\ CoverInv
  BY RetentionStarts, PlansStart
<1>2. subject = "handover" => HandoverInv
  BY HandoverStarts
<1>3. subject = "postgres" => PgInv
  BY PostgresStarts
<1>4. subject = "system" => HostInv
  BY HostStarts
<1>5. subject = "scan" => ScanInv
  BY ScanStarts
<1>6. subject = "worktrees" => WorktreesInv
  BY WorktreesStart
<1>7. subject = "loading" => LoadInv
  BY LoadStarts
<1> QED
  BY <1>1, <1>2, <1>3, <1>4, <1>5, <1>6, <1>7

\* A step is a step of the stage the behaviour is about, or of none.
LEMMA OneStage ==
    ASSUME [Next]_vars
    PROVE  /\ subject' = subject
           /\ subject = "retention" => [RetentionNext]_kvars
           /\ subject = "handover" => [HandoverNext]_hvars
           /\ subject = "postgres" => [CollectorNext]_bvars
           /\ subject = "system" => [SystemNext]_hostvars
           /\ subject = "scan" => [ScanNext]_svars
           /\ subject = "worktrees" => [WorktreesNext]_gvars
           /\ subject = "loading" => [LoadNext]_lvars
  BY DEF vars, stages, Next, RetentionOnly, HandoverOnly, PostgresOnly, SystemOnly,
     ScanOnly,
     WorktreesOnly, LoadingOnly

LEMMA StagesStep ==
    StagesInv /\ [Next]_vars =>
        /\ StagesInv'
        /\ subject = "retention" => FloorKept /\ LastGoodCopyKept /\ RetentionSettles
        /\ subject = "worktrees" => TheirsKept
<1> SUFFICES ASSUME StagesInv, [Next]_vars
             PROVE  /\ StagesInv'
                    /\ subject = "retention" =>
                          FloorKept /\ LastGoodCopyKept /\ RetentionSettles
                    /\ subject = "worktrees" => TheirsKept
  OBVIOUS
<1> USE StagesAssumption DEF StagesAssumption, StagesInv
<1>0. subject' = subject
  BY OneStage
<1>1. subject = "retention" => RetentionInv' /\ FloorKept /\ LastGoodCopyKept
  BY OneStage, RetentionSteps, FloorsStay, GoodCopiesStay
<1>8. subject = "retention" => PlanInv' /\ CoverInv' /\ RetentionSettles
  BY OneStage, PlanSteps, CoverSteps, SecondRunsSettle
<1>2. subject = "handover" => HandoverInv'
  BY OneStage, HandoverSteps
<1>3. subject = "postgres" => PgInv'
  BY OneStage, PostgresSteps
<1>4. subject = "system" => HostInv'
  BY OneStage, HostSteps
<1>5. subject = "scan" => ScanInv'
  BY OneStage, ScanSteps
<1>6. subject = "worktrees" => WorktreesInv' /\ TheirsKept
  BY OneStage, WorktreesKeep, TheirsStay
<1>7. subject = "loading" => LoadInv'
  BY OneStage, LoadSteps
<1> QED
  BY <1>0, <1>1, <1>2, <1>3, <1>4, <1>5, <1>6, <1>7, <1>8

\* The invariant of the stage that runs holds in every reachable state.
THEOREM StagesInvariance == Spec => []StagesInv
<1>1. Init => StagesInv
  BY StagesStart
<1>2. StagesInv /\ [Next]_vars => StagesInv'
  BY StagesStep
<1> QED
  BY <1>1, <1>2, PTL DEF Spec

\* After a run of retention the records name exactly the files that are there,
\* whatever failed in it (_delete_version_file, _retain_items).
THEOREM BooksStayTrue == Spec => []BooksMatchArchive
<1>1. StagesInv => BooksMatchArchive
  BY RetentionHolds DEF StagesInv, BooksMatchArchive
<1> QED
  BY <1>1, StagesInvariance, PTL

\* No run of retention takes the newest versions of a history below its floor,
\* nor the last of its copies that is intact (_retention_candidates,
\* validate_survivors).
THEOREM EnoughStays == Spec => NeverTooLittle
<1>1. StagesInv /\ [Next]_vars => [subject = "retention" => FloorKept /\ LastGoodCopyKept]_vars
  BY StagesStep
<1> QED
  BY <1>1, StagesInvariance, PTL DEF Spec, NeverTooLittle

\* A policy of nesting tiers without end keeps a version in every bucket of its last
\* tier, whatever was stored, thinned and deleted (_retention_candidates).
THEOREM BucketsStayCovered == Spec => []BucketsCovered
<1>1. StagesInv => BucketsCovered
  BY StagesAssumption, BucketsKept DEF StagesInv, StagesAssumption, BucketsCovered
<1> QED
  BY <1>1, StagesInvariance, PTL

\* After a run of retention without failures the same run removes nothing more: what
\* is kept depends on the time and not on how often retention runs
\* (_apply_task_retention).
THEOREM RetentionComesToRest == Spec => SecondRunRemovesNothing
<1>1. StagesInv /\ [Next]_vars => [subject = "retention" => RetentionSettles]_vars
  BY StagesStep
<1> QED
  BY <1>1, StagesInvariance, PTL DEF Spec, SecondRunRemovesNothing

\* What the PostgreSQL collector certifies it has read whole in its run; what the host
\* collector certifies it has read whole or else written in part without a section that
\* fails for it, and each failure it notes shows in a section and in the exit code; and
\* the archive stores what was certified in its own run, with the bytes that were
\* certified (collect_postgresql.py main, collect_system.py main, class Coverage).
THEOREM CollectionsStayHonest == Spec => []CollectionsHonest
<1>1. StagesInv => CollectionsHonest
  BY HandoverHolds, PostgresHolds, HostHolds DEF StagesInv, CollectionsHonest
<1> QED
  BY <1>1, StagesInvariance, PTL

\* A scan that ends has overlooked no file that was there all the time, although
\* the source changed under it and has links and cycles (_walk_files).
THEOREM ScansFindFiles == Spec => []FilesFound
<1>1. StagesInv => FilesFound
  BY ScanHolds DEF StagesInv, FilesFound
<1> QED
  BY <1>1, StagesInvariance, PTL

\* A pull request offers the work of its own run and nothing that a dead run
\* left behind (_prepare_git_pull_request_repo).
THEOREM PullRequestsStayOwn == Spec => []WorktreesSound
<1>1. StagesInv => WorktreesSound
  BY WorktreesHold DEF StagesInv, WorktreesSound
<1> QED
  BY <1>1, StagesInvariance, PTL

\* No step takes a worktree of other people or adds to the branch in it
\* (_cleanup_registered_branch_worktree).
THEOREM OthersStayOthers == Spec => OthersKept
<1>1. StagesInv /\ [Next]_vars => [subject = "worktrees" => TheirsKept]_vars
  BY StagesStep
<1> QED
  BY <1>1, StagesInvariance, PTL DEF Spec, OthersKept

\* A configuration is refused for a cycle if and only if it has one; in one that is
\* accepted no two tasks share their state, no two collectors that run are in each
\* other's way, and what a task says of its retention wins (_validate_dependencies,
\* _validate_collector_outputs, normalize_retention).
THEOREM LoadingStaysSound == Spec => []LoadingSound
<1>1. StagesInv => LoadingSound
  BY StagesAssumption, LoadHolds DEF StagesInv, StagesAssumption, LoadingSound
<1> QED
  BY <1>1, StagesInvariance, PTL
=============================================================================
