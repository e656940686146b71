----------------------------- MODULE Retention -----------------------------
(***************************************************************************)
(* Retention of one task over a sequence of runs: which versions a policy  *)
(* dooms (_apply_task_retention, _retention_candidates and                 *)
(* _apply_task_size_limit of engine/configbackup.py), and how a plan is    *)
(* carried out scope by scope, each checked first and taken back when it   *)
(* fails (plan, apply and validate_survivors of                            *)
(* recovery/retention_planning.py).                                        *)
(*                                                                         *)
(* A version is a number, given in the order of storing; its time stamp is *)
(* a day, and versions of one day are ordered as they were stored.  The    *)
(* run journal is what the next start brings back (TransactionJournal).    *)
(***************************************************************************)
EXTENDS Naturals, FiniteSets, Sequences, Common

CONSTANTS Keys,        \* logical paths of the task
          Scopes,      \* sections; of a plain task, one for each path
          Tasks,       \* the tasks to choose from: [scopeOf, size, active, deleted]
          Days,        \* what the clock may show
          Bucket,      \* interval -> day -> its bucket of that interval
          MaxVersions, \* bound: versions ever stored
          MaxFaults    \* bound: damaged files, errors and crashes

Versions == 1..MaxVersions
Made     == [key : Keys, day : Days, life : Nat]
Limits   == Nat \cup {None}
Tier     == [interval : DOMAIN Bucket \cup {"all"}, days : Nat, forever : BOOLEAN]

\* A deleted generation, and all that a run may change.
Generation == [at : Days, versions : (SUBSET Versions) \ {{}}]
Archives   == [active : [Keys -> SUBSET Versions], gens : [Keys -> SUBSET Generation],
               disk : SUBSET Versions]

\* What normalize_retention() accepts.
IsPolicy(p) ==
    /\ p.mode \in {"indefinite", "simple", "tiered"}
    /\ p.min \in Nat \ {0}
    /\ {p.maxVersions, p.maxAge, p.maxSize} \subseteq Limits
    /\ p.maxVersions # None => p.maxVersions >= p.min
    /\ p.tiers \in Seq(Tier)
    /\ p.mode = "tiered" => p.tiers # <<>>
    /\ \A i \in DOMAIN p.tiers : IF p.tiers[i].forever
                                 THEN i = Len(p.tiers) ELSE p.tiers[i].days > 0

RetentionAssumption ==
    /\ Days \subseteq Nat
    /\ \A i \in DOMAIN Bucket : Bucket[i] \in [Days -> Nat]
    /\ \A t \in Tasks : /\ t.scopeOf \in [Keys -> Scopes]
                        /\ t.size \in [Keys -> Nat]
                        /\ IsPolicy(t.active)
                        /\ IsPolicy(t.deleted)
                        /\ t.deleted.grace \in Nat
                        /\ t.deleted.purge \in Limits
    /\ None \notin Nat \cup Scopes \cup Made
    /\ None \notin Archives
    /\ {MaxVersions, MaxFaults} \subseteq Nat

VARIABLES
  task,     \* its sections, the size of a version of each key, its policies
  now,      \* the clock
  made,     \* version -> what its record says
  life,     \* auxiliary: key -> how often its source was deleted
  active,   \* key -> its versions
  gens,     \* key -> its deleted generations
  disk,     \* versions whose file exists
  bad,      \* versions whose file was damaged
  pc,       \* "idle", "apply" or "remove"
  eligible, \* scopes whose collection was complete
  doomed,   \* the versions a plan removes
  left,     \* scopes of the plan still to be processed
  scope,    \* the scope being processed
  gone,     \* its files removed so far
  base,     \* what a start after a crash brings back, None between runs
  failed,   \* a scope was preserved or rolled back
  faults

records == <<active, gens, disk>>
plan    == <<eligible, doomed, left, scope, gone, failed>>
kvars    == <<task, now, made, life, records, bad, pc, plan, base, faults>>

RetentionInit ==
    /\ task \in Tasks
    /\ now \in Days
    /\ made = [v \in Versions |-> None]
    /\ life = [k \in Keys |-> 0]
    /\ active = [k \in Keys |-> {}]
    /\ gens = [k \in Keys |-> {}]
    /\ disk = {}
    /\ bad = {}
    /\ pc = "idle"
    /\ eligible = {}
    /\ doomed = {}
    /\ left = {}
    /\ scope = None
    /\ gone = {}
    /\ base = None
    /\ failed = FALSE
    /\ faults = 0

-----------------------------------------------------------------------------
(* Which versions a policy dooms *)

Since(day) == IF day > now THEN 0 ELSE now - day
Age(v)     == Since(made[v].day)

Older(v, w) ==
    \/ made[v].day < made[w].day
    \/ made[v].day = made[w].day /\ v < w

Rank(v, S) == Cardinality({w \in S : Older(v, w)})

\* The newest min_versions of a history.
Protected(S, p) == {v \in S : Rank(v, S) < p.min}

\* A count or an age beyond the policy's ceiling.
OverLimit(v, S, p, age) ==
    \/ p.maxVersions # None /\ Rank(v, S) >= p.maxVersions
    \/ p.maxAge # None /\ age > p.maxAge

\* A tier begins where the one before it ends: the days of the tiers, counted.
Upper(tiers, i) == Cardinality(UNION {{j} \X (1..tiers[j].days) : j \in 1..i})

\* Variant: the last tier has an end like any other.
InTierBounded(v, i, tiers) ==
    /\ Age(v) >= Upper(tiers, i - 1)
    /\ Age(v) < Upper(tiers, i)

InTier(v, i, tiers) ==
    /\ Age(v) >= Upper(tiers, i - 1)
    /\ tiers[i].forever \/ Age(v) < Upper(tiers, i)

\* The newest of the unprotected versions in its bucket of its tier.
KeptByTier(v, S, p) ==
    \E i \in DOMAIN p.tiers :
        LET interval == p.tiers[i].interval
            Peers == {w \in S \ Protected(S, p) :
                         /\ InTier(w, i, p.tiers)
                         /\ Bucket[interval][made[w].day] = Bucket[interval][made[v].day]}
        IN  /\ InTier(v, i, p.tiers)
            /\ interval = "all" \/ \A w \in Peers : ~Older(v, w)

\* _retention_candidates() of one history, whose versions age by their own
\* stamps or, under a ceiling, from the deletion.
Candidates(S, p, deletedAge) ==
    {v \in S \ Protected(S, p) :
        /\ p.mode # "indefinite"
        /\ \/ OverLimit(v, S, p, IF deletedAge = None THEN Age(v) ELSE deletedAge)
           \/ p.mode = "tiered" /\ ~KeptByTier(v, S, p)}

\* The units of storage that the versions take, counted.
TotalSize(S) == Cardinality(UNION {{v} \X (1..task.size[made[v].key]) : v \in S})

\* Variant: the oldest version goes, whatever is still missing to the target.
SizeLimitedOnce(groups, p, candidates) ==
    LET kept == (UNION groups) \ candidates
        optional == kept \ UNION {Protected(S, p) : S \in groups}
    IN  candidates \cup
        {v \in optional : /\ p.maxSize # None
                          /\ TotalSize(kept) > p.maxSize
                          /\ \A w \in optional : ~Older(w, v)}

\* Variant: the floor does not hold against the size target.
SizeLimitedAll(groups, p, candidates) ==
    LET kept == (UNION groups) \ candidates
    IN  candidates \cup
        {v \in kept : /\ p.maxSize # None
                      /\ TotalSize(kept) - TotalSize({w \in kept : Older(w, v)}) > p.maxSize}

\* _apply_task_size_limit(): what is not protected goes, oldest first, until
\* the task is within its target.
SizeLimited(groups, p, candidates) ==
    LET kept == (UNION groups) \ candidates
        optional == kept \ UNION {Protected(S, p) : S \in groups}
    IN  candidates \cup
        {v \in optional :
            /\ p.maxSize # None
            /\ TotalSize(kept) - TotalSize({w \in optional : Older(w, v)}) > p.maxSize}

DoomedActive(E) ==
    LET groups == {active[k] : k \in E} \ {{}}
    IN  SizeLimited(groups, task.active, UNION {Candidates(S, task.active, None) : S \in groups})

Generations(E) == UNION {gens[k] : k \in E}
Purgeable(g)   == task.deleted.purge # None /\ Since(g.at) >= task.deleted.purge
Thinnable(g)   == ~Purgeable(g) /\ Since(g.at) >= task.deleted.grace

DoomedDeleted(E) ==
    LET thinned == {g \in Generations(E) : Thinnable(g)}
    IN  SizeLimited({g.versions : g \in thinned}, task.deleted,
                    UNION {Candidates(g.versions, task.deleted, Since(g.at)) : g \in thinned})

\* plan(): thinning, the size targets and whole generations past their purge.
Doomed(E) ==
    DoomedActive(E) \cup DoomedDeleted(E)
        \cup UNION {g.versions : g \in {h \in Generations(E) : Purgeable(h)}}

Tracked(k)  == active[k] \cup UNION {g.versions : g \in gens[k]}
KeysIn(ss)  == {k \in Keys : task.scopeOf[k] \in ss}
Affected(d) == {k \in Keys : Tracked(k) \cap d # {}}

-----------------------------------------------------------------------------
(* Between runs *)

\* The clock moves on.
Tick(day) ==
    /\ pc = "idle"
    /\ day > now
    /\ now' = day
    /\ UNCHANGED <<task, made, life, records, bad, pc, plan, base, faults>>

\* A run stores a new version.
Store(k) ==
    LET v == 1 + Cardinality({w \in Versions : made[w] # None})
    IN  /\ pc = "idle"
        /\ v \in Versions
        /\ made' = [made EXCEPT ![v] = [key |-> k, day |-> now, life |-> life[k]]]
        /\ active' = [active EXCEPT ![k] = @ \cup {v}]
        /\ disk' = disk \cup {v}
        /\ UNCHANGED <<task, now, life, gens, bad, pc, plan, base, faults>>

\* A run confirms that the source is gone.
MarkDeleted(k) ==
    /\ pc = "idle"
    /\ active[k] # {}
    /\ gens' = [gens EXCEPT ![k] = @ \cup {[at |-> now, versions |-> active[k]]}]
    /\ active' = [active EXCEPT ![k] = {}]
    /\ life' = [life EXCEPT ![k] = @ + 1]
    /\ UNCHANGED <<task, now, made, disk, bad, pc, plan, base, faults>>

\* An archived file is damaged.
Damage(v) ==
    /\ pc = "idle"
    /\ v \in disk \ bad
    /\ faults < MaxFaults
    /\ faults' = faults + 1
    /\ bad' = bad \cup {v}
    /\ UNCHANGED <<task, now, made, life, records, pc, plan, base>>

-----------------------------------------------------------------------------
(* A run *)

\* Some sections may not be eligible: their collection was not complete.
PlanRetention(complete) ==
    /\ pc = "idle"
    /\ base' = [active |-> active, gens |-> gens, disk |-> disk]
    /\ doomed' = Doomed(KeysIn(complete))
    /\ left' = {task.scopeOf[k] : k \in Affected(doomed')}
    /\ failed' = FALSE
    /\ eligible' = complete
    /\ pc' = "apply"
    /\ UNCHANGED <<task, now, made, life, records, bad, scope, gone, faults>>

Intact(v) == v \in disk \ bad

\* validate_survivors(): all that stays of the files a scope touches.
Validated(s) ==
    \A k \in Affected(doomed) \cap KeysIn({s}) : \A v \in Tracked(k) \ doomed : Intact(v)

\* Variant: the survivors are not looked at.
BeginScopeUnchecked(s) ==
    /\ pc = "apply"
    /\ s \in left
    /\ left' = left \ {s}
    /\ scope' = s
    /\ pc' = "remove"
    /\ UNCHANGED <<task, now, made, life, records, bad, eligible, doomed, gone, failed, base,
                   faults>>

BeginScope(s) ==
    /\ pc = "apply"
    /\ s \in left
    /\ Validated(s)
    /\ left' = left \ {s}
    /\ scope' = s
    /\ pc' = "remove"
    /\ UNCHANGED <<task, now, made, life, records, bad, eligible, doomed, gone, failed, base,
                   faults>>

\* "Unverified retention survivor": the whole scope is preserved.
PreserveScope(s) ==
    /\ pc = "apply"
    /\ s \in left
    /\ ~Validated(s)
    /\ left' = left \ {s}
    /\ failed' = TRUE
    /\ UNCHANGED <<task, now, made, life, records, bad, pc, eligible, doomed, scope, gone, base,
                   faults>>

Todo == ((UNION {Tracked(k) : k \in KeysIn({scope})}) \cap doomed) \ gone

RemoveFile(v) ==
    /\ pc = "remove"
    /\ v \in Todo
    /\ disk' = disk \ {v}
    /\ gone' = gone \cup {v}
    /\ UNCHANGED <<task, now, made, life, active, gens, bad, pc, eligible, doomed, left, scope, failed,
                   base, faults>>

Thin(g) == [g EXCEPT !.versions = @ \ doomed]

\* The records of the scope become those of the plan.
EndScope ==
    /\ pc = "remove"
    /\ Todo = {}
    /\ LET done == KeysIn({scope}) \cap Affected(doomed)
       IN  /\ active' = [k \in Keys |-> IF k \in done THEN active[k] \ doomed ELSE active[k]]
           /\ gens' = [k \in Keys |->
                         IF k \in done THEN {Thin(g) : g \in {h \in gens[k] : ~Purgeable(h)}}
                                       ELSE gens[k]]
    /\ scope' = None
    /\ gone' = {}
    /\ pc' = "apply"
    /\ UNCHANGED <<task, now, made, life, disk, bad, eligible, doomed, left, failed, base, faults>>

\* A removal fails; what the scope removed is copied back.
RollBackScope ==
    /\ pc = "remove"
    /\ faults < MaxFaults
    /\ faults' = faults + 1
    /\ disk' = disk \cup gone
    /\ scope' = None
    /\ gone' = {}
    /\ failed' = TRUE
    /\ pc' = "apply"
    /\ UNCHANGED <<task, now, made, life, active, gens, bad, eligible, doomed, left, base>>

\* The run ends here; the next start brings the records and the files back.
Restart ==
    /\ active' = base.active
    /\ gens' = base.gens
    /\ disk' = base.disk
    /\ base' = None
    /\ eligible' = {}
    /\ doomed' = {}
    /\ left' = {}
    /\ scope' = None
    /\ gone' = {}
    /\ failed' = FALSE
    /\ pc' = "idle"
    /\ UNCHANGED <<task, now, made, life, bad>>

\* Variant: the run goes on without the files that could not be put back.
UndoFailsIgnored ==
    /\ pc = "remove"
    /\ faults < MaxFaults
    /\ faults' = faults + 1
    /\ scope' = None
    /\ gone' = {}
    /\ failed' = TRUE
    /\ pc' = "apply"
    /\ UNCHANGED <<task, now, made, life, records, bad, eligible, doomed, left, base>>

\* A file cannot be copied back: the journal counts as poisoned and the error
\* is raised, so that the run journal stays pending.
UndoFails ==
    /\ pc = "remove"
    /\ faults < MaxFaults
    /\ faults' = faults + 1
    /\ Restart

Crash ==
    /\ pc # "idle"
    /\ faults < MaxFaults
    /\ faults' = faults + 1
    /\ Restart

\* Variant: the run journal is left pending.
FinishUncommitted ==
    /\ pc = "apply"
    /\ left = {}
    /\ doomed' = {}
    /\ failed' = FALSE
    /\ eligible' = {}
    /\ pc' = "idle"
    /\ UNCHANGED <<task, now, made, life, records, bad, left, scope, gone, base, faults>>

\* The state is saved and the run journal committed.
Finish ==
    /\ pc = "apply"
    /\ left = {}
    /\ base' = None
    /\ doomed' = {}
    /\ failed' = FALSE
    /\ eligible' = {}
    /\ pc' = "idle"
    /\ UNCHANGED <<task, now, made, life, records, bad, left, scope, gone, faults>>

RetentionNext ==
    \/ \E day \in Days : Tick(day)
    \/ \E k \in Keys : Store(k) \/ MarkDeleted(k)
    \/ \E v \in Versions : Damage(v)
    \/ \E complete \in SUBSET Scopes : PlanRetention(complete)
    \/ \E s \in Scopes : BeginScope(s) \/ PreserveScope(s)
    \/ \E v \in Versions : RemoveFile(v)
    \/ EndScope \/ RollBackScope \/ UndoFails
    \/ Finish \/ Crash

-----------------------------------------------------------------------------
(* Properties *)

RetentionTypeOK ==
    /\ task \in Tasks
    /\ now \in Days
    /\ made \in [Versions -> Made \cup {None}]
    /\ life \in [Keys -> Nat]
    /\ active \in [Keys -> SUBSET Versions]
    /\ gens \in [Keys -> SUBSET Generation]
    /\ disk \subseteq Versions
    /\ bad \subseteq Versions
    /\ pc \in {"idle", "apply", "remove"}
    /\ eligible \subseteq Scopes
    /\ doomed \subseteq Versions
    /\ left \subseteq Scopes
    /\ scope \in Scopes \cup {None}
    /\ gone \subseteq doomed
    /\ IF pc = "idle" THEN base = None ELSE base \in Archives
    /\ failed \in BOOLEAN
    /\ faults \in 0..MaxFaults

\* What is left of one life of key k, in its active history or in its generation.
Lineage(k, l) == {v \in Tracked(k) : made[v].life = l}

\* "An absolute pruning safety floor" (docs/retention.md:31): whatever happens in
\* a run, the newest versions a history had when it began are there when it ends,
\* record and file, except that a purge takes a whole generation.
FloorKept ==
    pc # "idle" /\ pc' = "idle" =>
        \A k \in Keys :
            /\ Protected(base.active[k], task.active) \subseteq active'[k] \cap disk'
            /\ \A g \in base.gens[k] :
                  \/ Purgeable(g)
                  \/ \E h \in gens'[k] :
                        Protected(g.versions, task.deleted) \subseteq h.versions \cap disk'

\* Retention settles: after a run without failures the same run removes nothing
\* more, so that what is kept depends on the time and not on how often it runs.
RetentionSettles ==
    pc # "idle" /\ pc' = "idle" /\ ~failed /\ faults' = faults =>
        \A E \in SUBSET Keys : E = KeysIn(eligible) => Doomed(E)' = {}

\* A history that had an intact copy before a run has one after it, although
\* retention removes by age and never by condition; a purge is the exception.
LastGoodCopyKept ==
    pc # "idle" /\ pc' = "idle" =>
        \A k \in Keys :
            LET Whole(S) == \E v \in S : v \in disk' \ bad
            IN  /\ (\E v \in base.active[k] : v \in base.disk \ bad) => Whole(active'[k])
                /\ \A g \in base.gens[k] :
                      (\E v \in g.versions : v \in base.disk \ bad)
                         => Purgeable(g) \/ \E h \in gens'[k] :
                                              h.at = g.at /\ h.versions \subseteq g.versions
                                                /\ Whole(h.versions)

Endless(p) == p.mode = "tiered" /\ p.tiers[Len(p.tiers)].forever
                /\ p.maxVersions = None /\ p.maxAge = None /\ p.maxSize = None

\* What task t keeps without end, one version for each bucket of it.
LastInterval(t) == t.active.tiers[Len(t.active.tiers)].interval

\* No tier has a bucket that lies in two of that interval.
Nests(p, last) ==
    \A i \in DOMAIN p.tiers : p.tiers[i].interval # "all" =>
        \A d, e \in Days :
            Bucket[p.tiers[i].interval][d] = Bucket[p.tiers[i].interval][e] =>
                Bucket[last][d] = Bucket[last][e]

\* The policies of t never remove a version but for a newer one of its bucket.
WithoutEnd(t) ==
    /\ Endless(t.active) /\ Endless(t.deleted) /\ t.deleted.purge = None
    /\ LastInterval(t) # "all"
    /\ Nests(t.active, LastInterval(t)) /\ Nests(t.deleted, LastInterval(t))

\* "One representative per calendar month forever" (docs/retention.md:95), and
\* in general one for each bucket of the last tier: whatever was stored, thinned
\* and deleted, in whatever order, its bucket still has a version.
EveryBucketKept ==
    WithoutEnd(task) =>
        \A v \in Versions : made[v] # None =>
            \E w \in Lineage(made[v].key, made[v].life) :
                Bucket[LastInterval(task)][made[w].day] =
                    Bucket[LastInterval(task)][made[v].day]

\* Between runs the archive holds exactly the files the records name.
StateMatchesArchive ==
    pc = "idle" => disk = UNION {Tracked(k) : k \in Keys}
=============================================================================
