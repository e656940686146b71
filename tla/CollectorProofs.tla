--------------------------- MODULE CollectorProofs ---------------------------
(***************************************************************************)
(* Lemmas about the configuration that says which collectors run and where *)
(* they write, about the collectors, and about the handover of what they   *)
(* collected, for any configurations, databases, hosts, captures and       *)
(* faults: each stage has an inductive invariant that its first state      *)
(* satisfies (...Starts), that its steps keep (...Steps), and that says    *)
(* what its run promises (...Holds). StagesProofs draws the theorems from  *)
(* them.                                                                   *)
(***************************************************************************)
EXTENDS ConfigLoading, Handover, PostgresCollector, SystemCollector, TLAPS,
        SequenceTheorems, FiniteSetTheorems, WellFoundedInduction

-----------------------------------------------------------------------------
(* Loading                                                                 *)

\* A resolved task says what the task of the file says; only its limit may come
\* from the tasks it depends on.
Stems(r, t) ==
    r = [name |-> t.name, id |-> Id(t), type |-> t.type, phase |-> t.phase, deps |-> t.deps,
         enabled |-> t.enabled, output |-> t.output, limit |-> r.limit,
         retention |-> RetentionOf(t)]

Checked == {"validate", "cycle", "roots", "outputs", "accepted"}

TasksInv ==
    /\ List(tasks) /\ Len(tasks) <= Len(config.tasks)
    /\ \A i \in 1..Len(tasks) : /\ Stems(tasks[i], config.tasks[i])
                                /\ Valid(RetentionOf(config.tasks[i]))
                                /\ KnownPolicy(PolicyOf(config.tasks[i]))
    /\ \A i, j \in 1..Len(tasks) : config.tasks[i].name = config.tasks[j].name => i = j
    /\ check \in Checked =>
         /\ Len(tasks) = Len(config.tasks)
         /\ \A i, j \in 1..Len(tasks) : i # j => Id(config.tasks[i]) # Id(config.tasks[j])

\* What has been visited depends only on what was visited before it.
VisitRanks(r) ==
    /\ r \in [done -> Nat]
    /\ \A n \in done : /\ r[n] < Cardinality(done)
                       /\ \A d \in Direct(n) : d \in done /\ r[d] < r[n]

DoneInv == done \subseteq GivenNames /\ \E r : VisitRanks(r)

IsEntry(v) == v = [name |-> v.name, left |-> v.left]

\* The tasks being visited are a path of dependencies without a loop, and what
\* is not left of one of them has been visited.
PathInv ==
    /\ List(visiting)
    /\ \A i \in 1..Len(visiting) :
         /\ IsEntry(visiting[i])
         /\ visiting[i].name \in GivenNames \ done
         /\ visiting[i].left \subseteq Direct(visiting[i].name)
         /\ Direct(visiting[i].name) \ visiting[i].left \subseteq done
    /\ \A i, j \in 1..Len(visiting) : visiting[i].name = visiting[j].name => i = j
    /\ \A i \in 1..(Len(visiting) - 1) : visiting[i + 1].name \in Direct(visiting[i].name)

LoadInv ==
    /\ config \in Configs /\ TasksInv
    /\ check \in Checked \cup {"resolve", "refused"}
    /\ check \in {"resolve", "validate"} => visiting = <<>> /\ done = {}
    /\ check \in Checked \ {"validate"} =>
         DoneInv /\ \A n \in GivenNames : Direct(n) \subseteq GivenNames
    /\ check = "cycle" => PathInv
    /\ check \in {"roots", "outputs", "accepted"} => GivenNames \subseteq done
    /\ check \in {"outputs", "accepted"} =>
         config.root # <<>> /\ (config.staging # None => ~Within(config.root, config.staging))
    /\ check = "accepted" => \A t, u \in Collectors : t = u \/ Apart(t, u)
    /\ reason = "cycle" => check = "refused" /\ \E t \in Given : Reaches(t.name, t.name)

-----------------------------------------------------------------------------

LEMMA ListIs ==
    ASSUME NEW s, List(s)
    PROVE  /\ Len(s) \in Nat /\ DOMAIN s = 1..Len(s) /\ s = [i \in 1..Len(s) |-> s[i]]
           /\ Range(s) = {s[i] : i \in 1..Len(s)}
<1>1. s \in Seq(Range(s))
  BY DEF List
<1>2. Len(s) \in Nat /\ DOMAIN s = 1..Len(s)
  BY <1>1, LenProperties
<1>3. s = [i \in 1..Len(s) |-> s[i]]
  BY <1>1, <1>2
<1> QED
  BY <1>2, <1>3 DEF Range

LEMMA ListMade ==
    ASSUME NEW n \in Nat, NEW s, s = [i \in 1..n |-> s[i]]
    PROVE  List(s) /\ Len(s) = n
<1>1. Range(s) = {s[i] : i \in 1..n}
  BY DEF Range
<1>2. s \in [1..n -> Range(s)]
  BY <1>1
<1>3. s \in Seq(Range(s))
  BY <1>2
<1> QED
  BY <1>2, <1>3 DEF List

LEMMA ListAppend ==
    ASSUME NEW s, List(s), NEW x
    PROVE  /\ List(Append(s, x)) /\ Len(Append(s, x)) = Len(s) + 1
           /\ Append(s, x)[Len(s) + 1] = x
           /\ \A i \in 1..Len(s) : Append(s, x)[i] = s[i]
<1>1. PICK S : S = Range(s) \cup {x}
  OBVIOUS
<1>2. s \in Seq(S) /\ x \in S
  BY <1>1 DEF List
<1>3. PICK t : t = Append(s, x)
  OBVIOUS
<1>4. /\ t \in Seq(S) /\ Len(t) = Len(s) + 1 /\ t[Len(s) + 1] = x
      /\ \A i \in 1..Len(s) : t[i] = s[i]
  BY <1>2, <1>3, AppendProperties
<1>5. Len(t) \in Nat /\ t = [i \in 1..Len(t) |-> t[i]]
  BY <1>4, LenProperties
<1>6. List(t)
  BY <1>5, ListMade
<1> QED
  BY <1>3, <1>4, <1>6

-----------------------------------------------------------------------------
(* Dependencies                                                            *)

LEMMA GivenIs ==
    ASSUME LoadingAssumption, config \in Configs
    PROVE  /\ Len(config.tasks) \in Nat
           /\ Given = {config.tasks[i] : i \in 1..Len(config.tasks)}
           /\ GivenNames = {config.tasks[i].name : i \in 1..Len(config.tasks)}
           /\ \A n, d : d \in Direct(n) <=> \E t \in Given : t.name = n /\ d \in t.deps
<1>1. List(config.tasks)
  BY DEF LoadingAssumption
<1>2. /\ Len(config.tasks) \in Nat
      /\ Given = {config.tasks[i] : i \in 1..Len(config.tasks)}
  BY <1>1, ListIs DEF Given
<1>3. GivenNames = {config.tasks[i].name : i \in 1..Len(config.tasks)}
  BY <1>2 DEF GivenNames
<1>4. \A n, d : d \in Direct(n) <=> \E t \in Given : t.name = n /\ d \in t.deps
  BY DEF Direct
<1> QED
  BY <1>2, <1>3, <1>4

LEMMA FewNames ==
    ASSUME LoadingAssumption, config \in Configs
    PROVE  IsFiniteSet(GivenNames) /\ Cardinality(GivenNames) \in Nat
             /\ Cardinality(GivenNames) <= Len(config.tasks)
<1> DEFINE N == Len(config.tasks)
           f == [i \in 1..N |-> config.tasks[i].name]
<1>1. N \in Nat /\ GivenNames = {config.tasks[i].name : i \in 1..N}
  BY GivenIs
<1>2. f \in Surjection(1..N, GivenNames)
  BY <1>1 DEF Surjection
<1>3. ExistsSurjection(1..N, GivenNames)
  BY <1>2 DEF ExistsSurjection
<1> HIDE DEF f, N
<1>4. IsFiniteSet(GivenNames)
  BY <1>1, <1>3, FS_NatSurjection
<1>5. Cardinality(GivenNames) <= N
  BY <1>1, <1>3, FS_SurjCardinalityBound
<1>6. Cardinality(GivenNames) \in Nat
  BY <1>4, FS_CardinalityType
<1> QED
  BY <1>4, <1>5, <1>6 DEF N

\* Along dependencies the rank decreases.
LEMMA Descends ==
    ASSUME NEW r, VisitRanks(r), NEW k \in Nat, NEW p \in [0..k -> GivenNames], p[0] \in done,
           \A i \in 1..k : p[i] \in Direct(p[i - 1])
    PROVE  \A i \in 0..k : p[i] \in done /\ r[p[i]] + i <= r[p[0]]
<1> DEFINE Bad == {i \in 0..k : ~(p[i] \in done /\ r[p[i]] + i <= r[p[0]])}
<1>1. SUFFICES ASSUME Bad # {} PROVE FALSE
  OBVIOUS
<1>2. Bad \subseteq Nat
  OBVIOUS
<1>3. PICK a \in Bad : \A b \in Bad : ~(<<b, a>> \in OpToRel(<, Nat))
  BY <1>1, <1>2, NatLessThanWellFounded, WFMin, Zenon
<1>4. a # 0 /\ a \in 1..k
  <2>1. r[p[0]] + 0 <= r[p[0]]
    BY DEF VisitRanks
  <2>2. 0 \notin Bad
    BY <2>1
  <2>3. a \in 0..k
    BY <1>3
  <2>4. a # 0
    BY <1>3, <2>2
  <2> QED
    BY <2>3, <2>4
<1>5. a - 1 \notin Bad
  <2>1. a \in Nat /\ a - 1 \in Nat /\ a - 1 < a
    BY <1>4
  <2>2. <<a - 1, a>> \in OpToRel(<, Nat)
    BY <2>1 DEF OpToRel
  <2> QED
    BY <1>3, <2>2
<1>6. p[a - 1] \in done /\ r[p[a - 1]] + (a - 1) <= r[p[0]]
  BY <1>4, <1>5
<1>7. p[a] \in Direct(p[a - 1])
  BY <1>4
<1>8. p[a] \in done /\ r[p[a]] < r[p[a - 1]]
  BY <1>6, <1>7 DEF VisitRanks
<1>9. r[p[a]] \in Nat /\ r[p[a - 1]] \in Nat /\ r[p[0]] \in Nat
  BY <1>6, <1>8 DEF VisitRanks
<1>10. r[p[a]] + a <= r[p[0]]
  BY <1>4, <1>6, <1>8, <1>9
<1> QED
  BY <1>3, <1>8, <1>10

LEMMA NoCycle ==
    ASSUME NEW r, VisitRanks(r), NEW n \in done, LoadingAssumption, config \in Configs
    PROVE  ~Reaches(n, n)
<1> SUFFICES ASSUME Reaches(n, n) PROVE FALSE
  OBVIOUS
<1>1. PICK k, p : k \in 1..Len(config.tasks) /\ p \in [0..k -> GivenNames] /\ p[0] = n
                 /\ p[k] = n /\ \A i \in 1..k : p[i] \in Direct(p[i - 1])
  BY DEF Reaches
<1>2. k \in Nat /\ k >= 1
  BY <1>1, GivenIs
<1>3. r[p[k]] + k <= r[p[0]]
  <2>1. p \in [0..k -> GivenNames] /\ p[0] \in done /\ \A i \in 1..k : p[i] \in Direct(p[i - 1])
    BY <1>1
  <2>2. \A i \in 0..k : p[i] \in done /\ r[p[i]] + i <= r[p[0]]
    BY <1>2, <2>1, Descends
  <2> QED
    BY <1>2, <2>2
<1>4. r[n] \in Nat
  BY DEF VisitRanks
<1> QED
  BY <1>1, <1>2, <1>3, <1>4

LEMMA PathOfOne ==
    ASSUME LoadingAssumption, config \in Configs,
           NEW n \in GivenNames, NEW d \in GivenNames, d \in Direct(n)
    PROVE  Reaches(n, d)
<1> DEFINE p == [i \in 0..1 |-> IF i = 0 THEN n ELSE d]
<1>1. 1 \in 1..Len(config.tasks)
  BY GivenIs
<1>2. p \in [0..1 -> GivenNames] /\ p[0] = n /\ p[1] = d
  OBVIOUS
<1> HIDE DEF p
<1>3. \A i \in 1..1 : p[i] \in Direct(p[i - 1])
  BY <1>2
<1> QED
  BY <1>1, <1>2, <1>3 DEF Reaches

\* VisitRanks are smaller than the number of tasks, and so is every path.
LEMMA PathLonger ==
    ASSUME LoadingAssumption, config \in Configs, DoneInv, GivenNames \subseteq done,
           NEW n \in GivenNames, NEW d \in GivenNames, d \in Direct(n), NEW m, Reaches(d, m)
    PROVE  Reaches(n, m)
<1>1. PICK r : VisitRanks(r)
  BY DEF DoneInv
<1>2. PICK k, p : k \in 1..Len(config.tasks) /\ p \in [0..k -> GivenNames] /\ p[0] = d
                 /\ p[k] = m /\ \A i \in 1..k : p[i] \in Direct(p[i - 1])
  BY DEF Reaches
<1>3. k \in Nat /\ k >= 1 /\ k + 1 \in Nat /\ Len(config.tasks) \in Nat
  BY <1>2, GivenIs
<1>4. PICK q : q = [i \in 0..(k + 1) |-> IF i = 0 THEN n ELSE p[i - 1]]
  OBVIOUS
<1>5. q \in [0..(k + 1) -> GivenNames] /\ q[0] = n /\ q[k + 1] = m
  BY <1>2, <1>3, <1>4
<1>6. \A i \in 1..(k + 1) : q[i] \in Direct(q[i - 1])
  <2> SUFFICES ASSUME NEW i \in 1..(k + 1) PROVE q[i] \in Direct(q[i - 1])
    OBVIOUS
  <2>1. CASE i = 1
    BY <2>1, <1>2, <1>3, <1>4
  <2>2. CASE i # 1
    <3>1. i - 1 \in 1..k /\ i - 1 \in 0..(k + 1) /\ i \in 0..(k + 1) /\ i # 0 /\ i - 1 # 0
      BY <2>2, <1>3
    <3>2. q[i] = p[i - 1] /\ q[i - 1] = p[(i - 1) - 1]
      BY <3>1, <1>4
    <3> QED
      BY <3>1, <3>2, <1>2
  <2> QED
    BY <2>1, <2>2
<1>7. q[0] \in done
  BY <1>5
<1> DEFINE l == k + 1
<1>8. l \in Nat /\ l = k + 1
  BY <1>3
<1>9. q \in [0..l -> GivenNames] /\ \A i \in 1..l : q[i] \in Direct(q[i - 1])
  BY <1>5, <1>6
<1> HIDE DEF l
<1>10. \A i \in 0..l : q[i] \in done /\ r[q[i]] + i <= r[q[0]]
  BY <1>1, <1>7, <1>8, <1>9, Descends
<1>11. r[q[l]] + l <= r[q[0]] /\ q[l] \in done
  BY <1>8, <1>10
<1>12. Cardinality(done) <= Len(config.tasks) /\ Cardinality(done) \in Nat
  <2>1. done = GivenNames
    BY DEF DoneInv
  <2> QED
    BY <2>1, FewNames
<1>13. r[q[l]] \in Nat /\ r[q[0]] \in Nat /\ r[q[0]] < Cardinality(done)
  BY <1>1, <1>7, <1>11 DEF VisitRanks
<1>14. l \in 1..Len(config.tasks)
  BY <1>3, <1>8, <1>11, <1>12, <1>13
<1> QED
  BY <1>5, <1>8, <1>9, <1>14 DEF Reaches

\* The cycle that a visit meets.
LEMMA CycleMet ==
    ASSUME LoadingAssumption, config \in Configs, PathInv,
           NEW a \in 1..Len(visiting), visiting[a].name \in Direct(visiting[Len(visiting)].name)
    PROVE  \E t \in Given : Reaches(t.name, t.name)
<1>1. PICK n : n = Len(visiting)
  OBVIOUS
<1>2. n \in Nat /\ \A i \in 1..n : visiting[i].name \in GivenNames
  BY <1>1, ListIs DEF PathInv
<1>3. PICK f : f = [i \in 1..n |-> visiting[i].name]
  OBVIOUS
<1>4. f \in [1..n -> GivenNames] /\ DOMAIN f = 1..n
  BY <1>2, <1>3
<1>5. \A i, j \in 1..n : f[i] = f[j] => i = j
  BY <1>1, <1>3 DEF PathInv
<1>6. f \in Injection(1..n, GivenNames)
  BY <1>4, <1>5 DEF Injection, IsInjective
<1>7. IsFiniteSet(1..n) /\ Cardinality(1..n) = n
  <2>1. 1 \in Int /\ n \in Int /\ n >= 0 /\ (n - 1) + 1 = n
    BY <1>2
  <2>2. IsFiniteSet(1..n) /\ Cardinality(1..n) = IF 1 > n THEN 0 ELSE n - 1 + 1
    BY <2>1, FS_Interval
  <2> QED
    BY <2>1, <2>2
<1>8. Cardinality(1..n) <= Cardinality(GivenNames)
  <2>1. IsFiniteSet(GivenNames)
    BY FewNames
  <2> QED
    BY <1>6, <2>1, FS_Injection
<1>9. n <= Len(config.tasks) /\ Len(config.tasks) \in Nat
  BY <1>2, <1>7, <1>8, FewNames, GivenIs
<1>10. PICK k : k = n - a + 1
  OBVIOUS
<1>11. /\ k \in Nat /\ k >= 1 /\ k \in 1..Len(config.tasks) /\ a \in Nat /\ a >= 1
       /\ \A i \in 0..k : i # k => a + i \in 1..n
  BY <1>1, <1>2, <1>9, <1>10
<1>12. PICK d : d = visiting[a].name
  OBVIOUS
<1>13. d \in GivenNames
  BY <1>1, <1>2, <1>12
<1>14. PICK p : p = [i \in 0..k |-> IF i = k THEN d ELSE visiting[a + i].name]
  OBVIOUS
<1>15. p \in [0..k -> GivenNames]
  BY <1>2, <1>11, <1>13, <1>14
<1>16. p[0] = d /\ p[k] = d
  <2>1. 0 \in 0..k /\ k \in 0..k /\ 0 # k /\ a + 0 = a
    BY <1>11
  <2> QED
    BY <2>1, <1>12, <1>14
<1>17. \A i \in 1..k : p[i] \in Direct(p[i - 1])
  <2> SUFFICES ASSUME NEW i \in 1..k PROVE p[i] \in Direct(p[i - 1])
    OBVIOUS
  <2>1. PICK j : j = a + (i - 1)
    OBVIOUS
  <2>2. i \in 0..k /\ i - 1 \in 0..k /\ i - 1 # k /\ j \in 1..n
    BY <1>1, <1>2, <1>11, <2>1
  <2>3. p[i - 1] = visiting[j].name
    BY <1>14, <2>1, <2>2
  <2>4. CASE i = k
    <3>1. j = n
      BY <1>2, <1>10, <1>11, <2>1, <2>4
    <3>2. p[i] = d
      BY <1>16, <2>4
    <3> QED
      BY <3>1, <3>2, <2>3, <1>1, <1>12
  <2>5. CASE i # k
    <3>1. a + i = j + 1 /\ j \in 1..(n - 1)
      BY <1>2, <1>10, <1>11, <2>1, <2>2, <2>5
    <3>2. p[i] = visiting[j + 1].name
      BY <1>14, <2>2, <2>5, <3>1
    <3>3. visiting[j + 1].name \in Direct(visiting[j].name)
      BY <1>1, <3>1 DEF PathInv
    <3> QED
      BY <3>2, <3>3, <2>3
  <2> QED
    BY <2>4, <2>5
<1>18. Reaches(d, d)
  BY <1>11, <1>15, <1>16, <1>17 DEF Reaches
<1>19. \E t \in Given : t.name = d
  BY <1>13 DEF GivenNames
<1> QED
  BY <1>18, <1>19

-----------------------------------------------------------------------------
(* The steps                                                               *)

\* The tasks after a step, with the file as it was.
LEMMA TasksNext ==
    ASSUME config' = config, List(tasks'), Len(tasks') <= Len(config.tasks),
           \A i \in 1..Len(tasks') : /\ Stems(tasks'[i], config.tasks[i])
                                     /\ Valid(RetentionOf(config.tasks[i]))
                                     /\ KnownPolicy(PolicyOf(config.tasks[i])),
           \A i, j \in 1..Len(tasks') : config.tasks[i].name = config.tasks[j].name => i = j,
           check' \in Checked =>
             /\ Len(tasks') = Len(config.tasks)
             /\ \A i, j \in 1..Len(tasks') : i # j => Id(config.tasks[i]) # Id(config.tasks[j])
    PROVE  TasksInv'
<1>1. \A i : (RetentionOf(config.tasks[i]))' = RetentionOf(config.tasks[i])
  BY DEF RetentionOf, PolicyOf
<1>2. \A i : (KnownPolicy(PolicyOf(config.tasks[i])))' <=> KnownPolicy(PolicyOf(config.tasks[i]))
  BY DEF KnownPolicy, PolicyOf
<1>3. \A i : (Stems(tasks[i], config.tasks[i]))' <=> Stems(tasks'[i], config.tasks[i])
  BY <1>1 DEF Stems
<1>4. \A i \in 1..Len(tasks') : /\ (Stems(tasks[i], config.tasks[i]))'
                                /\ Valid((RetentionOf(config.tasks[i]))')
                                /\ (KnownPolicy(PolicyOf(config.tasks[i])))'
  BY <1>1, <1>2, <1>3
<1> QED
  BY <1>4 DEF TasksInv

\* Most steps leave the tasks alone.
LEMMA TasksStay ==
    ASSUME TasksInv, UNCHANGED <<config, tasks>>, check' \in Checked => check \in Checked
    PROVE  TasksInv'
<1>0. \A t : PolicyOf(t)' = PolicyOf(t)
  BY DEF PolicyOf
<1>1. \A t : RetentionOf(t)' = RetentionOf(t)
  BY <1>0 DEF RetentionOf
<1>2. \A p : KnownPolicy(p)' <=> KnownPolicy(p)
  BY DEF KnownPolicy
<1>3. \A r, t : Stems(r, t)' <=> Stems(r, t)
  BY <1>1 DEF Stems
<1>4. /\ List(tasks)' /\ Len(tasks)' <= Len(config.tasks)'
      /\ \A i \in 1..Len(tasks') : /\ (Stems(tasks[i], config.tasks[i]))'
                                     /\ Valid((RetentionOf(config.tasks[i]))')
                                     /\ (KnownPolicy(PolicyOf(config.tasks[i])))'
  BY <1>0, <1>1, <1>2, <1>3 DEF TasksInv
<1> QED
  BY <1>4 DEF TasksInv, Checked

LEMMA StemsSays ==
    ASSUME NEW r, NEW t, Stems(r, t)
    PROVE  /\ r.name = t.name /\ r.id = Id(t) /\ r.type = t.type /\ r.phase = t.phase
           /\ r.deps = t.deps /\ r.enabled = t.enabled /\ r.output = t.output
           /\ r.retention = RetentionOf(t)
BY DEF Stems

\* What the resolved tasks say of names and dependencies is what the file says.
LEMMA TasksAre ==
    ASSUME LoadingAssumption, config \in Configs, TasksInv, check \in Checked
    PROVE  /\ TaskNames = GivenNames
           /\ \A n : UNION {t.deps : t \in Named(n)} = Direct(n)
           /\ \A i \in 1..Len(config.tasks) : tasks[i] \in Range(tasks)
           /\ \A u \in Range(tasks) : \E i \in 1..Len(config.tasks) : u = tasks[i]
<1>1. /\ Len(config.tasks) \in Nat
      /\ Given = {config.tasks[i] : i \in 1..Len(config.tasks)}
  BY GivenIs
<1>2. Range(tasks) = {tasks[i] : i \in 1..Len(config.tasks)}
  BY ListIs DEF TasksInv
<1>3. \A i \in 1..Len(config.tasks) : /\ tasks[i].name = config.tasks[i].name
                                      /\ tasks[i].deps = config.tasks[i].deps
  BY StemsSays DEF TasksInv
<1>4. TaskNames = GivenNames
  BY <1>1, <1>2, <1>3 DEF TaskNames, GivenNames
<1>5. \A n : UNION {t.deps : t \in Named(n)} = Direct(n)
  BY <1>1, <1>2, <1>3 DEF Named, Direct
<1> QED
  BY <1>2, <1>4, <1>5

LEMMA LoadStarts == ASSUME LoadingAssumption, LoadInit PROVE LoadInv
<1>1. config \in Configs /\ tasks = <<>> /\ check = "resolve" /\ reason # "cycle"
  BY DEF LoadingAssumption, LoadInit
<1>2. List(tasks) /\ Len(tasks) = 0
  <2>1. tasks = [i \in 1..0 |-> tasks[i]]
    BY <1>1
  <2> QED
    BY <2>1, ListMade
<1>3. Len(tasks) <= Len(config.tasks)
  BY <1>1, <1>2, GivenIs
<1>4. TasksInv
  BY <1>1, <1>2, <1>3 DEF TasksInv, Checked
<1> QED
  BY <1>1, <1>4 DEF LoadInv, LoadInit, Checked

LEMMA ResolveTaskKeeps ==
    ASSUME LoadingAssumption, LoadInv, ResolveTask
    PROVE  LoadInv'
<1> DEFINE t == config.tasks[Len(tasks) + 1]
<1>1. config' = config /\ config \in Configs /\ UNCHANGED <<visiting, done>> /\ TasksInv
  BY DEF ResolveTask, LoadInv
<1>2. check = "resolve" /\ visiting = <<>> /\ done = {} /\ reason # "cycle"
  BY DEF ResolveTask, LoadInv
<1>3. CASE check' = "refused" /\ reason' \in {"names", "retention"} /\ UNCHANGED tasks
  <2>1. TasksInv'
    BY <1>1, <1>3, TasksStay DEF Checked
  <2> QED
    BY <1>1, <1>2, <1>3, <2>1 DEF LoadInv, Checked
<1>4. CASE /\ tasks' = Append(tasks, Resolved(t)) /\ UNCHANGED <<check, reason>>
           /\ KnownPolicy(PolicyOf(t)) /\ Valid(RetentionOf(t)) /\ t.name \notin TaskNames
  <2>1. PICK r : r = Resolved(t)
    OBVIOUS
  <2>2. Stems(r, t)
    BY <2>1 DEF Stems, Resolved
  <2>3. List(tasks) /\ Len(tasks) \in Nat /\ Len(config.tasks) \in Nat
    BY <1>1, ListIs, GivenIs DEF TasksInv
  <2>4. /\ List(tasks') /\ Len(tasks') = Len(tasks) + 1 /\ tasks'[Len(tasks) + 1] = r
        /\ \A i \in 1..Len(tasks) : tasks'[i] = tasks[i]
    <3>1. tasks' = Append(tasks, r)
      BY <1>4, <2>1
    <3> QED
      BY <2>3, <3>1, ListAppend
  <2>5. Len(tasks') <= Len(config.tasks)
    BY <2>3, <2>4 DEF ResolveTask
  <2>6. \A i \in 1..Len(tasks') : /\ Stems(tasks'[i], config.tasks[i])
                                  /\ Valid(RetentionOf(config.tasks[i]))
                                  /\ KnownPolicy(PolicyOf(config.tasks[i]))
    <3> SUFFICES ASSUME NEW i \in 1..Len(tasks')
                 PROVE  /\ Stems(tasks'[i], config.tasks[i])
                        /\ Valid(RetentionOf(config.tasks[i]))
                        /\ KnownPolicy(PolicyOf(config.tasks[i]))
      OBVIOUS
    <3>1. i \in 1..Len(tasks) \/ i = Len(tasks) + 1
      BY <2>3, <2>4
    <3>2. CASE i \in 1..Len(tasks)
      BY <3>2, <1>1, <2>4 DEF TasksInv
    <3>3. CASE i = Len(tasks) + 1
      BY <3>3, <1>4, <2>2, <2>4
    <3> QED
      BY <3>1, <3>2, <3>3
  <2>7. \A i \in 1..Len(tasks) : config.tasks[i].name # t.name
    <3>1. Range(tasks) = {tasks[i] : i \in 1..Len(tasks)}
      BY <2>3, ListIs
    <3>2. \A i \in 1..Len(tasks) : tasks[i].name = config.tasks[i].name
      BY <1>1, StemsSays DEF TasksInv
    <3> QED
      BY <1>4, <3>1, <3>2 DEF TaskNames
  <2>8. \A i, j \in 1..Len(tasks') : config.tasks[i].name = config.tasks[j].name => i = j
    <3> HIDE DEF t
    <3>1. \A i \in 1..Len(tasks') : i \in 1..Len(tasks) \/ i = Len(tasks) + 1
      BY <2>3, <2>4
    <3>2. t = config.tasks[Len(tasks) + 1]
      BY DEF t
    <3>3. \A i, j \in 1..Len(tasks) : config.tasks[i].name = config.tasks[j].name => i = j
      BY <1>1 DEF TasksInv
    <3> QED
      BY <2>7, <3>1, <3>2, <3>3
  <2>9. TasksInv'
    <3>1. check' = "resolve"
      BY <1>2, <1>4
    <3>2. check' \notin Checked
      BY <3>1 DEF Checked
    <3> QED
      BY <1>1, <2>4, <2>5, <2>6, <2>8, <3>2, TasksNext
  <2> QED
    BY <1>1, <1>2, <1>4, <2>9 DEF LoadInv, Checked
<1> QED
  BY <1>3, <1>4 DEF ResolveTask, Refuse

LEMMA InheritedStems == ASSUME NEW r, NEW t, Stems(r, t) PROVE Stems(Inherited(r), t)
<1>1. CASE Inherited(r) = r
  BY <1>1
<1>2. CASE \E l : Inherited(r) = [r EXCEPT !.limit = l]
  <2>1. PICK l : Inherited(r) = [r EXCEPT !.limit = l]
    BY <1>2
  <2> QED
    BY <2>1 DEF Stems
<1> QED
  BY <1>1, <1>2 DEF Inherited

LEMMA CheckIdentitiesKeeps ==
    ASSUME LoadingAssumption, LoadInv, CheckIdentities
    PROVE  LoadInv'
<1>1. config' = config /\ config \in Configs /\ UNCHANGED <<visiting, done>> /\ TasksInv
  BY DEF CheckIdentities, LoadInv
<1>2. check = "resolve" /\ visiting = <<>> /\ done = {} /\ reason # "cycle"
  BY DEF CheckIdentities, LoadInv
<1>3. CASE check' = "refused" /\ reason' = "identities" /\ UNCHANGED tasks
  <2>1. TasksInv'
    BY <1>1, <1>3, TasksStay DEF Checked
  <2> QED
    BY <1>1, <1>2, <1>3, <2>1 DEF LoadInv, Checked
<1>4. CASE /\ Identities /\ tasks' = [i \in DOMAIN tasks |-> Inherited(tasks[i])]
           /\ check' = "validate" /\ UNCHANGED reason
  <2>1. List(tasks) /\ Len(tasks) \in Nat /\ DOMAIN tasks = 1..Len(tasks)
    BY <1>1, ListIs DEF TasksInv
  <2>2. \A i \in 1..Len(tasks) : tasks'[i] = Inherited(tasks[i])
    BY <1>4, <2>1
  <2>3. List(tasks') /\ Len(tasks') = Len(tasks)
    <3>1. tasks' = [i \in 1..Len(tasks) |-> tasks'[i]]
      BY <1>4, <2>1
    <3> QED
      BY <2>1, <3>1, ListMade
  <2>4. \A i \in 1..Len(tasks) : /\ Stems(tasks'[i], config.tasks[i])
                                 /\ Valid(RetentionOf(config.tasks[i]))
                                 /\ KnownPolicy(PolicyOf(config.tasks[i]))
    BY <1>1, <2>2, InheritedStems DEF TasksInv
  <2>5. \A i, j \in 1..Len(tasks) : i # j => Id(config.tasks[i]) # Id(config.tasks[j])
    <3>1. \A i \in 1..Len(tasks) : tasks[i].id = Id(config.tasks[i])
      BY <1>1, StemsSays DEF TasksInv
    <3> QED
      BY <1>4, <2>1, <3>1 DEF Identities
  <2>6. Len(tasks) = Len(config.tasks)
    BY DEF CheckIdentities
  <2>7. TasksInv'
    <3>1. \A i \in 1..Len(tasks') : /\ Stems(tasks'[i], config.tasks[i])
                                    /\ Valid(RetentionOf(config.tasks[i]))
                                    /\ KnownPolicy(PolicyOf(config.tasks[i]))
      BY <2>3, <2>4
    <3>2. \A i, j \in 1..Len(tasks') : config.tasks[i].name = config.tasks[j].name => i = j
      BY <1>1, <2>3 DEF TasksInv
    <3>3. Len(tasks') = Len(config.tasks) /\ Len(tasks') <= Len(config.tasks)
      BY <2>1, <2>3, <2>6
    <3>4. \A i, j \in 1..Len(tasks') : i # j => Id(config.tasks[i]) # Id(config.tasks[j])
      BY <2>3, <2>5
    <3> QED
      BY <1>1, <2>3, <3>1, <3>2, <3>3, <3>4, TasksNext
  <2> QED
    BY <1>1, <1>2, <1>4, <2>7 DEF LoadInv, Checked
<1> QED
  BY <1>3, <1>4 DEF CheckIdentities, Refuse, Pass

LEMMA GraphStays ==
    ASSUME config' = config
    PROVE  /\ Given' = Given /\ GivenNames' = GivenNames /\ \A n : Direct(n)' = Direct(n)
           /\ \A n, m : Reaches(n, m)' <=> Reaches(n, m)
BY DEF Given, GivenNames, Direct, Reaches

LEMMA DoneStays == ASSUME DoneInv, UNCHANGED <<config, done>> PROVE DoneInv'
BY GraphStays DEF DoneInv, VisitRanks

LEMMA ValidatePhasesKeeps ==
    ASSUME LoadingAssumption, LoadInv, ValidatePhases
    PROVE  LoadInv'
<1>1. /\ UNCHANGED <<config, tasks, visiting, done>> /\ config \in Configs /\ TasksInv
      /\ check = "validate" /\ visiting = <<>> /\ done = {} /\ reason # "cycle"
  BY DEF ValidatePhases, LoadInv
<1>2. TasksInv'
  BY <1>1, TasksStay DEF Checked
<1>3. CASE check' = "refused" /\ reason' = "phases"
  BY <1>1, <1>2, <1>3 DEF LoadInv, Checked
<1>4. CASE (\A t \in Range(tasks) : Ordered(t)) /\ check' = "cycle" /\ UNCHANGED reason
  <2>1. TaskNames = GivenNames /\ \A n : UNION {t.deps : t \in Named(n)} = Direct(n)
    BY <1>1, TasksAre DEF Checked
  <2>2. \A n : Direct(n) \subseteq GivenNames
    <3> SUFFICES ASSUME NEW n, NEW d \in Direct(n) PROVE d \in GivenNames
      OBVIOUS
    <3>1. PICK t \in Named(n) : d \in t.deps
      BY <2>1
    <3>2. Ordered(t)
      BY <1>4, <3>1 DEF Named
    <3>3. PICK u : u \in Named(d)
      BY <3>1, <3>2 DEF Ordered
    <3> QED
      BY <2>1, <3>3 DEF Named, TaskNames
  <2>3. DoneInv
    <3>1. PICK r : r = [n \in {} |-> 0]
      OBVIOUS
    <3>2. VisitRanks(r)
      BY <1>1, <3>1 DEF VisitRanks
    <3> QED
      BY <1>1, <3>2 DEF DoneInv
  <2>4. DoneInv'
    BY <1>1, <2>3, DoneStays
  <2>5. PathInv'
    <3>1. visiting' = [i \in 1..0 |-> visiting'[i]]
      BY <1>1
    <3>2. List(visiting') /\ Len(visiting') = 0
      BY <3>1, ListMade
    <3> QED
      BY <3>2 DEF PathInv
  <2>6. \A n \in GivenNames' : Direct(n)' \subseteq GivenNames'
    BY <1>1, <2>2, GraphStays
  <2> QED
    BY <1>1, <1>2, <1>4, <2>4, <2>5, <2>6 DEF LoadInv, Checked
<1> QED
  BY <1>3, <1>4 DEF ValidatePhases, Refuse, Pass

LEMMA EndVisitsKeeps ==
    ASSUME LoadingAssumption, LoadInv, EndVisits
    PROVE  LoadInv'
<1>1. /\ UNCHANGED <<config, tasks, visiting, done>> /\ config \in Configs /\ TasksInv
      /\ check = "cycle" /\ reason # "cycle" /\ DoneInv
      /\ \A n \in GivenNames : Direct(n) \subseteq GivenNames
  BY DEF EndVisits, LoadInv, Checked
<1>2. TasksInv' /\ DoneInv' /\ \A n \in GivenNames' : Direct(n)' \subseteq GivenNames'
  BY <1>1, TasksStay, DoneStays, GraphStays DEF Checked
<1>3. CASE check' = "refused" /\ reason' = "retention"
  BY <1>1, <1>2, <1>3 DEF LoadInv, Checked
<1>4. CASE check' = "roots" /\ UNCHANGED reason
  <2>1. GivenNames' \subseteq done'
    BY <1>1, TasksAre, GraphStays DEF EndVisits, Checked
  <2> QED
    BY <1>1, <1>2, <1>4, <2>1 DEF LoadInv, Checked
<1> QED
  BY <1>3, <1>4 DEF EndVisits, Refuse, Pass

LEMMA CheckRootsKeeps ==
    ASSUME LoadingAssumption, LoadInv, CheckRoots
    PROVE  LoadInv'
<1>1. /\ UNCHANGED <<config, tasks, visiting, done>> /\ config \in Configs /\ TasksInv
      /\ check = "roots" /\ reason # "cycle" /\ DoneInv /\ GivenNames \subseteq done
      /\ \A n \in GivenNames : Direct(n) \subseteq GivenNames
  BY DEF CheckRoots, LoadInv, Checked
<1>2. TasksInv' /\ DoneInv' /\ \A n \in GivenNames' : Direct(n)' \subseteq GivenNames'
  BY <1>1, TasksStay, DoneStays, GraphStays DEF Checked
<1>3. CASE check' = "refused" /\ reason' = "roots"
  BY <1>1, <1>2, <1>3 DEF LoadInv, Checked
<1>4. CASE /\ config.root # <<>>
           /\ (config.staging # None => ~Within(config.root, config.staging))
           /\ check' = "outputs" /\ UNCHANGED reason
  <2>1. GivenNames' \subseteq done'
    BY <1>1, GraphStays
  <2>2. config'.root # <<>> /\ (config'.staging # None => ~Within(config'.root, config'.staging))
    BY <1>1, <1>4
  <2> QED
    BY <1>1, <1>2, <1>4, <2>1, <2>2 DEF LoadInv, Checked
<1> QED
  BY <1>3, <1>4 DEF CheckRoots, Refuse, Pass

LEMMA CheckOutputsKeeps ==
    ASSUME LoadingAssumption, LoadInv, CheckOutputs
    PROVE  LoadInv'
<1>1. /\ UNCHANGED <<config, tasks, visiting, done>> /\ config \in Configs /\ TasksInv
      /\ check = "outputs" /\ reason # "cycle" /\ DoneInv /\ GivenNames \subseteq done
      /\ \A n \in GivenNames : Direct(n) \subseteq GivenNames
      /\ config.root # <<>> /\ (config.staging # None => ~Within(config.root, config.staging))
  BY DEF CheckOutputs, LoadInv, Checked
<1>2. TasksInv' /\ DoneInv' /\ \A n \in GivenNames' : Direct(n)' \subseteq GivenNames'
  BY <1>1, TasksStay, DoneStays, GraphStays DEF Checked
<1>3. CASE check' = "refused" /\ reason' = "outputs"
  BY <1>1, <1>2, <1>3 DEF LoadInv, Checked
<1>4. CASE (\A t, u \in Collectors : t = u \/ Apart(t, u)) /\ check' = "accepted" /\ UNCHANGED reason
  <2>1. GivenNames' \subseteq done'
    BY <1>1, GraphStays
  <2>2. config'.root # <<>> /\ (config'.staging # None => ~Within(config'.root, config'.staging))
    BY <1>1
  <2>3. (\A t, u \in Collectors : t = u \/ Apart(t, u))'
    <3>1. Collectors' = Collectors
      BY <1>1 DEF Collectors, Active, On, Named, TaskNames
    <3>2. \A t, u : Apart(t, u)' <=> Apart(t, u)
      BY <1>1 DEF Apart, Output, Staging
    <3> QED
      BY <1>4, <3>1, <3>2
  <2> QED
    BY <1>1, <1>2, <1>4, <2>1, <2>2, <2>3 DEF LoadInv, Checked
<1> QED
  BY <1>3, <1>4 DEF CheckOutputs, Refuse, Pass

LEMMA EntryIs ==
    ASSUME LoadingAssumption, LoadInv, check \in Checked, NEW n
    PROVE  Entry(n) = [name |-> n, left |-> Direct(n)]
<1>1. UNION {t.deps : t \in Named(n)} = Direct(n)
  BY TasksAre DEF LoadInv
<1> QED
  BY <1>1 DEF Entry

\* The path after a step, with the dependencies as they were.
LEMMA PathNext ==
    ASSUME config' = config, List(visiting'),
           \A i \in 1..Len(visiting') :
              /\ IsEntry(visiting'[i])
              /\ visiting'[i].name \in GivenNames' \ done'
              /\ visiting'[i].left \subseteq Direct(visiting'[i].name)
              /\ Direct(visiting'[i].name) \ visiting'[i].left \subseteq done',
           \A i, j \in 1..Len(visiting') : visiting'[i].name = visiting'[j].name => i = j,
           \A i \in 1..(Len(visiting') - 1) : visiting'[i + 1].name \in Direct(visiting'[i].name)
    PROVE  PathInv'
<1>1. \A i : (Direct(visiting[i].name))' = Direct(visiting'[i].name)
  BY DEF Direct, Given
<1>2. \A i \in 1..Len(visiting') :
        /\ IsEntry(visiting'[i])
        /\ visiting'[i].name \in GivenNames' \ done'
        /\ visiting'[i].left \subseteq (Direct(visiting[i].name))'
        /\ (Direct(visiting[i].name))' \ visiting'[i].left \subseteq done'
  BY <1>1
<1>3. \A i \in 1..(Len(visiting') - 1) : visiting'[i + 1].name \in (Direct(visiting[i].name))'
  BY <1>1
<1> QED
  BY <1>2, <1>3 DEF PathInv

LEMMA EnterTaskKeeps ==
    ASSUME LoadingAssumption, LoadInv, NEW n \in TaskNames, EnterTask(n)
    PROVE  LoadInv'
<1>1. /\ UNCHANGED <<config, check, tasks, done, reason>> /\ config \in Configs /\ TasksInv
      /\ check = "cycle" /\ reason # "cycle" /\ DoneInv
      /\ \A m \in GivenNames : Direct(m) \subseteq GivenNames
  BY DEF EnterTask, LoadInv, Checked
<1>2. TasksInv' /\ DoneInv' /\ \A m \in GivenNames' : Direct(m)' \subseteq GivenNames'
  BY <1>1, TasksStay, DoneStays, GraphStays DEF Checked
<1>3. n \in GivenNames \ done
  BY <1>1, TasksAre DEF EnterTask, Checked
<1>4. PICK e : e = [name |-> n, left |-> Direct(n)]
  OBVIOUS
<1>5. visiting' = <<e>>
  BY <1>1, <1>4, EntryIs DEF EnterTask, Checked
<1>6. List(visiting') /\ Len(visiting') = 1 /\ visiting'[1] = e
  <2>1. visiting' = [i \in 1..1 |-> visiting'[i]]
    BY <1>5
  <2> QED
    BY <1>5, <2>1, ListMade
<1>7. PathInv'
  <2>1. \A i \in 1..Len(visiting') :
          /\ IsEntry(visiting'[i])
          /\ visiting'[i].name \in GivenNames' \ done'
          /\ visiting'[i].left \subseteq Direct(visiting'[i].name)
          /\ Direct(visiting'[i].name) \ visiting'[i].left \subseteq done'
    <3>1. IsEntry(e) /\ e.name = n /\ e.left = Direct(n)
      BY <1>4 DEF IsEntry
    <3> QED
      BY <1>1, <1>3, <1>6, <3>1, GraphStays
  <2>2. \A i, j \in 1..Len(visiting') : visiting'[i].name = visiting'[j].name => i = j
    BY <1>6
  <2>3. 1..(Len(visiting') - 1) = {}
    BY <1>6
  <2>4. \A i \in 1..(Len(visiting') - 1) : visiting'[i + 1].name \in Direct(visiting'[i].name)
    BY <2>3
  <2> QED
    BY <1>1, <1>6, <2>1, <2>2, <2>4, PathNext
<1> QED
  BY <1>1, <1>2, <1>7 DEF LoadInv, Checked

\* What has been visited gains one whose dependencies have all been visited.
LEMMA DoneGrows ==
    ASSUME LoadingAssumption, config \in Configs, DoneInv, config' = config,
           NEW n \in GivenNames \ done, Direct(n) \subseteq done, done' = done \cup {n}
    PROVE  DoneInv'
<1>1. PICK r : VisitRanks(r)
  BY DEF DoneInv
<1>2. IsFiniteSet(done) /\ Cardinality(done) \in Nat
  <2>1. IsFiniteSet(done)
    BY FewNames, FS_Subset DEF DoneInv
  <2> QED
    BY <2>1, FS_CardinalityType
<1>3. Cardinality(done') = Cardinality(done) + 1
  BY <1>2, FS_AddElement
<1>4. PICK q : q = [m \in done' |-> IF m = n THEN Cardinality(done) ELSE r[m]]
  OBVIOUS
<1>5. q \in [done' -> Nat]
  BY <1>1, <1>2, <1>4 DEF VisitRanks
<1>6. \A m \in done' : q[m] < Cardinality(done')
  BY <1>1, <1>2, <1>3, <1>4 DEF VisitRanks
<1>7. \A m \in done' : \A d \in Direct(m) : d \in done' /\ q[d] < q[m]
  <2> SUFFICES ASSUME NEW m \in done', NEW d \in Direct(m) PROVE d \in done' /\ q[d] < q[m]
    OBVIOUS
  <2>1. d \in done
    BY <1>1 DEF VisitRanks
  <2>2. q[d] = r[d] /\ r[d] < Cardinality(done)
    BY <1>1, <1>4, <2>1 DEF VisitRanks
  <2>3. CASE m = n
    BY <1>4, <2>1, <2>2, <2>3
  <2>4. CASE m # n
    <3>1. m \in done /\ q[m] = r[m]
      BY <1>4, <2>4
    <3>2. r[d] < r[m]
      BY <1>1, <3>1 DEF VisitRanks
    <3> QED
      BY <2>1, <2>2, <3>1, <3>2
  <2> QED
    BY <2>3, <2>4
<1>8. VisitRanks(q)'
  BY <1>5, <1>6, <1>7, GraphStays DEF VisitRanks
<1> QED
  BY <1>8, GraphStays DEF DoneInv

LEMMA VisitEnds ==
    ASSUME LoadingAssumption, LoadInv, Visit, Last(visiting).left \ Settled = {}
    PROVE  LoadInv'
<1> DEFINE n == Len(visiting)
           top == visiting[n]
<1>1. /\ UNCHANGED <<config, check, tasks, reason>> /\ config \in Configs /\ TasksInv /\ PathInv
      /\ check = "cycle" /\ reason # "cycle" /\ DoneInv
      /\ \A m \in GivenNames : Direct(m) \subseteq GivenNames
  BY DEF Visit, LoadInv, Checked
<1>2. List(visiting) /\ n \in Nat /\ n >= 1 /\ visiting = [i \in 1..n |-> visiting[i]]
  <2>1. List(visiting)
    BY <1>1 DEF PathInv
  <2>2. n \in Nat /\ visiting = [i \in 1..n |-> visiting[i]]
    BY <2>1, ListIs
  <2>3. visiting # <<>>
    BY DEF Visit
  <2>4. n # 0
    BY <2>1, <2>3, EmptySeq DEF List
  <2> QED
    BY <2>1, <2>2, <2>4
<1>3. /\ done' = done \cup {top.name} /\ visiting' = SubSeq(visiting, 1, n - 1)
  BY DEF Visit, Last, Front
<1>4. Direct(top.name) \subseteq done /\ top.name \in GivenNames \ done
  BY <1>1, <1>2 DEF PathInv, Settled, Last
<1>5. DoneInv'
  BY <1>1, <1>3, <1>4, DoneGrows
<1>6. TasksInv' /\ \A m \in GivenNames' : Direct(m)' \subseteq GivenNames'
  BY <1>1, TasksStay, GraphStays DEF Checked
<1>7. List(visiting') /\ Len(visiting') = n - 1 /\ \A i \in 1..(n - 1) : visiting'[i] = visiting[i]
  <2>1. visiting \in Seq(Range(visiting)) /\ 1 \in 1..(n + 1) /\ n - 1 \in 0..n
    BY <1>2 DEF List
  <2>2. PICK S : S = Range(visiting)
    OBVIOUS
  <2>3. /\ visiting' \in Seq(S) /\ Len(visiting') = n - 1
        /\ \A i \in 1..(n - 1) : visiting'[i] = visiting[i]
    BY <1>2, <1>3, <2>1, <2>2, SubSeqProperties
  <2>4. visiting' = [i \in 1..(n - 1) |-> visiting'[i]]
    BY <2>3
  <2>5. n - 1 \in Nat
    BY <1>2
  <2> QED
    BY <2>3, <2>4, <2>5, ListMade
<1>8. PathInv'
  <2> HIDE DEF n
  <2>1. \A i \in 1..(n - 1) : i \in 1..n /\ i # n
    BY <1>2
  <2>2. \A i \in 1..(n - 1) :
          /\ IsEntry(visiting[i])
          /\ visiting[i].name \in GivenNames \ done
          /\ visiting[i].left \subseteq Direct(visiting[i].name)
          /\ Direct(visiting[i].name) \ visiting[i].left \subseteq done
    BY <1>1, <2>1 DEF PathInv, n
  <2>3. \A i \in 1..(n - 1) : visiting[i].name # top.name
    BY <1>1, <1>2, <2>1 DEF PathInv, n
  <2>4. \A i \in 1..Len(visiting') :
          /\ IsEntry(visiting'[i])
          /\ visiting'[i].name \in GivenNames' \ done'
          /\ visiting'[i].left \subseteq Direct(visiting'[i].name)
          /\ Direct(visiting'[i].name) \ visiting'[i].left \subseteq done'
    BY <1>1, <1>3, <1>7, <2>2, <2>3, GraphStays
  <2>5. \A i, j \in 1..Len(visiting') : visiting'[i].name = visiting'[j].name => i = j
    BY <1>1, <1>7, <2>1 DEF PathInv, n
  <2>6. \A i \in 1..(Len(visiting') - 1) : visiting'[i + 1].name \in Direct(visiting'[i].name)
    <3> SUFFICES ASSUME NEW i \in 1..(Len(visiting') - 1)
                 PROVE  visiting'[i + 1].name \in Direct(visiting'[i].name)
      OBVIOUS
    <3>1. i \in 1..(n - 1) /\ i + 1 \in 1..(n - 1)
      BY <1>2, <1>7
    <3>2. visiting[i + 1].name \in Direct(visiting[i].name)
      BY <1>1, <3>1 DEF PathInv, n
    <3> QED
      BY <1>1, <1>7, <3>1, <3>2, GraphStays
  <2> QED
    BY <1>1, <1>7, <2>4, <2>5, <2>6, PathNext
<1> QED
  BY <1>1, <1>5, <1>6, <1>8 DEF LoadInv, Checked

LEMMA VisitMeets ==
    ASSUME LoadingAssumption, LoadInv, Visit, NEW d \in Last(visiting).left \ Settled,
           OnPath(d), Refuse("cycle"), UNCHANGED <<visiting, done>>
    PROVE  LoadInv'
<1>1. /\ UNCHANGED <<config, tasks, visiting, done>> /\ config \in Configs /\ TasksInv
      /\ PathInv /\ check = "cycle" /\ DoneInv
  BY DEF Visit, LoadInv, Checked
<1>2. check' = "refused" /\ reason' = "cycle"
  BY DEF Refuse
<1>3. TasksInv'
  BY <1>1, TasksStay DEF Checked
<1>4. PICK n : n = Len(visiting)
  OBVIOUS
<1>5. List(visiting) /\ n \in Nat /\ n >= 1 /\ DOMAIN visiting = 1..n
  <2>1. List(visiting)
    BY <1>1 DEF PathInv
  <2>2. visiting # <<>>
    BY DEF Visit
  <2>3. Len(visiting) # 0
    BY <2>1, <2>2, EmptySeq DEF List
  <2> QED
    BY <1>4, <2>1, <2>3, ListIs
<1>6. d \in Direct(visiting[n].name)
  <2>1. d \in visiting[n].left
    BY <1>4 DEF Last
  <2>2. \A i \in 1..n : visiting[i].left \subseteq Direct(visiting[i].name)
    BY <1>1, <1>4 DEF PathInv
  <2> QED
    BY <1>5, <2>1, <2>2
<1>7. PICK a \in 1..n : visiting[a].name = d
  BY <1>5 DEF OnPath
<1>8. \E t \in Given : Reaches(t.name, t.name)
  BY <1>1, <1>4, <1>6, <1>7, CycleMet
<1>9. \E t \in Given' : Reaches(t.name, t.name)'
  BY <1>1, <1>8, GraphStays
<1> QED
  BY <1>1, <1>2, <1>3, <1>9 DEF LoadInv, Checked

\* A task that is not on the path is visited next.
LEMMA PathGrows ==
    ASSUME UNCHANGED <<config, done>>, PathInv, NEW n \in Nat, n = Len(visiting), n >= 1,
           NEW d \in GivenNames \ done, d \in Direct(visiting[n].name),
           \A i \in 1..n : visiting[i].name # d,
           NEW e, IsEntry(e), e.name = d, e.left = Direct(d),
           List(visiting'), Len(visiting') = n + 1, visiting'[n + 1] = e,
           \A i \in 1..n : /\ IsEntry(visiting'[i])
                           /\ visiting'[i].name = visiting[i].name
                           /\ visiting'[i].left \in {visiting[i].left, visiting[i].left \ done}
    PROVE  PathInv'
<1>1. /\ \A i \in 1..n :
           /\ IsEntry(visiting[i])
           /\ visiting[i].name \in GivenNames \ done
           /\ visiting[i].left \subseteq Direct(visiting[i].name)
           /\ Direct(visiting[i].name) \ visiting[i].left \subseteq done
      /\ \A i, j \in 1..n : visiting[i].name = visiting[j].name => i = j
      /\ \A i \in 1..(n - 1) : visiting[i + 1].name \in Direct(visiting[i].name)
  BY DEF PathInv
<1>2. n \in 1..n /\ \A i \in 1..Len(visiting') : i \in 1..n \/ i = n + 1
  OBVIOUS
<1>3. visiting'[n + 1].name = d /\ visiting'[n + 1].left = Direct(d)
  OBVIOUS
<1>4. GivenNames' = GivenNames
  BY GraphStays
<1>5. \A i \in 1..Len(visiting') :
         /\ IsEntry(visiting'[i])
         /\ visiting'[i].name \in GivenNames' \ done'
         /\ visiting'[i].left \subseteq Direct(visiting'[i].name)
         /\ Direct(visiting'[i].name) \ visiting'[i].left \subseteq done'
  <2> SUFFICES ASSUME NEW i \in 1..Len(visiting')
               PROVE  /\ IsEntry(visiting'[i])
                      /\ visiting'[i].name \in GivenNames' \ done'
                      /\ visiting'[i].left \subseteq Direct(visiting'[i].name)
                      /\ Direct(visiting'[i].name) \ visiting'[i].left \subseteq done'
    OBVIOUS
  <2>1. CASE i \in 1..n
    <3>1. visiting'[i].left \in {visiting[i].left, visiting[i].left \ done}
      BY <2>1
    <3>2. IsEntry(visiting'[i])
      BY <2>1
    <3>3. visiting'[i].name \in GivenNames' \ done'
      BY <1>1, <1>4, <2>1
    <3>4. /\ visiting[i].left \subseteq Direct(visiting'[i].name)
          /\ Direct(visiting'[i].name) \ visiting[i].left \subseteq done
      BY <1>1, <2>1
    <3> QED
      BY <3>1, <3>2, <3>3, <3>4
  <2>2. CASE i = n + 1
    BY <1>3, <1>4, <2>2
  <2> QED
    BY <1>2, <2>1, <2>2
<1>6. \A i, j \in 1..Len(visiting') : visiting'[i].name = visiting'[j].name => i = j
  <2> SUFFICES ASSUME NEW i \in 1..Len(visiting'), NEW j \in 1..Len(visiting'),
                      visiting'[i].name = visiting'[j].name
               PROVE  i = j
    OBVIOUS
  <2>1. CASE i \in 1..n /\ j \in 1..n
    BY <1>1, <2>1
  <2>2. CASE i = n + 1 /\ j \in 1..n
    BY <1>3, <2>2
  <2>3. CASE i \in 1..n /\ j = n + 1
    BY <1>3, <2>3
  <2> QED
    BY <1>2, <2>1, <2>2, <2>3
<1>7. \A i \in 1..(Len(visiting') - 1) : visiting'[i + 1].name \in Direct(visiting'[i].name)
  <2> SUFFICES ASSUME NEW i \in 1..(Len(visiting') - 1)
               PROVE  visiting'[i + 1].name \in Direct(visiting'[i].name)
    OBVIOUS
  <2>1. i \in 1..n
    OBVIOUS
  <2>2. visiting'[i].name = visiting[i].name
    BY <2>1
  <2>3. CASE i = n
    BY <1>3, <2>2, <2>3
  <2>4. CASE i # n
    <3>1. i \in 1..(n - 1) /\ i + 1 \in 1..n
      BY <2>1, <2>4
    <3>2. visiting'[i + 1].name = visiting[i + 1].name
      BY <3>1
    <3> QED
      BY <1>1, <2>2, <3>1, <3>2
  <2> QED
    BY <2>3, <2>4
<1> QED
  BY <1>5, <1>6, <1>7, PathNext

LEMMA VisitGoesOn ==
    ASSUME LoadingAssumption, LoadInv, Visit, NEW d \in Last(visiting).left \ Settled,
           ~OnPath(d), UNCHANGED <<check, reason, done>>,
           visiting' = Append([visiting EXCEPT ![Len(visiting)].left = @ \ Settled], Entry(d))
    PROVE  LoadInv'
<1>1. /\ UNCHANGED <<config, check, tasks, done, reason>> /\ config \in Configs /\ TasksInv
      /\ PathInv /\ check = "cycle" /\ reason # "cycle" /\ DoneInv
      /\ \A m \in GivenNames : Direct(m) \subseteq GivenNames
  BY DEF Visit, LoadInv, Checked
<1>2. TasksInv' /\ DoneInv' /\ \A m \in GivenNames' : Direct(m)' \subseteq GivenNames'
  BY <1>1, TasksStay, DoneStays, GraphStays DEF Checked
<1>3. PICK n : n = Len(visiting)
  OBVIOUS
<1>4. /\ List(visiting) /\ n \in Nat /\ n >= 1 /\ DOMAIN visiting = 1..n
      /\ visiting = [i \in 1..n |-> visiting[i]]
  <2>1. List(visiting)
    BY <1>1 DEF PathInv
  <2>2. visiting # <<>>
    BY DEF Visit
  <2>3. Len(visiting) # 0
    BY <2>1, <2>2, EmptySeq DEF List
  <2> QED
    BY <1>3, <2>1, <2>3, ListIs
<1>5. /\ \A i \in 1..n :
           /\ IsEntry(visiting[i])
           /\ visiting[i].name \in GivenNames \ done
           /\ visiting[i].left \subseteq Direct(visiting[i].name)
           /\ Direct(visiting[i].name) \ visiting[i].left \subseteq done
      /\ \A i, j \in 1..n : visiting[i].name = visiting[j].name => i = j
      /\ \A i \in 1..(n - 1) : visiting[i + 1].name \in Direct(visiting[i].name)
  BY <1>1, <1>3 DEF PathInv
<1>6. d \in visiting[n].left \ done /\ d \in GivenNames \ done /\ d \in Direct(visiting[n].name)
  <2>1. d \in visiting[n].left \ done
    BY <1>3 DEF Last, Settled
  <2> QED
    BY <1>1, <1>4, <1>5, <2>1
<1>7. \A i \in 1..n : visiting[i].name # d
  BY <1>4 DEF OnPath
<1>8. PICK rest : rest = [visiting EXCEPT ![n].left = @ \ done]
  OBVIOUS
<1>9. \A i \in 1..n : /\ rest[i].name = visiting[i].name
                      /\ IsEntry(rest[i])
                      /\ i # n => rest[i].left = visiting[i].left
                      /\ i = n => rest[i].left = visiting[i].left \ done
  <2> SUFFICES ASSUME NEW i \in 1..n
               PROVE  /\ rest[i].name = visiting[i].name
                      /\ IsEntry(rest[i])
                      /\ i # n => rest[i].left = visiting[i].left
                      /\ i = n => rest[i].left = visiting[i].left \ done
    OBVIOUS
  <2>1. IsEntry(visiting[i])
    BY <1>5
  <2>2. CASE i # n
    BY <1>4, <1>8, <2>1, <2>2
  <2>3. CASE i = n
    <3>1. rest[i] = [visiting[i] EXCEPT !.left = @ \ done]
      BY <1>4, <1>8, <2>3
    <3> QED
      BY <2>1, <2>3, <3>1 DEF IsEntry
  <2> QED
    BY <2>2, <2>3
<1>10. List(rest) /\ Len(rest) = n
  <2>1. rest = [i \in 1..n |-> rest[i]]
    BY <1>4, <1>8
  <2> QED
    BY <1>4, <2>1, ListMade
<1>11. PICK e : e = [name |-> d, left |-> Direct(d)]
  OBVIOUS
<1>12. IsEntry(e) /\ e.name = d /\ e.left = Direct(d)
  BY <1>11 DEF IsEntry
<1>12a. visiting' = Append(rest, e)
  <2>1. Entry(d) = e
    BY <1>1, <1>11, EntryIs DEF Checked
  <2> QED
    BY <1>3, <1>8, <2>1 DEF Settled
<1>13. /\ List(visiting') /\ Len(visiting') = n + 1 /\ visiting'[n + 1] = e
       /\ \A i \in 1..n : visiting'[i] = rest[i]
  <2>1. PICK w : w = Append(rest, e)
    OBVIOUS
  <2>2. /\ List(w) /\ Len(w) = n + 1 /\ w[n + 1] = e
        /\ \A i \in 1..n : w[i] = rest[i]
    BY <1>10, <2>1, ListAppend
  <2>3. visiting' = w
    BY <1>12a, <2>1
  <2> QED
    BY <2>2, <2>3
<1>14. PathInv'
  <2>1. \A i \in 1..n : /\ IsEntry(visiting'[i])
                        /\ visiting'[i].name = visiting[i].name
                        /\ visiting'[i].left \in {visiting[i].left, visiting[i].left \ done}
    BY <1>9, <1>13
  <2> QED
    BY <1>1, <1>3, <1>4, <1>6, <1>7, <1>12, <1>13, <2>1, PathGrows
<1> QED
  BY <1>1, <1>2, <1>14 DEF LoadInv, Checked

LEMMA LoadStays ==
    ASSUME LoadInv, UNCHANGED <<config, check, tasks, visiting, done, reason>>
    PROVE  LoadInv'
<1>1. TasksInv' /\ (DoneInv => DoneInv') /\ (PathInv => PathInv')
  <2>1. TasksInv'
    BY TasksStay DEF LoadInv
  <2>2. ASSUME PathInv PROVE PathInv'
    BY <2>2, GraphStays, PathNext DEF PathInv
  <2> QED
    BY <2>1, <2>2, DoneStays
<1>2. /\ Given' = Given /\ GivenNames' = GivenNames /\ (\A n : Direct(n)' = Direct(n))
      /\ \A n, m : Reaches(n, m)' <=> Reaches(n, m)
  BY GraphStays
<1>3. Collectors' = Collectors /\ \A t, u : Apart(t, u)' <=> Apart(t, u)
  BY DEF Collectors, Active, On, Named, TaskNames, Apart, Output, Staging
<1> QED
  BY <1>1, <1>2, <1>3 DEF LoadInv

LEMMA LoadSteps == ASSUME LoadingAssumption, LoadInv, [LoadNext]_lvars PROVE LoadInv'
<1>1. CASE UNCHANGED lvars
  BY <1>1, LoadStays DEF lvars
<1>2. CASE Visit
  <2>1. CASE Last(visiting).left \ Settled = {}
    BY <1>2, <2>1, VisitEnds
  <2>2. CASE Last(visiting).left \ Settled # {}
    BY <1>2, <2>2, VisitMeets, VisitGoesOn DEF Visit
  <2> QED
    BY <2>1, <2>2
<1> QED
  BY <1>1, <1>2, ResolveTaskKeeps, CheckIdentitiesKeeps, ValidatePhasesKeeps,
     EnterTaskKeeps,
     EndVisitsKeeps, CheckRootsKeeps, CheckOutputsKeeps DEF LoadNext

-----------------------------------------------------------------------------
(* Which collectors run                                                    *)

\* A task is awake if it and all it depends on, at whatever distance, are enabled.
Awake(n) == \A y \in Given : (y.name = n \/ Reaches(n, y.name)) => y.enabled

LEMMA AwakeUp ==
    ASSUME LoadingAssumption, config \in Configs, NEW n \in GivenNames,
           \A t \in Given : t.name = n => t.enabled,
           \A d \in Direct(n) : Awake(d)
    PROVE  Awake(n)
<1> SUFFICES ASSUME NEW y \in Given, Reaches(n, y.name) PROVE y.enabled
  BY DEF Awake
<1>1. PICK k, p : k \in 1..Len(config.tasks) /\ p \in [0..k -> GivenNames] /\ p[0] = n
                 /\ p[k] = y.name /\ \A i \in 1..k : p[i] \in Direct(p[i - 1])
  BY DEF Reaches
<1>2. k \in Nat /\ k >= 1 /\ Len(config.tasks) \in Nat /\ 1 \in 1..k /\ 1 \in 0..k
  BY <1>1, GivenIs
<1>3. p[1] \in Direct(n)
  BY <1>1, <1>2
<1>4. CASE k = 1
  BY <1>1, <1>3, <1>4 DEF Awake
<1>5. CASE k # 1
  <2>1. PICK l : l = k - 1
    OBVIOUS
  <2>2. l \in 1..Len(config.tasks) /\ \A i \in 0..l : i + 1 \in 0..k
    BY <1>1, <1>2, <1>5, <2>1
  <2>3. PICK q : q = [i \in 0..l |-> p[i + 1]]
    OBVIOUS
  <2>4. q \in [0..l -> GivenNames] /\ q[0] = p[1] /\ q[l] = y.name
    <3>1. l + 1 = k /\ 0 \in 0..l /\ l \in 0..l /\ 0 + 1 = 1
      BY <1>2, <2>1, <2>2
    <3>2. q \in [0..l -> GivenNames]
      BY <1>1, <2>2, <2>3
    <3>3. q[0] = p[0 + 1] /\ q[l] = p[l + 1]
      BY <2>3, <3>1
    <3> QED
      BY <1>1, <3>1, <3>2, <3>3
  <2>5. \A i \in 1..l : q[i] \in Direct(q[i - 1])
    <3> SUFFICES ASSUME NEW i \in 1..l PROVE q[i] \in Direct(q[i - 1])
      OBVIOUS
    <3>1. PICK j : j = i + 1
      OBVIOUS
    <3>2. i \in 0..l /\ i - 1 \in 0..l /\ j \in 1..k /\ (i - 1) + 1 = j - 1
      BY <1>2, <2>1, <2>2, <3>1
    <3>3. q[i] = p[j] /\ q[i - 1] = p[j - 1]
      <4>1. q[i] = p[i + 1]
        BY <2>3, <3>2
      <4>2. q[i - 1] = p[(i - 1) + 1]
        BY <2>3, <3>2
      <4> QED
        BY <3>1, <3>2, <4>1, <4>2
    <3> QED
      BY <1>1, <3>2, <3>3
  <2>6. Reaches(p[1], y.name)
    BY <2>2, <2>4, <2>5 DEF Reaches
  <2> QED
    BY <1>3, <2>6 DEF Awake
<1> QED
  BY <1>4, <1>5

LEMMA AwakeDown ==
    ASSUME LoadingAssumption, config \in Configs, DoneInv, GivenNames \subseteq done,
           NEW n \in GivenNames, NEW d \in GivenNames, d \in Direct(n), Awake(n)
    PROVE  Awake(d)
<1> SUFFICES ASSUME NEW y \in Given, y.name = d \/ Reaches(d, y.name) PROVE y.enabled
  BY DEF Awake
<1>1. Reaches(n, y.name)
  BY PathOfOne, PathLonger
<1> QED
  BY <1>1 DEF Awake

\* _active of the tasks resolved, in terms of what the file says.
LEMMA AwakeIs ==
    ASSUME LoadingAssumption, LoadInv, check \in {"roots", "outputs", "accepted"}, NEW n \in TaskNames
    PROVE  Awake(n) <=> \A u \in Named(n) : u.enabled /\ \A d \in u.deps : Awake(d)
<1>1. /\ config \in Configs /\ TasksInv /\ DoneInv /\ GivenNames \subseteq done
      /\ \A m \in GivenNames : Direct(m) \subseteq GivenNames
  BY DEF LoadInv, Checked
<1>2. TaskNames = GivenNames /\ \A m : UNION {t.deps : t \in Named(m)} = Direct(m)
  BY <1>1, TasksAre DEF Checked
<1>3. \A d \in Direct(n) : d \in GivenNames
  BY <1>1, <1>2
<1>4. \A u \in Named(n) : \A d \in u.deps : d \in Direct(n)
  BY <1>2
<1>5. \A d \in Direct(n) : \E u \in Named(n) : d \in u.deps
  BY <1>2
<1>6. \A u \in Named(n) : \E t \in Given : t.name = n /\ t.enabled = u.enabled
  <2> SUFFICES ASSUME NEW u \in Named(n) PROVE \E t \in Given : t.name = n /\ t.enabled = u.enabled
    OBVIOUS
  <2>1. PICK i \in 1..Len(config.tasks) : u = tasks[i]
    BY <1>1, TasksAre DEF Named, Checked
  <2>2. Len(tasks) = Len(config.tasks) /\ Stems(tasks[i], config.tasks[i])
    BY <1>1, <2>1 DEF TasksInv, Checked
  <2>3. u.name = n /\ u.name = config.tasks[i].name /\ config.tasks[i].enabled = u.enabled
    BY <2>1, <2>2, StemsSays DEF Named
  <2>4. config.tasks[i] \in Given
    BY <1>1, GivenIs
  <2> QED
    BY <2>3, <2>4
<1>7. \A t \in Given : t.name = n => \E u \in Named(n) : t.enabled = u.enabled
  <2> SUFFICES ASSUME NEW t \in Given, t.name = n PROVE \E u \in Named(n) : t.enabled = u.enabled
    OBVIOUS
  <2>1. PICK i \in 1..Len(config.tasks) : t = config.tasks[i]
    BY <1>1, GivenIs
  <2>2. Len(tasks) = Len(config.tasks) /\ Stems(tasks[i], config.tasks[i])
    BY <1>1, <2>1 DEF TasksInv, Checked
  <2>3. tasks[i].name = n /\ tasks[i].enabled = t.enabled
    BY <2>1, <2>2, StemsSays
  <2>4. tasks[i] \in Range(tasks)
    BY <1>1, TasksAre DEF Checked
  <2> QED
    BY <2>3, <2>4 DEF Named
<1>8. ASSUME Awake(n) PROVE \A u \in Named(n) : u.enabled /\ \A d \in u.deps : Awake(d)
  <2>1. \A t \in Given : t.name = n => t.enabled
    BY <1>8 DEF Awake
  <2>2. \A d \in Direct(n) : Awake(d)
    BY <1>1, <1>2, <1>3, <1>8, AwakeDown
  <2> QED
    BY <1>4, <1>6, <2>1, <2>2
<1>9. ASSUME \A u \in Named(n) : u.enabled /\ \A d \in u.deps : Awake(d) PROVE Awake(n)
  <2>1. \A t \in Given : t.name = n => t.enabled
    BY <1>7, <1>9
  <2>2. \A d \in Direct(n) : Awake(d)
    BY <1>5, <1>9
  <2> QED
    BY <1>1, <1>2, <2>1, <2>2, AwakeUp
<1> QED
  BY <1>8, <1>9

Answers(f) ==
    f = [n \in TaskNames |-> \A u \in Named(n) : u.enabled /\ \A d \in u.deps : f[d]]

\* The recursion is well-founded: it has a solution, and that is what it means.
LEMMA OnIs ==
    ASSUME LoadingAssumption, LoadInv, check \in {"roots", "outputs", "accepted"}
    PROVE  Answers(On)
<1>1. /\ TaskNames = GivenNames /\ \A n : UNION {t.deps : t \in Named(n)} = Direct(n)
      /\ \A n \in GivenNames : Direct(n) \subseteq GivenNames
  BY TasksAre DEF LoadInv, Checked
<1>2. \E f : Answers(f)
  <2>1. PICK f : f = [n \in TaskNames |-> Awake(n)]
    OBVIOUS
  <2>2. \A n \in TaskNames : \A u \in Named(n) : \A d \in u.deps : d \in TaskNames
    BY <1>1
  <2>3. \A n \in TaskNames : f[n] = Awake(n)
    BY <2>1
  <2>4. ASSUME NEW n \in TaskNames
        PROVE  Awake(n) <=> \A u \in Named(n) : u.enabled /\ \A d \in u.deps : f[d]
    <3>1. Awake(n) <=> \A u \in Named(n) : u.enabled /\ \A d \in u.deps : Awake(d)
      BY AwakeIs
    <3>2. \A u \in Named(n) : \A d \in u.deps : f[d] = Awake(d)
      BY <2>2, <2>3
    <3> QED
      BY <3>1, <3>2
  <2>5. ASSUME NEW n \in TaskNames
        PROVE  f[n] = (\A u \in Named(n) : u.enabled /\ \A d \in u.deps : f[d])
    <3>1. Awake(n) \in BOOLEAN
      BY DEF Awake
    <3>2. f[n] \in BOOLEAN /\ (f[n] <=> \A u \in Named(n) : u.enabled /\ \A d \in u.deps : f[d])
      BY <2>3, <2>4, <3>1
    <3> QED
      BY <3>2
  <2>6. f = [n \in TaskNames |-> f[n]]
    BY <2>1
  <2>7. Answers(f)
    <3>1. [n \in TaskNames |-> f[n]]
            = [n \in TaskNames |-> \A u \in Named(n) : u.enabled /\ \A d \in u.deps : f[d]]
      BY <2>5
    <3> QED
      BY <2>6, <3>1 DEF Answers
  <2> QED
    BY <2>7
<1>3. On = CHOOSE f : Answers(f)
  BY DEF On, Answers
<1> QED
  BY <1>2, <1>3

\* A task that is awake is active.
LEMMA AwakeIsOn ==
    ASSUME LoadingAssumption, LoadInv, check \in {"roots", "outputs", "accepted"}
    PROVE  \A n \in GivenNames : Awake(n) => On[n]
<1>1. /\ config \in Configs /\ TasksInv /\ DoneInv /\ GivenNames \subseteq done
      /\ \A n \in GivenNames : Direct(n) \subseteq GivenNames
  BY DEF LoadInv, Checked
<1>2. TaskNames = GivenNames /\ \A n : UNION {t.deps : t \in Named(n)} = Direct(n)
  BY <1>1, TasksAre DEF Checked
<1>3. PICK r : VisitRanks(r)
  BY <1>1 DEF DoneInv
<1>4. r \in [done -> Nat] /\ done = GivenNames
  BY <1>1, <1>3 DEF VisitRanks, DoneInv
<1> DEFINE Bad == {n \in GivenNames : Awake(n) /\ ~On[n]}
           RanksOf  == {r[n] : n \in Bad}
<1> SUFFICES ASSUME Bad # {} PROVE FALSE
  OBVIOUS
<1>5. RanksOf \subseteq Nat /\ RanksOf # {}
  BY <1>4
<1>6. PICK a \in RanksOf : \A b \in RanksOf : ~(<<b, a>> \in OpToRel(<, Nat))
  BY <1>5, NatLessThanWellFounded, WFMin, Zenon
<1>7. PICK n \in Bad : a = r[n]
  BY <1>6
<1>8. \A d \in Direct(n) : On[d]
  <2> SUFFICES ASSUME NEW d \in Direct(n), ~On[d] PROVE FALSE
    OBVIOUS
  <2>1. d \in GivenNames /\ n \in GivenNames
    BY <1>1, <1>7
  <2>2. Awake(d)
    BY <1>1, <1>7, <2>1, AwakeDown
  <2>3. r[d] \in RanksOf
    BY <2>1, <2>2
  <2>4. r[d] < r[n] /\ r[d] \in Nat /\ r[n] \in Nat
    BY <1>3, <1>4, <2>1 DEF VisitRanks
  <2>5. <<r[d], a>> \in OpToRel(<, Nat)
    BY <1>7, <2>4 DEF OpToRel
  <2> QED
    BY <1>6, <2>3, <2>5
<1>9. \A u \in Named(n) : u.enabled /\ \A d \in u.deps : On[d]
  <2>1. \A u \in Named(n) : u.enabled
    BY <1>2, <1>7, AwakeIs
  <2> QED
    BY <1>2, <1>8, <2>1
<1>10. On = [m \in TaskNames |-> \A u \in Named(m) : u.enabled /\ \A d \in u.deps : On[d]]
  BY OnIs DEF Answers
<1>11. On[n] = \A u \in Named(n) : u.enabled /\ \A d \in u.deps : On[d]
  BY <1>2, <1>7, <1>10
<1> QED
  BY <1>7, <1>9, <1>11

-----------------------------------------------------------------------------
(* Which directories hold which                                            *)

LEMMA HeadIs ==
    ASSUME NEW s, List(s), NEW n \in 0..Len(s)
    PROVE  SubSeq(s, 1, n) = [i \in 1..n |-> s[i]]
<1>1. PICK S : S = Range(s)
  OBVIOUS
<1>2. s \in Seq(S) /\ Len(s) \in Nat /\ n \in Nat
  BY <1>1, ListIs DEF List
<1>3. 1 \in 1..(Len(s) + 1)
  BY <1>2
<1>4. PICK h : h = SubSeq(s, 1, n)
  OBVIOUS
<1>5. h \in Seq(S) /\ Len(h) = n /\ \A i \in 1..n : h[i] = s[i]
  BY <1>2, <1>3, <1>4, SubSeqProperties
<1>6. h = [i \in 1..n |-> h[i]]
  BY <1>5
<1> QED
  BY <1>4, <1>5, <1>6

LEMMA PrefixIs ==
    ASSUME NEW s, NEW t, List(s), List(t)
    PROVE  /\ IsPrefix(s, t) <=> Len(s) <= Len(t) /\ \A i \in 1..Len(s) : s[i] = t[i]
           /\ Within(s, t) <=> IsPrefix(s, t)
<1>1. Len(s) \in Nat /\ Len(t) \in Nat /\ s = [i \in 1..Len(s) |-> s[i]]
  BY ListIs
<1>2. SubSeq(s, 1, Len(s)) = s
  <2>1. Len(s) \in 0..Len(s)
    BY <1>1
  <2> QED
    BY <1>1, <2>1, HeadIs
<1>3. CASE Len(s) <= Len(t)
  <2>1. PICK n : n = Len(s)
    OBVIOUS
  <2>2. n \in 0..Len(t)
    BY <1>1, <1>3, <2>1
  <2>3. SubSeq(t, 1, n) = [i \in 1..n |-> t[i]]
    BY <2>2, HeadIs
  <2>4. SubSeq(t, 1, n) = s <=> \A i \in 1..n : s[i] = t[i]
    BY <1>1, <2>1, <2>3
  <2> QED
    BY <1>2, <1>3, <2>1, <2>4 DEF IsPrefix, Within
<1>4. CASE ~(Len(s) <= Len(t))
  BY <1>4 DEF IsPrefix, Within
<1> QED
  BY <1>3, <1>4

\* What holds a directory of s, and is not held by s, holds s.
LEMMA HoldsAbove ==
    ASSUME NEW r, NEW s, NEW x, List(r), List(s), IsPrefix(r, Append(s, x)), ~IsPrefix(s, r)
    PROVE  IsPrefix(r, s)
<1>1. Len(r) \in Nat /\ Len(s) \in Nat
  BY ListIs
<1>2. PICK a : a = Append(s, x)
  OBVIOUS
<1>3. List(a) /\ Len(a) = Len(s) + 1 /\ \A i \in 1..Len(s) : a[i] = s[i]
  BY <1>2, ListAppend
<1>4. Len(r) <= Len(s) + 1 /\ \A i \in 1..Len(r) : r[i] = a[i]
  <2>1. IsPrefix(r, a)
    BY <1>2
  <2>2. Len(r) <= Len(a) /\ \A i \in 1..Len(r) : r[i] = a[i]
    BY <1>3, <2>1, PrefixIs
  <2> QED
    BY <1>3, <2>2
<1>5. CASE Len(r) <= Len(s)
  <2>1. \A i \in 1..Len(r) : r[i] = s[i]
    BY <1>1, <1>3, <1>4, <1>5
  <2> QED
    BY <1>5, <2>1, PrefixIs
<1>6. CASE Len(s) <= Len(r)
  <2>1. \A i \in 1..Len(s) : s[i] = r[i]
    BY <1>1, <1>3, <1>4, <1>6
  <2> QED
    BY <1>6, <2>1, PrefixIs
<1> QED
  BY <1>1, <1>5, <1>6

\* A directory put beside r.
LEMMA BesideIs ==
    ASSUME NEW r, List(r), r # <<>>, NEW x
    PROVE  /\ List(Append(Front(r), x)) /\ Len(Append(Front(r), x)) = Len(r)
<1>1. Len(r) \in Nat
  BY ListIs
<1>2. Len(r) # 0
  BY EmptySeq DEF List
<1>3. PICK n : n = Len(r) - 1
  OBVIOUS
<1>4. n \in Nat /\ n \in 0..Len(r) /\ n + 1 = Len(r)
  BY <1>1, <1>2, <1>3
<1>5. PICK f : f = Front(r)
  OBVIOUS
<1>6. f = [i \in 1..n |-> r[i]]
  <2>1. f = SubSeq(r, 1, n)
    BY <1>3, <1>5 DEF Front
  <2> QED
    BY <1>4, <2>1, HeadIs
<1>7. List(f) /\ Len(f) = n
  <2>1. f = [i \in 1..n |-> f[i]]
    BY <1>6
  <2> QED
    BY <1>4, <2>1, ListMade
<1> QED
  BY <1>4, <1>5, <1>7, ListAppend

LEMMA StagingList ==
    ASSUME LoadingAssumption, config \in Configs, config.root # <<>>
    PROVE  List(Staging)
<1>1. List(Temp) /\ List(config.root) /\ (config.staging # None => List(config.staging))
  BY DEF LoadingAssumption
<1>2. CASE config.staging # None
  BY <1>1, <1>2 DEF Staging
<1>3. CASE config.staging = None /\ Within(config.root, Temp)
  <2>1. Staging = Append(Front(config.root), "staging")
    BY <1>3 DEF Staging
  <2>2. PICK r : r = config.root
    OBVIOUS
  <2>3. List(Append(Front(r), "staging"))
    BY <1>1, <2>2, BesideIs
  <2> QED
    BY <2>1, <2>2, <2>3
<1>4. CASE config.staging = None /\ ~Within(config.root, Temp)
  BY <1>1, <1>4 DEF Staging
<1> QED
  BY <1>2, <1>3, <1>4

LEMMA OutputList ==
    ASSUME LoadingAssumption, config \in Configs, config.root # <<>>, NEW t \in Given
    PROVE  List(Output(t))
<1>1. t.output # None => List(t.output)
  BY DEF LoadingAssumption, Given
<1>2. CASE t.output # None
  BY <1>1, <1>2 DEF Output
<1>3. CASE t.output = None
  <2>1. PICK s : s = Staging
    OBVIOUS
  <2>2. PICK x : x = Component[t.name]
    OBVIOUS
  <2>3. Output(t) = Append(s, x)
    BY <1>3, <2>1, <2>2 DEF Output
  <2>4. List(s)
    BY <2>1, StagingList
  <2> QED
    BY <2>3, <2>4, ListAppend
<1> QED
  BY <1>2, <1>3

\* What nobody has placed does not fall into the archive.
LEMMA OutsideArchive ==
    ASSUME LoadingAssumption, config \in Configs, config.root # <<>>,
           config.staging # None => ~Within(config.root, config.staging),
           NEW t \in Given, t.output = None, ~IsPrefix(Staging, config.root)
    PROVE  ~IsPrefix(config.root, Output(t))
<1> SUFFICES ASSUME IsPrefix(config.root, Output(t)) PROVE FALSE
  OBVIOUS
<1>1. PICK r, s, x : r = config.root /\ s = Staging /\ x = Component[t.name]
  OBVIOUS
<1>2. /\ List(Temp) /\ List(r) /\ (config.staging # None => List(config.staging))
      /\ List(s) /\ r # <<>>
  BY <1>1, StagingList DEF LoadingAssumption
<1>3. IsPrefix(r, s)
  <2>1. Output(t) = Append(s, x)
    BY <1>1 DEF Output
  <2> QED
    BY <1>1, <1>2, <2>1, HoldsAbove
<1>4. CASE config.staging # None
  <2>1. s = config.staging
    BY <1>1, <1>4 DEF Staging
  <2> QED
    BY <1>1, <1>2, <1>3, <1>4, <2>1, PrefixIs
<1>5. CASE config.staging = None /\ Within(r, Temp)
  <2>1. s = Append(Front(r), "staging")
    BY <1>1, <1>5 DEF Staging
  <2>2. Len(s) = Len(r)
    BY <1>2, <2>1, BesideIs
  <2>3. Len(r) <= Len(s) /\ \A i \in 1..Len(r) : r[i] = s[i]
    BY <1>2, <1>3, PrefixIs
  <2>4. Len(s) <= Len(r) /\ \A i \in 1..Len(s) : s[i] = r[i]
    <3>1. Len(r) \in Nat
      BY <1>2, ListIs
    <3> QED
      BY <2>2, <2>3, <3>1
  <2>5. IsPrefix(s, r)
    BY <1>2, <2>4, PrefixIs
  <2> QED
    BY <1>1, <2>5
<1>6. CASE config.staging = None /\ ~Within(r, Temp)
  <2>1. s = Temp
    BY <1>1, <1>6 DEF Staging
  <2> QED
    BY <1>2, <1>3, <1>6, <2>1, PrefixIs
<1> QED
  BY <1>4, <1>5, <1>6

-----------------------------------------------------------------------------
(* What a task says of its retention                                       *)

LEMMA MergedIs ==
    ASSUME LoadingAssumption, NEW pol \in Mapping, NEW own \in Mapping, NEW s \in {"active", "deleted"}
    PROVE  /\ Merged(pol, own)[s] = Over(pol[s], own[s])
           /\ Merged(pol, own).top = Over(pol.top, own.top)
<1>1. "top" \in DOMAIN pol /\ s \in DOMAIN pol
  BY DEF Mapping
<1> QED
  BY <1>1 DEF Merged

\* What a mapping says of a section is what Over makes of it.
LEMMA OverSays ==
    ASSUME LoadingAssumption, NEW under \in Span \cup {None}, NEW own \in Span \cup {None},
           NEW k \in {"min", "max"}
    PROVE  /\ own # None => (own[k] # None => Over(under, own) # None /\ Over(under, own)[k] = own[k])
           /\ own = None => Over(under, own) = under
           /\ under # None /\ own # None => (own[k] = None => Over(under, own)[k] = under[k])
           /\ Over(under, own) # None <=> (under # None \/ own # None)
           /\ Over(under, own) \in Span \cup {None}
<1>1. CASE under = None \/ own = None
  BY <1>1 DEF Over
<1>2. CASE under # None /\ own # None
  <2>1. under \in Span /\ own \in Span
    BY <1>2
  <2>2. PICK v : v = Over(under, own)
    OBVIOUS
  <2>3. v = [j \in {"min", "max"} |-> IF own[j] # None THEN own[j] ELSE under[j]]
    BY <1>2, <2>1, <2>2 DEF Over, Span
  <2>4. v.min \in Int \cup {None} /\ v.max \in Int \cup {None} /\ v = [min |-> v.min, max |-> v.max]
    BY <2>1, <2>3 DEF Span
  <2>5. v \in Span
    BY <2>4 DEF Span
  <2>6. v[k] = IF own[k] # None THEN own[k] ELSE under[k]
    BY <2>3
  <2>7. v # None
    BY <2>5 DEF LoadingAssumption
  <2> QED
    BY <1>2, <2>2, <2>5, <2>6, <2>7
<1> QED
  BY <1>1, <1>2

\* What a section says is what its floor leaves.
LEMMA FloorKeeps ==
    ASSUME NEW v \in Span, NEW default, NEW k \in {"min", "max"}, v[k] # None
    PROVE  Floor(v, default)[k] = v[k] \/ v = None
<1>1. v = [min |-> v.min, max |-> v.max]
  BY DEF Span
<1>2. CASE v.min # None
  BY <1>2 DEF Floor
<1>3. CASE v.min = None
  <2>1. k = "max"
    BY <1>3
  <2>2. PICK l : v = None \/ Floor(v, default) = [v EXCEPT !.min = l]
    BY <1>3 DEF Floor
  <2> QED
    BY <1>1, <2>1, <2>2
<1> QED
  BY <1>2, <1>3

\* Where neither section is given under "active" and "deleted", the deleted versions
\* take the floor of the active ones and no ceiling.
LEMMA ShorthandIs ==
    ASSUME NEW v, v.active = None, v.deleted = None
    PROVE  Normalized(v).deleted = [min |-> Normalized(v).active.min, max |-> None]
<1>1. Expanded(v) = [top |-> Blank, active |-> v.top, deleted |-> None]
  BY DEF Expanded
<1>2. PICK a : a = Floor(v.top, MinDefault)
  OBVIOUS
<1>3. Normalized(v) = [active |-> a, deleted |-> Floor(None, a.min)]
  BY <1>1, <1>2 DEF Normalized
<1>4. Floor(None, a.min) = [min |-> a.min, max |-> None]
  BY DEF Floor, Blank
<1> QED
  BY <1>3, <1>4

\* Where one of them is, each keeps what it says.
LEMMA SectionKeeps ==
    ASSUME LoadingAssumption, NEW v, NEW s \in {"active", "deleted"}, v[s] \in Span,
           NEW k \in {"min", "max"}, v[s][k] # None
    PROVE  Normalized(v)[s][k] = v[s][k]
<1>1. v[s] # None
  BY DEF LoadingAssumption
<1>2. Expanded(v) = v
  BY <1>1 DEF Expanded
<1>3. PICK a : a = Floor(v.active, MinDefault)
  OBVIOUS
<1>4. Normalized(v) = [active |-> a, deleted |-> Floor(v.deleted, a.min)]
  BY <1>2, <1>3 DEF Normalized
<1>5. CASE s = "active"
  <2>1. Normalized(v)[s] = Floor(v[s], MinDefault)
    BY <1>3, <1>4, <1>5
  <2> QED
    BY <1>1, <2>1, FloorKeeps
<1>6. CASE s = "deleted"
  <2>1. Normalized(v)[s] = Floor(v[s], a.min)
    BY <1>4, <1>6
  <2> QED
    BY <1>1, <2>1, FloorKeeps
<1> QED
  BY <1>5, <1>6

LEMMA SectionResolved ==
    ASSUME LoadingAssumption, NEW pol \in Mapping, NEW own \in Mapping,
           NEW s \in {"active", "deleted"}, NEW k \in {"min", "max"}
    PROVE  LET r == Normalized(Merged(pol, own))
           IN  /\ own[s] # None => (own[s][k] # None => r[s][k] = own[s][k])
               /\ (own[s] = None \/ own[s][k] = None) /\ pol[s] # None =>
                     (pol[s][k] # None => r[s][k] = pol[s][k])
<1>1. PICK m : m = Merged(pol, own)
  OBVIOUS
<1>2. pol[s] \in Span \cup {None} /\ own[s] \in Span \cup {None}
  BY DEF Mapping
<1>3. PICK b, o : b = pol[s] /\ o = own[s]
  OBVIOUS
<1>4. m[s] = Over(b, o)
  BY <1>1, <1>3, MergedIs
<1>5. /\ b \in Span \cup {None} /\ o \in Span \cup {None}
  BY <1>2, <1>3
<1>6. /\ o # None => (o[k] # None => m[s] # None /\ m[s][k] = o[k])
      /\ o = None => m[s] = b
      /\ b # None /\ o # None => (o[k] = None => m[s][k] = b[k])
      /\ m[s] # None <=> (b # None \/ o # None)
      /\ m[s] \in Span \cup {None}
  BY <1>4, <1>5, OverSays
<1>7. ASSUME m[s] \in Span, m[s][k] # None PROVE Normalized(m)[s][k] = m[s][k]
  BY <1>7, SectionKeeps
<1>8. ASSUME o # None, o[k] # None PROVE Normalized(m)[s][k] = o[k]
  <2>1. m[s] \in Span /\ m[s][k] = o[k]
    BY <1>6, <1>8
  <2> QED
    BY <1>7, <1>8, <2>1
<1>9. ASSUME o = None \/ o[k] = None, b # None, b[k] # None PROVE Normalized(m)[s][k] = b[k]
  <2>1. m[s] \in Span /\ m[s][k] = b[k]
    BY <1>6, <1>9
  <2> QED
    BY <1>7, <1>9, <2>1
<1> QED
  BY <1>1, <1>3, <1>8, <1>9

\* The mappings a task is resolved from.
LEMMA MappingsAre ==
    ASSUME LoadingAssumption, config \in Configs, NEW t \in Given, KnownPolicy(PolicyOf(t))
    PROVE  /\ (IF t.retention = None THEN Unset ELSE t.retention) \in Mapping
           /\ (IF PolicyOf(t) = None THEN Unset ELSE config.policies[PolicyOf(t)]) \in Mapping
<1>1. Blank \in Span
  BY DEF Blank, Span
<1>2. Unset \in Mapping
  BY <1>1 DEF Unset, Mapping
<1>3. t.retention # None => t.retention \in Mapping
  BY DEF LoadingAssumption, Given
<1>4. \A p \in DOMAIN config.policies : config.policies[p] \in Mapping
  BY DEF LoadingAssumption
<1> QED
  BY <1>2, <1>3, <1>4 DEF KnownPolicy

\* r is what the task's own mapping and its policy's ask for.
Wins(r, own, pol) ==
    LET Says(v) == {s \in {"active", "deleted"} : v[s] # None}
    IN  /\ Valid(r)
        /\ own.top = Blank /\ pol.top = Blank =>
             \A s \in {"active", "deleted"}, k \in {"min", "max"} :
                /\ s \in Says(own) /\ own[s][k] # None => r[s][k] = own[s][k]
                /\ (s \notin Says(own) \/ own[s][k] = None) /\ s \in Says(pol) /\ pol[s][k] # None
                     => r[s][k] = pol[s][k]
        /\ Says(own) = {} /\ Says(pol) = {} =>
             r.deleted = [min |-> r.active.min, max |-> None]

LEMMA MostSpecificHolds == ASSUME LoadingAssumption, LoadInv PROVE MostSpecificWins
<1>1. config \in Configs /\ TasksInv
  BY DEF LoadInv
<1>2. /\ DOMAIN tasks = 1..Len(tasks) /\ Len(tasks) \in Nat
      /\ Len(tasks) <= Len(config.tasks)
  <2>1. List(tasks) /\ Len(tasks) <= Len(config.tasks)
    BY <1>1 DEF TasksInv
  <2> QED
    BY <2>1, ListIs
<1> SUFFICES ASSUME NEW i \in DOMAIN tasks
             PROVE  Wins(tasks[i].retention,
                         IF config.tasks[i].retention = None THEN Unset ELSE config.tasks[i].retention,
                         IF PolicyOf(config.tasks[i]) = None THEN Unset
                         ELSE config.policies[PolicyOf(config.tasks[i])])
  BY Zenon DEF MostSpecificWins, Wins
<1>3. PICK t : t = config.tasks[i]
  OBVIOUS
<1>4. Stems(tasks[i], t) /\ Valid(RetentionOf(t)) /\ KnownPolicy(PolicyOf(t))
  BY <1>1, <1>2, <1>3 DEF TasksInv
<1>5. t \in Given
  BY <1>1, <1>2, <1>3, GivenIs
<1>6. PICK r : r = tasks[i].retention
  OBVIOUS
<1>7. r = RetentionOf(t)
  BY <1>4, <1>6, StemsSays
<1>8. PICK own, pol : /\ own = IF t.retention = None THEN Unset ELSE t.retention
                      /\ pol = IF PolicyOf(t) = None THEN Unset ELSE config.policies[PolicyOf(t)]
  OBVIOUS
<1>9. own \in Mapping /\ pol \in Mapping
  BY <1>1, <1>4, <1>5, <1>8, MappingsAre
<1>10. r = Normalized(Merged(pol, own))
  BY <1>7, <1>8 DEF RetentionOf
<1>11. \A s \in {"active", "deleted"}, k \in {"min", "max"} :
         /\ own[s] # None => (own[s][k] # None => r[s][k] = own[s][k])
         /\ (own[s] = None \/ own[s][k] = None) /\ pol[s] # None =>
               (pol[s][k] # None => r[s][k] = pol[s][k])
  BY <1>9, <1>10, SectionResolved
<1>12. ASSUME \A s \in {"active", "deleted"} : own[s] = None /\ pol[s] = None
       PROVE  r.deleted = [min |-> r.active.min, max |-> None]
  <2>1. PICK v : v = Merged(pol, own)
    OBVIOUS
  <2>2. \A s \in {"active", "deleted"} : v[s] = Over(pol[s], own[s])
    BY <1>9, <2>1, MergedIs
  <2>3. v["active"] = None /\ v["deleted"] = None
    BY <1>12, <2>2 DEF Over
  <2> QED
    BY <1>10, <2>1, <2>3, ShorthandIs
<1>13. Valid(r)
  BY <1>4, <1>7
<1>14. Wins(r, own, pol)
  <2>1. \A s \in {"active", "deleted"}, k \in {"min", "max"} :
          /\ s \in {z \in {"active", "deleted"} : own[z] # None} /\ own[s][k] # None
               => r[s][k] = own[s][k]
          /\ (s \notin {z \in {"active", "deleted"} : own[z] # None} \/ own[s][k] = None)
             /\ s \in {z \in {"active", "deleted"} : pol[z] # None} /\ pol[s][k] # None
               => r[s][k] = pol[s][k]
    BY <1>11
  <2>2. ASSUME {z \in {"active", "deleted"} : own[z] # None} = {},
               {z \in {"active", "deleted"} : pol[z] # None} = {}
        PROVE  r.deleted = [min |-> r.active.min, max |-> None]
    <3>1. \A s \in {"active", "deleted"} : own[s] = None /\ pol[s] = None
      BY <2>2
    <3> QED
      BY <1>12, <3>1
  <2> QED
    BY <1>13, <2>1, <2>2 DEF Wins
<1> QED
  BY <1>3, <1>6, <1>8, <1>14

-----------------------------------------------------------------------------
(* What is accepted                                                        *)

LEMMA CyclesHold == ASSUME LoadingAssumption, LoadInv PROVE CyclesFound
<1>1. ASSUME check \in {"roots", "outputs", "accepted"}, NEW t \in Given
      PROVE  ~Reaches(t.name, t.name)
  <2>1. /\ config \in Configs /\ DoneInv /\ GivenNames \subseteq done
    BY <1>1 DEF LoadInv, Checked
  <2>2. PICK r : VisitRanks(r)
    BY <2>1 DEF DoneInv
  <2>3. t.name \in done
    BY <2>1 DEF GivenNames
  <2> QED
    BY <2>1, <2>2, <2>3, NoCycle
<1>2. reason = "cycle" => \E t \in Given : Reaches(t.name, t.name)
  BY DEF LoadInv
<1> QED
  BY <1>1, <1>2 DEF CyclesFound

LEMMA CollectorIs ==
    ASSUME LoadingAssumption, LoadInv, check = "accepted", NEW i \in 1..Len(config.tasks),
           config.tasks[i].type = "execute", Runs(config.tasks[i])
    PROVE  tasks[i] \in Collectors
<1>1. config \in Configs /\ TasksInv
  BY DEF LoadInv
<1>2. Len(tasks) = Len(config.tasks) /\ Stems(tasks[i], config.tasks[i]) /\ tasks[i] \in Range(tasks)
  BY <1>1, TasksAre DEF TasksInv, Checked
<1>3. tasks[i].type = "execute" /\ tasks[i].name = config.tasks[i].name
  BY <1>2, StemsSays
<1>4. PICK n : n = config.tasks[i].name
  OBVIOUS
<1>5. n \in GivenNames
  BY <1>1, <1>4, GivenIs
<1>6. Awake(n)
  <2> SUFFICES ASSUME NEW y \in Given, y.name = n \/ Reaches(n, y.name) PROVE y.enabled
    BY DEF Awake
  <2>1. CASE Reaches(n, y.name)
    BY <1>4, <2>1 DEF Runs
  <2>2. CASE y.name = n
    <3>1. PICK j \in 1..Len(config.tasks) : y = config.tasks[j]
      BY <1>1, GivenIs
    <3>2. i = j
      BY <1>1, <1>2, <1>4, <2>2, <3>1 DEF TasksInv
    <3> QED
      BY <3>1, <3>2 DEF Runs
  <2> QED
    BY <2>1, <2>2
<1>7. On[n]
  BY <1>5, <1>6, AwakeIsOn
<1> QED
  BY <1>2, <1>3, <1>4, <1>7 DEF Collectors, Active

LEMMA IndependentHolds == ASSUME LoadingAssumption, LoadInv PROVE Independent
<1> SUFFICES ASSUME check = "accepted" PROVE Independent
  BY DEF Independent
<1>1. /\ config \in Configs /\ TasksInv /\ config.root # <<>>
      /\ (config.staging # None => ~Within(config.root, config.staging))
      /\ \A t, u \in Collectors : t = u \/ Apart(t, u)
  BY DEF LoadInv
<1>2. /\ DOMAIN config.tasks = 1..Len(config.tasks)
      /\ \A i \in 1..Len(config.tasks) : config.tasks[i] \in Given
  <2>1. List(config.tasks)
    BY <1>1 DEF LoadingAssumption
  <2> QED
    BY <1>1, <2>1, ListIs, GivenIs
<1>3. Len(tasks) = Len(config.tasks) /\ \A i \in 1..Len(config.tasks) : Stems(tasks[i], config.tasks[i])
  BY <1>1 DEF TasksInv, Checked
<1>4. ASSUME NEW i \in 1..Len(config.tasks), NEW j \in 1..Len(config.tasks), i # j
      PROVE  Id(config.tasks[i]) # Id(config.tasks[j])
  BY <1>1, <1>3, <1>4 DEF TasksInv, Checked
<1>5. ASSUME NEW i \in 1..Len(config.tasks), NEW j \in 1..Len(config.tasks), i # j,
             config.tasks[i].type = "execute", config.tasks[j].type = "execute",
             Runs(config.tasks[i]), Runs(config.tasks[j])
      PROVE  ~IsPrefix(Output(config.tasks[i]), Output(config.tasks[j]))
  <2>1. tasks[i] \in Collectors /\ tasks[j] \in Collectors
    BY <1>5, CollectorIs
  <2>2. /\ tasks[i].name = config.tasks[i].name /\ tasks[j].name = config.tasks[j].name
        /\ tasks[i].output = config.tasks[i].output /\ tasks[j].output = config.tasks[j].output
    BY <1>3, StemsSays
  <2>3. config.tasks[i].name # config.tasks[j].name
    BY <1>1, <1>3, <1>5 DEF TasksInv
  <2>4. tasks[i] # tasks[j]
    BY <2>2, <2>3
  <2>5. Apart(tasks[i], tasks[j])
    BY <1>1, <2>1, <2>4
  <2>6. Output(tasks[i]) = Output(config.tasks[i]) /\ Output(tasks[j]) = Output(config.tasks[j])
    BY <2>2 DEF Output
  <2>7. ~Within(Output(config.tasks[i]), Output(config.tasks[j]))
    BY <2>5, <2>6 DEF Apart
  <2>8. List(Output(config.tasks[i])) /\ List(Output(config.tasks[j]))
    BY <1>1, <1>2, OutputList
  <2> QED
    BY <2>7, <2>8, PrefixIs
<1>6. ASSUME NEW i \in 1..Len(config.tasks), config.tasks[i].output = None,
             ~IsPrefix(Staging, config.root)
      PROVE  ~IsPrefix(config.root, Output(config.tasks[i]))
  BY <1>1, <1>2, <1>6, OutsideArchive
<1> QED
  BY <1>2, <1>4, <1>5, <1>6 DEF Independent

LEMMA LoadHolds == ASSUME LoadingAssumption, LoadInv PROVE AcceptedSound
BY CyclesHold, IndependentHolds, MostSpecificHolds DEF AcceptedSound

-----------------------------------------------------------------------------
(* The handover: what the archive task seals is what the collector of its  *)
(* own run certified, although collectors abandoned in earlier runs may     *)
(* write files and publish manifests at any time.                          *)

PrivateCopies == {None} \cup (UNION {Listed(s) : s \in CaptureScopes})
Phases == {"idle", "collect", "ended", "cover", "seal"}

HandoverTypes ==
    /\ run \in Nat /\ phase \in Phases
    /\ staging \in [CaptureFiles -> Contents \cup {None}]
    /\ collectors \subseteq [run : Nat, todo : SUBSET CaptureScopes, sections : Manifests]
    /\ manifest = None \/ manifest \in [run : Nat, sections : Manifests]
    /\ coverage \in Manifests
    /\ sealed \in [CaptureScopes -> PrivateCopies]

\* A run has one collector, which is at work at most until it is judged, and a
\* manifest with the run's number is the one this collector published.
OriginInv ==
    /\ \A c \in collectors : c.run <= run
    /\ \A c, d \in collectors : c.run = run /\ d.run = run => c = d
    /\ phase \in {"ended", "cover", "seal"} => \A c \in collectors : c.run # run
    /\ manifest # None => manifest.run <= run
    /\ OfThisRun => phase # "collect"
    /\ OfThisRun /\ phase \in {"ended", "cover", "seal"} => certified = manifest.sections

\* What the task trusts was certified, and stays so until it is stored.
VouchInv ==
    /\ phase \in {"collect", "ended", "cover"} =>
           \A s \in CaptureScopes : coverage[s].status # "complete"
    /\ \A s \in CaptureScopes : coverage[s].status = "complete" =>
           s \notin Disabled /\ certified # None /\ certified[s] = coverage[s]
    /\ \A s \in CaptureScopes : sealed[s] # None =>
           coverage[s].status = "complete" /\ sealed[s] = coverage[s].files

HandoverInv == HandoverTypes /\ OriginInv /\ VouchInv

-----------------------------------------------------------------------------
(* Sections *)

LEMMA NothingIsSections == Nothing \in Manifests
<1>1. \A s \in CaptureScopes : NoSection(s) \in Section(s)
  BY DEF NoSection, Section, Listed
<1> QED
  BY <1>1 DEF Nothing, Manifests

LEMMA NothingSealed ==
    /\ None \in PrivateCopies
    /\ \A s \in CaptureScopes : Listed(s) \subseteq PrivateCopies
BY DEF PrivateCopies

LEMMA SectionReplaced ==
    ASSUME NEW g \in Manifests, NEW s \in CaptureScopes, NEW item \in Section(s)
    PROVE  [g EXCEPT ![s] = item] \in Manifests
BY DEF Manifests

LEMMA FilesOfScope == \A s \in CaptureScopes : FilesOf[s] \subseteq CaptureFiles
BY DEF CaptureFiles

\* Coverage() leaves a complete section of the manifest as it is, or not complete.
LEMMA CoveredSections ==
    ASSUME HandoverTypes, manifest # None
    PROVE  /\ Covered(Disabled) \in Manifests
           /\ \A s \in CaptureScopes : Covered(Disabled)[s].status = "complete" =>
                  s \notin Disabled /\ Covered(Disabled)[s] = manifest.sections[s]
<1>1. manifest.sections \in Manifests
  BY DEF HandoverTypes
<1>2. ASSUME NEW s \in CaptureScopes
      PROVE  /\ Covered(Disabled)[s] \in Section(s)
             /\ Covered(Disabled)[s].status = "complete" =>
                    s \notin Disabled /\ Covered(Disabled)[s] = manifest.sections[s]
  <2> DEFINE item == manifest.sections[s]
  <2>1. item \in Section(s)
    BY <1>1 DEF Manifests
  <2>2. /\ [item EXCEPT !.status = "disabled"] \in Section(s)
        /\ [item EXCEPT !.status = "disabled"].status = "disabled"
        /\ [item EXCEPT !.status = "failed"] \in Section(s)
        /\ [item EXCEPT !.status = "failed"].status = "failed"
    BY <2>1 DEF Section
  <2>3. \/ Covered(Disabled)[s] = [item EXCEPT !.status = "disabled"]
        \/ Covered(Disabled)[s] = [item EXCEPT !.status = "failed"]
        \/ s \notin Disabled /\ Covered(Disabled)[s] = item
    BY DEF Covered
  <2> QED
    BY <2>1, <2>2, <2>3
<1> QED
  BY <1>2 DEF Covered, Manifests

-----------------------------------------------------------------------------
(* Steps of the engine *)

LEMMA HandoverStarts == ASSUME HandoverInit PROVE HandoverInv
<1>1. HandoverTypes
  BY NothingIsSections, NothingSealed DEF HandoverInit, HandoverTypes, Phases
<1>2. OriginInv
  BY DEF HandoverInit, OriginInv, OfThisRun
<1>3. VouchInv
  BY DEF HandoverInit, VouchInv, Nothing, NoSection
<1> QED
  BY <1>1, <1>2, <1>3 DEF HandoverInv

LEMMA NewRunVouch ==
    ASSUME HandoverInv, NewRun
    PROVE  VouchInv' /\ coverage' \in Manifests /\ run' \in Nat /\ sealed' \in [CaptureScopes -> PrivateCopies]
<1>1. run' = run + 1 /\ coverage' = Nothing /\ sealed' = [s \in CaptureScopes |-> None]
  BY DEF NewRun
<1>2. \A s \in CaptureScopes : coverage'[s].status = "skipped" /\ sealed'[s] = None
  BY <1>1 DEF Nothing, NoSection
<1>3. VouchInv'
  BY <1>2 DEF VouchInv
<1> QED
  BY <1>1, <1>3, NothingIsSections, NothingSealed DEF HandoverInv, HandoverTypes

LEMMA StartRunKeeps == ASSUME HandoverInv, StartRun PROVE HandoverInv'
<1> DEFINE new == [run |-> run + 1, todo |-> CaptureScopes, sections |-> Nothing]
<1>1. NewRun /\ phase' = "collect" /\ collectors' = collectors \cup {new} /\ run' = run + 1
  BY DEF StartRun, NewRun
<1>2. manifest' = None \/ manifest' = manifest
  BY DEF StartRun
<1>3. staging' \in [CaptureFiles -> Contents \cup {None}]
  BY DEF StartRun, HandoverInv, HandoverTypes
<1>4. HandoverTypes'
  BY <1>1, <1>2, <1>3, NewRunVouch, NothingIsSections
  DEF HandoverInv, HandoverTypes, Phases
<1>5. OriginInv'
  BY <1>1, <1>2 DEF HandoverInv, HandoverTypes, OriginInv, OfThisRun
<1> QED
  BY <1>1, <1>4, <1>5, NewRunVouch DEF HandoverInv

LEMMA CleaningFailsKeeps == ASSUME HandoverInv, CleaningFails PROVE HandoverInv'
<1>1. NewRun /\ phase' = "idle" /\ collectors' = collectors /\ run' = run + 1
  BY DEF CleaningFails, NewRun
<1>2. manifest' = None \/ manifest' = manifest
  BY DEF CleaningFails
<1>3. staging' \in [CaptureFiles -> Contents \cup {None}]
  BY DEF CleaningFails, HandoverInv, HandoverTypes
<1>4. HandoverTypes'
  BY <1>1, <1>2, <1>3, NewRunVouch DEF HandoverInv, HandoverTypes, Phases
<1>5. OriginInv'
  BY <1>1, <1>2 DEF HandoverInv, HandoverTypes, OriginInv, OfThisRun
<1> QED
  BY <1>1, <1>4, <1>5, NewRunVouch DEF HandoverInv

LEMMA TimeOutKeeps == ASSUME HandoverInv, TimeOut PROVE HandoverInv'
BY DEF TimeOut, HandoverInv, HandoverTypes, Phases, OriginInv, OfThisRun, VouchInv

LEMMA EndCollectorKeeps == ASSUME HandoverInv, EndCollector PROVE HandoverInv'
<1>1. phase = "ended" /\ phase' \in {"idle", "cover"}
  BY DEF EndCollector
<1>2. UNCHANGED <<run, staging, manifest, collectors, coverage, sealed, certified>>
  BY DEF EndCollector
<1> QED
  BY <1>1, <1>2 DEF HandoverInv, HandoverTypes, Phases, OriginInv, OfThisRun, VouchInv

LEMMA CoverKeeps == ASSUME HandoverAssumption, HandoverInv, Cover PROVE HandoverInv'
<1>1. phase = "cover" /\ UNCHANGED <<run, staging, manifest, collectors, sealed, certified>>
  BY DEF Cover
<1>2. \A s \in CaptureScopes : sealed[s] = None
  BY <1>1 DEF HandoverInv, VouchInv
<1>3. CASE OfThisRun
  <2>1. coverage' = Covered(Disabled) /\ phase' = "seal"
    BY <1>3 DEF Cover
  <2>2. certified = manifest.sections /\ manifest # None /\ manifest.sections \in Manifests
    BY <1>1, <1>3 DEF HandoverInv, HandoverTypes, OriginInv, OfThisRun
  <2>3. certified # None
    BY <2>2 DEF HandoverAssumption
  <2>4. HandoverTypes'
    BY <1>1, <2>1, <2>2, CoveredSections DEF HandoverInv, HandoverTypes, Phases
  <2>5. OriginInv'
    BY <1>1, <2>1 DEF HandoverInv, OriginInv, OfThisRun
  <2>6. VouchInv'
    BY <1>1, <1>2, <2>1, <2>2, <2>3, CoveredSections DEF HandoverInv, VouchInv
  <2> QED
    BY <2>4, <2>5, <2>6 DEF HandoverInv
<1>4. CASE ~OfThisRun
  BY <1>1, <1>4
  DEF Cover, HandoverInv, HandoverTypes, Phases, OriginInv, OfThisRun, VouchInv
<1> QED
  BY <1>3, <1>4

\* A copy that has the listed bytes is the listing.
LEMMA SealScopeKeeps == ASSUME HandoverInv, NEW s \in CaptureScopes, SealScope(s) PROVE HandoverInv'
<1>1. /\ phase = "seal" /\ coverage[s].status = "complete" /\ sealed[s] = None
      /\ UNCHANGED <<run, phase, staging, manifest, collectors, certified>>
  BY DEF SealScope
<1>2. coverage[s] \in Section(s)
  BY DEF HandoverInv, HandoverTypes, Manifests
<1>3. OriginInv'
  BY <1>1 DEF HandoverInv, OriginInv, OfThisRun
<1>4. CASE Seals(s, Copy(s))
  <2>1. sealed' = [sealed EXCEPT ![s] = Copy(s)] /\ coverage' = coverage
    BY <1>4 DEF SealScope
  <2>2. coverage[s].files \in Listed(s)
    BY <1>2 DEF Section
  <2>3. Copy(s) = coverage[s].files
    <3>1. DOMAIN coverage[s].files = FilesOf[s]
      BY <2>2 DEF Listed
    <3>2. \A f \in FilesOf[s] : Copy(s)[f] = coverage[s].files[f]
      BY <1>4 DEF Seals, Copy
    <3> QED
      BY <2>2, <3>1, <3>2 DEF Copy, Listed
  <2>4. HandoverTypes'
    BY <1>1, <2>1, <2>2, <2>3, NothingSealed DEF HandoverInv, HandoverTypes
  <2>5. VouchInv'
    BY <1>1, <2>1, <2>3 DEF HandoverInv, HandoverTypes, VouchInv
  <2> QED
    BY <1>3, <2>4, <2>5 DEF HandoverInv
<1>5. CASE ~Seals(s, Copy(s))
  <2> DEFINE item == [coverage[s] EXCEPT !.status = "failed"]
  <2>1. coverage' = [coverage EXCEPT ![s] = item] /\ sealed' = sealed
    BY <1>5 DEF SealScope
  <2>2. item \in Section(s) /\ item.status = "failed"
    BY <1>2 DEF Section
  <2>3. coverage' \in Manifests
    BY <2>1, <2>2, SectionReplaced DEF HandoverInv, HandoverTypes
  <2>4. /\ coverage'[s].status = "failed"
        /\ \A t \in CaptureScopes \ {s} : coverage'[t] = coverage[t]
    BY <2>1, <2>2 DEF HandoverInv, HandoverTypes, Manifests
  <2>5. HandoverTypes'
    BY <1>1, <2>1, <2>3 DEF HandoverInv, HandoverTypes
  <2>6. VouchInv'
    BY <1>1, <2>1, <2>4 DEF HandoverInv, VouchInv
  <2> QED
    BY <1>3, <2>5, <2>6 DEF HandoverInv
<1> QED
  BY <1>4, <1>5

LEMMA SealedKeeps == ASSUME HandoverInv, Sealed PROVE HandoverInv'
BY DEF Sealed, HandoverInv, HandoverTypes, Phases, OriginInv, OfThisRun, VouchInv

-----------------------------------------------------------------------------
(* Steps of the collectors *)

LEMMA WriteKeeps == ASSUME HandoverInv, NEW c \in collectors, NEW s \in CaptureScopes, Write(c, s) PROVE HandoverInv'
<1>1. UNCHANGED <<run, phase, manifest, collectors, coverage, sealed, certified>>
  BY DEF Write
<1>2. staging' \in [CaptureFiles -> Contents \cup {None}]
  BY DEF Write, HandoverInv, HandoverTypes
<1> QED
  BY <1>1, <1>2 DEF HandoverInv, HandoverTypes, OriginInv, OfThisRun, VouchInv

LEMMA CertifyScopeKeeps ==
    ASSUME HandoverInv, NEW c \in collectors, NEW s \in CaptureScopes, Certify(c, s) PROVE HandoverInv'
<1>1. UNCHANGED <<run, phase, staging, manifest, coverage, sealed, certified>>
  BY DEF Certify
<1>2. PICK status \in {"complete", "failed"} :
        collectors' = (collectors \ {c}) \cup
          {[c EXCEPT !.todo = @ \ {s}, !.sections[s] =
             [status |-> status,
              files |-> [f \in FilesOf[s] |-> IF status = "complete" THEN staging[f] ELSE None]]]}
  BY DEF Certify
<1> DEFINE item == [status |-> status,
              files |-> [f \in FilesOf[s] |-> IF status = "complete" THEN staging[f] ELSE None]]
           new  == [c EXCEPT !.todo = @ \ {s}, !.sections[s] = item]
<1>3. c \in [run : Nat, todo : SUBSET CaptureScopes, sections : Manifests]
  BY DEF HandoverInv, HandoverTypes
<1>4. item \in Section(s)
  <2>1. item.files \in Listed(s)
    BY FilesOfScope DEF HandoverInv, HandoverTypes, Listed
  <2> QED
    BY <2>1 DEF Section
<1> HIDE DEF item
<1>5. [c.sections EXCEPT ![s] = item] \in Manifests
  BY <1>3, <1>4, SectionReplaced
<1>6. new = [run |-> c.run, todo |-> c.todo \ {s},
             sections |-> [c.sections EXCEPT ![s] = item]]
  <2> DEFINE smaller == [c EXCEPT !.todo = @ \ {s}]
  <2>1. smaller = [run |-> c.run, todo |-> c.todo \ {s}, sections |-> c.sections]
    BY <1>3
  <2>2. new = [smaller EXCEPT !.sections[s] = item]
    BY <1>3
  <2> HIDE DEF smaller, new
  <2>3. smaller.sections = c.sections
    BY <2>1
  <2>4. new = [smaller EXCEPT !.sections = [c.sections EXCEPT ![s] = item]]
    BY <2>2, <2>3
  <2> QED
    BY <2>1, <2>4
<1>7. new \in [run : Nat, todo : SUBSET CaptureScopes, sections : Manifests] /\ new.run = c.run
  BY <1>3, <1>5, <1>6
<1>8. collectors' = (collectors \ {c}) \cup {new}
  BY <1>2 DEF item
<1> HIDE DEF new
<1>9. HandoverTypes'
  BY <1>1, <1>7, <1>8 DEF HandoverInv, HandoverTypes
<1>10. OriginInv'
  BY <1>1, <1>7, <1>8 DEF HandoverInv, OriginInv, OfThisRun
<1>11. VouchInv'
  BY <1>1 DEF HandoverInv, VouchInv
<1> QED
  BY <1>9, <1>10, <1>11 DEF HandoverInv

LEMMA PublishManifestKeeps ==
    ASSUME HandoverInv, NEW c \in collectors, PublishManifest(c) PROVE HandoverInv'
<1>1. /\ manifest' = [run |-> c.run, sections |-> c.sections]
      /\ collectors' = collectors \ {c}
      /\ UNCHANGED <<run, staging, coverage, sealed>>
  BY DEF PublishManifest
<1>2. c.run \in Nat /\ c.sections \in Manifests /\ c.run <= run
  BY DEF HandoverInv, HandoverTypes, OriginInv
<1>3. CASE c.run = run /\ phase = "collect"
  <2>1. phase' = "ended" /\ certified' = c.sections
    BY <1>3 DEF PublishManifest
  <2>2. \A d \in collectors' : d.run # run
    BY <1>1, <1>3 DEF HandoverInv, OriginInv
  <2>3. HandoverTypes'
    BY <1>1, <1>2, <2>1 DEF HandoverInv, HandoverTypes, Phases
  <2>4. OriginInv'
    BY <1>1, <1>2, <2>1, <2>2 DEF HandoverInv, OriginInv, OfThisRun
  <2>5. VouchInv'
    BY <1>1, <1>3, <2>1 DEF HandoverInv, VouchInv
  <2> QED
    BY <2>3, <2>4, <2>5 DEF HandoverInv
<1>4. CASE ~(c.run = run /\ phase = "collect")
  <2>1. UNCHANGED <<phase, certified>>
    BY <1>4 DEF PublishManifest
  <2>2. HandoverTypes'
    BY <1>1, <1>2, <2>1 DEF HandoverInv, HandoverTypes
  <2>3. OriginInv'
    BY <1>1, <1>2, <1>4, <2>1 DEF HandoverInv, HandoverTypes, OriginInv, OfThisRun
  <2>4. VouchInv'
    BY <1>1, <2>1 DEF HandoverInv, VouchInv
  <2> QED
    BY <2>2, <2>3, <2>4 DEF HandoverInv
<1> QED
  BY <1>3, <1>4

LEMMA EndUnpublishedKeeps ==
    ASSUME HandoverInv, NEW c \in collectors, EndUnpublished(c) PROVE HandoverInv'
<1>1. /\ collectors' = collectors \ {c}
      /\ UNCHANGED <<run, staging, manifest, coverage, sealed, certified>>
  BY DEF EndUnpublished
<1>2. CASE c.run = run /\ phase = "collect"
  <2>1. phase' = "ended"
    BY <1>2 DEF EndUnpublished
  <2>2. HandoverTypes'
    BY <1>1, <2>1 DEF HandoverInv, HandoverTypes, Phases
  <2>3. OriginInv'
    BY <1>1, <1>2, <2>1 DEF HandoverInv, OriginInv, OfThisRun
  <2>4. VouchInv'
    BY <1>1, <1>2, <2>1 DEF HandoverInv, VouchInv
  <2> QED
    BY <2>2, <2>3, <2>4 DEF HandoverInv
<1>3. CASE ~(c.run = run /\ phase = "collect")
  <2>1. phase' = phase
    BY <1>3 DEF EndUnpublished
  <2> QED
    BY <1>1, <2>1 DEF HandoverInv, HandoverTypes, OriginInv, OfThisRun, VouchInv
<1> QED
  BY <1>2, <1>3

-----------------------------------------------------------------------------
LEMMA HandoverSteps == ASSUME HandoverAssumption, HandoverInv, [HandoverNext]_hvars PROVE HandoverInv'
<1>1. CASE UNCHANGED hvars
  BY <1>1 DEF hvars, HandoverInv, HandoverTypes, OriginInv, OfThisRun, VouchInv
<1>2. CASE HandoverNext
  BY <1>2, StartRunKeeps, CleaningFailsKeeps, TimeOutKeeps, EndCollectorKeeps, CoverKeeps,
     SealedKeeps, PublishManifestKeeps, EndUnpublishedKeeps, WriteKeeps, CertifyScopeKeeps, SealScopeKeeps
  DEF HandoverNext
<1> QED
  BY <1>1, <1>2

LEMMA HandoverHolds == HandoverInv => OnlyCertified
<1> SUFFICES ASSUME HandoverInv, NEW s \in CaptureScopes, sealed[s] # None
             PROVE  /\ coverage[s].status = "complete" /\ s \notin Disabled
                    /\ certified # None
                    /\ certified[s] = [status |-> "complete", files |-> sealed[s]]
  BY DEF OnlyCertified
<1>1. coverage[s] \in Section(s)
  BY DEF HandoverInv, HandoverTypes, Manifests
<1>2. coverage[s] = [status |-> coverage[s].status, files |-> coverage[s].files]
  BY <1>1 DEF Section
<1> QED
  BY <1>2 DEF HandoverInv, VouchInv

-----------------------------------------------------------------------------
(* The PostgreSQL collector                                                *)

\* Paths that differ in a part they both have: neither lies under the other.
Differ(p, q) == \E i \in 1..Len(p) : i <= Len(q) /\ p[i] # q[i]

\* What lies under a database, and what is not of the databases at all.
OfDatabase(p, d) == p[1] = "databases" /\ p[2] = d
Placed(p) ==
    /\ Len(p) \in Nat /\ Len(p) > 0
    /\ p[1] \in {"cluster", "config", "databases"}
    /\ p[1] = "databases" => Len(p) > 1

\* The kinds of outputs a database has by the time it has come to a step, each
\* in the form its files have.
KindsBy(here) ==
    CASE here \in {"audit", "identity"} -> {}
      [] here = "schema" -> {"database"}
      [] here = "inventory" -> {"database", "schema"}
      [] here \in {"optional", "objects"} -> {"database", "schema", "inventory"}
      [] here = "schedulers" -> {"database", "schema", "inventory", "objects"}
      [] here = "telemetry" -> {"database", "schema", "inventory", "objects", "schedulers", "adapters"}
      [] OTHER -> {"database", "schema", "inventory", "objects", "schedulers"}

Expected(p, here) ==
    /\ Len(p) > 2 /\ p[3] \in KindsBy(here)
    /\ p[3] = "inventory" =>
         /\ Len(p) = 4 /\ p = <<"databases", p[2], "inventory", p[4]>>
         /\ here = "optional" => p[4] \in Queries

Left == {Databases[i] : i \in todo}
Told(S) == {s.path : s \in S}
Failed(S) == \E s \in S : s.status = "failed"

\* A complete section is a file, or a group all of whose files are there.
WholeIn(p, fs) ==
    \/ p \in fs
    \/ /\ Len(p) = 3 /\ p[3] \in DOMAIN Reads
       /\ \A r \in Reads[p[3]] : p \o <<r>> \in fs

Entered(S) ==
    /\ \A s \in S : Placed(s.path) /\ (s.status = "complete" => WholeIn(s.path, pgFiles))
    /\ \A s, t \in S : s # t => Differ(s.path, t.path)
    /\ Failed(S) => pgFailures # {}
    /\ \A s \in S, d \in Left : ~OfDatabase(s.path, d)
    /\ \A d \in selected : d \in Left \/ d = db \/ Of(d) \in Told(S)
                             \/ \A q \in Queries \cup Optional : In(d, <<"inventory", q>>) \in Told(S)

DatabaseSteps == {"audit", "identity", "schema", "inventory", "optional", "objects", "schedulers",
                  "certify", "adapters", "telemetry"}

\* Which database is being collected, and what it has got so far.
CurrentInv ==
    /\ IF db = None THEN step \in {"cluster", "raw", "next"}
       ELSE step \in DatabaseSteps /\ db \in DatabaseNames \ Left
    /\ step = "cluster" => sections = {} /\ pgFailures = {} /\ pgFiles = {}
    /\ step = "raw" => Told(sections) = Cluster
    /\ \A p \in pgFiles : Placed(p) /\ \A d \in Left : ~OfDatabase(p, d)
    /\ db # None =>
         /\ Entered(checkpoint) /\ \A s \in checkpoint : ~OfDatabase(s.path, db)
         /\ \A p \in Told(sections) \cup pgFiles : OfDatabase(p, db) => Expected(p, step)

\* What of the inventory is entered, or about to be.
InventoryInv ==
    /\ step \in {"optional", "objects", "schedulers", "certify", "adapters", "telemetry"} =>
           InventoryFiles(Queries) \subseteq Told(sections)
    /\ step \in {"objects", "schedulers", "certify"} =>
           InventoryFiles(Optional) \subseteq pgFiles \cup pgFailures \cup Told(sections)
    /\ step \in {"adapters", "telemetry"} => InventoryFiles(Optional) \subseteq Told(sections)
    /\ pgFailures # {} =>
         \/ Failed(sections)
         \/ /\ step \in {"objects", "schedulers", "certify"}
            /\ \E p \in InventoryFiles(Optional) : p \in pgFailures \ (pgFiles \cup Told(sections))

RunningInv ==
    /\ todo \subseteq 1..Len(Databases) /\ selected \subseteq DatabaseNames
    /\ Entered(sections) /\ CurrentInv /\ InventoryInv

PgInv == /\ pgCode = "running" => RunningInv /\ ~pgManifest.finalized
         /\ ManifestHonest

-----------------------------------------------------------------------------

LEMMA Joins ==
    ASSUME NEW S, NEW first \in Seq(S), NEW second \in Seq(S)
    PROVE  /\ first \o second \in Seq(S) /\ Len(first \o second) = Len(first) + Len(second)
           /\ \A i \in 1..Len(first) : (first \o second)[i] = first[i]
           /\ \A i \in 1..Len(second) : (first \o second)[Len(first) + i] = second[i]
  OBVIOUS

LEMMA TwoAndOne == \A a, b, x : <<a, b>> \o <<x>> = <<a, b, x>>
<1> TAKE a, b, x
<1>1. <<a, b>> \in Seq({a, b, x}) /\ <<x>> \in Seq({a, b, x})
  OBVIOUS
<1> DEFINE s == <<a, b>> \o <<x>>
<1>2. s \in Seq({a, b, x}) /\ Len(s) = 3
  BY <1>1, Joins
<1>3. s[1] = a /\ s[2] = b /\ s[3] = x
  OBVIOUS
<1> HIDE DEF s
<1>4. s = <<s[1], s[2], s[3]>>
  BY <1>2
<1> QED
  BY <1>3, <1>4 DEF s
LEMMA TwoAndTwo == \A a, b, x, y : <<a, b>> \o <<x, y>> = <<a, b, x, y>>
<1> TAKE a, b, x, y
<1>1. <<a, b>> \in Seq({a, b, x, y}) /\ <<x, y>> \in Seq({a, b, x, y})
  OBVIOUS
<1> DEFINE s == <<a, b>> \o <<x, y>>
<1>2. s \in Seq({a, b, x, y}) /\ Len(s) = 4
  BY <1>1, Joins
<1>3. s[1] = a /\ s[2] = b /\ s[3] = x /\ s[4] = y
  OBVIOUS
<1> HIDE DEF s
<1>4. s = <<s[1], s[2], s[3], s[4]>>
  BY <1>2
<1> QED
  BY <1>3, <1>4 DEF s
LEMMA ThreeAndOne == \A a, b, x, y : <<a, b, x>> \o <<y>> = <<a, b, x, y>>
<1> TAKE a, b, x, y
<1>1. <<a, b, x>> \in Seq({a, b, x, y}) /\ <<y>> \in Seq({a, b, x, y})
  OBVIOUS
<1> DEFINE s == <<a, b, x>> \o <<y>>
<1>2. s \in Seq({a, b, x, y}) /\ Len(s) = 4
  BY <1>1, Joins
<1>3. s[1] = a /\ s[2] = b /\ s[3] = x /\ s[4] = y
  OBVIOUS
<1> HIDE DEF s
<1>4. s = <<s[1], s[2], s[3], s[4]>>
  BY <1>2
<1> QED
  BY <1>3, <1>4 DEF s
LEMMA FourAndOne == \A a, b, x, y, z : <<a, b, x, y>> \o <<z>> = <<a, b, x, y, z>>
<1> TAKE a, b, x, y, z
<1>1. <<a, b, x, y>> \in Seq({a, b, x, y, z}) /\ <<z>> \in Seq({a, b, x, y, z})
  OBVIOUS
<1> DEFINE s == <<a, b, x, y>> \o <<z>>
<1>2. s \in Seq({a, b, x, y, z}) /\ Len(s) = 5
  BY <1>1, Joins
<1>3. s[1] = a /\ s[2] = b /\ s[3] = x /\ s[4] = y /\ s[5] = z
  OBVIOUS
<1> HIDE DEF s
<1>4. s = <<s[1], s[2], s[3], s[4], s[5]>>
  BY <1>2
<1> QED
  BY <1>3, <1>4 DEF s

LEMMA DatabasePaths ==
    /\ \A d : Of(d) = <<"databases", d>>
    /\ \A d, x : In(d, <<x>>) = <<"databases", d, x>>
    /\ \A d, x, y : In(d, <<x, y>>) = <<"databases", d, x, y>>
    /\ \A d, x, y : In(d, <<x>>) \o <<y>> = <<"databases", d, x, y>>
    /\ \A d, x, y, z : In(d, <<x, y>>) \o <<z>> = <<"databases", d, x, y, z>>
<1>1. \A d : Of(d) = <<"databases", d>>
  BY DEF Of
<1>2. \A d, x : In(d, <<x>>) = <<"databases", d, x>>
  BY <1>1, TwoAndOne DEF In
<1>3. \A d, x, y : In(d, <<x, y>>) = <<"databases", d, x, y>>
  BY <1>1, TwoAndTwo DEF In
<1>4. \A d, x, y : In(d, <<x>>) \o <<y>> = <<"databases", d, x, y>>
  BY <1>2, ThreeAndOne, ZenonT(30)
<1>5. \A d, x, y, z : In(d, <<x, y>>) \o <<z>> = <<"databases", d, x, y, z>>
  <2> TAKE d, x, y, z
  <2>1. In(d, <<x, y>>) = <<"databases", d, x, y>>
    BY <1>3
  <2> QED
    BY <2>1, FourAndOne, Zenon
<1> QED
  BY <1>1, <1>2, <1>3, <1>4, <1>5

LEMMA OfIs ==
    ASSUME NEW d
    PROVE  /\ Placed(Of(d)) /\ Len(Of(d)) = 2
           /\ \A e : OfDatabase(Of(d), e) <=> d = e
<1> DEFINE p == Of(d)
<1>1. p = <<"databases", d>>
  BY DatabasePaths
<1> HIDE DEF p
<1>2. Len(p) = 2 /\ p[1] = "databases" /\ p[2] = d
  BY <1>1
<1>3. Placed(p) /\ \A e : OfDatabase(p, e) <=> d = e
  BY <1>2 DEF Placed, OfDatabase
<1> QED
  BY <1>2, <1>3 DEF p

LEMMA KindIs ==
    ASSUME NEW d, NEW x
    PROVE  /\ Placed(In(d, <<x>>)) /\ Len(In(d, <<x>>)) = 3
           /\ In(d, <<x>>)[3] = x
           /\ \A e : OfDatabase(In(d, <<x>>), e) <=> d = e
<1> DEFINE p == In(d, <<x>>)
<1>1. p = <<"databases", d, x>>
  BY DatabasePaths
<1> HIDE DEF p
<1>2. Len(p) = 3 /\ p[1] = "databases" /\ p[2] = d /\ p[3] = x
  BY <1>1
<1>3. Placed(p) /\ \A e : OfDatabase(p, e) <=> d = e
  BY <1>2 DEF Placed, OfDatabase
<1> QED
  BY <1>2, <1>3 DEF p

LEMMA OutputIs ==
    ASSUME NEW d, NEW x, NEW y
    PROVE  /\ Placed(In(d, <<x, y>>)) /\ Len(In(d, <<x, y>>)) = 4
           /\ In(d, <<x, y>>)[3] = x /\ In(d, <<x, y>>)[4] = y
           /\ \A e : OfDatabase(In(d, <<x, y>>), e) <=> d = e
<1> DEFINE p == In(d, <<x, y>>)
<1>1. p = <<"databases", d, x, y>>
  BY DatabasePaths
<1> HIDE DEF p
<1>2. Len(p) = 4 /\ p[1] = "databases" /\ p[2] = d /\ p[3] = x /\ p[4] = y
  BY <1>1
<1>3. Placed(p) /\ \A e : OfDatabase(p, e) <=> d = e
  BY <1>2 DEF Placed, OfDatabase
<1> QED
  BY <1>2, <1>3 DEF p

LEMMA FileIs ==
    ASSUME NEW d, NEW x, NEW y, NEW z
    PROVE  /\ Placed((In(d, <<x, y>>) \o <<z>>)) /\ Len((In(d, <<x, y>>) \o <<z>>)) = 5
           /\ (In(d, <<x, y>>) \o <<z>>)[3] = x /\ (In(d, <<x, y>>) \o <<z>>)[4] = y /\ (In(d, <<x, y>>) \o <<z>>)[5] = z
           /\ \A e : OfDatabase((In(d, <<x, y>>) \o <<z>>), e) <=> d = e
<1> DEFINE p == (In(d, <<x, y>>) \o <<z>>)
<1>1. p = <<"databases", d, x, y, z>>
  BY DatabasePaths
<1> HIDE DEF p
<1>2. Len(p) = 5 /\ p[1] = "databases" /\ p[2] = d /\ p[3] = x /\ p[4] = y /\ p[5] = z
  BY <1>1
<1>3. Placed(p) /\ \A e : OfDatabase(p, e) <=> d = e
  BY <1>2 DEF Placed, OfDatabase
<1> QED
  BY <1>2, <1>3 DEF p

LEMMA PartIs == ASSUME NEW d, NEW x, NEW y PROVE In(d, <<x>>) \o <<y>> = In(d, <<x, y>>)
<1>1. In(d, <<x, y>>) = <<"databases", d, x, y>>
  BY DatabasePaths
<1>2. In(d, <<x>>) \o <<y>> = <<"databases", d, x, y>>
  BY DatabasePaths
<1> QED
  BY <1>1, <1>2, Zenon

LEMMA DifferSymmetric ==
    ASSUME NEW p, NEW q, Len(p) \in Nat, Len(q) \in Nat, Differ(p, q) PROVE Differ(q, p)
BY DEF Differ

\* Paths of two databases, or of a database and the cluster.
LEMMA OtherDatabase ==
    ASSUME NEW p, NEW q, NEW d, Placed(p), Placed(q), OfDatabase(p, d), ~OfDatabase(q, d)
    PROVE  Differ(p, q)
<1>1. CASE q[1] # "databases"
  BY <1>1 DEF Placed, OfDatabase, Differ
<1>2. CASE q[1] = "databases"
  BY <1>2 DEF Placed, OfDatabase, Differ
<1> QED
  BY <1>1, <1>2

\* The first output of a kind lies apart from what has been entered.
LEMMA NewKind ==
    ASSUME RunningInv, db # None, NEW p, Placed(p), OfDatabase(p, db), Len(p) > 2,
           p[3] \notin KindsBy(step), NEW t \in sections
    PROVE  Differ(p, t.path)
<1>1. Placed(t.path)
  BY DEF RunningInv, Entered
<1>2. CASE OfDatabase(t.path, db)
  <2>1. Len(t.path) > 2 /\ t.path[3] \in KindsBy(step)
    BY <1>2 DEF RunningInv, CurrentInv, Expected, Told
  <2> QED
    BY <1>1, <2>1 DEF Placed, Differ
<1> QED
  BY <1>1, <1>2, OtherDatabase

LEMMA WholeStays ==
    ASSUME NEW p, NEW S, NEW T, S \subseteq T, WholeIn(p, S) PROVE WholeIn(p, T)
BY DEF WholeIn

\* What a step enters, within the database being collected.
DatabaseEnters(new) ==
    /\ sections' = sections \cup new
    /\ pgFiles \subseteq pgFiles' /\ pgFailures \subseteq pgFailures'
    /\ \A s \in new : /\ Placed(s.path) /\ OfDatabase(s.path, db)
                      /\ s.status = "complete" => WholeIn(s.path, pgFiles')
                      /\ s.status = "failed" => pgFailures' # {}
    /\ \A p \in pgFiles' \ pgFiles : Placed(p) /\ OfDatabase(p, db)
    /\ \A s \in new : \A t \in sections \cup new : s # t => Differ(s.path, t.path)

LEMMA EnteredStays ==
    ASSUME PostgresAssumption, RunningInv, db # None, UNCHANGED <<selected, todo>>,
           db' \in {db, None}, NEW new, DatabaseEnters(new),
           \/ db' = db
           \/ \A q \in Queries \cup Optional : In(db, <<"inventory", q>>) \in Told(sections')
    PROVE  Entered(sections)'
<1> USE DEF RunningInv, Entered
<1>0. /\ sections' = sections \cup new /\ Left' = Left /\ selected' = selected
      /\ pgFiles \subseteq pgFiles' /\ pgFailures \subseteq pgFailures'
  BY DEF DatabaseEnters, Left
<1>1. \A s \in sections' : Placed(s.path) /\ (s.status = "complete" => WholeIn(s.path, pgFiles'))
  BY <1>0, WholeStays DEF DatabaseEnters
<1>2. \A s, t \in sections' : s # t => Differ(s.path, t.path)
  <2>1. \A s \in sections : \A t \in new : s # t => Differ(s.path, t.path)
    BY <1>0, <1>1, DifferSymmetric DEF DatabaseEnters, Placed
  <2> QED
    BY <1>0, <2>1 DEF DatabaseEnters
<1>3. Failed(sections') => pgFailures' # {}
  BY <1>0 DEF DatabaseEnters, Failed
<1>4. \A s \in sections', d \in Left' : ~OfDatabase(s.path, d)
  <2>1. db \notin Left
    BY DEF CurrentInv
  <2> QED
    BY <1>0, <2>1 DEF DatabaseEnters, OfDatabase
<1>5. Told(sections) \subseteq Told(sections')
  BY <1>0 DEF Told
<1>6. \A d \in selected' : d \in Left' \/ d = db' \/ Of(d) \in Told(sections')
                     \/ \A q \in Queries \cup Optional : In(d, <<"inventory", q>>) \in Told(sections')
  BY <1>0, <1>5
<1> HIDE DEF RunningInv
<1> QED
  BY <1>1, <1>2, <1>3, <1>4, <1>6 DEF WholeIn, Told

\* A step within a database that leaves what is expected then.
LEMMA DatabaseGoesOn ==
    ASSUME PostgresAssumption, RunningInv, db # None,
           UNCHANGED <<selected, todo, db, checkpoint>>,
           step' \in DatabaseSteps, NEW new, DatabaseEnters(new),
           \A p \in Told(sections') \cup pgFiles' : OfDatabase(p, db) => Expected(p, step')
    PROVE  Entered(sections)' /\ CurrentInv' /\ (todo \subseteq 1..Len(Databases) /\ selected \subseteq DatabaseNames)'
<1>0. Entered(sections)'
  BY EnteredStays
<1>1. Left' = Left /\ db \notin Left
  BY DEF Left, RunningInv, CurrentInv
<1>2. \A p \in pgFiles' : Placed(p) /\ \A d \in Left : ~OfDatabase(p, d)
  BY <1>1 DEF RunningInv, CurrentInv, DatabaseEnters, OfDatabase
<1>3. Entered(checkpoint)'
  <2> USE DEF RunningInv, CurrentInv, Entered
  <2>1. \A s \in checkpoint : s.status = "complete" => WholeIn(s.path, pgFiles')
    BY WholeStays DEF DatabaseEnters
  <2>2. Failed(checkpoint) => pgFailures' # {}
    BY DEF DatabaseEnters, Failed
  <2>3. Told(checkpoint)' = Told(checkpoint)
    BY DEF Told
  <2> QED
    BY <1>1, <2>1, <2>2, <2>3 DEF Failed, WholeIn
<1>4. step' \notin {"cluster", "raw"} /\ step' \in DatabaseSteps
  BY DEF DatabaseSteps
<1>5. \A s \in checkpoint : ~OfDatabase(s.path, db)
  BY DEF RunningInv, CurrentInv
<1>6. db \in DatabaseNames \ Left
  BY DEF RunningInv, CurrentInv
<1> QED
  BY <1>0, <1>1, <1>2, <1>3, <1>4, <1>5, <1>6
  DEF CurrentInv, RunningInv, DatabaseNames, Told, Expected

\* A step of which the inventory can tell what it did.
LEMMA DatabaseKeeps ==
    ASSUME PostgresAssumption, RunningInv, db # None,
           UNCHANGED <<selected, todo, db, checkpoint>>,
           step' \in DatabaseSteps, NEW new, DatabaseEnters(new),
           \A p \in Told(sections') \cup pgFiles' : OfDatabase(p, db) => Expected(p, step'),
           InventoryInv'
    PROVE  RunningInv'
<1>1. Entered(sections)' /\ CurrentInv' /\ (todo \subseteq 1..Len(Databases) /\ selected \subseteq DatabaseNames)'
  BY DatabaseGoesOn
<1> QED
  BY <1>1 DEF RunningInv

\* What capture_file enters of its outputs.
Certifies(ps, new) ==
    /\ sections' = sections \cup new
    /\ Told(new) = ps
    /\ \A s \in new : /\ s.status = "complete" => s.path \in pgFiles'
                      /\ s.status = "failed" => s.path \in pgFailures'
    /\ \A s, t \in new : s # t => s.path # t.path
    /\ pgFiles \subseteq pgFiles' /\ pgFiles' \subseteq pgFiles \cup ps
    /\ pgFailures \subseteq pgFailures'
    /\ pgFailures' # {} => pgFailures # {} \/ Failed(new)

LEMMA CapturedIs ==
    ASSUME NEW ps, NEW group, NEW lost
    PROVE  /\ Told(Captured(ps, group, lost)) = ps
           /\ \A s, t \in Captured(ps, group, lost) : s # t => s.path # t.path
           /\ \A s \in Captured(ps, group, lost) : s.status \in {"disabled", "failed", "complete"}
<1> DEFINE how(p) == IF ~PgEnabled(p, group[p]) THEN "disabled"
                     ELSE IF p \in lost \/ Collides(p) THEN "failed" ELSE "complete"
<1>1. Captured(ps, group, lost) = {[path |-> p, status |-> how(p)] : p \in ps}
  BY DEF Captured, Item
<1>2. \A p : how(p) \in {"disabled", "failed", "complete"}
  OBVIOUS
<1> HIDE DEF how
<1>3. \A s \in Captured(ps, group, lost) : s.path \in ps /\ s.status = how(s.path)
                                          /\ s = [path |-> s.path, status |-> s.status]
  BY <1>1
<1>4. \A p \in ps : \E s \in Captured(ps, group, lost) : s.path = p
  <2> TAKE p \in ps
  <2>1. [path |-> p, status |-> how(p)] \in Captured(ps, group, lost)
    BY <1>1
  <2> QED
    BY <2>1
<1>5. Told(Captured(ps, group, lost)) = ps
  BY <1>3, <1>4 DEF Told
<1> QED
  BY <1>2, <1>3, <1>5

LEMMA Captures ==
    ASSUME NEW ps, NEW group, NEW then, Capture(ps, group, then)
    PROVE  /\ \E new : Certifies(ps, new)
           /\ step' = then /\ UNCHANGED <<selected, todo, db, checkpoint, pgManifest, pgCode>>
<1>1. PICK lost \in SUBSET {p \in ps : PgEnabled(p, group[p])} :
          /\ sections' = sections \cup Captured(ps, group, lost)
          /\ pgFailures' = pgFailures \cup With(Captured(ps, group, lost), "failed")
          /\ pgFiles' = pgFiles \cup With(Captured(ps, group, lost), "complete")
  BY DEF Capture
<1> DEFINE new == Captured(ps, group, lost)
<1>2. /\ Told(new) = ps
      /\ \A s, t \in new : s # t => s.path # t.path
  BY CapturedIs
<1> HIDE DEF new
<1>3. Certifies(ps, new)
  BY <1>1, <1>2 DEF Certifies, With, Told, Failed, new
<1> QED
  BY <1>3 DEF Capture

LEMMA DatabaseCaptures ==
    ASSUME PostgresAssumption, RunningInv, db # None, NEW ps, NEW new, Certifies(ps, new),
           \A p \in ps : /\ Placed(p) /\ OfDatabase(p, db) /\ Len(p) > 2
                         /\ p[3] \notin KindsBy(step),
           \A p, q \in ps : p # q => Differ(p, q)
    PROVE  DatabaseEnters(new)
<1> USE DEF Certifies
<1>1. \A s \in new : s.path \in ps
  BY DEF Told
<1>2. \A s \in new : /\ Placed(s.path) /\ OfDatabase(s.path, db)
                     /\ s.status = "complete" => WholeIn(s.path, pgFiles')
                     /\ s.status = "failed" => pgFailures' # {}
  BY <1>1 DEF WholeIn
<1>3. \A s \in new : \A t \in sections : Differ(s.path, t.path)
  BY <1>1, NewKind
<1>4. \A s, t \in new : s # t => Differ(s.path, t.path)
  BY <1>1
<1>5. \A p \in pgFiles' \ pgFiles : Placed(p) /\ OfDatabase(p, db)
  OBVIOUS
<1> QED
  BY <1>2, <1>3, <1>4, <1>5 DEF DatabaseEnters

LEMMA NotCollecting == ASSUME RunningInv, step \in DatabaseSteps PROVE db # None
BY DEF RunningInv, CurrentInv, DatabaseSteps

LEMMA IdentityKeeps == ASSUME PostgresAssumption, RunningInv, Identity PROVE RunningInv'
<1>0. step = "identity" /\ db # None
  BY NotCollecting DEF Identity, PgAt, DatabaseSteps
<1> DEFINE ps == {In(db, <<"database">>)}
<1>1. /\ \E new : Certifies(ps, new)
      /\ step' = "schema" /\ UNCHANGED <<selected, todo, db, checkpoint>>
  BY Captures DEF Identity
<1>2. PICK new : Certifies(ps, new)
  BY <1>1
<1>3. \A p \in ps : /\ Placed(p) /\ OfDatabase(p, db) /\ Len(p) = 3 /\ p[3] = "database"
  BY KindIs
<1> HIDE DEF ps
<1>4. DatabaseEnters(new)
  BY <1>0, <1>2, <1>3, DatabaseCaptures DEF KindsBy, ps
<1>5. Told(sections') = Told(sections) \cup ps
  BY <1>2 DEF Certifies, Told
<1>6. \A p \in Told(sections') \cup pgFiles' : OfDatabase(p, db) => Expected(p, "schema")
  <2> SUFFICES ASSUME NEW p \in Told(sections) \cup pgFiles \cup ps, OfDatabase(p, db)
               PROVE  Expected(p, "schema")
    BY <1>2, <1>5 DEF Certifies
  <2>1. CASE p \in ps
    BY <1>3, <2>1 DEF Expected, KindsBy
  <2>2. CASE p \notin ps
    BY <1>0, <2>2 DEF RunningInv, CurrentInv, Expected, KindsBy
  <2> QED
    BY <2>1, <2>2
<1>7. InventoryInv'
  BY <1>0, <1>1, <1>2 DEF InventoryInv, RunningInv, Certifies, Failed
<1> QED
  BY <1>0, <1>1, <1>4, <1>6, <1>7, DatabaseKeeps DEF DatabaseSteps

LEMMA InventoryIs ==
    ASSUME NEW queries
    PROVE  /\ \A p \in InventoryFiles(queries) :
                /\ Placed(p) /\ OfDatabase(p, db) /\ Len(p) = 4 /\ p[3] = "inventory"
                /\ p[4] \in queries /\ p = <<"databases", p[2], "inventory", p[4]>>
           /\ \A p, q \in InventoryFiles(queries) : p # q => Differ(p, q)
           /\ \A q \in queries : In(db, <<"inventory", q>>) \in InventoryFiles(queries)
           /\ \A p \in InventoryFiles(queries) : p = In(db, <<"inventory", p[4]>>)
<1>1. ASSUME NEW p \in InventoryFiles(queries)
      PROVE  /\ Placed(p) /\ OfDatabase(p, db) /\ Len(p) = 4 /\ p[3] = "inventory"
             /\ p[4] \in queries /\ p = <<"databases", p[2], "inventory", p[4]>>
             /\ p = In(db, <<"inventory", p[4]>>)
  <2>1. PICK q \in queries : p = In(db, <<"inventory", q>>)
    BY DEF InventoryFiles
  <2>2. Placed(p) /\ OfDatabase(p, db) /\ Len(p) = 4 /\ p[3] = "inventory" /\ p[4] = q
    BY <2>1, OutputIs
  <2>3. p = <<"databases", db, "inventory", q>>
    BY <2>1, DatabasePaths
  <2> QED
    BY <2>1, <2>2, <2>3 DEF OfDatabase
<1>2. ASSUME NEW p \in InventoryFiles(queries), NEW q \in InventoryFiles(queries), p # q
      PROVE  Differ(p, q)
  <2>1. p = In(db, <<"inventory", p[4]>>) /\ q = In(db, <<"inventory", q[4]>>)
    BY <1>1
  <2>2. p[4] # q[4]
    BY <1>2, <2>1
  <2>3. Len(p) = 4 /\ Len(q) = 4
    BY <1>1
  <2> QED
    BY <2>2, <2>3 DEF Differ
<1> QED
  BY <1>1, <1>2 DEF InventoryFiles

LEMMA InventoryGoesOn == ASSUME PostgresAssumption, RunningInv, Inventory PROVE RunningInv'
<1>0. step = "inventory" /\ db # None
  BY NotCollecting DEF Inventory, PgAt, DatabaseSteps
<1> DEFINE ps == InventoryFiles(Queries)
<1>1. /\ \E new : Certifies(ps, new)
      /\ step' = "optional" /\ UNCHANGED <<selected, todo, db, checkpoint>>
  BY Captures DEF Inventory
<1>2. PICK new : Certifies(ps, new)
  BY <1>1
<1>3. \A p \in ps : /\ Placed(p) /\ OfDatabase(p, db) /\ Len(p) = 4 /\ p[3] = "inventory"
                    /\ p[4] \in Queries /\ p = <<"databases", p[2], "inventory", p[4]>>
  BY InventoryIs
<1>4. \A p, q \in ps : p # q => Differ(p, q)
  BY InventoryIs
<1> HIDE DEF ps
<1>5. DatabaseEnters(new)
  BY <1>0, <1>2, <1>3, <1>4, DatabaseCaptures DEF KindsBy
<1>6. Told(sections') = Told(sections) \cup ps
  BY <1>2 DEF Certifies, Told
<1>7. \A p \in Told(sections') \cup pgFiles' : OfDatabase(p, db) => Expected(p, "optional")
  <2> SUFFICES ASSUME NEW p \in Told(sections) \cup pgFiles \cup ps, OfDatabase(p, db)
               PROVE  Expected(p, "optional")
    BY <1>2, <1>6 DEF Certifies
  <2>1. CASE p \in ps
    BY <1>3, <2>1 DEF Expected, KindsBy
  <2>2. CASE p \notin ps
    BY <1>0, <2>2 DEF RunningInv, CurrentInv, Expected, KindsBy
  <2> QED
    BY <2>1, <2>2
<1>8. InventoryInv'
  <2>1. (InventoryFiles(Queries) \subseteq Told(sections))'
    BY <1>1, <1>6 DEF ps, InventoryFiles, In, Of
  <2>2. (pgFailures # {} => Failed(sections))'
    BY <1>0, <1>2 DEF InventoryInv, RunningInv, Certifies, Failed
  <2> QED
    BY <1>1, <2>1, <2>2 DEF InventoryInv
<1> QED
  BY <1>0, <1>1, <1>5, <1>7, <1>8, DatabaseKeeps DEF DatabaseSteps

LEMMA AuditKeeps == ASSUME PostgresAssumption, RunningInv, Audit PROVE RunningInv'
<1>0. step = "audit" /\ db # None
  BY NotCollecting DEF Audit, PgAt, DatabaseSteps
<1>1. UNCHANGED <<selected, todo, db, checkpoint, sections, pgFiles, pgFailures>> /\ step' = "identity"
  BY DEF Audit
<1>2. DatabaseEnters({})
  BY <1>1 DEF DatabaseEnters
<1>3. \A p \in Told(sections') \cup pgFiles' : OfDatabase(p, db) => Expected(p, "identity")
  BY <1>0, <1>1 DEF RunningInv, CurrentInv, Expected, KindsBy, Told
<1>4. InventoryInv'
  BY <1>0, <1>1 DEF InventoryInv, RunningInv, Failed
<1> QED
  BY <1>0, <1>1, <1>2, <1>3, <1>4, DatabaseKeeps DEF DatabaseSteps

LEMMA DumpSchemaKeeps == ASSUME PostgresAssumption, RunningInv, DumpSchema PROVE RunningInv'
<1>0. step = "schema" /\ db # None
  BY NotCollecting DEF DumpSchema, PgAt, DatabaseSteps
<1> DEFINE p == In(db, <<"schema">>)
<1>1. PICK status \in {"complete", "disabled"} :
          /\ sections' = sections \cup {[path |-> p, status |-> status]}
          /\ status = "complete" => pgFiles' = pgFiles \cup {p}
          /\ status = "disabled" => pgFiles' = pgFiles
  BY DEF DumpSchema, Item
<1>2. /\ step' = "inventory" /\ pgFailures' = pgFailures
      /\ UNCHANGED <<selected, todo, db, checkpoint>>
  BY DEF DumpSchema
<1>3. Placed(p) /\ OfDatabase(p, db) /\ Len(p) = 3 /\ p[3] = "schema"
  BY KindIs
<1> HIDE DEF p
<1> DEFINE new == {[path |-> p, status |-> status]}
<1>4. \A t \in sections : Differ(p, t.path)
  BY <1>0, <1>3, NewKind DEF KindsBy
<1>5. DatabaseEnters(new)
  BY <1>1, <1>2, <1>3, <1>4 DEF DatabaseEnters, WholeIn
<1>6. \A q \in Told(sections') \cup pgFiles' : q = p \/ q \in Told(sections) \cup pgFiles
  BY <1>1 DEF Told
<1>7. ASSUME NEW q \in Told(sections') \cup pgFiles', OfDatabase(q, db) PROVE Expected(q, "inventory")
  <2>1. CASE q = p
    BY <1>3, <2>1 DEF Expected, KindsBy
  <2>2. CASE q \in Told(sections) \cup pgFiles
    BY <1>0, <1>7, <2>2 DEF RunningInv, CurrentInv, Expected, KindsBy
  <2> QED
    BY <1>6, <2>1, <2>2
<1>8. InventoryInv'
  BY <1>0, <1>1, <1>2 DEF InventoryInv, RunningInv, Failed
<1> QED
  BY <1>0, <1>2, <1>5, <1>7, <1>8, DatabaseKeeps DEF DatabaseSteps

LEMMA OneMore ==
    ASSUME NEW S, NEW T, NEW p, NEW status, T = S \cup {[path |-> p, status |-> status]}
    PROVE  /\ Told(T) = Told(S) \cup {p}
           /\ Failed(T) <=> Failed(S) \/ status = "failed"
<1> DEFINE s == [path |-> p, status |-> status]
<1>1. s.path = p /\ s.status = status /\ T = S \cup {s}
  OBVIOUS
<1> HIDE DEF s
<1>2. Told(T) = Told(S) \cup {p}
  BY <1>1 DEF Told
<1>3. Failed(T) <=> Failed(S) \/ status = "failed"
  BY <1>1 DEF Failed
<1> QED
  BY <1>2, <1>3

LEMMA InGroup ==
    ASSUME NEW group, PostgresAssumption, group \in {"objects", "schedulers"}
    PROVE  LET scope == In(db, <<group>>)
           IN  /\ Placed(scope) /\ OfDatabase(scope, db) /\ Len(scope) = 3 /\ scope[3] = group
               /\ \A p \in ObjectFiles(scope, group) :
                     Placed(p) /\ OfDatabase(p, db) /\ Len(p) = 4 /\ p[3] = group
               /\ \A fs : ObjectFiles(scope, group) \subseteq fs => WholeIn(scope, fs)
<1> DEFINE scope == In(db, <<group>>)
<1>1. Placed(scope) /\ OfDatabase(scope, db) /\ Len(scope) = 3 /\ scope[3] = group
  BY KindIs
<1>2. \A r : scope \o <<r>> = In(db, <<group, r>>)
  BY PartIs
<1>3. \A r : /\ Placed(In(db, <<group, r>>)) /\ Len(In(db, <<group, r>>)) = 4
             /\ In(db, <<group, r>>)[3] = group /\ OfDatabase(In(db, <<group, r>>), db)
  BY OutputIs
<1> HIDE DEF scope
<1>4. \A p \in ObjectFiles(scope, group) :
         Placed(p) /\ OfDatabase(p, db) /\ Len(p) = 4 /\ p[3] = group
  BY <1>2, <1>3 DEF ObjectFiles
<1>5. \A fs : ObjectFiles(scope, group) \subseteq fs => WholeIn(scope, fs)
  BY <1>1 DEF ObjectFiles, WholeIn, PostgresAssumption
<1> QED
  BY <1>1, <1>4, <1>5 DEF scope

\* What a group enters: its scope, whose status says whether all its files are there.
LEMMA GroupEnters ==
    ASSUME PostgresAssumption, NEW group, NEW then, Group(group, then)
    PROVE  LET scope == In(db, <<group>>)
           IN  /\ step = group /\ step' = then /\ UNCHANGED <<selected, todo, db, checkpoint>>
               /\ pgFiles \subseteq pgFiles'
               /\ pgFiles' \subseteq pgFiles \cup ObjectFiles(scope, group)
               /\ pgFailures \subseteq pgFailures'
               /\ \E status \in {"disabled", "failed", "complete"} :
                     /\ sections' = sections \cup {[path |-> scope, status |-> status]}
                     /\ status = "complete" => ObjectFiles(scope, group) \subseteq pgFiles'
                     /\ status = "failed" => pgFailures' # {}
                     /\ status # "failed" => pgFailures' = pgFailures
<1> DEFINE scope == In(db, <<group>>)
           parts == ObjectFiles(scope, group)
<1> DEFINE Read(failed, cut) ==
               /\ pgFailures' = pgFailures \cup failed \cup (IF cut # {} THEN {scope} ELSE {})
               /\ pgFiles' = pgFiles \cup (parts \ (failed \cup cut))
               /\ sections' = sections \cup {[path |-> scope, status |-> GroupStatus(failed, cut)]}
<1>1. \/ /\ sections' = sections \cup {[path |-> scope, status |-> "disabled"]}
         /\ UNCHANGED <<pgFiles, pgFailures>>
      \/ \E failed, cut : Read(failed, cut)
  BY DEF Group, Item
<1>2. step = group /\ step' = then /\ UNCHANGED <<selected, todo, db, checkpoint>>
  BY DEF Group, PgAt
<1> HIDE DEF scope, parts
<1>3. CASE /\ sections' = sections \cup {[path |-> scope, status |-> "disabled"]}
           /\ UNCHANGED <<pgFiles, pgFailures>>
  BY <1>2, <1>3 DEF scope, parts
<1>4. CASE \E failed, cut : Read(failed, cut)
  <2>1. PICK failed, cut : Read(failed, cut)
    BY <1>4
  <2>2. CASE failed \cup cut = {}
    <3>1. GroupStatus(failed, cut) = "complete" /\ failed = {} /\ cut = {}
      BY <2>2 DEF GroupStatus
    <3> QED
      BY <1>2, <2>1, <3>1 DEF scope, parts
  <2>3. CASE failed \cup cut # {}
    <3>1. GroupStatus(failed, cut) = "failed" /\ (failed # {} \/ cut # {})
      BY <2>3 DEF GroupStatus
    <3>2. pgFailures' # {}
      BY <2>1, <3>1
    <3> QED
      BY <1>2, <2>1, <3>1, <3>2 DEF scope, parts
  <2> QED
    BY <2>2, <2>3
<1> QED
  BY <1>1, <1>3, <1>4

LEMMA GroupKeeps ==
    ASSUME PostgresAssumption, RunningInv, NEW group, NEW then, Group(group, then),
           \/ group = "objects" /\ then = "schedulers"
           \/ group = "schedulers" /\ then = "certify"
    PROVE  RunningInv'
<1>0. step = group /\ db # None /\ group \in {"objects", "schedulers"}
  BY NotCollecting, GroupEnters DEF DatabaseSteps
<1> DEFINE scope == In(db, <<group>>)
           parts == ObjectFiles(scope, group)
<1>1. /\ step' = then /\ UNCHANGED <<selected, todo, db, checkpoint>>
      /\ pgFiles \subseteq pgFiles' /\ pgFiles' \subseteq pgFiles \cup parts
      /\ pgFailures \subseteq pgFailures'
  BY GroupEnters
<1>2. PICK status \in {"disabled", "failed", "complete"} :
          /\ sections' = sections \cup {[path |-> scope, status |-> status]}
          /\ status = "complete" => parts \subseteq pgFiles'
          /\ status = "failed" => pgFailures' # {}
          /\ status # "failed" => pgFailures' = pgFailures
  BY GroupEnters
<1>3. /\ Placed(scope) /\ OfDatabase(scope, db) /\ Len(scope) = 3 /\ scope[3] = group
      /\ \A p \in parts : Placed(p) /\ OfDatabase(p, db) /\ Len(p) = 4 /\ p[3] = group
      /\ \A fs : parts \subseteq fs => WholeIn(scope, fs)
  BY <1>0, InGroup
<1> HIDE DEF scope, parts
<1> DEFINE new == {[path |-> scope, status |-> status]}
<1>4. group \notin KindsBy(step) /\ group \in KindsBy(then)
  BY <1>0 DEF KindsBy
<1>5. \A t \in sections : Differ(scope, t.path)
  BY <1>0, <1>3, <1>4, NewKind
<1>6. DatabaseEnters(new)
  BY <1>1, <1>2, <1>3, <1>5 DEF DatabaseEnters
<1>7. \A q \in Told(sections') \cup pgFiles' : q = scope \/ q \in parts \/ q \in Told(sections) \cup pgFiles
  BY <1>1, <1>2 DEF Told
<1>8. ASSUME NEW q \in Told(sections') \cup pgFiles', OfDatabase(q, db) PROVE Expected(q, then)
  <2>1. CASE q = scope \/ q \in parts
    BY <1>0, <1>3, <1>4, <2>1 DEF Expected
  <2>2. CASE q \in Told(sections) \cup pgFiles
    <3>1. Expected(q, group)
      BY <1>0, <1>8, <2>2 DEF RunningInv, CurrentInv
    <3> QED
      BY <1>0, <3>1 DEF Expected, KindsBy
  <2> QED
    BY <1>7, <2>1, <2>2
<1>9. InventoryInv'
  <2>1. Told(sections') = Told(sections) \cup {scope}
    <3>1. PICK s : s = [path |-> scope, status |-> status]
      OBVIOUS
    <3>2. s.path = scope /\ sections' = sections \cup {s}
      BY <1>2, <3>1
    <3> QED
      BY <3>2 DEF Told
  <2>2. \A queries : InventoryFiles(queries)' = InventoryFiles(queries)
    BY <1>1 DEF InventoryFiles, In, Of
  <2>3. then \in {"schedulers", "certify"}
    BY <1>0
  <2>4. InventoryFiles(Queries) \subseteq Told(sections')
    BY <1>0, <2>1 DEF RunningInv, InventoryInv
  <2>5. InventoryFiles(Optional) \subseteq pgFiles' \cup pgFailures' \cup Told(sections')
    BY <1>0, <1>1, <2>1 DEF RunningInv, InventoryInv
  <2>6. ASSUME pgFailures' # {}
        PROVE  \/ Failed(sections')
               \/ \E p \in InventoryFiles(Optional) : p \in pgFailures' \ (pgFiles' \cup Told(sections'))
    <3>1. CASE status = "failed"
      BY <1>2, <3>1, OneMore
    <3>2. CASE status # "failed"
      <4>1. \/ Failed(sections)
            \/ \E p \in InventoryFiles(Optional) : p \in pgFailures \ (pgFiles \cup Told(sections))
        BY <1>2, <2>6, <3>2 DEF RunningInv, InventoryInv
      <4>2. \A p \in InventoryFiles(Optional) : p \notin parts /\ p # scope
        BY <1>0, <1>3, InventoryIs
      <4> QED
        BY <1>1, <1>2, <2>1, <4>1, <4>2 DEF Failed
    <3> QED
      BY <3>1, <3>2
  <2> QED
    BY <1>1, <2>2, <2>3, <2>4, <2>5, <2>6 DEF InventoryInv
<1> QED
  BY <1>0, <1>1, <1>6, <1>8, <1>9, DatabaseKeeps DEF DatabaseSteps

LEMMA ReadOptionalKeeps == ASSUME PostgresAssumption, RunningInv, ReadOptional PROVE RunningInv'
<1>0. step = "optional" /\ db # None
  BY NotCollecting DEF ReadOptional, PgAt, DatabaseSteps
<1> DEFINE ps == InventoryFiles(Optional)
           on == ScopedOptional
           new == {Item(p, "disabled") : p \in ps \ on}
<1>1. PICK lost \in SUBSET on : pgFailures' = pgFailures \cup lost /\ pgFiles' = pgFiles \cup (on \ lost)
  BY DEF ReadOptional
<1>2. /\ sections' = sections \cup new /\ step' = "objects"
      /\ UNCHANGED <<selected, todo, db, checkpoint>>
  BY DEF ReadOptional
<1>3. \A p \in ps : /\ Placed(p) /\ OfDatabase(p, db) /\ Len(p) = 4 /\ p[3] = "inventory"
                    /\ p[4] \in Optional /\ p = <<"databases", p[2], "inventory", p[4]>>
  BY InventoryIs
<1>4. \A p, q \in ps : p # q => Differ(p, q)
  BY InventoryIs
<1>5. on \subseteq ps
  BY DEF ScopedOptional
<1>6. \A s \in new : s.status = "disabled" /\ s.path \in ps \ on /\ s = Item(s.path, "disabled")
  BY DEF Item
<1>7. \A p \in ps \ on : p \in Told(new)
  <2> TAKE p \in ps \ on
  <2>1. Item(p, "disabled") \in new /\ Item(p, "disabled").path = p
    BY DEF Item
  <2> QED
    BY <2>1 DEF Told
<1> HIDE DEF ps, on, new
<1>8. \A p \in ps, t \in sections : Differ(p, t.path)
  <2> TAKE p \in ps, t \in sections
  <2>1. CASE OfDatabase(t.path, db)
    <3>1. Expected(t.path, "optional") /\ Placed(t.path)
      BY <1>0, <2>1 DEF RunningInv, CurrentInv, Entered, Told
    <3>2. Len(t.path) > 2
      BY <3>1 DEF Expected
    <3>3. CASE t.path[3] = "inventory"
      <4>1. Len(t.path) = 4 /\ t.path[4] \in Queries
        BY <3>1, <3>3 DEF Expected
      <4>2. Len(p) = 4 /\ p[4] # t.path[4]
        BY <1>3, <4>1 DEF PostgresAssumption
      <4> QED
        BY <4>1, <4>2 DEF Differ
    <3>4. CASE t.path[3] # "inventory"
      <4>1. Len(p) = 4 /\ p[3] # t.path[3] /\ Len(t.path) \in Nat
        BY <1>3, <3>1, <3>4 DEF Placed
      <4> QED
        BY <3>2, <4>1 DEF Differ
    <3> QED
      BY <3>3, <3>4
  <2>2. CASE ~OfDatabase(t.path, db)
    <3>1. Placed(t.path)
      BY DEF RunningInv, Entered
    <3> QED
      BY <1>3, <2>2, <3>1, OtherDatabase
  <2> QED
    BY <2>1, <2>2
<1>9. DatabaseEnters(new)
  <2>1. \A s, t \in new : s # t => Differ(s.path, t.path)
    BY <1>4, <1>6
  <2> QED
    BY <1>1, <1>2, <1>3, <1>5, <1>6, <1>8, <2>1 DEF DatabaseEnters
<1>10. Told(sections') = Told(sections) \cup Told(new) /\ Told(new) \subseteq ps
  BY <1>2, <1>6 DEF Told
<1>11. ASSUME NEW q \in Told(sections') \cup pgFiles', OfDatabase(q, db) PROVE Expected(q, "objects")
  <2>1. CASE q \in ps
    BY <1>3, <2>1 DEF Expected, KindsBy
  <2>2. CASE q \notin ps
    <3>1. q \in Told(sections) \cup pgFiles
      BY <1>1, <1>5, <1>10, <2>2
    <3>2. Expected(q, "optional")
      BY <1>0, <1>11, <3>1 DEF RunningInv, CurrentInv
    <3> QED
      BY <3>2 DEF Expected, KindsBy
  <2> QED
    BY <2>1, <2>2
<1>12. InventoryInv'
  <2>2. \A queries : InventoryFiles(queries)' = InventoryFiles(queries)
    BY <1>2 DEF InventoryFiles, In, Of
  <2>3. InventoryFiles(Queries) \subseteq Told(sections')
    BY <1>0, <1>10 DEF RunningInv, InventoryInv
  <2>4. ps \subseteq pgFiles' \cup pgFailures' \cup Told(sections')
    BY <1>1, <1>7, <1>10
  <2>5. ASSUME pgFailures' # {}
        PROVE  Failed(sections') \/ \E p \in ps : p \in pgFailures' \ (pgFiles' \cup Told(sections'))
    <3>1. CASE Failed(sections)
      BY <1>2, <3>1 DEF Failed
    <3>2. CASE ~Failed(sections)
      <4>1. pgFailures = {}
        BY <1>0, <3>2 DEF RunningInv, InventoryInv
      <4>2. PICK p \in lost : p \in pgFailures'
        BY <1>1, <2>5, <4>1
      <4>3. p \in ps /\ p \in on
        BY <1>1, <1>5, <4>2
      <4>4. p \notin Told(sections')
        <5>1. p \notin Told(new)
          BY <1>6, <4>3 DEF Told
        <5>2. p \notin Told(sections)
          BY <1>0, <1>3, <4>3 DEF RunningInv, CurrentInv, Expected, PostgresAssumption
        <5> QED
          BY <1>10, <5>1, <5>2
      <4>5. p \notin pgFiles'
        <5>1. p \notin pgFiles
          BY <1>0, <1>3, <4>3 DEF RunningInv, CurrentInv, Expected, PostgresAssumption
        <5> QED
          BY <1>1, <4>2, <5>1
      <4> QED
        BY <4>2, <4>3, <4>4, <4>5
    <3> QED
      BY <3>1, <3>2
  <2> QED
    BY <1>2, <2>2, <2>3, <2>4, <2>5 DEF InventoryInv, ps
<1> QED
  BY <1>0, <1>2, <1>9, <1>11, <1>12, DatabaseKeeps DEF DatabaseSteps

LEMMA CertifyKeeps == ASSUME PostgresAssumption, RunningInv, CertifyOptional PROVE RunningInv'
<1>0. step = "certify" /\ db # None
  BY NotCollecting DEF CertifyOptional, PgAt, DatabaseSteps
<1> DEFINE ps  == InventoryFiles(Optional)
           how(p) == IF p \in pgFiles THEN "complete" ELSE "failed"
           late == {x \in ps : Afterwards(x)}
           new == {Item(p, how(p)) : p \in late}
<1>1. /\ sections' = sections \cup new /\ step' = "adapters"
      /\ UNCHANGED <<selected, todo, db, checkpoint, pgFiles, pgFailures>>
  BY DEF CertifyOptional
<1>2. \A p \in ps : /\ Placed(p) /\ OfDatabase(p, db) /\ Len(p) = 4 /\ p[3] = "inventory"
                    /\ p = <<"databases", p[2], "inventory", p[4]>>
  BY InventoryIs
<1>3. \A p, q \in ps : p # q => Differ(p, q)
  BY InventoryIs
<1>4. \A p \in late : p \in ps /\ p \notin Told(sections) /\ (p \in pgFiles \/ p \in pgFailures)
  BY DEF Afterwards, KnownPaths, Told
<1>5. \A p \in ps : p \in late \/ p \in Told(sections)
  BY <1>0 DEF RunningInv, InventoryInv, Afterwards, KnownPaths, Told
<1>6. \A s \in new : /\ s.path \in late /\ s.status = how(s.path) /\ s = Item(s.path, how(s.path))
                     /\ s.status \in {"complete", "failed"}
  BY DEF Item
<1>7. \A p \in late : \E s \in new : s.path = p /\ s.status = how(p)
  <2> TAKE p \in late
  <2>1. Item(p, how(p)) \in new /\ Item(p, how(p)).path = p /\ Item(p, how(p)).status = how(p)
    BY DEF Item
  <2> QED
    BY <2>1
<1>8. \A p : how(p) = "complete" <=> p \in pgFiles
  OBVIOUS
<1> HIDE DEF ps, how, late, new
<1>9. \A p \in late, t \in sections : Differ(p, t.path)
  <2> TAKE p \in late, t \in sections
  <2>0. Placed(t.path) /\ Len(t.path) \in Nat
    BY DEF RunningInv, Entered, Placed
  <2>1. CASE OfDatabase(t.path, db)
    <3>1. Expected(t.path, "certify")
      BY <1>0, <2>1 DEF RunningInv, CurrentInv, Told
    <3>2. Len(t.path) > 2
      BY <3>1 DEF Expected
    <3>3. CASE t.path[3] = "inventory"
      <4>1. Len(t.path) = 4 /\ t.path = <<"databases", t.path[2], "inventory", t.path[4]>>
        BY <3>1, <3>3 DEF Expected
      <4>2. p # t.path /\ p[2] = t.path[2] /\ Len(p) = 4
        BY <1>2, <1>4, <2>1 DEF Told, OfDatabase
      <4>3. p[4] # t.path[4]
        BY <1>2, <1>4, <4>1, <4>2
      <4> QED
        BY <4>1, <4>2, <4>3 DEF Differ
    <3>4. CASE t.path[3] # "inventory"
      <4>1. Len(p) = 4 /\ p[3] # t.path[3]
        BY <1>2, <1>4, <3>4
      <4> QED
        BY <2>0, <3>2, <4>1 DEF Differ
    <3> QED
      BY <3>3, <3>4
  <2>2. CASE ~OfDatabase(t.path, db)
    BY <1>2, <1>4, <2>0, <2>2, OtherDatabase
  <2> QED
    BY <2>1, <2>2
<1>10. DatabaseEnters(new)
  <2>1. \A s, t \in new : s # t => Differ(s.path, t.path)
    BY <1>3, <1>4, <1>6
  <2>2. \A s \in new : s.status = "complete" => WholeIn(s.path, pgFiles')
    BY <1>1, <1>6, <1>8 DEF WholeIn
  <2>3. \A s \in new : s.status = "failed" => pgFailures' # {}
    BY <1>1, <1>4, <1>6, <1>8
  <2> QED
    BY <1>1, <1>2, <1>4, <1>6, <1>9, <2>1, <2>2, <2>3 DEF DatabaseEnters
<1>11. Told(sections') = Told(sections) \cup late
  <2>1. Told(new) = late
    BY <1>6, <1>7 DEF Told
  <2> QED
    BY <1>1, <2>1 DEF Told
<1>12. ASSUME NEW q \in Told(sections') \cup pgFiles', OfDatabase(q, db) PROVE Expected(q, "adapters")
  <2>1. CASE q \in late
    BY <1>2, <1>4, <2>1 DEF Expected, KindsBy
  <2>2. CASE q \notin late
    <3>1. Expected(q, "certify")
      BY <1>0, <1>1, <1>11, <1>12, <2>2 DEF RunningInv, CurrentInv
    <3> QED
      BY <3>1 DEF Expected, KindsBy
  <2> QED
    BY <2>1, <2>2
<1>13. InventoryInv'
  <2>1. \A queries : InventoryFiles(queries)' = InventoryFiles(queries)
    BY <1>1 DEF InventoryFiles, In, Of
  <2>2. InventoryFiles(Queries) \subseteq Told(sections')
    BY <1>0, <1>11 DEF RunningInv, InventoryInv
  <2>3. ps \subseteq Told(sections')
    BY <1>5, <1>11
  <2>4. pgFailures' # {} => Failed(sections')
    <3> SUFFICES ASSUME pgFailures # {}, ~Failed(sections) PROVE Failed(sections')
      BY <1>1 DEF Failed
    <3>1. PICK p \in ps : p \in pgFailures \ (pgFiles \cup Told(sections))
      BY <1>0 DEF RunningInv, InventoryInv, ps
    <3>2. p \in late /\ how(p) = "failed"
      BY <1>5, <3>1 DEF how
    <3>3. PICK s \in new : s.path = p /\ s.status = "failed"
      BY <1>7, <3>2
    <3> QED
      BY <1>1, <3>3 DEF Failed
  <2> QED
    BY <1>1, <2>1, <2>2, <2>3, <2>4 DEF InventoryInv, ps
<1> QED
  BY <1>0, <1>1, <1>10, <1>12, <1>13, DatabaseKeeps DEF DatabaseSteps

\* A step that leaves the database behind, or is of none.
LEMMA BetweenDatabases ==
    ASSUME Entered(sections)', db' = None, step' = "next",
           (todo \subseteq 1..Len(Databases) /\ selected \subseteq DatabaseNames)',
           \A p \in pgFiles' : Placed(p) /\ \A d \in Left' : ~OfDatabase(p, d),
           pgFailures' # {} => Failed(sections')
    PROVE  RunningInv'
<1>1. CurrentInv'
  BY DEF CurrentInv
<1>2. InventoryInv'
  BY DEF InventoryInv
<1> QED
  BY <1>1, <1>2 DEF RunningInv

\* What the adapters enter: the outputs of those that are installed, and one item
\* for each of the others.
LEMMA AdaptersEnter ==
    ASSUME PostgresAssumption, RunningInv, RunAdapters
    PROVE  /\ step = "adapters" /\ step' = "telemetry" /\ UNCHANGED <<selected, todo, db, checkpoint>>
           /\ \E new : /\ DatabaseEnters(new)
                       /\ pgFailures' # {} => pgFailures # {} \/ Failed(new)
                       /\ \A p \in Told(new) \cup (pgFiles' \ pgFiles) : Len(p) > 2 /\ p[3] = "adapters"
<1>0. step = "adapters" /\ db # None /\ step' = "telemetry" /\ UNCHANGED <<selected, todo, db, checkpoint>>
  BY NotCollecting DEF RunAdapters, PgAt, DatabaseSteps
<1> DEFINE prefix(a) == In(db, <<"adapters", a>>)
           on == {a \in DOMAIN Adapters : PgEnabled(prefix(a), "adapters")}
           readOf(as) == UNION {{prefix(a) \o <<f>> : f \in Adapters[a]} : a \in as}
<1>1. PICK installed \in SUBSET DOMAIN Adapters, unknown \in SUBSET DOMAIN Adapters :
          /\ unknown \subseteq on /\ installed \cap unknown = {}
          /\ \E lost \in SUBSET {p \in readOf((on \cap installed) \ unknown) : PgEnabled(p, "adapters")} :
               LET new == Captured(readOf((on \cap installed) \ unknown), AllOf(readOf((on \cap installed) \ unknown), "adapters"), lost)
                          \cup {Item(prefix(a), "failed") : a \in unknown}
               IN  /\ sections' = sections \cup new
                          \cup {Item(prefix(a), "disabled") : a \in DOMAIN Adapters \ on}
                          \cup {Item(prefix(a), "not_applicable") : a \in on \ (installed \cup unknown)}
                   /\ pgFiles' = pgFiles \cup With(new, "complete")
                   /\ pgFailures' = pgFailures \cup With(new, "failed")
  BY DEF RunAdapters
<1> DEFINE well == (on \cap installed) \ unknown
           read == readOf(well)
<1>2. PICK lost :
               LET new == Captured(read, AllOf(read, "adapters"), lost)
                          \cup {Item(prefix(a), "failed") : a \in unknown}
               IN  /\ sections' = sections \cup new
                          \cup {Item(prefix(a), "disabled") : a \in DOMAIN Adapters \ on}
                          \cup {Item(prefix(a), "not_applicable") : a \in on \ (installed \cup unknown)}
                   /\ pgFiles' = pgFiles \cup With(new, "complete")
                   /\ pgFailures' = pgFailures \cup With(new, "failed")
  BY <1>1
<1> DEFINE how(a) == IF a \in unknown THEN "failed"
                     ELSE IF a \notin on THEN "disabled" ELSE "not_applicable"
           files == Captured(read, AllOf(read, "adapters"), lost)
           others == {Item(prefix(a), how(a)) : a \in DOMAIN Adapters \ well}
           failing == {Item(prefix(a), "failed") : a \in unknown}
           new == files \cup others
<1>3. others = failing \cup {Item(prefix(a), "disabled") : a \in DOMAIN Adapters \ on}
                       \cup {Item(prefix(a), "not_applicable") : a \in on \ (installed \cup unknown)}
  <2>1. unknown \subseteq on /\ on \subseteq DOMAIN Adapters /\ installed \cap unknown = {}
    BY <1>1
  <2>2. \A a \in unknown : a \in DOMAIN Adapters \ well /\ how(a) = "failed"
    BY <2>1
  <2>3. \A a \in DOMAIN Adapters \ on : a \in DOMAIN Adapters \ well /\ how(a) = "disabled"
    BY <2>1
  <2>4. \A a \in on \ (installed \cup unknown) : a \in DOMAIN Adapters \ well /\ how(a) = "not_applicable"
    BY <2>1
  <2>5. \A a \in DOMAIN Adapters \ well : \/ a \in unknown \/ a \in DOMAIN Adapters \ on
                                         \/ a \in on \ (installed \cup unknown)
    BY <2>1
  <2> HIDE DEF how, well, on, prefix
  <2> QED
    BY <2>2, <2>3, <2>4, <2>5
<1>4. \A p \in read : \E a \in well : \E f : p = prefix(a) \o <<f>>
  OBVIOUS
<1>5. \A a : /\ Placed(prefix(a)) /\ Len(prefix(a)) = 4 /\ prefix(a)[3] = "adapters"
             /\ prefix(a)[4] = a /\ OfDatabase(prefix(a), db)
  BY OutputIs
<1>6. \A a, f : /\ Placed(prefix(a) \o <<f>>) /\ Len(prefix(a) \o <<f>>) = 5
                /\ (prefix(a) \o <<f>>)[3] = "adapters" /\ (prefix(a) \o <<f>>)[4] = a
                /\ (prefix(a) \o <<f>>)[5] = f /\ OfDatabase(prefix(a) \o <<f>>, db)
  <2> TAKE a, f
  <2> DEFINE p == In(db, <<"adapters", a>>) \o <<f>>
  <2>1. /\ Placed(p) /\ Len(p) = 5 /\ p[3] = "adapters" /\ p[4] = a /\ p[5] = f
        /\ \A e : OfDatabase(p, e) <=> db = e
    BY FileIs
  <2> HIDE DEF p
  <2>2. OfDatabase(p, db)
    BY <2>1
  <2> QED
    BY <2>1, <2>2 DEF p
<1>9. \A a : how(a) # "complete" /\ (how(a) = "failed" => a \in unknown)
  OBVIOUS
<1>13. /\ pgFiles' = pgFiles \cup With(files \cup failing, "complete")
       /\ pgFailures' = pgFailures \cup With(files \cup failing, "failed")
  BY <1>2
<1>10. sections' = sections \cup new /\ failing \subseteq others
  BY <1>2, <1>3
<1> HIDE DEF prefix, on, well, read, readOf, how
<1>7. /\ Told(files) = read
      /\ \A s, t \in files : s # t => s.path # t.path
  BY CapturedIs
<1>8. \A s \in others : \E a \in DOMAIN Adapters \ well :
          s.path = prefix(a) /\ s.status = how(a) /\ s = Item(prefix(a), how(a))
  BY DEF Item
<1>11. \A s \in failing : s.status = "failed"
  BY DEF Item
<1>12. \A s \in others : s.status = "failed" => s \in failing
  BY <1>8, <1>9
<1> HIDE DEF files, others, failing
<1>14. \A s \in files : s.path \in read
  BY <1>7 DEF Told
<1>15. ASSUME NEW s \in new
       PROVE  Placed(s.path) /\ OfDatabase(s.path, db) /\ Len(s.path) > 2 /\ s.path[3] = "adapters"
  <2>1. CASE s \in files
    <3>1. PICK a \in well : \E f : s.path = prefix(a) \o <<f>>
      BY <1>4, <1>14, <2>1
    <3>2. PICK f : s.path = prefix(a) \o <<f>>
      BY <3>1
    <3> QED
      BY <1>6, <3>2
  <2>2. CASE s \in others
    BY <1>5, <1>8, <2>2
  <2> QED
    BY <2>1, <2>2
<1>16. \A s \in new : s.status = "complete" => s.path \in pgFiles'
  BY <1>8, <1>9, <1>13 DEF With
<1>17. \A s \in new : s.status = "failed" => s.path \in pgFailures'
  BY <1>12, <1>13 DEF With
<1>18. \A p \in pgFiles' \ pgFiles : p \in read
  BY <1>11, <1>13, <1>14 DEF With
<1>19. pgFailures' # {} => pgFailures # {} \/ Failed(new)
  BY <1>10, <1>13 DEF With, Failed
<1>20. ASSUME NEW s \in new, NEW t \in new, s # t PROVE Differ(s.path, t.path)
  <2>1. CASE s \in files /\ t \in files
    <3>1. PICK a \in well : \E f : s.path = prefix(a) \o <<f>>
      BY <1>4, <1>14, <2>1
    <3>2. PICK f : s.path = prefix(a) \o <<f>>
      BY <3>1
    <3>3. PICK b \in well : \E g : t.path = prefix(b) \o <<g>>
      BY <1>4, <1>14, <2>1
    <3>4. PICK g : t.path = prefix(b) \o <<g>>
      BY <3>3
    <3>5. a # b \/ f # g
      BY <1>7, <1>20, <2>1, <3>2, <3>4
    <3>6. /\ Len(s.path) = 5 /\ s.path[4] = a /\ s.path[5] = f
          /\ Len(t.path) = 5 /\ t.path[4] = b /\ t.path[5] = g
      BY <1>6, <3>2, <3>4
    <3> QED
      BY <3>5, <3>6 DEF Differ
  <2>2. CASE s \in others /\ t \in others
    <3>1. PICK a \in DOMAIN Adapters \ well : s.path = prefix(a) /\ s = Item(prefix(a), how(a))
      BY <1>8, <2>2
    <3>2. PICK b \in DOMAIN Adapters \ well : t.path = prefix(b) /\ t = Item(prefix(b), how(b))
      BY <1>8, <2>2
    <3>3. a # b
      BY <1>20, <3>1, <3>2
    <3>4. Len(s.path) = 4 /\ s.path[4] = a /\ Len(t.path) = 4 /\ t.path[4] = b
      BY <1>5, <3>1, <3>2
    <3> QED
      BY <3>3, <3>4 DEF Differ
  <2>3. ASSUME NEW u \in files, NEW v \in others PROVE Len(u.path) = 5 /\ Len(v.path) = 4 /\ u.path[4] # v.path[4]
    <3>1. PICK a \in well : \E f : u.path = prefix(a) \o <<f>>
      BY <1>4, <1>14
    <3>2. PICK b \in DOMAIN Adapters \ well : v.path = prefix(b)
      BY <1>8
    <3> QED
      BY <1>5, <1>6, <3>1, <3>2
  <2>4. CASE s \in files /\ t \in others
    <3>1. Len(s.path) = 5 /\ Len(t.path) = 4 /\ s.path[4] # t.path[4]
      BY <2>3, <2>4
    <3> QED
      BY <3>1 DEF Differ
  <2>5. CASE s \in others /\ t \in files
    <3>1. Len(t.path) = 5 /\ Len(s.path) = 4 /\ t.path[4] # s.path[4]
      BY <2>3, <2>5
    <3> QED
      BY <3>1 DEF Differ
  <2> QED
    BY <2>1, <2>2, <2>4, <2>5
<1>21. \A s \in new : \A t \in sections : Differ(s.path, t.path)
  <2>1. "adapters" \notin KindsBy(step)
    BY <1>0 DEF KindsBy
  <2> QED
    BY <1>0, <1>15, <2>1, NewKind
<1>22. \A p \in read : Placed(p) /\ OfDatabase(p, db) /\ Len(p) > 2 /\ p[3] = "adapters"
  <2> TAKE p \in read
  <2>1. PICK a, f : p = prefix(a) \o <<f>>
    BY <1>4
  <2> QED
    BY <1>6, <2>1
<1>23. pgFiles \subseteq pgFiles' /\ pgFailures \subseteq pgFailures'
  BY <1>13
<1> HIDE DEF new
<1>24. DatabaseEnters(new)
  BY <1>10, <1>15, <1>16, <1>17, <1>18, <1>20, <1>21, <1>22, <1>23
  DEF DatabaseEnters, WholeIn, new
<1>25. \A p \in Told(new) : Len(p) > 2 /\ p[3] = "adapters"
  BY <1>15 DEF Told, new
<1>26. \A p \in pgFiles' \ pgFiles : Len(p) > 2 /\ p[3] = "adapters"
  BY <1>18, <1>22
<1>27. pgFailures' # {} => pgFailures # {} \/ Failed(new)
  BY <1>19 DEF new
<1> QED
  BY <1>0, <1>24, <1>25, <1>26, <1>27

LEMMA AdaptersKeep == ASSUME PostgresAssumption, RunningInv, RunAdapters PROVE RunningInv'
<1>0. /\ step = "adapters" /\ step' = "telemetry" /\ UNCHANGED <<selected, todo, db, checkpoint>>
      /\ db # None
  BY AdaptersEnter, NotCollecting DEF DatabaseSteps
<1>1. PICK new : /\ DatabaseEnters(new)
                 /\ pgFailures' # {} => pgFailures # {} \/ Failed(new)
                 /\ \A p \in Told(new) \cup (pgFiles' \ pgFiles) : Len(p) > 2 /\ p[3] = "adapters"
  BY AdaptersEnter
<1>2. Told(sections') = Told(sections) \cup Told(new)
  BY <1>1 DEF DatabaseEnters, Told
<1>3. ASSUME NEW q \in Told(sections') \cup pgFiles', OfDatabase(q, db) PROVE Expected(q, "telemetry")
  <2>1. CASE q \in Told(new) \cup (pgFiles' \ pgFiles)
    BY <1>1, <2>1 DEF Expected, KindsBy
  <2>2. CASE q \in Told(sections) \cup pgFiles
    <3>1. Expected(q, "adapters")
      BY <1>0, <1>3, <2>2 DEF RunningInv, CurrentInv
    <3> QED
      BY <3>1 DEF Expected, KindsBy
  <2> QED
    BY <1>2, <2>1, <2>2
<1>4. InventoryInv'
  <2>1. \A queries : InventoryFiles(queries)' = InventoryFiles(queries)
    BY <1>0 DEF InventoryFiles, In, Of
  <2>2. InventoryFiles(Queries) \cup InventoryFiles(Optional) \subseteq Told(sections')
    BY <1>0, <1>2 DEF RunningInv, InventoryInv
  <2>3. pgFailures' # {} => Failed(sections')
    BY <1>0, <1>1 DEF RunningInv, InventoryInv, DatabaseEnters, Failed
  <2> QED
    BY <1>0, <2>1, <2>2, <2>3 DEF InventoryInv
<1> QED
  BY <1>0, <1>1, <1>3, <1>4, DatabaseKeeps DEF DatabaseSteps

LEMMA EndDatabaseKeeps == ASSUME PostgresAssumption, RunningInv, EndDatabase PROVE RunningInv'
<1>0. step = "telemetry" /\ db # None
  BY NotCollecting DEF EndDatabase, PgAt, DatabaseSteps
<1>1. /\ step' = "next" /\ db' = None
      /\ UNCHANGED <<selected, todo, sections, pgFailures, pgFiles>>
  BY DEF EndDatabase
<1>2. DatabaseEnters({})
  BY <1>1 DEF DatabaseEnters
<1>3. \A q \in Queries \cup Optional : In(db, <<"inventory", q>>) \in Told(sections')
  <2>1. InventoryFiles(Queries) \cup InventoryFiles(Optional) \subseteq Told(sections)
    BY <1>0 DEF RunningInv, InventoryInv
  <2> QED
    BY <1>1, <2>1, InventoryIs DEF Told
<1>4. Entered(sections)'
  BY <1>0, <1>1, <1>2, <1>3, EnteredStays
<1>5. Left' = Left
  BY <1>1 DEF Left
<1>6. \A p \in pgFiles' : Placed(p) /\ \A d \in Left' : ~OfDatabase(p, d)
  BY <1>1, <1>5 DEF RunningInv, CurrentInv
<1>7. pgFailures' # {} => Failed(sections')
  BY <1>0, <1>1 DEF RunningInv, InventoryInv, Failed
<1> QED
  BY <1>0, <1>1, <1>4, <1>6, <1>7, BetweenDatabases DEF RunningInv, DatabaseNames

LEMMA NextDatabaseKeeps == ASSUME PostgresAssumption, RunningInv, NextDatabase PROVE RunningInv'
<1>0. step = "next" /\ db = None
  BY DEF NextDatabase, PgAt, RunningInv, CurrentInv, DatabaseSteps
<1>1. PICK i \in todo : 
         /\ todo' = todo \ {i}
         /\ LET d == Databases[i]
            IN  IF PgEnabled(Of(d), "databases")
                THEN db' = d /\ step' = "audit" /\ checkpoint' = sections /\ UNCHANGED sections
                ELSE /\ sections' = sections \cup {Item(Of(d), "disabled")}
                     /\ UNCHANGED <<db, step, checkpoint>>
  BY DEF NextDatabase
<1>13. PICK d : d = Databases[i]
  OBVIOUS
<1>2. UNCHANGED <<selected, pgFailures, pgFiles>>
  BY DEF NextDatabase
<1>3. i \in 1..Len(Databases) /\ todo \subseteq 1..Len(Databases)
  BY <1>1 DEF RunningInv
<1>4. d \in Left /\ d \in DatabaseNames /\ d # None
  BY <1>1, <1>3, <1>13 DEF Left, DatabaseNames, PostgresAssumption
<1>5. Left' = Left \ {d}
  <2>1. \A j \in todo : j # i => Databases[j] # d
    BY <1>3, <1>13 DEF PostgresAssumption
  <2> QED
    BY <1>1, <1>13, <2>1 DEF Left
<1>6. \A p \in Told(sections) \cup pgFiles : Placed(p) /\ ~OfDatabase(p, d)
  BY <1>4 DEF RunningInv, Entered, CurrentInv, Told
<1>7. \A p \in pgFiles' : Placed(p) /\ \A e \in Left' : ~OfDatabase(p, e)
  BY <1>2, <1>5 DEF RunningInv, CurrentInv
<1>8. pgFailures # {} => Failed(sections)
  BY <1>0 DEF RunningInv, InventoryInv
<1>9. (todo \subseteq 1..Len(Databases) /\ selected \subseteq DatabaseNames)'
  BY <1>1, <1>2 DEF RunningInv, DatabaseNames
<1>10. \A e \in selected : e # None /\ (e \in Left' \/ e = d \/ Of(e) \in Told(sections)
                         \/ \A q \in Queries \cup Optional : In(e, <<"inventory", q>>) \in Told(sections))
  BY <1>0, <1>5 DEF RunningInv, Entered, PostgresAssumption
<1>11. CASE PgEnabled(Of(d), "databases")
  <2>1. db' = d /\ step' = "audit" /\ checkpoint' = sections /\ sections' = sections
    BY <1>1, <1>11, <1>13
  <2>2. Entered(sections)' /\ Entered(checkpoint)'
    <3>1. /\ \A s \in sections : Placed(s.path) /\ (s.status = "complete" => WholeIn(s.path, pgFiles))
          /\ \A s, t \in sections : s # t => Differ(s.path, t.path)
          /\ Failed(sections) => pgFailures # {}
          /\ \A s \in sections, e \in Left' : ~OfDatabase(s.path, e)
      BY <1>5 DEF RunningInv, Entered
    <3>2. (\A s \in sections : Placed(s.path) /\ (s.status = "complete" => WholeIn(s.path, pgFiles)))'
      BY <1>2, <2>1, <3>1 DEF WholeIn
    <3> HIDE DEF WholeIn
    <3> QED
      BY <1>2, <1>10, <2>1, <3>1, <3>2 DEF Entered, Told, Failed
  <2>3. CurrentInv'
    <3>1. \A s \in checkpoint' : ~OfDatabase(s.path, d)
      BY <1>6, <2>1 DEF Told
    <3>2. \A p \in (Told(sections) \cup pgFiles)' : ~OfDatabase(p, d)
      BY <1>2, <1>6, <2>1 DEF Told
    <3>3. db' \in DatabaseNames \ Left' /\ db' # None
      BY <1>4, <1>5, <2>1
    <3> QED
      BY <1>7, <2>1, <2>2, <3>1, <3>2, <3>3
      DEF CurrentInv, DatabaseSteps, DatabaseNames, Told
  <2>4. InventoryInv'
    BY <1>2, <1>8, <2>1 DEF InventoryInv, Failed
  <2> QED
    BY <1>9, <2>2, <2>3, <2>4 DEF RunningInv
<1>12. CASE ~PgEnabled(Of(d), "databases")
  <2>1. sections' = sections \cup {[path |-> Of(d), status |-> "disabled"]} /\ db' = None /\ step' = "next"
    BY <1>0, <1>1, <1>12, <1>13 DEF Item
  <2>2. Placed(Of(d)) /\ OfDatabase(Of(d), d) /\ \A e : OfDatabase(Of(d), e) => d = e
    BY OfIs
  <2>3. Told(sections') = Told(sections) \cup {Of(d)} /\ (Failed(sections') => Failed(sections))
        /\ (Failed(sections) => Failed(sections'))
    <3> DEFINE s0 == [path |-> Of(d), status |-> "disabled"]
    <3>0. s0.path = Of(d) /\ s0.status = "disabled" /\ sections' = sections \cup {s0}
      BY <2>1
    <3> HIDE DEF s0
    <3>1. Told(sections') = Told(sections) \cup {Of(d)}
      BY <3>0 DEF Told
    <3>2. (Failed(sections') => Failed(sections)) /\ (Failed(sections) => Failed(sections'))
      BY <3>0 DEF Failed
    <3> QED
      BY <3>1, <3>2
  <2>4. \A t \in sections : Differ(Of(d), t.path) /\ Differ(t.path, Of(d))
    <3> TAKE t \in sections
    <3>1. Placed(t.path) /\ ~OfDatabase(t.path, d)
      BY <1>6 DEF Told
    <3>2. Differ(Of(d), t.path)
      BY <2>2, <3>1, OtherDatabase
    <3> QED
      BY <2>2, <3>1, <3>2, DifferSymmetric DEF Placed
  <2>5. Entered(sections)'
    <3> DEFINE s0 == [path |-> Of(d), status |-> "disabled"]
    <3>0. s0.path = Of(d) /\ s0.status = "disabled" /\ sections' = sections \cup {s0}
      BY <2>1
    <3> HIDE DEF s0
    <3>1. \A s \in sections' : Placed(s.path) /\ (s.status = "complete" => WholeIn(s.path, pgFiles'))
      BY <1>2, <2>2, <3>0 DEF RunningInv, Entered
    <3>2. \A s, t \in sections' : s # t => Differ(s.path, t.path)
      BY <2>4, <3>0 DEF RunningInv, Entered
    <3>3. Failed(sections') => pgFailures' # {}
      BY <1>2, <2>3 DEF RunningInv, Entered
    <3>4. \A s \in sections', e \in Left' : ~OfDatabase(s.path, e)
      BY <1>5, <2>2, <3>0 DEF RunningInv, Entered
    <3>5. \A e \in selected' : e \in Left' \/ e = db' \/ Of(e) \in Told(sections')
                         \/ \A q \in Queries \cup Optional : In(e, <<"inventory", q>>) \in Told(sections')
      BY <1>2, <1>10, <2>3
    <3> QED
      BY <3>1, <3>2, <3>3, <3>4, <3>5 DEF Entered, WholeIn, Told, Failed
  <2> QED
    BY <1>2, <1>7, <1>8, <1>9, <2>1, <2>3, <2>5, BetweenDatabases DEF Failed
<1> QED
  BY <1>11, <1>12

LEMMA DatabaseFailsKeeps == ASSUME PostgresAssumption, RunningInv, DatabaseFails PROVE RunningInv'
<1>0. db # None
  BY NotCollecting DEF DatabaseFails, PgAt, DatabaseSteps
<1>1. /\ sections' = checkpoint \cup {[path |-> Of(db), status |-> "failed"]}
      /\ pgFailures' = pgFailures \cup {Of(db)} /\ db' = None /\ step' = "next"
      /\ UNCHANGED <<selected, todo, pgFiles>>
  BY DEF DatabaseFails, RolledBack, Item
<1>2. Entered(checkpoint) /\ db \notin Left /\ \A s \in checkpoint : ~OfDatabase(s.path, db)
  BY <1>0 DEF RunningInv, CurrentInv
<1>3. Placed(Of(db)) /\ OfDatabase(Of(db), db) /\ \A e : OfDatabase(Of(db), e) => db = e
  BY OfIs
<1>4. Told(sections') = Told(checkpoint) \cup {Of(db)} /\ Failed(sections')
  BY <1>1, OneMore
<1>5. \A t \in checkpoint : Differ(Of(db), t.path) /\ Differ(t.path, Of(db))
  <2> TAKE t \in checkpoint
  <2>1. Placed(t.path) /\ ~OfDatabase(t.path, db)
    BY <1>2 DEF Entered
  <2>2. Differ(Of(db), t.path)
    BY <1>3, <2>1, OtherDatabase
  <2> QED
    BY <1>3, <2>1, <2>2, DifferSymmetric DEF Placed
<1>6. Left' = Left
  BY <1>1 DEF Left
<1>7. Entered(sections)'
  <2> DEFINE s0 == [path |-> Of(db), status |-> "failed"]
  <2>0. s0.path = Of(db) /\ s0.status = "failed" /\ sections' = checkpoint \cup {s0}
    BY <1>1
  <2> HIDE DEF s0
  <2>1. \A s \in sections' : Placed(s.path) /\ (s.status = "complete" => WholeIn(s.path, pgFiles'))
    BY <1>1, <1>2, <1>3, <2>0 DEF Entered
  <2>2. \A s, t \in sections' : s # t => Differ(s.path, t.path)
    BY <1>2, <1>5, <2>0 DEF Entered
  <2>3. pgFailures' # {}
    BY <1>1
  <2>4. \A s \in sections', e \in Left' : ~OfDatabase(s.path, e)
    BY <1>2, <1>3, <1>6, <2>0 DEF Entered
  <2>5. \A e \in selected' : e \in Left' \/ e = db' \/ Of(e) \in Told(sections')
                       \/ \A q \in Queries \cup Optional : In(e, <<"inventory", q>>) \in Told(sections')
    BY <1>1, <1>2, <1>4, <1>6 DEF Entered
  <2> QED
    BY <2>1, <2>2, <2>3, <2>4, <2>5 DEF Entered, WholeIn, Told, Failed
<1>8. \A p \in pgFiles' : Placed(p) /\ \A d \in Left' : ~OfDatabase(p, d)
  BY <1>1, <1>6 DEF RunningInv, CurrentInv
<1> QED
  BY <1>1, <1>4, <1>7, <1>8, BetweenDatabases DEF RunningInv, DatabaseNames

LEMMA ClusterIs ==
    /\ \A p \in Cluster \cup {Raw} : Placed(p) /\ p[1] # "databases"
    /\ \A p, q \in Cluster \cup {Raw} : p # q => Differ(p, q)
    /\ Raw \notin Cluster
<1> DEFINE all == {<<"cluster", "server">>, <<"cluster", "globals">>, <<"config", "settings">>,
                   <<"config", "raw">>}
<1>1. Cluster \cup {Raw} = all
  BY DEF Cluster, Raw
<1>2. \A p \in all : Len(p) = 2 /\ p[1] \in {"cluster", "config"} /\ p = <<p[1], p[2]>>
  OBVIOUS
<1>3. Raw \notin Cluster
  <2>1. Raw[1] = "config" /\ Raw[2] = "raw"
    BY DEF Raw
  <2>2. \A p \in Cluster : p[2] # "raw"
    BY DEF Cluster
  <2> QED
    BY <2>1, <2>2
<1> HIDE DEF all
<1>4. \A p \in all : Placed(p) /\ p[1] # "databases"
  BY <1>2 DEF Placed
<1>5. ASSUME NEW p \in all, NEW q \in all, p # q PROVE Differ(p, q)
  <2>1. Len(p) = 2 /\ Len(q) = 2
    BY <1>2
  <2>2. p[1] # q[1] \/ p[2] # q[2]
    BY <1>2, <1>5
  <2> QED
    BY <2>1, <2>2 DEF Differ
<1> QED
  BY <1>1, <1>3, <1>4, <1>5

\* What is entered before the first database, and concerns none.
LEMMA EnteredOfNone ==
    ASSUME Entered(sections), db = None, UNCHANGED <<selected, todo, db>>,
           NEW new, sections' = sections \cup new, pgFiles \subseteq pgFiles',
           pgFailures \subseteq pgFailures',
           \A s \in new : /\ Placed(s.path) /\ s.path[1] # "databases"
                          /\ s.status = "complete" => s.path \in pgFiles'
                          /\ s.status = "failed" => pgFailures' # {},
           \A s \in new : \A t \in sections \cup new : s # t => Differ(s.path, t.path)
    PROVE  Entered(sections)'
<1> USE DEF Entered
<1>1. \A s \in sections' : Placed(s.path) /\ (s.status = "complete" => WholeIn(s.path, pgFiles'))
  BY WholeStays DEF WholeIn
<1>2. \A s, t \in sections' : s # t => Differ(s.path, t.path)
  <2>1. \A s \in sections : \A t \in new : s # t => Differ(s.path, t.path)
    BY DifferSymmetric DEF Placed
  <2> QED
    BY <2>1
<1>3. Failed(sections') => pgFailures' # {}
  BY DEF Failed
<1>4. Left' = Left /\ Told(sections) \subseteq Told(sections')
  BY DEF Left, Told
<1>5. \A s \in sections', d \in Left' : ~OfDatabase(s.path, d)
  BY <1>4 DEF OfDatabase
<1>6. \A d \in selected' : d \in Left' \/ d = db' \/ Of(d) \in Told(sections')
                     \/ \A q \in Queries \cup Optional : In(d, <<"inventory", q>>) \in Told(sections')
  BY <1>4
<1> QED
  BY <1>1, <1>2, <1>3, <1>5, <1>6 DEF WholeIn, Told, Failed

LEMMA ClusterKeeps == ASSUME PostgresAssumption, RunningInv, CaptureCluster PROVE RunningInv'
<1>0. step = "cluster" /\ db = None /\ sections = {} /\ pgFailures = {} /\ pgFiles = {}
  BY DEF CaptureCluster, PgAt, RunningInv, CurrentInv, DatabaseSteps
<1>1. /\ \E new : Certifies(Cluster, new)
      /\ step' = "raw" /\ UNCHANGED <<selected, todo, db, checkpoint>>
  BY Captures DEF CaptureCluster
<1>2. PICK new : Certifies(Cluster, new)
  BY <1>1
<1>3. \A s \in new : s.path \in Cluster
  BY <1>2 DEF Certifies, Told
<1>4. \A s, t \in new : s # t => Differ(s.path, t.path)
  BY <1>2, <1>3, ClusterIs DEF Certifies
<1>5. Entered(sections)'
  BY <1>0, <1>1, <1>2, <1>3, <1>4, ClusterIs, EnteredOfNone DEF Certifies, RunningInv
<1>6. Told(sections') = Cluster
  BY <1>0, <1>2 DEF Certifies
<1>7. \A p \in pgFiles' : Placed(p) /\ \A d \in Left' : ~OfDatabase(p, d)
  BY <1>0, <1>2, ClusterIs DEF Certifies, OfDatabase
<1>8. CurrentInv'
  BY <1>0, <1>1, <1>6, <1>7 DEF CurrentInv, Told
<1>9. InventoryInv'
  BY <1>0, <1>1, <1>2 DEF InventoryInv, Certifies, Failed
<1> QED
  BY <1>1, <1>5, <1>8, <1>9 DEF RunningInv, DatabaseNames

LEMMA CopyRawKeeps == ASSUME PostgresAssumption, RunningInv, CopyRaw PROVE RunningInv'
<1>0. step = "raw" /\ db = None /\ Told(sections) = Cluster
  BY DEF CopyRaw, PgAt, RunningInv, CurrentInv, DatabaseSteps
<1>1. /\ step' = "next" /\ UNCHANGED <<selected, todo, db, checkpoint>>
      /\ \/ UNCHANGED <<sections, pgFailures, pgFiles>>
         \/ /\ sections' = sections \cup {[path |-> Raw, status |-> "complete"]}
            /\ pgFiles' = pgFiles \cup {Raw} /\ pgFailures' = pgFailures
         \/ /\ sections' = sections \cup {[path |-> Raw, status |-> "failed"]}
            /\ pgFailures' = pgFailures \cup {Raw} /\ pgFiles' = pgFiles
  BY DEF CopyRaw, Item
<1>2. \A t \in sections : Differ(Raw, t.path)
  BY <1>0, ClusterIs DEF Told
<1>3. Entered(sections)'
  <2>1. CASE UNCHANGED <<sections, pgFailures, pgFiles>>
    <3>1. Entered(sections) /\ UNCHANGED <<sections, pgFailures, pgFiles, selected, todo, db>>
      BY <1>1, <2>1 DEF RunningInv
    <3>2. Left' = Left
      BY <3>1 DEF Left
    <3> QED
      BY <3>1, <3>2 DEF Entered
  <2>2. CASE \E status \in {"complete", "failed"} :
                /\ sections' = sections \cup {[path |-> Raw, status |-> status]}
                /\ status = "complete" => pgFiles' = pgFiles \cup {Raw} /\ pgFailures' = pgFailures
                /\ status = "failed" => pgFailures' = pgFailures \cup {Raw} /\ pgFiles' = pgFiles
    <3>1. PICK status \in {"complete", "failed"} :
                /\ sections' = sections \cup {[path |-> Raw, status |-> status]}
                /\ status = "complete" => pgFiles' = pgFiles \cup {Raw} /\ pgFailures' = pgFailures
                /\ status = "failed" => pgFailures' = pgFailures \cup {Raw} /\ pgFiles' = pgFiles
      BY <2>2
    <3> DEFINE s0 == [path |-> Raw, status |-> status]
    <3>2. s0.path = Raw /\ s0.status = status /\ sections' = sections \cup {s0}
      BY <3>1
    <3> HIDE DEF s0
    <3>3. Placed(Raw) /\ Raw[1] # "databases"
      BY ClusterIs
    <3>4. /\ pgFiles \subseteq pgFiles' /\ pgFailures \subseteq pgFailures'
          /\ status = "complete" => Raw \in pgFiles'
          /\ status = "failed" => pgFailures' # {}
      BY <3>1
    <3> DEFINE new == {s0}
    <3>5. /\ sections' = sections \cup new
          /\ \A s \in new : /\ Placed(s.path) /\ s.path[1] # "databases"
                            /\ s.status = "complete" => s.path \in pgFiles'
                            /\ s.status = "failed" => pgFailures' # {}
      BY <3>2, <3>3, <3>4
    <3>6. \A s \in new : \A t \in sections \cup new : s # t => Differ(s.path, t.path)
      BY <1>2, <3>2
    <3> HIDE DEF new
    <3> QED
      BY <1>0, <1>1, <3>4, <3>5, <3>6, EnteredOfNone DEF RunningInv
  <2> QED
    BY <1>1, <2>1, <2>2
<1>4. pgFailures' # {} => Failed(sections')
  <2>0. pgFailures # {} => Failed(sections)
    BY <1>0 DEF RunningInv, InventoryInv
  <2>1. CASE sections' = sections \cup {[path |-> Raw, status |-> "failed"]}
    BY <2>1, OneMore
  <2>2. CASE pgFailures' = pgFailures
    BY <1>1, <2>0, <2>2 DEF Failed
  <2> QED
    BY <1>1, <2>1, <2>2
<1>5. \A p \in pgFiles' : Placed(p) /\ \A d \in Left' : ~OfDatabase(p, d)
  <2>1. Left' = Left
    BY <1>1 DEF Left
  <2> QED
    BY <1>1, <2>1, ClusterIs DEF RunningInv, CurrentInv, OfDatabase
<1> QED
  BY <1>0, <1>1, <1>3, <1>4, <1>5, BetweenDatabases DEF RunningInv, DatabaseNames

\* The two outputs of the end lie apart from all others.
LEMMA LastOutputs ==
    /\ \A p : Placed(p) => Differ(p, <<"database-map">>) /\ Differ(<<"database-map">>, p)
                        /\ Differ(p, <<"collector">>) /\ Differ(<<"collector">>, p)
    /\ Differ(<<"database-map">>, <<"collector">>) /\ Differ(<<"collector">>, <<"database-map">>)
    /\ \A d : ~OfDatabase(<<"database-map">>, d) /\ ~OfDatabase(<<"collector">>, d)
    /\ <<"database-map">>[1] = "database-map" /\ <<"collector">>[1] = "collector"
BY DEF Differ, Placed, OfDatabase

LEMMA ApartIsDisjoint ==
    ASSUME NEW p, NEW q, Len(p) \in Nat, Len(q) \in Nat, Differ(p, q)
    PROVE  \/ ~Starts(p, q) /\ ~Starts(PgFolded(p), PgFolded(q))
           \/ p[2] # q[2]
<1>1. PICK k \in 1..Len(p) : k <= Len(q) /\ p[k] # q[k]
  BY DEF Differ
<1>2. SUFFICES ASSUME k # 2 PROVE ~Starts(p, q) /\ ~Starts(PgFolded(p), PgFolded(q))
  BY <1>1
<1>3. \A s, t : Starts(s, t) /\ Len(s) \in Nat /\ k \in 1..Len(s) => s[k] = t[k]
  BY DEF Starts
<1>4. \A s : Len(s) \in Nat => Len(PgFolded(s)) = Len(s) /\ \A j \in 1..Len(s) : j # 2 => PgFolded(s)[j] = s[j]
  BY DEF PgFolded
<1> QED
  BY <1>1, <1>2, <1>3, <1>4

LEMMA FinishPostgresHonest == ASSUME PostgresAssumption, RunningInv, FinishPostgres PROVE ManifestHonest'
<1>0. step = "next" /\ db = None /\ todo = {}
  BY DEF FinishPostgres, PgAt, RunningInv, CurrentInv, DatabaseSteps
<1> DEFINE m == [path |-> <<"database-map">>, status |-> "complete"]
           c == [path |-> <<"collector">>, status |-> "complete"]
<1>1. /\ pgManifest' = [finalized |-> TRUE, sections |-> sections']
      /\ sections' = sections \cup {m, c}
      /\ pgFiles' = pgFiles \cup {<<"database-map">>, <<"collector">>}
      /\ pgCode' = (IF pgFailures = {} THEN "0" ELSE "6") /\ UNCHANGED <<selected, pgFailures>>
  BY DEF FinishPostgres, Item
<1>2. m.path = <<"database-map">> /\ m.status = "complete" /\ c.path = <<"collector">> /\ c.status = "complete"
  OBVIOUS
<1>3. pgManifest'.sections = sections'
  BY <1>1
<1> HIDE DEF m, c
<1>4. \A s \in sections : Placed(s.path) /\ Len(s.path) \in Nat
  BY DEF RunningInv, Entered, Placed
<1>5. PgCompleteIsWhole'
  <2> SUFFICES ASSUME NEW s \in sections', s.status = "complete"
               PROVE  \/ s.path \in pgFiles'
                      \/ /\ Len(s.path) = 3 /\ s.path[3] \in DOMAIN Reads
                         /\ \A r \in Reads[s.path[3]] : s.path \o <<r>> \in pgFiles'
    BY <1>3 DEF PgCompleteIsWhole
  <2>1. CASE s \in sections
    <3>1. WholeIn(s.path, pgFiles)
      BY <2>1 DEF RunningInv, Entered
    <3> QED
      BY <1>1, <3>1 DEF WholeIn
  <2>2. CASE s \in {m, c}
    BY <1>1, <1>2, <2>2
  <2> QED
    BY <1>1, <2>1, <2>2
<1>6. PgSectionsDisjoint'
  <2> SUFFICES ASSUME NEW s \in sections', NEW t \in sections', s # t
               PROVE  \/ ~Starts(s.path, t.path) /\ ~Starts(PgFolded(s.path), PgFolded(t.path))
                      \/ s.path[2] # t.path[2]
    BY <1>3 DEF PgSectionsDisjoint, PgFolded
  <2>1. Differ(s.path, t.path)
    <3>1. CASE s \in sections /\ t \in sections
      BY <3>1 DEF RunningInv, Entered
    <3>2. CASE s \in sections /\ t \notin sections
      BY <1>1, <1>2, <1>4, <3>2, LastOutputs
    <3>3. CASE s \notin sections /\ t \in sections
      BY <1>1, <1>2, <1>4, <3>3, LastOutputs
    <3>4. CASE s \notin sections /\ t \notin sections
      BY <1>1, <1>2, <3>4, LastOutputs
    <3> QED
      BY <3>1, <3>2, <3>3, <3>4
  <2>2. Len(s.path) \in Nat /\ Len(t.path) \in Nat
    <3>1. Len(<<"database-map">>) = 1 /\ Len(<<"collector">>) = 1
      OBVIOUS
    <3> QED
      BY <1>1, <1>2, <1>4, <3>1
  <2> QED
    BY <2>1, <2>2, ApartIsDisjoint
<1>7. PgAccounted'
  <2>1. Told(sections) \subseteq Told(sections')
    BY <1>1 DEF Told
  <2>2. Left = {}
    BY <1>0 DEF Left
  <2>3. \A d \in selected' : Of(d) \in Told(sections')
           \/ \A q \in Queries \cup Optional : In(d, <<"inventory", q>>) \in Told(sections')
    BY <1>0, <1>1, <2>1, <2>2 DEF RunningInv, Entered, PostgresAssumption
  <2>4. (pgFailures # {} => Failed(sections)) /\ (Failed(sections) => pgFailures # {})
    BY <1>0 DEF RunningInv, InventoryInv, Entered
  <2>5. (Failed(sections') => Failed(sections)) /\ (Failed(sections) => Failed(sections'))
    BY <1>1, <1>2 DEF Failed
  <2>6. pgCode' = "6" <=> Failed(sections')
    <3>1. CASE pgFailures = {}
      BY <1>1, <2>4, <2>5, <3>1
    <3>2. CASE pgFailures # {}
      BY <1>1, <2>4, <2>5, <3>2
    <3> QED
      BY <3>1, <3>2
  <2>7. (\A d \in selected : Of(d) \in {s.path : s \in pgManifest.sections}
           \/ \A q \in Queries \cup Optional : In(d, <<"inventory", q>>) \in {s.path : s \in pgManifest.sections})'
    BY <1>3, <2>3 DEF Told, Of, In
  <2>8. (pgCode = "6" <=> \E s \in pgManifest.sections : s.status = "failed")'
    BY <1>3, <2>6 DEF Failed
  <2> QED
    BY <2>7, <2>8 DEF PgAccounted
<1> QED
  BY <1>5, <1>6, <1>7 DEF ManifestHonest

\* Nothing is finished while the collector runs.
LEMMA NotFinished == ASSUME ~pgManifest.finalized PROVE ManifestHonest
BY DEF ManifestHonest

LEMMA PostgresStarts == ASSUME PostgresAssumption, CollectorInit PROVE PgInv
<1> USE DEF CollectorInit
<1>1. Left = selected
  <2>1. \A d \in selected : \E i \in 1..Len(Databases) : Databases[i] = d
    BY DEF Selectable, DatabaseNames
  <2> QED
    BY <2>1 DEF Left
<1>2. Entered(sections)
  BY <1>1 DEF Entered, Failed
<1>3. CurrentInv
  BY DEF CurrentInv
<1>4. InventoryInv
  BY DEF InventoryInv
<1>5. RunningInv
  BY <1>2, <1>3, <1>4 DEF RunningInv, Selectable
<1> QED
  BY <1>5, NotFinished DEF PgInv

LEMMA PostgresSteps == ASSUME PostgresAssumption, PgInv, [CollectorNext]_bvars PROVE PgInv'
<1>1. CASE UNCHANGED bvars
  <2>1. RunningInv' <=> RunningInv
    BY <1>1
    DEF bvars, RunningInv, Entered, CurrentInv, InventoryInv, Left, Told, Failed, WholeIn,
                Expected, InventoryFiles, In, Of
  <2>2. ManifestHonest' <=> ManifestHonest
    BY <1>1
    DEF bvars, ManifestHonest, PgCompleteIsWhole, PgSectionsDisjoint, PgAccounted,
        PgFolded,
                In, Of
  <2> QED
    BY <1>1, <2>1, <2>2 DEF PgInv, bvars
<1>2. CASE CollectorNext
  <2>1. RunningInv /\ ~pgManifest.finalized /\ pgCode = "running"
    BY <1>2
    DEF PgInv, CollectorNext, CaptureCluster, CopyRaw, Fatal, NextDatabase, Audit,
        Identity,
                DumpSchema, DatabaseFails, Inventory, ReadOptional, CertifyOptional, RunAdapters,
                EndDatabase, CollectObjectFiles, CollectSchedulers, Group, FinishPostgres, Killed,
                PgAt
  <2>2. CASE FinishPostgres
    <3>1. pgCode' \in {"0", "6"}
      BY <2>2 DEF FinishPostgres
    <3> QED
      BY <2>1, <2>2, <3>1, FinishPostgresHonest DEF PgInv
  <2>3. CASE Fatal \/ Killed
    <3>1. pgCode' # "running" /\ pgManifest' = pgManifest
      BY <2>3 DEF Fatal, Killed
    <3> QED
      BY <2>1, <3>1 DEF PgInv, ManifestHonest
  <2>4. CASE \/ CaptureCluster \/ CopyRaw \/ NextDatabase \/ Audit \/ Identity \/ DumpSchema
             \/ DatabaseFails \/ Inventory \/ ReadOptional \/ CertifyOptional \/ RunAdapters
             \/ EndDatabase \/ CollectObjectFiles \/ CollectSchedulers
    <3>1. RunningInv'
      BY <2>1, <2>4, ClusterKeeps, CopyRawKeeps, NextDatabaseKeeps, AuditKeeps,
         IdentityKeeps,
         DumpSchemaKeeps, DatabaseFailsKeeps, InventoryGoesOn, ReadOptionalKeeps, CertifyKeeps,
         AdaptersKeep, EndDatabaseKeeps, GroupKeeps DEF CollectObjectFiles, CollectSchedulers
    <3>2. CASE DatabaseFails \/ EndDatabase
      <4>1. pgManifest' = [finalized |-> FALSE, sections |-> sections'] /\ pgCode' = pgCode
        BY <3>2 DEF DatabaseFails, EndDatabase
      <4> QED
        BY <2>1, <3>1, <4>1 DEF PgInv, ManifestHonest
    <3>3. CASE CaptureCluster \/ Identity \/ Inventory
      <4>1. UNCHANGED <<pgManifest, pgCode>>
        BY <3>3, Captures DEF CaptureCluster, Identity, Inventory
      <4> QED
        BY <2>1, <3>1, <4>1 DEF PgInv, ManifestHonest
    <3>4. CASE \/ CopyRaw \/ NextDatabase \/ Audit \/ DumpSchema \/ ReadOptional \/ CertifyOptional
               \/ RunAdapters \/ CollectObjectFiles \/ CollectSchedulers
      <4>1. UNCHANGED <<pgManifest, pgCode>>
        BY <3>4
        DEF CopyRaw, NextDatabase, Audit, DumpSchema, ReadOptional, CertifyOptional,
                    RunAdapters, CollectObjectFiles, CollectSchedulers, Group
      <4> QED
        BY <2>1, <3>1, <4>1 DEF PgInv, ManifestHonest
    <3> QED
      BY <2>4, <3>2, <3>3, <3>4
  <2> QED
    BY <1>2, <2>2, <2>3, <2>4 DEF CollectorNext
<1> QED
  BY <1>1, <1>2

LEMMA PostgresHolds == PgInv => ManifestHonest
BY DEF PgInv

-----------------------------------------------------------------------------
(* The host collector                                                      *)

Begun == 1..(next - 1)
PartsBegun == UNION {Inv[j].parts : j \in Begun}
NotesBegun == UNION {Inv[j].notes : j \in Begun}

\* What a complete section may hold: read whole, or in part without a failed section.
Had == hostFiles \cap (whole \cup partial)

\* What is written is whole, or it is known to be doubtful.
WrittenInv ==
    /\ <<"collector">> \in whole /\ whole \subseteq hostFiles
    /\ hostFiles \subseteq {<<"collector">>} \cup OutputsOf(host) \cup NotesBegun
                             \cup {DataOf(p) : p \in PartsBegun}
    /\ \A f \in hostFiles :
          \/ f \in whole \cup partial \cup uncertain
          \/ \E s \in inner : s.status = "failed" /\ s.path \in PartsBegun /\ f = DataOf(s.path)
    /\ uncertain \subseteq hostFiles
    /\ uncertain # {} => hostFailures # {}

\* What the inventories certified has been read.
CertifiedInv ==
    /\ \A s \in inner : \/ s.path \in PartsBegun /\ (s.status = "complete" => DataOf(s.path) \in Had)
                        \/ s.path \in NotesBegun /\ (s.status = "complete" => s.path \in whole)
                        \/ s.status = "failed" /\ \E j \in Begun : s.path = Inv[j].scope
    /\ \A s \in inner : s = Item(s.path, s.status) /\ (s.status = "failed" => hostFailures # {})
    /\ \A s, t \in inner : s.path = t.path => s = t

ReadingInv ==
    /\ host \in DOMAIN Hosts
    /\ at \in Nat \ {0} /\ next \in 1..(Len(Inv) + 1)
    /\ WrittenInv /\ CertifiedInv

HostInv == (hostCode = "running" => ReadingInv /\ ~hostManifest.finalized) /\ SystemHonest

-----------------------------------------------------------------------------
(* Paths under paths                                                       *)

LEMMA StartsIs ==
    ASSUME NEW S, NEW p \in Seq(S), NEW q \in Seq(S)
    PROVE  Starts(p, q) <=> Len(p) <= Len(q) /\ \A i \in 1..Len(p) : q[i] = p[i]
<1>0. Len(p) \in Nat /\ Len(q) \in Nat
  BY LenProperties
<1>1. ASSUME Len(p) <= Len(q)
      PROVE  /\ SubSeq(q, 1, Len(p)) \in Seq(S) /\ Len(SubSeq(q, 1, Len(p))) = Len(p)
             /\ \A i \in 1..Len(p) : SubSeq(q, 1, Len(p))[i] = q[i]
  BY <1>0, <1>1
<1>2. ASSUME Starts(p, q) PROVE Len(p) <= Len(q) /\ \A i \in 1..Len(p) : q[i] = p[i]
  BY <1>1, <1>2 DEF Starts
<1>3. ASSUME Len(p) <= Len(q), \A i \in 1..Len(p) : q[i] = p[i] PROVE Starts(p, q)
  <2>1. SubSeq(q, 1, Len(p)) = p
    BY <1>1, <1>3, SeqEqual
  <2> QED
    BY <1>3, <2>1 DEF Starts
<1> QED
  BY <1>2, <1>3

LEMMA StartsSelf == ASSUME NEW S, NEW p \in Seq(S) PROVE Starts(p, p)
BY StartsIs

Words == PathPart \cup {"configuration"}

LEMMA WordsAre == Seq(PathPart) \subseteq Seq(Words)
BY SeqMonotonic DEF Words

LEMMA DataIs ==
    ASSUME NEW p \in Seq(Words)
    PROVE  /\ DataOf(p) \in Seq(Words) /\ Len(DataOf(p)) = Len(p) + 1
           /\ \A i \in 1..Len(p) : DataOf(p)[i] = p[i]
<1>1. <<"configuration">> \in Seq(Words) /\ Len(<<"configuration">>) = 1
  <2>1. \A x \in Words : <<x>> \in Seq(Words) /\ Len(<<x>>) = 1
    OBVIOUS
  <2> QED
    BY <2>1 DEF Words
<1> QED
  BY <1>1, ConcatProperties, LenProperties DEF DataOf

LEMMA UnderData ==
    ASSUME NEW p \in Seq(Words), NEW q \in Seq(Words)
    PROVE  /\ Starts(p, DataOf(p))
           /\ Starts(p, DataOf(q)) => Starts(p, q) \/ p = DataOf(q)
           /\ Starts(DataOf(p), q) => Starts(p, q) /\ p # q
           /\ p # DataOf(p)
<1>0. Len(p) \in Nat /\ Len(q) \in Nat
  BY LenProperties
<1>1. /\ DataOf(p) \in Seq(Words) /\ Len(DataOf(p)) = Len(p) + 1
      /\ \A i \in 1..Len(p) : DataOf(p)[i] = p[i]
      /\ DataOf(q) \in Seq(Words) /\ Len(DataOf(q)) = Len(q) + 1
      /\ \A i \in 1..Len(q) : DataOf(q)[i] = q[i]
  BY DataIs
<1>2. Starts(p, DataOf(p)) /\ p # DataOf(p)
  BY <1>0, <1>1, StartsIs
<1>3. ASSUME Starts(p, DataOf(q)) PROVE Starts(p, q) \/ p = DataOf(q)
  <2>1. Len(p) <= Len(q) + 1 /\ \A i \in 1..Len(p) : DataOf(q)[i] = p[i]
    BY <1>1, <1>3, StartsIs
  <2>2. CASE Len(p) = Len(q) + 1
    BY <1>1, <2>1, <2>2, SeqEqual
  <2>3. CASE Len(p) <= Len(q)
    BY <1>0, <1>1, <2>1, <2>3, StartsIs
  <2> QED
    BY <1>0, <2>1, <2>2, <2>3
<1>4. ASSUME Starts(DataOf(p), q) PROVE Starts(p, q) /\ p # q
  <2>1. Len(p) + 1 <= Len(q) /\ \A i \in 1..(Len(p) + 1) : q[i] = DataOf(p)[i]
    BY <1>1, <1>4, StartsIs
  <2>2. Len(p) <= Len(q) /\ p # q
    BY <1>0, <2>1
  <2>3. \A i \in 1..Len(p) : q[i] = p[i]
    BY <1>0, <1>1, <2>1
  <2> QED
    BY <2>2, <2>3, StartsIs
<1> QED
  BY <1>2, <1>3, <1>4

-----------------------------------------------------------------------------
(* Which outputs there are                                                 *)

All(h)       == Reserved \cup OutputsOf(h)
                  \cup UNION {InventoryOf(Inventories[h][j]) : j \in 1..Len(Inventories[h])}
Parts(h)     == UNION {Inventories[h][j].parts : j \in 1..Len(Inventories[h])}
FileNames(h) == (All(h) \ Parts(h)) \cup {DataOf(p) : p \in Parts(h)}
Wholes(h)    == {Inventories[h][j].scope : j \in 1..Len(Inventories[h])}

LEMMA HostFacts ==
    ASSUME HostAssumption, NEW h \in DOMAIN Hosts
    PROVE  /\ Len(Hosts[h]) \in Nat /\ Len(Inventories[h]) \in Nat
           /\ All(h) \subseteq Seq(Words) /\ Wholes(h) \subseteq Seq(Words)
           /\ \A p, q \in All(h) : p # q => ~Starts(p, q)
           /\ \A p \in All(h), q \in Wholes(h) : ~Starts(p, q)
           /\ Parts(h) \subseteq All(h) /\ Parts(h) \cap (Reserved \cup OutputsOf(h)) = {}
           /\ \A j \in 1..Len(Inventories[h]) : Inventories[h][j].notes \cap Parts(h) = {}
<1>1. /\ Len(Hosts[h]) \in Nat /\ Len(Inventories[h]) \in Nat
      /\ All(h) \subseteq Seq(PathPart)
      /\ \A p, q \in All(h) : p # q => ~Starts(p, q)
  BY DEF HostAssumption, All
<1>2. /\ Wholes(h) \subseteq Seq(PathPart)
      /\ \A p \in All(h), q \in Wholes(h) : ~Starts(p, q)
  <2>1. \A j \in 1..Len(Inventories[h]) :
          /\ Inventories[h][j].scope \in Seq(PathPart)
          /\ \A p \in All(h) : ~Starts(p, Inventories[h][j].scope)
    BY DEF HostAssumption, All
  <2> QED
    BY <2>1 DEF Wholes
<1>3. Parts(h) \subseteq All(h)
  BY DEF All, Parts, InventoryOf
<1>4. Parts(h) \cap (Reserved \cup OutputsOf(h)) = {}
  BY DEF HostAssumption, Parts, InventoryOf
<1>5. \A j \in 1..Len(Inventories[h]) : Inventories[h][j].notes \cap Parts(h) = {}
  <2> SUFFICES ASSUME NEW j \in 1..Len(Inventories[h]), NEW k \in 1..Len(Inventories[h])
               PROVE  Inventories[h][j].notes \cap Inventories[h][k].parts = {}
    BY DEF Parts
  <2>1. CASE j = k
    BY <2>1 DEF HostAssumption
  <2>2. CASE j # k
    BY <2>2 DEF HostAssumption, InventoryOf
  <2> QED
    BY <2>1, <2>2
<1> QED
  BY <1>1, <1>2, <1>3, <1>4, <1>5, WordsAre

\* No file lies under another, and a section of an inventory holds one file.
LEMMA FilesApart ==
    ASSUME HostAssumption, NEW h \in DOMAIN Hosts
    PROVE  /\ FileNames(h) \subseteq Seq(Words)
           /\ \A f, g \in FileNames(h) : Starts(f, g) => f = g
           /\ \A p \in Parts(h), f \in FileNames(h) : Starts(p, f) => f = DataOf(p)
           /\ \A f \in FileNames(h), p \in All(h) : Starts(f, p) => f = p
           /\ \A f \in FileNames(h), p \in Wholes(h) : ~Starts(f, p)
<1>0. /\ All(h) \subseteq Seq(Words) /\ Wholes(h) \subseteq Seq(Words)
      /\ \A p, q \in All(h) : p # q => ~Starts(p, q)
      /\ \A p \in All(h), q \in Wholes(h) : ~Starts(p, q)
      /\ Parts(h) \subseteq All(h)
  BY HostFacts
<1>1. \A f \in FileNames(h) : \/ f \in All(h) /\ f \notin Parts(h)
                              \/ \E p \in Parts(h) : f = DataOf(p)
  BY DEF FileNames
<1>2. \A p \in Parts(h) : DataOf(p) \in Seq(Words)
  BY <1>0, DataIs
<1>3. FileNames(h) \subseteq Seq(Words)
  BY <1>0, <1>1, <1>2
<1>4. ASSUME NEW p \in Parts(h), NEW f \in FileNames(h), Starts(p, f) PROVE f = DataOf(p)
  <2>1. CASE f \in All(h) /\ f \notin Parts(h)
    BY <1>0, <1>4, <2>1
  <2>2. CASE \E q \in Parts(h) : f = DataOf(q)
    <3>1. PICK q \in Parts(h) : f = DataOf(q)
      BY <2>2
    <3>2. Starts(p, q) \/ p = DataOf(q)
      BY <1>0, <1>4, <3>1, UnderData
    <3>3. CASE p = DataOf(q)
      <4>1. Starts(q, p) /\ q # p
        BY <1>0, <3>3, UnderData
      <4> QED
        BY <1>0, <4>1
    <3> QED
      BY <1>0, <3>1, <3>2, <3>3
  <2> QED
    BY <1>1, <2>1, <2>2
<1>5. ASSUME NEW f \in FileNames(h), NEW p \in All(h), Starts(f, p) PROVE f = p
  <2>1. CASE f \in All(h)
    BY <1>0, <1>5, <2>1
  <2>2. CASE \E q \in Parts(h) : f = DataOf(q)
    <3>1. PICK q \in Parts(h) : f = DataOf(q)
      BY <2>2
    <3>2. Starts(q, p) /\ q # p
      BY <1>0, <1>5, <3>1, UnderData
    <3> QED
      BY <1>0, <3>2
  <2> QED
    BY <1>1, <2>1, <2>2
<1>6. ASSUME NEW f \in FileNames(h), NEW p \in Wholes(h) PROVE ~Starts(f, p)
  <2>1. CASE f \in All(h)
    BY <1>0, <2>1
  <2>2. CASE \E q \in Parts(h) : f = DataOf(q)
    <3>1. PICK q \in Parts(h) : f = DataOf(q)
      BY <2>2
    <3>2. Starts(f, p) => Starts(q, p)
      BY <1>0, <3>1, UnderData
    <3> QED
      BY <1>0, <3>2
  <2> QED
    BY <1>1, <2>1, <2>2
<1>7. ASSUME NEW f \in FileNames(h), NEW g \in FileNames(h), Starts(f, g) PROVE f = g
  <2>1. CASE g \in All(h)
    BY <1>5, <1>7, <2>1
  <2>2. CASE \E q \in Parts(h) : g = DataOf(q)
    <3>1. PICK q \in Parts(h) : g = DataOf(q)
      BY <2>2
    <3>2. Starts(f, q) \/ f = g
      BY <1>0, <1>3, <1>7, <3>1, UnderData
    <3>3. CASE Starts(f, q)
      <4>1. f = q
        BY <1>0, <1>5, <3>3
      <4>2. f \notin Parts(h) \/ \E r \in Parts(h) : f = DataOf(r)
        BY <1>1
      <4>3. PICK r \in Parts(h) : f = DataOf(r)
        BY <4>1, <4>2
      <4>4. Starts(r, q) /\ r # q
        BY <1>0, <4>1, <4>3, UnderData
      <4> QED
        BY <1>0, <4>4
    <3> QED
      BY <3>2, <3>3
  <2> QED
    BY <1>1, <2>1, <2>2
<1> QED
  BY <1>3, <1>4, <1>5, <1>6, <1>7

-----------------------------------------------------------------------------
(* What the steps keep                                                     *)

LEMMA BegunIs ==
    ASSUME HostAssumption, ReadingInv
    PROVE  /\ Begun \subseteq 1..Len(Inv)
           /\ PartsBegun \subseteq Parts(host)
           /\ PartsBegun \cup NotesBegun \subseteq All(host)
           /\ \A j \in Begun : Inv[j].scope \in Wholes(host)
           /\ NotesBegun \cap Parts(host) = {}
           /\ hostFiles \subseteq FileNames(host)
<1>0. Len(Inv) \in Nat /\ host \in DOMAIN Hosts
  BY HostFacts DEF ReadingInv, Inv
<1>1. Begun \subseteq 1..Len(Inv)
  BY <1>0 DEF Begun, ReadingInv
<1>2. PartsBegun \subseteq Parts(host) /\ \A j \in Begun : Inv[j].scope \in Wholes(host)
  BY <1>1 DEF PartsBegun, Parts, Wholes, Inv
<1>3. PartsBegun \cup NotesBegun \subseteq All(host)
  BY <1>1 DEF PartsBegun, NotesBegun, All, InventoryOf, Inv
<1>4. NotesBegun \cap Parts(host) = {}
  BY <1>0, <1>1, HostFacts DEF NotesBegun, Inv
<1>5. OutputsOf(host) \cup {<<"collector">>} \subseteq All(host)
      /\ (OutputsOf(host) \cup {<<"collector">>}) \cap Parts(host) = {}
  BY <1>0, HostFacts DEF All, Reserved
<1>6. hostFiles \subseteq FileNames(host)
  BY <1>2, <1>3, <1>4, <1>5 DEF ReadingInv, WrittenInv, FileNames
<1> QED
  BY <1>1, <1>2, <1>3, <1>4, <1>6

\* While the host is read no inventory begins.
LEMMA ReadingKeeps ==
    ASSUME HostAssumption, ReadingInv, UNCHANGED <<host, next, inner>>,
           at' \in Nat \ {0}, hostFailures \subseteq hostFailures',
           whole \subseteq whole', whole' \subseteq hostFiles', hostFiles \subseteq hostFiles',
           partial \subseteq partial', hostFiles' \subseteq hostFiles \cup OutputsOf(host),
           \A f \in hostFiles' \ hostFiles : f \in whole' \cup partial' \cup uncertain',
           uncertain \subseteq uncertain' \cup whole', uncertain' \subseteq hostFiles',
           uncertain' # {} => hostFailures' # {}
    PROVE  ReadingInv'
<1> USE DEF ReadingInv
<1>1. /\ Begun' = Begun /\ PartsBegun' = PartsBegun /\ NotesBegun' = NotesBegun
      /\ Inv' = Inv /\ OutputsOf(host)' = OutputsOf(host) /\ Had \subseteq Had'
  BY DEF Begun, PartsBegun, NotesBegun, Inv, OutputsOf, Had
<1>2. WrittenInv'
  <2>1. <<"collector">> \in whole' /\ whole' \subseteq hostFiles'
    BY DEF WrittenInv
  <2>2. hostFiles' \subseteq {<<"collector">>} \cup OutputsOf(host) \cup NotesBegun
                               \cup {DataOf(p) : p \in PartsBegun}
    BY DEF WrittenInv
  <2>3. \A f \in hostFiles' :
          \/ f \in whole' \cup partial' \cup uncertain'
          \/ \E s \in inner : s.status = "failed" /\ s.path \in PartsBegun /\ f = DataOf(s.path)
    BY DEF WrittenInv
  <2> QED
    BY <1>1, <2>1, <2>2, <2>3 DEF WrittenInv, DataOf
<1>3. CertifiedInv'
  <2>1. \A s \in inner :
          \/ s.path \in PartsBegun /\ (s.status = "complete" => DataOf(s.path) \in Had')
          \/ s.path \in NotesBegun /\ (s.status = "complete" => s.path \in whole')
          \/ s.status = "failed" /\ \E j \in Begun : s.path = Inv[j].scope
    <3> TAKE s \in inner
    <3>1. \/ s.path \in PartsBegun /\ (s.status = "complete" => DataOf(s.path) \in Had)
          \/ s.path \in NotesBegun /\ (s.status = "complete" => s.path \in whole)
          \/ s.status = "failed" /\ \E j \in Begun : s.path = Inv[j].scope
      BY DEF CertifiedInv
    <3>2. CASE s.path \in PartsBegun /\ (s.status = "complete" => DataOf(s.path) \in Had)
      BY <1>1, <3>2
    <3>3. CASE s.path \in NotesBegun /\ (s.status = "complete" => s.path \in whole)
      BY <3>3
    <3> QED
      BY <3>1, <3>2, <3>3
  <2>2. \A s \in inner : s = Item(s.path, s.status) /\ (s.status = "failed" => hostFailures' # {})
    BY DEF CertifiedInv
  <2> QED
    BY <1>1, <2>1, <2>2 DEF CertifiedInv, DataOf
<1> QED
  BY <1>1, <1>2, <1>3 DEF Inv

LEMMA OutputKeeps ==
    ASSUME HostAssumption, ReadingInv, ReadOutput \/ ReadFails \/ HostReadAborts PROVE ReadingInv'
<1>0. /\ at <= Len(Core) /\ at \in Nat \ {0} /\ Len(Core) \in Nat
      /\ UNCHANGED <<host, next, inner>>
  BY HostFacts DEF ReadOutput, ReadFails, HostReadAborts, Reading, ReadingInv, Core
<1>1. Core[at].path \in OutputsOf(host) /\ at + 1 \in Nat \ {0} /\ Len(Core) + 1 \in Nat \ {0}
  BY <1>0 DEF OutputsOf, Core
<1>2. /\ <<"collector">> \in whole /\ whole \subseteq hostFiles /\ uncertain \subseteq hostFiles
      /\ uncertain # {} => hostFailures # {}
  BY DEF ReadingInv, WrittenInv
<1>3. CASE ReadOutput
  <2>1. \/ UNCHANGED <<hostFiles, whole>>
        \/ hostFiles' = hostFiles \cup {Core[at].path} /\ whole' = whole \cup {Core[at].path}
    BY <1>3 DEF ReadOutput
  <2>2. at' = at + 1 /\ UNCHANGED <<partial, uncertain, hostFailures>>
    BY <1>3 DEF ReadOutput
  <2> QED
    BY <1>0, <1>1, <1>2, <2>1, <2>2, ReadingKeeps
<1>4. CASE ReadFails
  <2>1. PICK on \in Core[at].on \ {"aborts"} :
          /\ hostFailures' = (IF on \in {"silent", "thinned"} THEN hostFailures
                              ELSE hostFailures \cup {Core[at].path})
          /\ IF on \in {"emptied", "torn", "thinned"}
             THEN hostFiles' = hostFiles \cup {Core[at].path} /\ partial' = partial \cup {Core[at].path}
             ELSE UNCHANGED <<hostFiles, partial>>
    BY <1>4 DEF ReadFails
  <2>2. at' = at + 1 /\ UNCHANGED <<uncertain, whole>>
    BY <1>4 DEF ReadFails
  <2>3. partial \subseteq partial' /\ \A f \in hostFiles' \ hostFiles : f \in partial'
    BY <2>1
  <2>4. hostFailures \subseteq hostFailures' /\ hostFiles \subseteq hostFiles'
        /\ hostFiles' \subseteq hostFiles \cup {Core[at].path}
    BY <2>1
  <2> QED
    BY <1>0, <1>1, <1>2, <2>2, <2>3, <2>4, ReadingKeeps
<1>5. CASE HostReadAborts
  <2>1. /\ hostFailures' = hostFailures \cup {<<"collector">>}
        /\ hostFiles' \in {hostFiles, hostFiles \cup {Core[at].path}}
        /\ uncertain' = hostFiles' \ {<<"collector">>} /\ at' = Len(Core) + 1
        /\ UNCHANGED <<whole, partial>>
    BY <1>5 DEF HostReadAborts, Doubted
  <2>2. hostFiles \subseteq hostFiles' /\ hostFiles' \subseteq hostFiles \cup {Core[at].path}
    BY <2>1
  <2>3. uncertain \subseteq uncertain' \cup whole' /\ uncertain' \subseteq hostFiles'
    BY <1>2, <2>1, <2>2
  <2>4. \A f \in hostFiles' \ hostFiles : f \in whole' \cup uncertain'
    BY <1>2, <2>1
  <2>5. hostFailures \subseteq hostFailures' /\ hostFailures' # {}
    BY <2>1
  <2> QED
    BY <1>0, <1>1, <1>2, <2>1, <2>2, <2>3, <2>4, <2>5, ReadingKeeps
<1> QED
  BY <1>3, <1>4, <1>5

\* An inventory adds files of its own, and sections of its own for them.
LEMMA OneInventoryKeeps ==
    ASSUME HostAssumption, ReadingInv, next <= Len(Inv), next' = next + 1,
           UNCHANGED <<host, at, uncertain>>, NEW new, inner' = inner \cup new,
           whole \subseteq whole', whole' \subseteq hostFiles', hostFiles \subseteq hostFiles',
           partial \subseteq partial', hostFailures \subseteq hostFailures',
           \A f \in hostFiles' : \/ f \in hostFiles \cup Inv[next].notes
                                 \/ \E p \in Inv[next].parts : f = DataOf(p),
           \A f \in hostFiles' \ hostFiles :
              \/ f \in whole' \cup partial'
              \/ \E s \in new : s.status = "failed" /\ s.path \in Inv[next].parts /\ f = DataOf(s.path),
           \A s \in new : \/ s.path \in Inv[next].parts /\ (s.status = "complete" => DataOf(s.path) \in Had')
                          \/ s.path \in Inv[next].notes /\ (s.status = "complete" => s.path \in whole')
                          \/ s.status = "failed" /\ s.path = Inv[next].scope,
           \A s \in new : s = Item(s.path, s.status) /\ (s.status = "failed" => hostFailures' # {}),
           \A s, t \in new : s.path = t.path => s = t
    PROVE  ReadingInv'
<1>0. /\ host \in DOMAIN Hosts /\ Len(Inv) \in Nat /\ next \in 1..Len(Inv)
      /\ at \in Nat \ {0}
  BY HostFacts DEF ReadingInv, Inv
<1>1. /\ Begun' = Begun \cup {next} /\ next \notin Begun /\ next' \in 1..(Len(Inv) + 1)
  BY <1>0 DEF Begun
<1>2. /\ Inv' = Inv /\ OutputsOf(host)' = OutputsOf(host) /\ Had \subseteq Had'
      /\ PartsBegun' = PartsBegun \cup Inv[next].parts /\ NotesBegun' = NotesBegun \cup Inv[next].notes
  BY <1>1 DEF PartsBegun, NotesBegun, Inv, OutputsOf, Had
<1>3. WrittenInv'
  <2>1. <<"collector">> \in whole' /\ whole' \subseteq hostFiles'
    BY DEF ReadingInv, WrittenInv
  <2>2. hostFiles' \subseteq {<<"collector">>} \cup OutputsOf(host) \cup NotesBegun'
                               \cup {DataOf(p) : p \in PartsBegun'}
    BY <1>2 DEF ReadingInv, WrittenInv
  <2>3. \A f \in hostFiles' :
          \/ f \in whole' \cup partial' \cup uncertain
          \/ \E s \in inner' : s.status = "failed" /\ s.path \in PartsBegun' /\ f = DataOf(s.path)
    <3> TAKE f \in hostFiles'
    <3>1. CASE f \in hostFiles
      <4>1. \/ f \in whole \cup partial \cup uncertain
            \/ \E s \in inner : s.status = "failed" /\ s.path \in PartsBegun /\ f = DataOf(s.path)
        BY <3>1 DEF ReadingInv, WrittenInv
      <4> QED
        BY <1>2, <4>1
    <3>2. CASE f \notin hostFiles
      <4>1. \/ f \in whole' \cup partial'
            \/ \E s \in new : s.status = "failed" /\ s.path \in Inv[next].parts /\ f = DataOf(s.path)
        BY <3>2
      <4> QED
        BY <1>2, <4>1
    <3> QED
      BY <3>1, <3>2
  <2>4. uncertain \subseteq hostFiles' /\ (uncertain # {} => hostFailures' # {})
    BY DEF ReadingInv, WrittenInv
  <2> QED
    BY <1>2, <2>1, <2>2, <2>3, <2>4 DEF WrittenInv, DataOf
<1>4. CertifiedInv'
  <2>1. \A s \in inner :
          \/ s.path \in PartsBegun' /\ (s.status = "complete" => DataOf(s.path) \in Had')
          \/ s.path \in NotesBegun' /\ (s.status = "complete" => s.path \in whole')
          \/ s.status = "failed" /\ \E j \in Begun' : s.path = Inv[j].scope
    <3> TAKE s \in inner
    <3>1. \/ s.path \in PartsBegun /\ (s.status = "complete" => DataOf(s.path) \in Had)
          \/ s.path \in NotesBegun /\ (s.status = "complete" => s.path \in whole)
          \/ s.status = "failed" /\ \E j \in Begun : s.path = Inv[j].scope
      BY DEF ReadingInv, CertifiedInv
    <3>2. CASE s.path \in PartsBegun /\ (s.status = "complete" => DataOf(s.path) \in Had)
      BY <1>2, <3>2
    <3>3. CASE s.path \in NotesBegun /\ (s.status = "complete" => s.path \in whole)
      BY <1>2, <3>3
    <3>4. CASE s.status = "failed" /\ \E j \in Begun : s.path = Inv[j].scope
      BY <1>1, <3>4
    <3> QED
      BY <3>1, <3>2, <3>3, <3>4
  <2>2. \A s \in new :
          \/ s.path \in PartsBegun' /\ (s.status = "complete" => DataOf(s.path) \in Had')
          \/ s.path \in NotesBegun' /\ (s.status = "complete" => s.path \in whole')
          \/ s.status = "failed" /\ \E j \in Begun' : s.path = Inv[j].scope
    <3> TAKE s \in new
    <3>1. \/ s.path \in Inv[next].parts /\ (s.status = "complete" => DataOf(s.path) \in Had')
          \/ s.path \in Inv[next].notes /\ (s.status = "complete" => s.path \in whole')
          \/ s.status = "failed" /\ s.path = Inv[next].scope
      OBVIOUS
    <3>2. CASE s.path \in Inv[next].parts /\ (s.status = "complete" => DataOf(s.path) \in Had')
      BY <1>2, <3>2
    <3>3. CASE s.path \in Inv[next].notes /\ (s.status = "complete" => s.path \in whole')
      BY <1>2, <3>3
    <3>4. CASE s.status = "failed" /\ s.path = Inv[next].scope
      BY <1>1, <3>4
    <3> QED
      BY <3>1, <3>2, <3>3, <3>4
  <2>3. \A s \in inner' : s = Item(s.path, s.status) /\ (s.status = "failed" => hostFailures' # {})
    BY DEF ReadingInv, CertifiedInv
  <2>4. ASSUME NEW s \in inner, NEW t \in new, s.path = t.path PROVE s = t
    <3>1. \/ s.path \in PartsBegun \cup NotesBegun
          \/ s.status = "failed" /\ \E j \in Begun : s.path = Inv[j].scope
      BY DEF ReadingInv, CertifiedInv
    <3>2. t.path \in InventoryOf(Inv[next]) \/ (t.status = "failed" /\ t.path = Inv[next].scope)
      BY DEF InventoryOf
    <3>3. \A j \in 1..Len(Inv) : /\ InventoryOf(Inv[j]) \subseteq All(host)
                                 /\ Inv[j].scope \in Wholes(host)
      BY DEF All, Wholes, Inv
    <3>4. \A j \in Begun : InventoryOf(Inv[j]) \cap InventoryOf(Inv[next]) = {}
      <4>1. Begun \subseteq 1..Len(Inv)
        BY BegunIs
      <4> QED
        BY <1>0, <1>1, <4>1 DEF HostAssumption, Inv
    <3>5. All(host) \cap Wholes(host) = {}
      BY <1>0, HostFacts, StartsSelf
    <3>6. s.path \in PartsBegun \cup NotesBegun =>
            s.path \in All(host) /\ s.path \notin InventoryOf(Inv[next])
      BY <3>4, BegunIs DEF PartsBegun, NotesBegun, InventoryOf
    <3>7. (\E j \in Begun : s.path = Inv[j].scope) => s.path \in Wholes(host)
      BY BegunIs
    <3>8. s.status = "failed" /\ t.status = "failed"
      BY <1>0, <2>4, <3>1, <3>2, <3>3, <3>5, <3>6, <3>7
    <3> QED
      BY <2>4, <2>3, <3>8
  <2>5. \A s, t \in inner' : s.path = t.path => s = t
    BY <2>4 DEF ReadingInv, CertifiedInv
  <2> QED
    BY <1>2, <2>1, <2>2, <2>3, <2>5 DEF CertifiedInv, DataOf
<1> QED
  BY <1>0, <1>1, <1>2, <1>3, <1>4 DEF ReadingInv

LEMMA InventoriesKeep ==
    ASSUME HostAssumption, ReadingInv, CollectInventory \/ InventoryRaises \/ SkipInventory
    PROVE  ReadingInv'
<1>0. /\ next <= Len(Inv) /\ next' = next + 1 /\ UNCHANGED <<host, at, uncertain>>
      /\ next \in 1..Len(Inv) /\ host \in DOMAIN Hosts /\ whole \subseteq hostFiles
  BY HostFacts
  DEF CollectInventory, InventoryRaises, SkipInventory, Collecting, ReadingInv,
      WrittenInv, Inv
<1>1. CASE CollectInventory
  <2> DEFINE on == {p \in Inv[next].parts : HostEnabled(p)}
  <2> DEFINE Found(bad, thinned, missing, torn) ==
          /\ inner' = inner
               \cup {Item(p, "disabled") : p \in Inv[next].parts \ on}
               \cup {Item(p, "failed") : p \in bad \ missing}
               \cup {Item(p, "not_applicable") : p \in missing}
               \cup {Item(p, "complete") : p \in (on \ bad) \cup Inv[next].notes}
          /\ whole' = whole \cup Data((on \ bad) \ thinned) \cup Inv[next].notes
          /\ partial' = partial \cup Data(thinned)
          /\ hostFiles' = hostFiles \cup Inv[next].notes
               \cup Data(IF torn THEN (on \ bad) \cup (bad \ missing) ELSE on \ bad)
          /\ hostFailures' = hostFailures \cup (bad \ missing)
  <2>0. \E bad \in SUBSET on : \E thinned \in SUBSET (Inv[next].thins \cap (on \ bad)) :
          \E missing \in IF Inv[next].tools THEN SUBSET bad ELSE {{}}, torn \in BOOLEAN :
              Found(bad, thinned, missing, torn)
    BY <1>1 DEF CollectInventory
  <2> HIDE DEF Found
  <2>1. PICK bad \in SUBSET on, thinned \in SUBSET on, missing \in SUBSET on, torn \in BOOLEAN :
          missing \subseteq bad /\ thinned \cap bad = {} /\ Found(bad, thinned, missing, torn)
    <3>1. PICK bad \in SUBSET on : \E thinned \in SUBSET (Inv[next].thins \cap (on \ bad)) :
            \E missing \in IF Inv[next].tools THEN SUBSET bad ELSE {{}}, torn \in BOOLEAN :
                Found(bad, thinned, missing, torn)
      BY <2>0
    <3>2. PICK thinned \in SUBSET (Inv[next].thins \cap (on \ bad)) :
            \E missing \in IF Inv[next].tools THEN SUBSET bad ELSE {{}}, torn \in BOOLEAN :
                Found(bad, thinned, missing, torn)
      BY <3>1
    <3>3. PICK missing \in (IF Inv[next].tools THEN SUBSET bad ELSE {{}}), torn \in BOOLEAN :
                Found(bad, thinned, missing, torn)
      BY <3>2
    <3> HIDE DEF on
    <3>4. missing \subseteq bad /\ missing \in SUBSET on /\ thinned \in SUBSET on /\ thinned \cap bad = {}
      BY <3>3
    <3> QED
      BY <3>3, <3>4
  <2> USE DEF Found
  <2> DEFINE off == Inv[next].parts \ on
             failed == bad \ missing
             read == on \ bad
             known == read \cup Inv[next].notes
             new == {Item(p, "disabled") : p \in off} \cup {Item(p, "failed") : p \in failed}
                      \cup {Item(p, "not_applicable") : p \in missing} \cup {Item(p, "complete") : p \in known}
  <2>2. /\ off \subseteq Inv[next].parts /\ failed \subseteq Inv[next].parts
        /\ missing \subseteq Inv[next].parts /\ read \subseteq Inv[next].parts
        /\ off \cap failed = {} /\ off \cap missing = {} /\ off \cap read = {}
        /\ failed \cap missing = {} /\ failed \cap read = {} /\ missing \cap read = {}
    <3>1. missing \subseteq bad
      BY <2>1
    <3> QED
      BY <3>1
  <2>3. Inv[next].parts \cap Inv[next].notes = {}
    BY <1>0 DEF HostAssumption, Inv
  <2>4. /\ inner' = inner \cup new
        /\ whole' = whole \cup {DataOf(p) : p \in read \ thinned} \cup Inv[next].notes
        /\ partial' = partial \cup {DataOf(p) : p \in thinned} /\ thinned \subseteq read
        /\ \/ hostFiles' = hostFiles \cup Inv[next].notes \cup {DataOf(p) : p \in read}
           \/ hostFiles' = hostFiles \cup Inv[next].notes \cup {DataOf(p) : p \in read \cup failed}
        /\ hostFailures' = hostFailures \cup failed
    BY <2>1 DEF Data
  <2>5. \A s \in new : \/ \E p \in off : s = Item(p, "disabled")
                       \/ \E p \in failed : s = Item(p, "failed")
                       \/ \E p \in missing : s = Item(p, "not_applicable")
                       \/ \E p \in known : s = Item(p, "complete")
    OBVIOUS
  <2>6. \A p \in failed : Item(p, "failed") \in new
    OBVIOUS
  <2> HIDE DEF new, off, failed, read
  <2>7. \A p, st : Item(p, st).path = p /\ Item(p, st).status = st
    BY DEF Item
  <2>8. \A s \in new : s = Item(s.path, s.status)
    BY <2>5, <2>7
  <2>9. \A s \in new : \/ s.status = "disabled" /\ s.path \in off
                       \/ s.status = "failed" /\ s.path \in failed
                       \/ s.status = "not_applicable" /\ s.path \in missing
                       \/ s.status = "complete" /\ s.path \in read
                       \/ s.status = "complete" /\ s.path \in Inv[next].notes
    BY <2>5, <2>7
  <2> HIDE DEF known
  <2>10. whole \subseteq whole' /\ whole' \subseteq hostFiles' /\ hostFiles \subseteq hostFiles'
        /\ partial \subseteq partial'
    BY <1>0, <2>4
  <2>18. \A p \in read : DataOf(p) \in whole' \cup partial' /\ DataOf(p) \in hostFiles'
    <3> TAKE p \in read
    <3>1. CASE p \in thinned
      BY <2>4, <3>1
    <3>2. CASE p \notin thinned
      BY <2>4, <3>2
    <3> QED
      BY <3>1, <3>2
  <2>11. \A f \in hostFiles' : \/ f \in hostFiles \cup Inv[next].notes
                               \/ \E p \in Inv[next].parts : f = DataOf(p)
    BY <2>2, <2>4
  <2>12. \A f \in hostFiles' \ hostFiles :
           \/ f \in whole' \cup partial'
           \/ \E s \in new : s.status = "failed" /\ s.path \in Inv[next].parts /\ f = DataOf(s.path)
    <3> TAKE f \in hostFiles' \ hostFiles
    <3>1. \/ f \in Inv[next].notes
          \/ \E p \in read : f = DataOf(p)
          \/ \E p \in failed : f = DataOf(p)
      BY <2>4
    <3>2. CASE f \in Inv[next].notes
      BY <2>4, <3>2
    <3>3. CASE \E p \in read : f = DataOf(p)
      BY <2>18, <3>3
    <3>4. CASE \E p \in failed : f = DataOf(p)
      BY <2>2, <2>6, <2>7, <3>4
    <3> QED
      BY <3>1, <3>2, <3>3, <3>4
  <2>13. \A s \in new : \/ s.path \in Inv[next].parts /\ (s.status = "complete" => DataOf(s.path) \in Had')
                        \/ s.path \in Inv[next].notes /\ (s.status = "complete" => s.path \in whole')
                        \/ s.status = "failed" /\ s.path = Inv[next].scope
    BY <2>2, <2>4, <2>9, <2>18 DEF Had
  <2>14. \A s \in new : s = Item(s.path, s.status) /\ (s.status = "failed" => hostFailures' # {})
    BY <2>4, <2>8, <2>9
  <2>15. \A s, t \in new : s.path = t.path => s = t
    <3> SUFFICES ASSUME NEW s \in new, NEW t \in new, s.path = t.path PROVE s.status = t.status
      BY <2>8
    <3> QED
      BY <2>2, <2>3, <2>9
  <2>16. hostFailures \subseteq hostFailures'
    BY <2>4
  <2>17. inner' = inner \cup new
    BY <2>4
  <2> QED
    BY <1>0, <2>10, <2>11, <2>12, <2>13, <2>14, <2>15, <2>16, <2>17, OneInventoryKeeps
<1>2. CASE InventoryRaises
  <2>1. PICK written \in SUBSET Inv[next].parts, torn \in SUBSET Inv[next].parts :
          /\ torn \subseteq written
          /\ hostFiles' = hostFiles \cup {DataOf(p) : p \in written}
          /\ whole' = whole \cup {DataOf(p) : p \in written \ torn}
          /\ partial' = partial \cup {DataOf(p) : p \in torn}
    BY <1>2 DEF InventoryRaises, Data
  <2>2. /\ inner' = inner \cup {Item(Inv[next].scope, "failed")}
        /\ hostFailures' = hostFailures \cup {Inv[next].scope}
    BY <1>2 DEF InventoryRaises
  <2> DEFINE new == {Item(Inv[next].scope, "failed")}
  <2>3. \A s \in new : /\ s = Item(s.path, s.status) /\ s.status = "failed" /\ s.path = Inv[next].scope
    BY DEF Item
  <2>4. inner' = inner \cup new /\ \A s, t \in new : s.path = t.path => s = t
    BY <2>2
  <2> HIDE DEF new
  <2>5. whole \subseteq whole' /\ whole' \subseteq hostFiles' /\ hostFiles \subseteq hostFiles'
        /\ partial \subseteq partial'
    BY <1>0, <2>1
  <2>6. \A f \in hostFiles' : \/ f \in hostFiles \cup Inv[next].notes
                               \/ \E p \in Inv[next].parts : f = DataOf(p)
    BY <2>1
  <2>7. \A f \in hostFiles' \ hostFiles : f \in whole' \cup partial'
    <3> TAKE f \in hostFiles' \ hostFiles
    <3>1. PICK p \in written : f = DataOf(p)
      BY <2>1
    <3>2. CASE p \in torn
      BY <2>1, <3>1, <3>2
    <3>3. CASE p \notin torn
      BY <2>1, <3>1, <3>3
    <3> QED
      BY <3>2, <3>3
  <2>8. hostFailures \subseteq hostFailures' /\ hostFailures' # {}
    BY <2>2
  <2> QED
    BY <1>0, <2>3, <2>4, <2>5, <2>6, <2>7, <2>8, OneInventoryKeeps
<1>3. CASE SkipInventory
  <2>1. UNCHANGED <<hostFiles, whole, partial, hostFailures, inner>>
    BY <1>3 DEF SkipInventory
  <2>2. PICK new : new = {}
    OBVIOUS
  <2>3. /\ inner' = inner \cup new /\ \A s \in new : FALSE
        /\ \A f \in hostFiles' \ hostFiles : FALSE
        /\ \A f \in hostFiles' : f \in hostFiles \cup Inv[next].notes
        /\ hostFailures \subseteq hostFailures' /\ hostFiles \subseteq hostFiles'
        /\ whole \subseteq whole' /\ whole' \subseteq hostFiles' /\ partial \subseteq partial'
    BY <1>0, <2>1, <2>2
  <2> QED
    BY <1>0, <2>3, OneInventoryKeeps
<1> QED
  BY <1>1, <1>2, <1>3

-----------------------------------------------------------------------------
(* The manifest                                                            *)

LEMMA SectionIs ==
    ASSUME NEW fs, NEW s \in HostSections(fs)
    PROVE  \/ /\ s.path \in fs /\ OwnSection(s.path) /\ s = Item(s.path, s.status)
              /\ s.status = "failed" <=> s.path \in uncertain
              /\ s.status = IF s.path \in uncertain THEN "failed"
                            ELSE IF HostEnabled(<<s.path[1]>>) THEN "complete" ELSE "disabled"
           \/ s \in inner
           \/ /\ hostFailures # {} /\ s.path = <<"_incomplete-discovery">> /\ s.status = "failed"
              /\ s = Item(s.path, s.status)
<1>1. CASE \E p \in fs : OwnSection(p) /\ s = Item(p, CASE p \in uncertain -> "failed"
               [] p \notin uncertain /\ HostEnabled(<<p[1]>>) -> "complete"
               [] OTHER -> "disabled")
  <2>1. PICK p \in fs : OwnSection(p) /\ s = Item(p, CASE p \in uncertain -> "failed"
               [] p \notin uncertain /\ HostEnabled(<<p[1]>>) -> "complete"
               [] OTHER -> "disabled")
    BY <1>1
  <2>2. s = Item(p, IF p \in uncertain THEN "failed"
                    ELSE IF HostEnabled(<<p[1]>>) THEN "complete" ELSE "disabled")
    BY <2>1
  <2>3. s.path = p /\ s.status = (IF p \in uncertain THEN "failed"
                    ELSE IF HostEnabled(<<p[1]>>) THEN "complete" ELSE "disabled")
    BY <2>2 DEF Item
  <2>4. s = Item(s.path, s.status)
    BY <2>2, <2>3
  <2> QED
    BY <2>1, <2>3, <2>4
<1>2. CASE s \in Discovery
  <2>1. hostFailures # {} /\ s = Item(<<"_incomplete-discovery">>, "failed")
    BY <1>2 DEF Discovery
  <2> QED
    BY <2>1 DEF Item
<1> QED
  BY <1>1, <1>2 DEF HostSections

\* Conversely, each file is a section of its own, or lies in one.
LEMMA SectionsAre ==
    ASSUME NEW fs
    PROVE  /\ \A p \in fs : OwnSection(p) =>
                \E s \in HostSections(fs) : s.path = p /\ (p \in uncertain => s.status = "failed")
           /\ inner \subseteq HostSections(fs)
           /\ hostFailures # {} => \E s \in HostSections(fs) : s.status = "failed"
<1>1. ASSUME NEW p \in fs, OwnSection(p)
      PROVE  \E s \in HostSections(fs) : s.path = p /\ (p \in uncertain => s.status = "failed")
  <2> DEFINE st == CASE p \in uncertain -> "failed"
               [] p \notin uncertain /\ HostEnabled(<<p[1]>>) -> "complete"
               [] OTHER -> "disabled"
  <2>1. Item(p, st) \in HostSections(fs)
    BY <1>1 DEF HostSections
  <2>2. p \in uncertain => st = "failed"
    OBVIOUS
  <2> HIDE DEF st
  <2>3. Item(p, st).path = p /\ Item(p, st).status = st
    BY DEF Item
  <2> QED
    BY <2>1, <2>2, <2>3
<1>2. ASSUME hostFailures # {} PROVE \E s \in HostSections(fs) : s.status = "failed"
  <2>1. Item(<<"_incomplete-discovery">>, "failed") \in HostSections(fs)
    BY <1>2 DEF HostSections, Discovery
  <2>2. Item(<<"_incomplete-discovery">>, "failed").status = "failed"
    BY DEF Item
  <2> QED
    BY <2>1, <2>2
<1> QED
  BY <1>1, <1>2 DEF HostSections

LEMMA FinishSystemHonest ==
    ASSUME HostAssumption, ReadingInv, FinishSystem PROVE SystemHonest'
<1> DEFINE files == hostFiles \cup {Errors}
           listed == HostSections(files)
           dark == <<"_incomplete-discovery">>
<1>0. /\ host \in DOMAIN Hosts /\ UNCHANGED <<host, partial, uncertain, inner, hostFailures>>
      /\ hostFiles' = files /\ whole' = whole \cup {Errors} /\ hostManifest'.sections = listed
      /\ hostFailures = {} => hostCode' = "0"
      /\ hostFailures # {} => hostCode' # "0"
  <2>1. hostFiles' = files /\ hostManifest' = [finalized |-> TRUE, sections |-> HostSections(hostFiles')]
    BY DEF FinishSystem
  <2>2. hostManifest'.sections = listed
    BY <2>1
  <2>3. /\ UNCHANGED <<host, partial, uncertain, inner, hostFailures>> /\ whole' = whole \cup {Errors}
        /\ hostFailures = {} => hostCode' = "0"
        /\ hostFailures # {} => hostCode' # "0"
    BY DEF FinishSystem
  <2> QED
    BY <2>1, <2>2, <2>3 DEF ReadingInv
<1>1. Inv' = Inv
  BY <1>0 DEF Inv
<1>2. /\ files \subseteq FileNames(host) /\ dark \notin files /\ dark \in All(host)
      /\ dark \notin Parts(host)
  <2>1. /\ {Errors, dark, <<"collector">>} \subseteq All(host) \ Parts(host) /\ dark \notin OutputsOf(host)
        /\ dark # Errors /\ dark # <<"collector">>
    <3>1. \A x, y : <<x>> = <<y>> => x = y
      OBVIOUS
    <3>2. dark # Errors /\ dark # <<"collector">>
      BY <3>1 DEF Errors
    <3>3. {Errors, dark, <<"collector">>} \subseteq All(host) \ Parts(host)
      BY <1>0, HostFacts DEF All, Reserved
    <3>4. dark \notin OutputsOf(host)
      BY <1>0 DEF HostAssumption, Reserved
    <3> QED
      BY <3>2, <3>3, <3>4
  <2>2. files \subseteq FileNames(host)
    BY <2>1, BegunIs DEF FileNames
  <2>3. \A j \in Begun : dark \notin Inv[j].notes
    <3>1. Begun \subseteq 1..Len(Inv)
      BY BegunIs
    <3> QED
      BY <1>0, <3>1 DEF HostAssumption, Inv, InventoryOf, Reserved
  <2>4. \A p \in Parts(host) : dark # DataOf(p)
    <3> SUFFICES ASSUME NEW p \in Parts(host), dark = DataOf(p) PROVE FALSE
      OBVIOUS
    <3>1. p \in All(host) /\ p \in Seq(Words) /\ p # dark
      BY <1>0, <2>1, HostFacts
    <3>2. Starts(p, dark)
      BY <3>1, UnderData
    <3> QED
      BY <1>0, <2>1, <3>1, <3>2, HostFacts
  <2>5. dark \notin files
    <3>1. dark \notin NotesBegun
      BY <2>3 DEF NotesBegun
    <3>2. \A p \in PartsBegun : dark # DataOf(p)
      BY <2>4, BegunIs
    <3> QED
      BY <2>1, <3>1, <3>2 DEF ReadingInv, WrittenInv
  <2> QED
    BY <2>1, <2>2, <2>5
<1>3. /\ FileNames(host) \subseteq Seq(Words)
      /\ \A f, g \in files : Starts(f, g) => f = g
      /\ \A p \in Parts(host), f \in files : Starts(p, f) => f = DataOf(p)
      /\ \A f \in files, p \in All(host) : Starts(f, p) => f = p
      /\ \A f \in files, p \in Wholes(host) : ~Starts(f, p)
      /\ \A p, q \in All(host) : p # q => ~Starts(p, q)
      /\ \A p \in All(host), q \in Wholes(host) : ~Starts(p, q)
      /\ All(host) \subseteq Seq(Words) /\ Parts(host) \subseteq All(host)
  BY <1>0, <1>2, FilesApart, HostFacts
<1>4. \A s \in inner : \/ s.path \in Parts(host) /\ (s.status = "complete" => DataOf(s.path) \in Had)
                       \/ s.path \in All(host) \ Parts(host) /\ (s.status = "complete" => s.path \in whole)
                       \/ s.status = "failed" /\ s.path \in Wholes(host) /\ \E i \in 1..Len(Inv) : Inv[i].scope = s.path
  <2> TAKE s \in inner
  <2>1. \/ s.path \in PartsBegun /\ (s.status = "complete" => DataOf(s.path) \in Had)
        \/ s.path \in NotesBegun /\ (s.status = "complete" => s.path \in whole)
        \/ s.status = "failed" /\ \E j \in Begun : s.path = Inv[j].scope
    BY DEF ReadingInv, CertifiedInv
  <2>2. /\ Begun \subseteq 1..Len(Inv) /\ PartsBegun \subseteq Parts(host)
        /\ NotesBegun \subseteq All(host) \ Parts(host)
        /\ \A j \in Begun : Inv[j].scope \in Wholes(host)
    BY BegunIs
  <2> QED
    BY <2>1, <2>2
<1> HIDE DEF dark
<1>5. HostCompleteIsWhole'
  <2> SUFFICES ASSUME NEW s \in listed, s.status = "complete"
               PROVE  /\ \E f \in files : Starts(s.path, f)
                      /\ \A f \in files : Starts(s.path, f) => f \in whole \cup {Errors} \cup partial
    <3>1. hostManifest'.sections = listed
      BY <1>0
    <3> QED
      BY <1>0, <1>1, <3>1 DEF HostCompleteIsWhole
  <2>1. CASE s.path \in files /\ OwnSection(s.path) /\ s.path \notin uncertain
    <3>1. \A f \in files : Starts(s.path, f) => f = s.path
      BY <1>3, <2>1
    <3>2. Starts(s.path, s.path)
      BY <1>2, <1>3, <2>1, StartsSelf
    <3>3. s.path \in whole \cup {Errors} \cup partial
      <4>1. CASE s.path = Errors
        BY <4>1
      <4>2. CASE s.path \in hostFiles
        <5>1. \/ s.path \in whole \cup partial \cup uncertain
              \/ \E t \in inner : t.path \in PartsBegun /\ s.path = DataOf(t.path)
          BY <4>2 DEF ReadingInv, WrittenInv
        <5>2. ASSUME NEW t \in inner, t.path \in PartsBegun, s.path = DataOf(t.path) PROVE FALSE
          <6>1. t.path \in Seq(Words)
            BY <1>3, <5>2, BegunIs
          <6>2. Starts(t.path, s.path)
            BY <5>2, <6>1, UnderData
          <6> QED
            BY <2>1, <6>2 DEF OwnSection
        <5> QED
          BY <2>1, <5>1, <5>2
      <4> QED
        BY <2>1, <4>1, <4>2
    <3> QED
      BY <2>1, <3>1, <3>2, <3>3
  <2>2. CASE s \in inner
    <3>1. CASE s.path \in Parts(host) /\ DataOf(s.path) \in Had
      <4>1. Starts(s.path, DataOf(s.path)) /\ DataOf(s.path) \in files
        BY <1>3, <3>1, UnderData DEF Had
      <4> QED
        BY <1>3, <3>1, <4>1 DEF Had
    <3>2. CASE s.path \in All(host) \ Parts(host) /\ s.path \in whole
      <4>1. Starts(s.path, s.path) /\ s.path \in files
        BY <1>3, <3>2, StartsSelf DEF ReadingInv, WrittenInv
      <4> QED
        BY <1>3, <3>2, <4>1
    <3> QED
      BY <1>4, <2>2, <3>1, <3>2
  <2> QED
    BY <2>1, <2>2, SectionIs
<1>6. HostSectionsDisjoint'
  <2> SUFFICES ASSUME NEW s \in listed, NEW t \in listed, s # t, Starts(s.path, t.path)
               PROVE  s.status = "failed" /\ \E i \in 1..Len(Inv) : Inv[i].scope = s.path
    <3>1. hostManifest'.sections = listed
      BY <1>0
    <3> QED
      BY <1>0, <1>1, <3>1 DEF HostSectionsDisjoint
  <2>1. \A u \in listed :
          \/ /\ u.path \in files /\ OwnSection(u.path) /\ u = Item(u.path, u.status)
             /\ u.status = IF u.path \in uncertain THEN "failed"
                           ELSE IF HostEnabled(<<u.path[1]>>) THEN "complete" ELSE "disabled"
          \/ u \in inner
          \/ u.path = dark /\ u.status = "failed" /\ u = Item(u.path, u.status)
    BY SectionIs DEF dark
  <2>2. CASE s.path \in files /\ OwnSection(s.path)
    <3>1. CASE t.path \in files /\ OwnSection(t.path)
      <4>1. s.path = t.path
        BY <1>3, <2>2, <3>1
      <4>2. s.path # dark /\ t.path # dark /\ s \notin inner /\ t \notin inner
        <5>1. Starts(s.path, s.path) /\ Starts(t.path, t.path)
          BY <1>2, <1>3, <2>2, <3>1, StartsSelf
        <5> QED
          BY <1>2, <2>2, <3>1, <5>1 DEF OwnSection
      <4>3. s.status = t.status /\ s = Item(s.path, s.status) /\ t = Item(t.path, t.status)
        BY <2>1, <4>1, <4>2
      <4> QED
        BY <4>1, <4>3
    <3>2. CASE t \in inner
      <4>1. CASE t.path \in All(host)
        <5>1. s.path = t.path /\ Starts(t.path, s.path)
          BY <1>3, <2>2, <4>1
        <5> QED
          BY <2>2, <3>2, <5>1 DEF OwnSection
      <4>2. CASE t.path \in Wholes(host)
        BY <1>3, <2>2, <4>2
      <4> QED
        BY <1>3, <1>4, <3>2, <4>1, <4>2
    <3>3. CASE t.path = dark
      <4>1. s.path = dark
        BY <1>2, <1>3, <2>2, <3>3
      <4> QED
        BY <1>2, <2>2, <4>1
    <3> QED
      BY <2>1, <3>1, <3>2, <3>3
  <2>3. CASE s \in inner
    <3>1. CASE s.path \in All(host)
      <4>1. CASE t \in inner
        <5>1. t.path \in All(host) => s.path = t.path
          BY <1>3, <3>1
        <5>2. t.path \notin Wholes(host)
          BY <1>3, <3>1
        <5>3. s.path = t.path
          BY <1>3, <1>4, <4>1, <5>1, <5>2
        <5> QED
          BY <2>3, <4>1, <5>3 DEF ReadingInv, CertifiedInv
      <4>2. CASE t.path \in files /\ OwnSection(t.path)
        BY <2>3, <4>2 DEF OwnSection
      <4>3. CASE t.path = dark
        <5>1. s.path = dark /\ s.path \notin Parts(host)
          BY <1>2, <1>3, <3>1, <4>3
        <5>2. s.path \in NotesBegun
          <6>1. \/ s.path \in PartsBegun \/ s.path \in NotesBegun
                \/ \E j \in Begun : s.path = Inv[j].scope
            BY <2>3 DEF ReadingInv, CertifiedInv
          <6>2. PartsBegun \subseteq Parts(host) /\ \A j \in Begun : Inv[j].scope \in Wholes(host)
            BY BegunIs
          <6>3. s.path \notin Wholes(host)
            BY <1>3, <3>1, StartsSelf
          <6> QED
            BY <5>1, <6>1, <6>2, <6>3
        <5>3. dark \notin NotesBegun
          <6>1. Begun \subseteq 1..Len(Inv)
            BY BegunIs
          <6> QED
            BY <1>0, <6>1 DEF HostAssumption, Inv, InventoryOf, Reserved, NotesBegun, dark
        <5> QED
          BY <5>1, <5>2, <5>3
      <4> QED
        BY <2>1, <4>1, <4>2, <4>3
    <3>2. CASE s.status = "failed" /\ \E i \in 1..Len(Inv) : Inv[i].scope = s.path
      BY <3>2
    <3> QED
      BY <1>3, <1>4, <2>3, <3>1, <3>2
  <2>4. CASE s.path = dark /\ s.status = "failed" /\ s = Item(s.path, s.status) /\ s \notin inner
    <3>1. CASE t \in inner
      <4>1. t.path \in All(host) => t.path = dark /\ t.path \in All(host) \ Parts(host)
        BY <1>2, <1>3, <2>4
      <4>2. t.path \notin Wholes(host)
        BY <1>2, <1>3, <2>4
      <4>3. t.path = dark /\ t.path \notin Parts(host)
        BY <1>3, <1>4, <3>1, <4>1, <4>2
      <4>4. t.path \in NotesBegun
        <5>1. \/ t.path \in PartsBegun \/ t.path \in NotesBegun
              \/ \E j \in Begun : t.path = Inv[j].scope
          BY <3>1 DEF ReadingInv, CertifiedInv
        <5>2. PartsBegun \subseteq Parts(host) /\ \A j \in Begun : Inv[j].scope \in Wholes(host)
          BY BegunIs
        <5> QED
          BY <4>2, <4>3, <5>1, <5>2
      <4>5. dark \notin NotesBegun
        <5>1. Begun \subseteq 1..Len(Inv)
          BY BegunIs
        <5> QED
          BY <1>0, <5>1 DEF HostAssumption, Inv, InventoryOf, Reserved, NotesBegun, dark
      <4> QED
        BY <4>3, <4>4, <4>5
    <3>2. CASE t.path \in files /\ OwnSection(t.path)
      <4>1. CASE t.path \in All(host)
        <5>1. t.path = dark
          BY <1>2, <1>3, <2>4, <4>1
        <5> QED
          BY <1>2, <3>2, <5>1
      <4>2. CASE \E p \in Parts(host) : t.path = DataOf(p)
        <5>1. PICK p \in Parts(host) : t.path = DataOf(p)
          BY <4>2
        <5>2. p \in All(host) /\ p \in Seq(Words) /\ dark \in Seq(Words)
          BY <1>2, <1>3
        <5>3. Starts(dark, p) \/ dark = DataOf(p)
          BY <2>4, <5>1, <5>2, UnderData
        <5>4. dark = p \/ dark = t.path
          BY <1>2, <1>3, <5>1, <5>2, <5>3
        <5> QED
          BY <1>2, <3>2, <5>4
      <4> QED
        BY <1>2, <3>2, <4>1, <4>2 DEF FileNames
    <3>3. CASE t.path = dark /\ t.status = "failed" /\ t = Item(t.path, t.status)
      BY <2>4, <3>3
    <3> QED
      BY <2>1, <3>1, <3>2, <3>3
  <2> QED
    BY <2>1, <2>2, <2>3, <2>4
<1>7. HostAccounted'
  <2>1. hostCode' # "0" <=> hostFailures # {}
    BY <1>0
  <2>2. (\E s \in listed : s.status = "failed") <=> hostFailures # {}
    <3>1. hostFailures # {} => \E s \in listed : s.status = "failed"
      BY SectionsAre
    <3>2. ASSUME NEW s \in listed, s.status = "failed" PROVE hostFailures # {}
      <4>1. \/ s.path \in uncertain \/ s \in inner \/ hostFailures # {}
        BY <3>2, SectionIs
      <4> QED
        BY <3>2, <4>1 DEF ReadingInv, WrittenInv, CertifiedInv
    <3> QED
      BY <3>1, <3>2
  <2>3. \A p \in whole \cup {Errors} : \E s \in listed : Starts(s.path, p)
    <3> TAKE p \in whole \cup {Errors}
    <3>1. p \in files /\ p \in Seq(Words)
      BY <1>2, <1>3 DEF ReadingInv, WrittenInv
    <3>2. CASE OwnSection(p)
      <4>1. PICK s \in listed : s.path = p
        BY <3>1, <3>2, SectionsAre
      <4> QED
        BY <3>1, <4>1, StartsSelf
    <3>3. CASE ~OwnSection(p)
      BY <3>3, SectionsAre DEF OwnSection
    <3> QED
      BY <3>2, <3>3
  <2>4. hostManifest'.sections = listed
    BY <1>0
  <2> HIDE DEF listed
  <2> QED
    BY <1>0, <2>1, <2>2, <2>3, <2>4 DEF HostAccounted
<1> QED
  BY <1>5, <1>6, <1>7 DEF SystemHonest

-----------------------------------------------------------------------------
(* The run as a whole                                                      *)

LEMMA HostStarts == ASSUME HostAssumption, SystemInit PROVE HostInv
<1>1. host \in DOMAIN Hosts /\ next = 1 /\ Len(Core) \in Nat /\ Len(Inv) \in Nat
  BY HostFacts DEF SystemInit, Core, Inv
<1>2. at \in Nat \ {0}
  BY <1>1 DEF SystemInit
<1>3. /\ hostFiles = {<<"collector">>} /\ whole = {<<"collector">>}
      /\ uncertain = {} /\ inner = {} /\ hostManifest.finalized = FALSE
  BY DEF SystemInit
<1>4. WrittenInv /\ CertifiedInv
  BY <1>3 DEF WrittenInv, CertifiedInv
<1> QED
  BY <1>1, <1>2, <1>3, <1>4 DEF HostInv, ReadingInv, SystemHonest

LEMMA HostSteps == ASSUME HostAssumption, HostInv, [SystemNext]_hostvars PROVE HostInv'
<1>1. CASE UNCHANGED hostvars
  <2>1. ReadingInv => ReadingInv'
    <3> USE <1>1 DEF hostvars
    <3>1. /\ Begun' = Begun /\ PartsBegun' = PartsBegun /\ NotesBegun' = NotesBegun
          /\ Inv' = Inv /\ OutputsOf(host)' = OutputsOf(host) /\ Had' = Had
      BY DEF Begun, PartsBegun, NotesBegun, Inv, OutputsOf, Had
    <3>2. WrittenInv => WrittenInv'
      BY <3>1 DEF WrittenInv, DataOf
    <3>3. CertifiedInv => CertifiedInv'
      BY <3>1 DEF CertifiedInv, DataOf
    <3> QED
      BY <3>1, <3>2, <3>3 DEF ReadingInv
  <2>2. SystemHonest => SystemHonest'
    BY <1>1
    DEF hostvars, SystemHonest, HostCompleteIsWhole, HostSectionsDisjoint,
        HostAccounted, Inv
  <2>3. UNCHANGED <<hostCode, hostManifest>>
    BY <1>1 DEF hostvars
  <2> QED
    BY <2>1, <2>2, <2>3 DEF HostInv
<1>2. ASSUME HostRunning, ReadingInv', UNCHANGED <<hostManifest, hostCode>> PROVE HostInv'
  <2>1. ~hostManifest'.finalized
    BY <1>2 DEF HostInv, HostRunning
  <2> QED
    BY <1>2, <2>1 DEF HostInv, SystemHonest
<1>3. CASE ReadOutput \/ ReadFails \/ HostReadAborts
  <2>1. HostRunning /\ UNCHANGED <<hostManifest, hostCode>>
    BY <1>3 DEF ReadOutput, ReadFails, HostReadAborts, Reading
  <2>2. ReadingInv
    BY <2>1 DEF HostInv, HostRunning
  <2>3. ReadingInv'
    BY <1>3, <2>2, OutputKeeps
  <2> QED
    BY <1>2, <2>1, <2>3
<1>4. CASE CollectInventory \/ InventoryRaises \/ SkipInventory
  <2>1. HostRunning /\ UNCHANGED <<hostManifest, hostCode>>
    BY <1>4 DEF CollectInventory, InventoryRaises, SkipInventory, Collecting
  <2>2. ReadingInv
    BY <2>1 DEF HostInv, HostRunning
  <2>3. ReadingInv'
    BY <1>4, <2>2, InventoriesKeep
  <2> QED
    BY <1>2, <2>1, <2>3
<1>5. CASE FinishSystem
  <2>1. HostRunning /\ hostCode' # "running"
    BY <1>5 DEF FinishSystem
  <2>2. ReadingInv
    BY <2>1 DEF HostInv, HostRunning
  <2>3. SystemHonest'
    BY <1>5, <2>2, FinishSystemHonest
  <2> QED
    BY <2>1, <2>3 DEF HostInv
<1>6. CASE SystemKilled
  <2>1. HostRunning /\ hostCode' = "killed" /\ hostManifest' = hostManifest
    BY <1>6 DEF SystemKilled
  <2>2. ~hostManifest'.finalized
    BY <2>1 DEF HostInv, HostRunning
  <2> QED
    BY <2>1, <2>2 DEF HostInv, SystemHonest
<1> QED
  BY <1>1, <1>3, <1>4, <1>5, <1>6 DEF SystemNext

LEMMA HostHolds == HostInv => SystemHonest
BY DEF HostInv
=============================================================================
