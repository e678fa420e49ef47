---------------------------- MODULE Research_proofs ----------------------------
(***************************************************************************)
(* The restart of a research run and the replay of episodes: what the      *)
(* plans, ledgers and streams of StageResume, EpisodeEngine and            *)
(* EpisodeReplay promise, for every profile, record and input.             *)
(***************************************************************************)
EXTENDS StageResume, EpisodeReplay, FiniteSetLemmas

(***************************************************************************)
(* StageResume: the canonical order                                        *)
(***************************************************************************)

Completions == [stage : Stages, spec : StageSpecs, content : StageContents]

OpaqueRecords == [id : OpaqueIds, own : BOOLEAN, stage : Stages, content : StageContents]

PlanTypes ==
  /\ attempt \in Attempts
  /\ completions \in Seq(Completions)
  /\ opaques \in Seq(OpaqueRecords)

LEMMA IncludedStages ==
  ASSUME PlanTypes
  PROVE  /\ Included \subseteq Stages /\ Included \subseteq Int /\ IsFiniteSet(Included)
         /\ StageEdges \subseteq Included \X Included
         /\ \A done : Ready(done) \subseteq Included /\ IsFiniteSet(Ready(done))
<1>1. Included \subseteq Stages /\ Included \subseteq Int
  BY ResumeAssumption DEF PlanTypes, Included
<1>2. IsFiniteSet(Included)
  BY <1>1, ResumeAssumption, FS_Subset
<1>3. StageEdges \subseteq Included \X Included
  BY DEF StageEdges
<1>4. \A done : Ready(done) \subseteq Included
  BY DEF Ready
<1> QED BY <1>1, <1>2, <1>3, <1>4, FS_Subset

\* Each stage comes once and behind its parents.
WellOrdered(o) ==
  /\ o \in Seq(Included)
  /\ \A i, j \in 1..Len(o) : o[i] = o[j] => i = j
  /\ \A i \in 1..Len(o) : \A q \in ParentsOf(o[i]) : \E j \in 1..(i - 1) : o[j] = q

LEMMA AppendReady ==
  ASSUME NEW o, WellOrdered(o), NEW x, x \in Ready(ToSet(o))
  PROVE  WellOrdered(Append(o, x)) /\ Len(Append(o, x)) = Len(o) + 1
<1> DEFINE a == Append(o, x)
<1>1. x \in Included /\ x \notin ToSet(o) /\ ParentsOf(x) \subseteq ToSet(o)
  BY DEF Ready
<1>2. o \in Seq(Included) /\ Len(o) \in Nat
  BY DEF WellOrdered
<1>3. a \in Seq(Included) /\ Len(a) = Len(o) + 1 /\ a[Len(o) + 1] = x /\ \A i \in 1..Len(o) : a[i] = o[i]
  BY <1>1, <1>2, AppendProperties
<1>4. \A i \in 1..Len(o) : o[i] # x
  BY <1>1, <1>2 DEF ToSet
<1>5. \A q \in ParentsOf(x) : \E j \in 1..Len(o) : o[j] = q
  BY <1>1, <1>2 DEF ToSet
<1> HIDE DEF a
<1>6. \A i, j \in 1..Len(a) : a[i] = a[j] => i = j
  <2> TAKE i, j \in 1..Len(a)
  <2>1. (i \in 1..Len(o) \/ i = Len(o) + 1) /\ (j \in 1..Len(o) \/ j = Len(o) + 1)
    BY <1>2, <1>3
  <2> QED BY <1>3, <1>4, <2>1 DEF WellOrdered
<1>7. \A i \in 1..Len(a) : \A q \in ParentsOf(a[i]) : \E j \in 1..(i - 1) : a[j] = q
  <2> TAKE i \in 1..Len(a)
  <2> TAKE q \in ParentsOf(a[i])
  <2>1. CASE i = Len(o) + 1
    <3>1. PICK j \in 1..Len(o) : o[j] = q
      BY <1>3, <1>5, <2>1
    <3>2. j \in 1..(i - 1) /\ a[j] = q
      BY <1>2, <1>3, <2>1, <3>1
    <3> QED BY <3>2
  <2>2. CASE i # Len(o) + 1
    <3>1. i \in 1..Len(o) /\ a[i] = o[i]
      BY <1>2, <1>3, <2>2
    <3>2. PICK j \in 1..(i - 1) : o[j] = q
      BY <3>1 DEF WellOrdered
    <3>3. a[j] = q
      BY <1>2, <1>3, <3>1, <3>2
    <3> QED BY <3>3
  <2> QED BY <2>1, <2>2
<1> QED BY <1>3, <1>6, <1>7 DEF WellOrdered, a

NextStage(o) == IF Ready(ToSet(o)) = {} THEN o ELSE Append(o, Min(Ready(ToSet(o))))

Pops(p) == p = [n \in Nat |-> IF n = 0 THEN <<>> ELSE NextStage(p[n - 1])]

LEMMA PopsExist ==
  ASSUME PlanTypes
  PROVE  \E p : Pops(p)
<1> DEFINE V == Seq(Included)
           step == [n \in Nat |-> [o \in V |-> NextStage(o)]]
<1>1. ASSUME NEW o \in V PROVE NextStage(o) \in V
  <2>1. CASE Ready(ToSet(o)) = {}
    BY <2>1 DEF NextStage
  <2>2. CASE Ready(ToSet(o)) # {}
    <3>1. Min(Ready(ToSet(o))) \in Included
      BY <2>2, IncludedStages, MinIsLeast
    <3> QED BY <2>2, <3>1 DEF NextStage
  <2> QED BY <2>1, <2>2
<1>2. step \in [Nat -> [V -> V]] /\ <<>> \in V
  BY <1>1
<1>3. PICK p : Iterates(p, V, <<>>, step)
  <2> HIDE DEF step, V
  <2> QED BY <1>2, IterationExists
<1>4. ASSUME NEW n \in Nat PROVE p[n] = IF n = 0 THEN <<>> ELSE NextStage(p[n - 1])
  <2>1. CASE n = 0
    BY <1>3, <2>1 DEF Iterates
  <2>2. CASE n # 0
    <3>1. n - 1 \in Nat /\ (n - 1) + 1 = n
      BY <2>2
    <3>2. p[n - 1] \in V /\ p[n] = step[n][p[n - 1]]
      BY <1>3, <3>1 DEF Iterates
    <3>3. step[n][p[n - 1]] = NextStage(p[n - 1])
      BY <3>2
    <3> QED BY <2>2, <3>2, <3>3
  <2> QED BY <2>1, <2>2
<1>5. p = [n \in Nat |-> p[n]]
  BY <1>3 DEF Iterates
<1> QED BY <1>4, <1>5 DEF Pops

\* What _topological_order returns: an order that cannot be continued.
LEMMA OrderIsMaximal ==
  ASSUME PlanTypes
  PROVE  WellOrdered(StageOrder) /\ (Len(StageOrder) = Cardinality(Included) \/ Ready(ToSet(StageOrder)) = {})
<1> DEFINE p == CHOOSE f : Pops(f)
           N == Cardinality(Included)
<1>1. StageOrder = p[N]
  BY DEF StageOrder, Pops, NextStage
<1>2. Pops(p)
  BY PopsExist
<1>3. N \in Nat
  BY IncludedStages, FS_CardinalityType
<1> HIDE DEF p, N
<1>4. p[0] = <<>> /\ \A n \in Nat : p[n + 1] = NextStage(p[n])
  <2>1. \A n \in Nat : p[n] = IF n = 0 THEN <<>> ELSE NextStage(p[n - 1])
    BY <1>2 DEF Pops
  <2>2. ASSUME NEW n \in Nat PROVE p[n + 1] = NextStage(p[n])
    <3>1. n + 1 \in Nat /\ n + 1 # 0 /\ (n + 1) - 1 = n
      OBVIOUS
    <3> QED BY <2>1, <3>1
  <2> QED BY <2>1, <2>2
<1> DEFINE P == {n \in Nat : WellOrdered(p[n]) /\ (Len(p[n]) = n \/ Ready(ToSet(p[n])) = {})}
<1>5. 0 \in P
  <2>1. p[0] \in Seq(Included) /\ Len(p[0]) = 0
    BY <1>4
  <2>2. WellOrdered(p[0])
    BY <2>1 DEF WellOrdered
  <2> QED BY <2>1, <2>2
<1>6. ASSUME NEW n \in Nat, n \in P PROVE n + 1 \in P
  <2>1. WellOrdered(p[n]) /\ p[n + 1] = NextStage(p[n])
    BY <1>4, <1>6
  <2>2. CASE Ready(ToSet(p[n])) = {}
    <3>1. p[n + 1] = p[n]
      BY <2>1, <2>2 DEF NextStage
    <3> QED BY <2>1, <2>2, <3>1
  <2>3. CASE Ready(ToSet(p[n])) # {}
    <3>1. Min(Ready(ToSet(p[n]))) \in Ready(ToSet(p[n]))
      <4>1. Ready(ToSet(p[n])) \subseteq Int /\ IsFiniteSet(Ready(ToSet(p[n])))
        BY IncludedStages
      <4> QED BY <2>3, <4>1, MinIsLeast
    <3>2. p[n + 1] = Append(p[n], Min(Ready(ToSet(p[n]))))
      BY <2>1, <2>3 DEF NextStage
    <3>3. WellOrdered(p[n + 1]) /\ Len(p[n + 1]) = Len(p[n]) + 1
      BY <2>1, <3>1, <3>2, AppendReady
    <3>4. Len(p[n]) = n
      BY <1>6, <2>3
    <3> QED BY <3>3, <3>4
  <2> QED BY <2>2, <2>3
<1>7. Nat \subseteq P
  <2> HIDE DEF P
  <2> QED BY <1>5, <1>6, InductionOnNat
<1> QED BY <1>1, <1>3, <1>7 DEF N

LEMMA OrderHoldsAll ==
  ASSUME PlanTypes, NEW o, WellOrdered(o), Len(o) = Cardinality(Included)
  PROVE  ToSet(o) = Included
<1>1. o \in [1..Len(o) -> Included] /\ Len(o) \in Nat
  BY DEF WellOrdered
<1>2. o \in Injection(1..Len(o), Included)
  BY <1>1 DEF Injection, IsInjective, WellOrdered
<1>3. Cardinality(1..Len(o)) = Cardinality(Included)
  <2>1. Cardinality(1..Len(o)) = IF 1 > Len(o) THEN 0 ELSE Len(o) - 1 + 1
    BY <1>1, FS_Interval
  <2> QED BY <1>1, <2>1
<1>4. o \in Surjection(1..Len(o), Included)
  BY <1>2, <1>3, IncludedStages, FS_Injection
<1> QED BY <1>1, <1>4 DEF Surjection, ToSet

(***************************************************************************)
(* Lineages                                                                *)
(***************************************************************************)

LEMMA LineageFacts ==
  ASSUME PlanTypes
  PROVE  /\ \A s \in Stages : s \in Lineage(s)
         /\ \A s : Lineage(s) \subseteq Stages
         /\ \A s \in Included : Lineage(s) \subseteq Included
         /\ \A e \in StageEdges : Lineage(e[1]) \subseteq Lineage(e[2])
<1>1. \A s \in Stages : s \in Lineage(s)
  BY DEF Lineage
<1>2. \A s : Lineage(s) \subseteq Stages
  BY DEF Lineage
<1>3. \A s \in Included : Lineage(s) \subseteq Included
  <2>1. Included \in SUBSET Stages /\ \A e \in StageEdges : e[2] \in Included => e[1] \in Included
    BY IncludedStages
  <2> QED BY <2>1 DEF Lineage
<1>4. ASSUME NEW e \in StageEdges, NEW a \in Lineage(e[1]) PROVE a \in Lineage(e[2])
  <2>1. a \in Stages
    BY <1>2
  <2>2. ASSUME NEW closed \in SUBSET Stages, e[2] \in closed,
               \A d \in StageEdges : d[2] \in closed => d[1] \in closed
        PROVE  a \in closed
    <3>1. e[1] \in closed
      BY <2>2
    <3> QED BY <2>2, <3>1 DEF Lineage
  <2> QED BY <2>1, <2>2 DEF Lineage
<1> QED BY <1>1, <1>2, <1>3, <1>4

\* What is closed under children and does not hold s holds nothing s descends from.
LEMMA OutsideLineage ==
  ASSUME PlanTypes, NEW C, \A e \in StageEdges : e[1] \in C => e[2] \in C,
         NEW s \in Stages, s \notin C
  PROVE  \A a \in Lineage(s) : a \notin C
<1>1. /\ Stages \ C \in SUBSET Stages /\ s \in Stages \ C
      /\ \A e \in StageEdges : e[2] \in Stages \ C => e[1] \in Stages \ C
  BY IncludedStages
<1> QED BY <1>1 DEF Lineage

\* build_plan refuses no profile whose dependencies are met, fit in their types and have
\* no cycle: as long as a stage is left over there is one whose parents are all ordered,
\* because a stage that is not ready has a parent left over, whose lineage is smaller.
THEOREM PlannedIfAcyclic == PlanTypes => AcyclicIsPlanned
<1> SUFFICES ASSUME PlanTypes, Admissible, InputsSatisfied, \A e \in StageEdges : e[2] \notin Lineage(e[1])
             PROVE  ToSet(StageOrder) = Included
  BY DEF AcyclicIsPlanned, Planned
<1>1. WellOrdered(StageOrder) /\ ToSet(StageOrder) \subseteq Included
  BY OrderIsMaximal DEF WellOrdered, ToSet
<1>2. CASE Len(StageOrder) = Cardinality(Included)
  BY <1>1, <1>2, OrderHoldsAll
<1>3. CASE Ready(ToSet(StageOrder)) = {}
  <2> DEFINE left == Included \ ToSet(StageOrder)
             Q == {Lineage(s) : s \in left}
  <2> SUFFICES ASSUME left # {} PROVE FALSE
    BY <1>1
  <2>1. Q \subseteq FiniteSubsetsOf(Stages) /\ Q # {}
    <3>1. \A s : Lineage(s) \in FiniteSubsetsOf(Stages)
      BY LineageFacts, ResumeAssumption, FS_Subset DEF FiniteSubsetsOf
    <3> QED BY <3>1
  <2>2. PICK T \in Q : \A U \in Q : ~(U \subseteq T /\ U # T)
    <3> HIDE DEF Q
    <3> QED BY <2>1, MinimalFiniteSet
  <2>3. PICK s \in left : T = Lineage(s)
    BY <2>2
  <2>4. PICK q \in ParentsOf(s) : q \notin ToSet(StageOrder)
    BY <1>3 DEF Ready
  <2>5. <<q, s>> \in StageEdges
    BY <2>4 DEF ParentsOf, StageEdges
  <2>6. q \in left
    BY <2>4, <2>5, IncludedStages
  <2>7. Lineage(q) \subseteq Lineage(s) /\ s \notin Lineage(q)
    BY <2>5, LineageFacts
  <2>8. s \in Lineage(s)
    BY LineageFacts, IncludedStages
  <2>9. Lineage(q) \in Q
    BY <2>6
  <2> QED BY <2>2, <2>3, <2>7, <2>8, <2>9
<1> QED BY <1>2, <1>3, OrderIsMaximal

(***************************************************************************)
(* The stages that are run again                                           *)
(***************************************************************************)

\* blocked_descendants finds all descendants.
LEMMA BlockedAreDescendants ==
  ASSUME PlanTypes, NEW B, B \subseteq Included
  PROVE  \A s \in Included :
           s \in B \cup BlockedDescendants(B) <=> \E a \in Lineage(s) : a \in B
<1> DEFINE Reach(f) == f = [n \in Nat |-> IF n = 0 THEN B
                              ELSE f[n - 1] \cup UNION {ChildrenOf(s) : s \in f[n - 1]}]
           r == CHOOSE f : Reach(f)
           R == r[Cardinality(Included)]
<1>1. \A X : X \cup UNION {ChildrenOf(s) : s \in X} = Spread(StageEdges, X)
  <2>1. \A X : UNION {ChildrenOf(s) : s \in X} = {e[2] : e \in {d \in StageEdges : d[1] \in X}}
    BY DEF ChildrenOf
  <2> QED BY <2>1 DEF Spread
<1>2. BlockedDescendants(B) = R \ B
  BY DEF BlockedDescendants
<1>3. Spreads(r, StageEdges, B)
  <2>1. \A f : Reach(f) <=> Spreads(f, StageEdges, B)
    BY <1>1 DEF Spreads
  <2>2. \E f : Reach(f)
    BY <2>1, IncludedStages, SpreadExists
  <2> HIDE DEF Reach
  <2> QED BY <2>1, <2>2
<1> HIDE DEF r
<1>4. /\ B \subseteq R /\ R \subseteq Included
      /\ \A e \in StageEdges : e[1] \in R => e[2] \in R
      /\ \A C : B \subseteq C /\ (\A e \in StageEdges : e[1] \in C => e[2] \in C) => R \subseteq C
  BY <1>3, IncludedStages, SpreadCloses
<1>5. B \cup BlockedDescendants(B) = R
  BY <1>2, <1>4
<1> HIDE DEF R
<1> TAKE s \in Included
<1>6. s \in Stages
  BY IncludedStages
<1>7. ASSUME s \in R PROVE \E a \in Lineage(s) : a \in B
  <2> DEFINE C == {t \in Included : \E a \in Lineage(t) : a \in B}
  <2>1. B \subseteq C
    BY LineageFacts, IncludedStages
  <2>2. ASSUME NEW e \in StageEdges, e[1] \in C PROVE e[2] \in C
    <3>1. e[2] \in Included
      BY IncludedStages
    <3> QED BY <2>2, <3>1, LineageFacts
  <2>3. R \subseteq C
    <3> HIDE DEF C
    <3> QED BY <1>4, <2>1, <2>2
  <2> QED BY <1>7, <2>3
<1>8. ASSUME s \notin R PROVE \A a \in Lineage(s) : a \notin B
  BY <1>4, <1>6, <1>8, OutsideLineage
<1> QED BY <1>5, <1>7, <1>8

(***************************************************************************)
(* The ledger of completions                                               *)
(***************************************************************************)

Ledgers == [done : SUBSET Completions, quarantined : SUBSET Stages]

\* The stages of which the first n completions of the list disagree.
Disputed(list, n) ==
  {s \in Stages : \E i, j \in 1..n : list[i].stage = s /\ list[j].stage = s /\ list[i] # list[j]}

LEMMA LedgerType ==
  ASSUME NEW l \in Ledgers, NEW c \in Completions
  PROVE  RegisterCompletion(l, c) \in Ledgers
<1>1. [l EXCEPT !.done = @ \cup {c}] = [done |-> l.done \cup {c}, quarantined |-> l.quarantined]
  BY DEF Ledgers
<1> QED BY <1>1 DEF RegisterCompletion, Ledgers, Completions

\* What is left when all are registered: the stages of one completion.
LEMMA LedgerIsUnanimous ==
  ASSUME NEW list \in Seq(Completions)
  PROVE  /\ LedgerOf(list).quarantined = Disputed(list, Len(list))
         /\ LedgerOf(list).done = {c \in ToSet(list) : c.stage \notin Disputed(list, Len(list))}
<1> DEFINE base == [done |-> {}, quarantined |-> {}]
           step == [l \in Ledgers |-> [c \in Completions |-> RegisterCompletion(l, c)]]
           IsFold(f) == f = [s \in SUBSET DOMAIN list |->
                               IF s = {} THEN base ELSE RegisterCompletion(f[s \ {Max(s)}], list[Max(s)])]
           F == CHOOSE f : IsFold(f)
           N == Len(list)
<1>1. DOMAIN list = 1..N /\ N \in Nat /\ \A n \in 1..N : list[n] \in Completions
  OBVIOUS
<1>2. LedgerOf(list) = F[1..N]
  BY <1>1 DEF LedgerOf, FoldLeft, MapThenFoldSet
<1>3. base \in Ledgers /\ step \in [Ledgers -> [Completions -> Ledgers]]
  <2>1. base \in Ledgers
    BY DEF Ledgers
  <2> QED BY <2>1, LedgerType
<1>4. PICK g : Folds(g, Ledgers, base, list, step)
  <2> HIDE DEF base, step
  <2> QED BY <1>3, FoldExists
<1>5. IsFold(g)
  <2>1. g \in [SUBSET (1..N) -> Ledgers]
    BY <1>4 DEF Folds
  <2>2. ASSUME NEW s \in SUBSET (1..N)
        PROVE  g[s] = IF s = {} THEN base ELSE RegisterCompletion(g[s \ {Max(s)}], list[Max(s)])
    <3>1. g[s] = IF s = {} THEN base ELSE step[g[s \ {Max(s)}]][list[Max(s)]]
      BY <1>4 DEF Folds
    <3>2. CASE s # {}
      <4>2. Max(s) \in s
        BY <1>1, <3>2, MaxOfIndices
      <4>3. g[s \ {Max(s)}] \in Ledgers /\ list[Max(s)] \in Completions
        BY <1>1, <2>1, <4>2
      <4> QED BY <3>1, <3>2, <4>3
    <3> QED BY <3>1, <3>2
  <2> HIDE DEF base
  <2> QED BY <1>1, <2>1, <2>2
<1>6. IsFold(F)
  <2> HIDE DEF IsFold
  <2> QED BY <1>5
<1>7. \A s \in SUBSET (1..N) : F[s] = IF s = {} THEN base ELSE RegisterCompletion(F[s \ {Max(s)}], list[Max(s)])
  <2> HIDE DEF F
  <2> QED BY <1>1, <1>6
<1> HIDE DEF F, IsFold, step, N
<1>8. F[1..0] = base /\ \A n \in Nat : n + 1 <= N => F[1..(n + 1)] = RegisterCompletion(F[1..n], list[n + 1])
  <2>1. 1..0 = {}
    OBVIOUS
  <2>2. ASSUME NEW n \in Nat, n + 1 <= N PROVE F[1..(n + 1)] = RegisterCompletion(F[1..n], list[n + 1])
    <3>1. \A i \in 1..(n + 1) : i \in 1..N
      BY <1>1, <2>2
    <3>2. 1..(n + 1) \in SUBSET (1..N)
      BY <3>1
    <3> QED BY <1>7, <3>2, IntervalGrows
  <2> QED BY <1>7, <2>1, <2>2
<1> DEFINE First(n) == {list[i] : i \in 1..n}
           Right(n) == /\ F[1..n] \in Ledgers
                       /\ F[1..n].quarantined = Disputed(list, n)
                       /\ F[1..n].done = {c \in First(n) : c.stage \notin Disputed(list, n)}
           P == {n \in Nat : n <= N => Right(n)}
<1>9. 0 \in P
  <2>1. Disputed(list, 0) = {} /\ First(0) = {}
    BY DEF Disputed
  <2>2. F[1..0].quarantined = {} /\ F[1..0].done = {} /\ F[1..0] \in Ledgers
    BY <1>3, <1>8
  <2>3. Right(0)
    BY <2>1, <2>2
  <2> HIDE DEF Right
  <2> QED BY <2>3
<1>10. ASSUME NEW n \in Nat, n \in P PROVE n + 1 \in P
  <2> SUFFICES ASSUME n + 1 <= N PROVE Right(n + 1)
    OBVIOUS
  <2>1. Right(n) /\ F[1..(n + 1)] = RegisterCompletion(F[1..n], list[n + 1])
    BY <1>1, <1>8, <1>10
  <2> DEFINE l == F[1..n]
             c == list[n + 1]
  <2>2. c \in Completions /\ c.stage \in Stages /\ \A i \in 1..n : list[i] \in Completions
    BY <1>1 DEF Completions
  <2>3. F[1..(n + 1)] \in Ledgers
    BY <2>1, <2>2, LedgerType
  <2>4. First(n + 1) = First(n) \cup {c}
    OBVIOUS
  <2>5. Disputed(list, n + 1) = Disputed(list, n) \cup
          (IF \E d \in First(n) : d.stage = c.stage /\ d # c THEN {c.stage} ELSE {})
    <3>1. Disputed(list, n) \subseteq Disputed(list, n + 1)
      BY DEF Disputed
    <3>2. ASSUME NEW d \in First(n), d.stage = c.stage, d # c PROVE c.stage \in Disputed(list, n + 1)
      <4>1. PICK i \in 1..n : list[i] = d
        OBVIOUS
      <4>2. i \in 1..(n + 1) /\ n + 1 \in 1..(n + 1)
        OBVIOUS
      <4> QED BY <2>2, <3>2, <4>1, <4>2 DEF Disputed
    <3>3. ASSUME NEW s \in Disputed(list, n + 1), s \notin Disputed(list, n)
          PROVE  s = c.stage /\ \E d \in First(n) : d.stage = c.stage /\ d # c
      <4>1. s \in Stages
        BY <3>3 DEF Disputed
      <4>2. PICK i, j \in 1..(n + 1) : list[i].stage = s /\ list[j].stage = s /\ list[i] # list[j]
        BY <3>3 DEF Disputed
      <4>3. ~(i \in 1..n /\ j \in 1..n)
        BY <3>3, <4>1, <4>2 DEF Disputed
      <4>4. CASE i = n + 1
        <5>1. j \in 1..n
          BY <4>2, <4>4
        <5> QED BY <4>2, <4>4, <5>1
      <4>5. CASE j = n + 1
        <5>1. i \in 1..n
          BY <4>2, <4>5
        <5> QED BY <4>2, <4>5, <5>1
      <4> QED BY <4>3, <4>4, <4>5
    <3> HIDE DEF c, First
    <3> QED BY <3>1, <3>2, <3>3
  <2>6. ASSUME NEW d \in First(n) PROVE d \in Completions
    BY <2>2
  <2> DEFINE D == Disputed(list, n)
  <2>7. l.quarantined = D /\ l.done = {d \in First(n) : d.stage \notin D} /\ l \in Ledgers
    BY <2>1
  <2>8. CASE c.stage \in D
    <3>1. F[1..(n + 1)] = l /\ Disputed(list, n + 1) = D
      BY <2>1, <2>5, <2>7, <2>8 DEF RegisterCompletion
    <3> HIDE DEF c, l, D, First
    <3> QED BY <2>3, <2>4, <2>7, <2>8, <3>1 DEF l
  <2>9. CASE c.stage \notin D /\ \E d \in First(n) : d.stage = c.stage /\ d # c
    <3>1. \E d \in l.done : d.stage = c.stage /\ d # c
      <4> HIDE DEF c, l, D, First
      <4> QED BY <2>7, <2>9
    <3>2. RegisterCompletion(l, c) = [done |-> {d \in l.done : d.stage # c.stage},
                                      quarantined |-> l.quarantined \cup {c.stage}]
      BY <2>7, <2>9, <3>1 DEF RegisterCompletion
    <3>3. F[1..(n + 1)] = RegisterCompletion(l, c)
      BY <2>1
    <3> HIDE DEF c, l, D, First
    <3>4. Disputed(list, n + 1) = D \cup {c.stage}
      BY <2>5, <2>9 DEF D
    <3> QED BY <2>3, <2>4, <2>7, <3>2, <3>3, <3>4
  <2>10. CASE c.stage \notin D /\ ~\E d \in First(n) : d.stage = c.stage /\ d # c
    <3>1. ~\E d \in l.done : d.stage = c.stage /\ d # c
      <4> HIDE DEF c, l, D, First
      <4> QED BY <2>7, <2>10
    <3>2. RegisterCompletion(l, c) = [l EXCEPT !.done = @ \cup {c}]
      BY <2>7, <2>10, <3>1 DEF RegisterCompletion
    <3>3. F[1..(n + 1)] = RegisterCompletion(l, c)
      BY <2>1
    <3> HIDE DEF c, l, D, First
    <3>4. Disputed(list, n + 1) = D
      BY <2>5, <2>10 DEF D
    <3>5. F[1..(n + 1)].done = l.done \cup {c} /\ F[1..(n + 1)].quarantined = l.quarantined
      BY <2>7, <3>2, <3>3 DEF Ledgers
    <3> QED BY <2>3, <2>4, <2>7, <2>10, <3>4, <3>5
  <2> QED BY <2>8, <2>9, <2>10
<1>11. Right(N)
  <2>1. Nat \subseteq P
    <3> HIDE DEF P
    <3> QED BY <1>9, <1>10, InductionOnNat
  <2> HIDE DEF Right
  <2> QED BY <1>1, <2>1
<1>12. First(N) = ToSet(list)
  BY <1>1 DEF ToSet
<1> QED BY <1>2, <1>11, <1>12 DEF N

(***************************************************************************)
(* The sub-stage checkpoints                                               *)
(***************************************************************************)

\* The record is one of the run's own of the checkpoint.
OwnRecord(o, id) == o.id = id /\ o.own

\* Content x is that of the last of the run's own among the first n records.
LastRecorded(list, n, id, x) ==
  \E k \in 1..n : /\ OwnRecord(list[k], id) /\ list[k].content = x
                  /\ \A j \in 1..n : OwnRecord(list[j], id) => j <= k

\* What is held of a checkpoint is the run's last record of it, or nothing.
LEMMA HeldIsLast ==
  ASSUME NEW list \in Seq(OpaqueRecords), NEW id \in OpaqueIds
  PROVE  HeldOpaques(list)[id] = NoContent \/ LastRecorded(list, Len(list), id, HeldOpaques(list)[id])
<1> DEFINE V == [OpaqueIds -> StageContents \cup {NoContent}]
           base == [i \in OpaqueIds |-> NoContent]
           step == [h \in V |-> [o \in OpaqueRecords |-> RegisterOpaque(h, o)]]
           IsFold(f) == f = [s \in SUBSET DOMAIN list |->
                               IF s = {} THEN base ELSE RegisterOpaque(f[s \ {Max(s)}], list[Max(s)])]
           F == CHOOSE f : IsFold(f)
           N == Len(list)
<1>1. DOMAIN list = 1..N /\ N \in Nat /\ \A n \in 1..N : list[n] \in OpaqueRecords
  OBVIOUS
<1>2. HeldOpaques(list) = F[1..N]
  BY <1>1 DEF HeldOpaques, FoldLeft, MapThenFoldSet
<1>0. ASSUME NEW h \in V, NEW o \in OpaqueRecords PROVE RegisterOpaque(h, o) \in V
  BY DEF RegisterOpaque, OpaqueRecords
<1>3. base \in V /\ step \in [V -> [OpaqueRecords -> V]]
  <2> HIDE DEF V
  <2>1. step \in [V -> [OpaqueRecords -> V]]
    BY <1>0
  <2>2. base \in V
    BY DEF V
  <2> QED BY <2>1, <2>2
<1>4. PICK g : Folds(g, V, base, list, step)
  <2> HIDE DEF base, step, V
  <2> QED BY <1>3, FoldExists
<1>5. IsFold(g)
  <2>1. g \in [SUBSET (1..N) -> V]
    BY <1>4 DEF Folds
  <2>2. ASSUME NEW s \in SUBSET (1..N)
        PROVE  g[s] = IF s = {} THEN base ELSE RegisterOpaque(g[s \ {Max(s)}], list[Max(s)])
    <3>1. g[s] = IF s = {} THEN base ELSE step[g[s \ {Max(s)}]][list[Max(s)]]
      BY <1>4 DEF Folds
    <3>2. CASE s # {}
      <4>1. Max(s) \in s
        BY <1>1, <3>2, MaxOfIndices
      <4>2. g[s \ {Max(s)}] \in V /\ list[Max(s)] \in OpaqueRecords
        <5> HIDE DEF V
        <5> QED BY <1>1, <2>1, <4>1
      <4> HIDE DEF V, base
      <4> QED BY <3>1, <3>2, <4>2
    <3> HIDE DEF base
    <3> QED BY <3>1, <3>2
  <2> HIDE DEF base, V
  <2> QED BY <1>1, <2>1, <2>2
<1>6. IsFold(F)
  <2> HIDE DEF IsFold
  <2> QED BY <1>5
<1>7. \A s \in SUBSET (1..N) : F[s] = IF s = {} THEN base ELSE RegisterOpaque(F[s \ {Max(s)}], list[Max(s)])
  <2> HIDE DEF F
  <2> QED BY <1>1, <1>6
<1> HIDE DEF F, IsFold, step, N, base
<1>8. F[1..0] = base /\ \A n \in Nat : n + 1 <= N => F[1..(n + 1)] = RegisterOpaque(F[1..n], list[n + 1])
  <2>1. 1..0 = {}
    OBVIOUS
  <2>2. ASSUME NEW n \in Nat, n + 1 <= N PROVE F[1..(n + 1)] = RegisterOpaque(F[1..n], list[n + 1])
    <3>1. \A i \in 1..(n + 1) : i \in 1..N
      BY <1>1, <2>2
    <3>2. 1..(n + 1) \in SUBSET (1..N)
      BY <3>1
    <3> QED BY <1>7, <3>2, IntervalGrows
  <2> QED BY <1>7, <2>1, <2>2
<1> DEFINE Right(n) == F[1..n] \in V /\ (F[1..n][id] = NoContent \/ LastRecorded(list, n, id, F[1..n][id]))
           P == {n \in Nat : n <= N => Right(n)}
<1>9. 0 \in P
  <2>1. F[1..0] \in V /\ F[1..0][id] = NoContent
    BY <1>3, <1>8 DEF base
  <2> QED BY <2>1
<1>10. ASSUME NEW n \in Nat, n \in P PROVE n + 1 \in P
  <2> SUFFICES ASSUME n + 1 <= N PROVE Right(n + 1)
    OBVIOUS
  <2> DEFINE h == F[1..n]
             k == F[1..(n + 1)]
             o == list[n + 1]
  <2>1. Right(n) /\ k = RegisterOpaque(h, o)
    BY <1>1, <1>8, <1>10
  <2>2. o \in OpaqueRecords /\ h \in V
    BY <1>1, <2>1
  <2>3. k \in V
    BY <1>0, <2>1, <2>2
  <2>4. CASE ~OwnRecord(o, id)
    <3>1. k[id] = h[id]
      BY <2>1, <2>2, <2>4 DEF RegisterOpaque, OpaqueRecords, OwnRecord
    <3>2. ASSUME NEW x, LastRecorded(list, n, id, x) PROVE LastRecorded(list, n + 1, id, x)
      <4>1. PICK m \in 1..n : /\ OwnRecord(list[m], id) /\ list[m].content = x
                             /\ \A j \in 1..n : OwnRecord(list[j], id) => j <= m
        BY <3>2 DEF LastRecorded
      <4>2. m \in 1..(n + 1) /\ \A j \in 1..(n + 1) : OwnRecord(list[j], id) => j <= m
        BY <2>4, <4>1
      <4> QED BY <4>1, <4>2 DEF LastRecorded
    <3> QED BY <2>1, <2>3, <3>1, <3>2
  <2>5. CASE OwnRecord(o, id)
    <3>1. k[id] = NoContent \/ k[id] = o.content
      BY <2>1, <2>2, <2>5 DEF RegisterOpaque, OpaqueRecords, OwnRecord
    <3>2. LastRecorded(list, n + 1, id, o.content)
      <4>1. n + 1 \in 1..(n + 1) /\ \A j \in 1..(n + 1) : j <= n + 1
        OBVIOUS
      <4> QED BY <2>5, <4>1 DEF LastRecorded
    <3> QED BY <2>3, <3>1, <3>2
  <2> QED BY <2>4, <2>5
<1>11. Right(N)
  <2>1. Nat \subseteq P
    <3> HIDE DEF P
    <3> QED BY <1>9, <1>10, InductionOnNat
  <2> HIDE DEF Right
  <2> QED BY <1>1, <2>1
<1> QED BY <1>2, <1>11 DEF N

LEMMA FiniteToSet ==
  ASSUME NEW S, NEW list \in Seq(S)
  PROVE  IsFiniteSet(ToSet(list)) /\ ToSet(list) \subseteq S
<1>1. list \in [1..Len(list) -> ToSet(list)] /\ Len(list) \in Nat
  BY DEF ToSet
<1>2. list \in Surjection(1..Len(list), ToSet(list))
  BY <1>1 DEF Surjection, ToSet
<1>3. IsFiniteSet(1..Len(list))
  BY <1>1, FS_Interval
<1>4. IsFiniteSet(ToSet(list))
  BY <1>2, <1>3, FS_Surjection
<1> QED BY <1>4 DEF ToSet

\* verify_stage on the ledger, told without the order of the completions.
LEMMA VerifiedIsProved ==
  ASSUME PlanTypes, NEW s \in Stages
  PROVE  (s \notin DOMAIN attempt.expected \/ ~VerifyStage(LedgerOf(completions), s)) <=> Unproved(s)
<1> DEFINE L == LedgerOf(completions)
           own == {c \in ToSet(completions) : c.stage = s}
           D == Disputed(completions, Len(completions))
           Fits(c) == c.spec = attempt.expected[s] /\ attempt.observed[s] \in {NoContent, c.content}
<1>1. completions \in Seq(Completions)
  BY DEF PlanTypes
<1>2. L.done = {c \in ToSet(completions) : c.stage \notin D}
  BY <1>1, LedgerIsUnanimous
<1>3. s \in D <=> \E c, d \in own : c # d
  <2>1. s \in D <=> \E i, j \in 1..Len(completions) :
          completions[i].stage = s /\ completions[j].stage = s /\ completions[i] # completions[j]
    BY DEF Disputed
  <2>2. ToSet(completions) = {completions[i] : i \in 1..Len(completions)}
    BY <1>1 DEF ToSet
  <2> HIDE DEF D
  <2> QED BY <2>1, <2>2
<1>4. IsFiniteSet(own)
  <2>1. own \subseteq ToSet(completions) /\ IsFiniteSet(ToSet(completions))
    BY <1>1, FiniteToSet
  <2> HIDE DEF own
  <2> QED BY <2>1, FS_Subset
<1>5. Cardinality(own) = 1 <=> \E c : own = {c}
  <2> HIDE DEF own
  <2> QED BY <1>4, FS_Singleton
<1>6. VerifyStage(L, s) <=> \E c \in L.done : c.stage = s /\ Fits(c)
  BY DEF VerifyStage
<1>7. Unproved(s) <=> Cardinality(own) # 1 \/ s \notin DOMAIN attempt.expected \/ \E c \in own : ~Fits(c)
  BY DEF Unproved
<1> HIDE DEF L, D, Fits
<1>8. CASE \E c : own = {c}
  <2>1. PICK c : own = {c}
    BY <1>8
  <2>2. s \notin D
    BY <1>3, <2>1
  <2>3. \A d : (d \in L.done /\ d.stage = s) <=> d = c
    BY <1>2, <2>1, <2>2
  <2> HIDE DEF own
  <2>4. VerifyStage(L, s) <=> Fits(c)
    BY <1>6, <2>3
  <2>5. Unproved(s) <=> s \notin DOMAIN attempt.expected \/ ~Fits(c)
    BY <1>5, <1>7, <2>1
  <2> QED BY <2>4, <2>5 DEF L
<1>9. CASE ~\E c : own = {c}
  <2>1. ~\E d \in L.done : d.stage = s
    <3> SUFFICES ASSUME NEW d \in L.done, d.stage = s PROVE FALSE
      OBVIOUS
    <3>1. d \in own /\ s \notin D
      BY <1>2
    <3>2. \A c \in own : c = d
      <4> HIDE DEF own
      <4> QED BY <1>3, <3>1
    <3>3. own = {d}
      <4> HIDE DEF own
      <4> QED BY <3>1, <3>2
    <3> QED BY <1>9, <3>3
  <2> HIDE DEF own
  <2>2. ~VerifyStage(L, s) /\ Unproved(s)
    BY <1>5, <1>6, <1>7, <1>9, <2>1
  <2> QED BY <2>2 DEF L
<1> QED BY <1>8, <1>9

\* build_resume_plan: the plan orders every stage behind its parents and all its inputs
\* come from, reuses exactly the stages without an unproved or a failed one in their
\* lineage, and passes only a checkpoint that is the last this run recorded.
THEOREM ReuseIsExact == PlanTypes => ReusedExactly
<1> SUFFICES ASSUME PlanTypes, ~PlanRaises PROVE ReusedExactly
  BY DEF ReusedExactly
<1> DEFINE order == StageOrder
<1>1. ToSet(order) = Included /\ Invalid \subseteq Included /\ WellOrdered(order) /\ InputsSatisfied
  BY OrderIsMaximal DEF PlanRaises, Planned
<1> HIDE DEF order
<1>2. \A i \in 1..Len(order) : ParentsOf(order[i]) \subseteq ToSet(SubSeq(order, 1, i - 1))
  <2> TAKE i \in 1..Len(order)
  <2>1. order \in Seq(Included) /\ i - 1 \in 0..Len(order) /\ Len(order) \in Nat
    BY <1>1 DEF WellOrdered
  <2> DEFINE f == SubSeq(order, 1, i - 1)
  <2>2. f \in Seq(Included) /\ Len(f) = i - 1 /\ \A j \in 1..(i - 1) : f[j] = order[j]
    BY <2>1, FirstMembers
  <2> HIDE DEF f
  <2>3. \A q \in ParentsOf(order[i]) : \E j \in 1..(i - 1) : f[j] = q
    <3>1. \A q \in ParentsOf(order[i]) : \E j \in 1..(i - 1) : order[j] = q
      BY <1>1 DEF WellOrdered
    <3> QED BY <2>2, <3>1
  <2>4. DOMAIN f = 1..(i - 1)
    BY <2>2
  <2>5. ParentsOf(order[i]) \subseteq ToSet(f)
    BY <2>3, <2>4 DEF ToSet
  <2> QED BY <2>5 DEF f
<1>5. \A i \in 1..Len(order) : attempt.inputs[order[i]] \subseteq OutputsOf(ToSet(SubSeq(order, 1, i - 1)))
  <2> TAKE i \in 1..Len(order)
  <2>1. order[i] \in Included
    BY <1>1 DEF WellOrdered
  <2>2. attempt.inputs[order[i]] \subseteq OutputsOf(ParentsOf(order[i]))
    BY <1>1, <2>1 DEF InputsSatisfied
  <2>3. \A S, T : S \subseteq T => OutputsOf(S) \subseteq OutputsOf(T)
    BY DEF OutputsOf
  <2>4. ParentsOf(order[i]) \subseteq ToSet(SubSeq(order, 1, i - 1))
    BY <1>2
  <2>5. OutputsOf(ParentsOf(order[i])) \subseteq OutputsOf(ToSet(SubSeq(order, 1, i - 1)))
    BY <2>3, <2>4
  <2> QED BY <2>2, <2>5
<1>3. Reusable = {s \in Included : \A a \in Lineage(s) : ~Unproved(a) /\ a \notin OpaqueFailures}
  <2>1. Reusable = {s \in Included : s \notin Affected}
    BY <1>1 DEF Reusable, order
  <2>2. \A s \in Included : s \in Affected <=> \E a \in Lineage(s) : a \in Invalid
    BY <1>1, BlockedAreDescendants DEF Affected
  <2>3. \A s \in Included : s \in Invalid <=> (Unproved(s) \/ s \in OpaqueFailures)
    <3>1. \A s \in Included : (s \notin DOMAIN attempt.expected \/ ~VerifyStage(LedgerOf(completions), s)) <=> Unproved(s)
      BY VerifiedIsProved, IncludedStages
    <3> QED BY <3>1 DEF Invalid
  <2>4. \A s \in Included : Lineage(s) \subseteq Included
    BY LineageFacts
  <2> QED BY <2>1, <2>2, <2>3, <2>4
<1>4. ASSUME NEW s \in Reusable, NEW o \in ToSet(opaques), o.stage = s,
             attempt.observedOpaque[o.id] # NoContent
      PROVE  LastOpaque(o.id) # 0 /\ opaques[LastOpaque(o.id)].content = attempt.observedOpaque[o.id]
  <2>1. s \notin OpaqueFailures
    <3>1. s \in Included /\ s \in Lineage(s)
      BY <1>3, LineageFacts, IncludedStages
    <3> QED BY <1>3, <3>1
  <2>2. opaques \in Seq(OpaqueRecords) /\ o \in OpaqueRecords
    <3>1. opaques \in Seq(OpaqueRecords)
      BY DEF PlanTypes
    <3> QED BY <3>1, FiniteToSet
  <2> DEFINE h == HeldOpaques(opaques)[o.id]
  <2>3. attempt.observedOpaque[o.id] = h
    BY <1>4, <2>1 DEF OpaqueFailures
  <2>4. LastRecorded(opaques, Len(opaques), o.id, h)
    <3>1. o.id \in OpaqueIds
      BY <2>2 DEF OpaqueRecords
    <3> QED BY <1>4, <2>2, <2>3, <3>1, HeldIsLast
  <2> HIDE DEF h
  <2>5. PICK k \in 1..Len(opaques) :
          /\ OwnRecord(opaques[k], o.id) /\ opaques[k].content = h
          /\ \A j \in 1..Len(opaques) : OwnRecord(opaques[j], o.id) => j <= k
    BY <2>4 DEF LastRecorded
  <2> DEFINE I == {i \in 1..Len(opaques) : OwnRecord(opaques[i], o.id)}
  <2>6. LastOpaque(o.id) = IF I # {} THEN Max(I) ELSE 0
    BY DEF LastOpaque, SelectLastInSeq, OwnRecord
  <2>7. k \in I /\ I \subseteq 1..Len(opaques) /\ Len(opaques) \in Nat
    BY <2>2, <2>5
  <2>8. Max(I) \in I /\ \A i \in I : i <= Max(I)
    <3> HIDE DEF I
    <3> QED BY <2>7, MaxOfIndices
  <2>9. Max(I) = k
    BY <2>5, <2>7, <2>8
  <2> HIDE DEF I
  <2> QED BY <2>3, <2>5, <2>6, <2>7, <2>9
<1> QED BY <1>2, <1>3, <1>4, <1>5 DEF ReusedExactly, order

(***************************************************************************)
(* The artifact cache, and the invariant of every resumed run              *)
(***************************************************************************)

ResumeNext == PlanNext \/ CacheNext

ResumeSpec == ResumeInit /\ [][ResumeNext]_resumeVars

\* A key out of quarantine was never disproved, and holds what agrees with all of
\* its registrations.
CacheAgrees ==
  /\ cached \in [CacheKeys -> Artifacts \cup {NoArtifact}]
  /\ \A k \in CacheKeys : k \notin quarantinedKeys =>
       /\ k \notin disproved
       /\ \A r \in registered : r[1] = k => cached[k] # NoArtifact /\ SameSemantics(r[2], cached[k])

LEMMA CacheStep ==
  ASSUME CacheAgrees, CacheNext
  PROVE  CacheAgrees'
<1>1. PICK k \in CacheKeys :
        \/ \E a \in Artifacts : RegisterArtifact(k, a)
        \/ \E content \in StageContents : LookupCorrupted(k, content)
        \/ QuarantineKey(k)
  BY DEF CacheNext
<1>2. CASE \E a \in Artifacts : RegisterArtifact(k, a)
  <2>1. PICK a \in Artifacts : RegisterArtifact(k, a)
    BY <1>2
  <2>2. registered' = registered \cup {<<k, a>>} /\ disproved' = disproved
    BY <2>1 DEF RegisterArtifact
  <2>3. CASE cached[k] # NoArtifact /\ ~SameSemantics(cached[k], a)
    <3>1. cached' = [cached EXCEPT ![k] = NoArtifact] /\ quarantinedKeys' = quarantinedKeys \cup {k}
      BY <2>1, <2>3 DEF RegisterArtifact
    <3> QED BY <2>2, <3>1 DEF CacheAgrees, SameSemantics
  <2>4. CASE ~(cached[k] # NoArtifact /\ ~SameSemantics(cached[k], a))
    <3>1. cached' = [cached EXCEPT ![k] = a] /\ quarantinedKeys' = quarantinedKeys
      BY <2>1, <2>4 DEF RegisterArtifact
    <3>2. cached'[k] = a /\ \A l \in CacheKeys \ {k} : cached'[l] = cached[l]
      BY <3>1 DEF CacheAgrees
    <3>3. cached' \in [CacheKeys -> Artifacts \cup {NoArtifact}] /\ a # NoArtifact
      BY <3>1, ResumeAssumption DEF CacheAgrees
    <3>4. ASSUME k \notin quarantinedKeys, NEW r \in registered', r[1] = k PROVE SameSemantics(r[2], a)
      <4>1. CASE r \in registered
        BY <2>4, <3>4, <4>1 DEF CacheAgrees, SameSemantics
      <4>2. CASE r = <<k, a>>
        BY <4>2 DEF SameSemantics
      <4> QED BY <2>2, <4>1, <4>2
    <3>5. ASSUME NEW l \in CacheKeys, l \notin quarantinedKeys'
          PROVE  /\ l \notin disproved'
                 /\ \A r \in registered' : r[1] = l => cached'[l] # NoArtifact /\ SameSemantics(r[2], cached'[l])
      <4>1. CASE l = k
        BY <2>2, <3>1, <3>2, <3>3, <3>4, <3>5, <4>1 DEF CacheAgrees
      <4>2. CASE l # k
        BY <2>2, <3>1, <3>2, <3>5, <4>2 DEF CacheAgrees
      <4> QED BY <4>1, <4>2
    <3>6. CacheAgrees'
      <4> HIDE DEF SameSemantics
      <4> QED BY <3>3, <3>5 DEF CacheAgrees, SameSemantics
    <3> QED BY <3>6
  <2> QED BY <2>3, <2>4
<1>3. CASE (\E content \in StageContents : LookupCorrupted(k, content)) \/ QuarantineKey(k)
  <2>1. QuarantineRecord(k)
    BY <1>3 DEF LookupCorrupted, QuarantineKey
  <2> QED BY <2>1 DEF QuarantineRecord, CacheAgrees, SameSemantics
<1> QED BY <1>1, <1>2, <1>3

\* What a run that resumes earlier attempts relies on: for every profile, every list of
\* records and every sequence of calls of the cache.
THEOREM ResumeCorrect == ResumeSpec => []ResumeInv
<1>1. ResumeInit => PlanTypes /\ CacheAgrees
  BY DEF ResumeInit, PlanTypes, CacheAgrees
<1>2. PlanTypes /\ CacheAgrees /\ [ResumeNext]_resumeVars => PlanTypes' /\ CacheAgrees'
  <2> SUFFICES ASSUME PlanTypes, CacheAgrees, [ResumeNext]_resumeVars PROVE PlanTypes' /\ CacheAgrees'
    OBVIOUS
  <2>1. CASE RecordCompletion
    <3>1. PICK s \in Stages, spec \in StageSpecs, content \in StageContents :
            completions' = Append(completions, [stage |-> s, spec |-> spec, content |-> content])
      BY <2>1 DEF RecordCompletion
    <3>2. completions' \in Seq(Completions)
      BY <3>1 DEF PlanTypes, Completions
    <3> QED BY <2>1, <3>2 DEF RecordCompletion, PlanTypes, CacheAgrees, cacheVars, SameSemantics
  <2>2. CASE RecordOpaque
    <3>1. PICK id \in OpaqueIds, own \in BOOLEAN, s \in Stages, content \in StageContents :
            opaques' = Append(opaques, [id |-> id, own |-> own, stage |-> s, content |-> content])
      BY <2>2 DEF RecordOpaque
    <3>2. opaques' \in Seq(OpaqueRecords)
      BY <3>1 DEF PlanTypes, OpaqueRecords
    <3> QED BY <2>2, <3>2 DEF RecordOpaque, PlanTypes, CacheAgrees, cacheVars, SameSemantics
  <2>3. CASE CacheNext
    <3>1. UNCHANGED planVars
      BY <2>3 DEF CacheNext, RegisterArtifact, LookupCorrupted, QuarantineKey, CacheCall
    <3> QED BY <2>3, <3>1, CacheStep DEF PlanTypes, planVars
  <2>4. CASE UNCHANGED resumeVars
    BY <2>4 DEF resumeVars, planVars, cacheVars, PlanTypes, CacheAgrees, SameSemantics
  <2> QED BY <2>1, <2>2, <2>3, <2>4 DEF ResumeNext, PlanNext
<1>3. PlanTypes /\ CacheAgrees => ResumeInv
  <2>1. CacheAgrees => HitsAgree
    BY DEF CacheAgrees, HitsAgree, Hit, SameSemantics
  <2> QED BY <2>1, ReuseIsExact, PlannedIfAcyclic DEF ResumeInv
<1> QED BY <1>1, <1>2, <1>3, PTL DEF ResumeSpec

(***************************************************************************)
(* EpisodeEngine: the stream and the maps                                  *)
(***************************************************************************)

\* A record is built by one of the constructors.
Shaped(r) ==
  \/ r.kind = "GENESIS" /\ r = GenesisRecord(r.episode)
  \/ r.kind = "EVENT" /\ r = BoundaryEvent(r.action, r.episodes, r.candidate)
  \/ r.kind = "MEMBER" /\ r = MembershipDelta(r.episode, r.frame, r.by)
  \/ r.kind = "PHASE" /\ r = PhaseSegment(r.episode, r.interval)
  \/ r.kind = "EDGE" /\ r = LineageEdge(r.type, r.parent, r.child, r.by)
  \/ r.kind = "SNAPSHOT"

EngineTypes ==
  /\ semantic \in Seq(Range(semantic)) /\ edges \in Seq(Range(edges))
  /\ statusOf \in [EpisodeFrames -> Range(Endings) \cup {"UNBORN", "OPEN"}]
  /\ ownerOf \in [EpisodeFrames -> EpisodeFrames \cup {NoOwner}]

\* What a record says is what the maps hold, and what it refers to is held.
RecordSound(r) ==
  /\ Shaped(r)
  /\ r.kind \in {"GENESIS", "PHASE", "MEMBER"} => r.episode \in Genesis
  /\ r.kind = "EVENT" => /\ r.episodes \subseteq Genesis
                         /\ r.action \notin EdgeTypes => \E e \in Genesis : r.episodes = {e}
  /\ r.kind = "MEMBER" => /\ r.by \in Range(semantic)
                          /\ r.frame \in EpisodeFrames /\ ownerOf[r.frame] = r.episode
  /\ r.kind = "EDGE" => /\ r.by \in Range(semantic)
                        /\ r.parent \in Genesis /\ r.child \in Genesis

\* What the maps hold was recorded.
MapsRecorded ==
  /\ \A e \in Genesis : GenesisRecord(e) \in Range(semantic) /\ ownerOf[e] = e
  /\ \A f \in EpisodeFrames : ownerOf[f] # NoOwner => \E r \in Records("MEMBER") : r.frame = f

\* An open episode has no ending event, and an ended one has one.
StatusRecorded ==
  \A e \in Genesis :
    \/ Open(e) /\ EndsAt(e) = {}
    \/ /\ ~Open(e)
       /\ \E i \in EndsAt(e) : EndsAt(e) = {i} /\ statusOf[e] = Endings[semantic[i].action]

\* An event that may name two episodes comes with an edge between the two.
EventHasEdge ==
  \A r \in Records("EVENT"), p, q \in Genesis :
    r.action \in EdgeTypes /\ r.episodes = {p, q} /\ p # q =>
      \/ LineageEdge(r.action, p, q, r) \in Range(semantic)
      \/ LineageEdge(r.action, q, p, r) \in Range(semantic)

EngineCore ==
  /\ EngineTypes
  /\ \A r \in Range(semantic) : RecordSound(r)
  /\ MapsRecorded
  /\ StatusRecorded
  /\ EventHasEdge
  /\ RecordsOnce
  /\ OneOwner
  /\ EndedForGood
  /\ TopologySound

\* What HalfDoneOnly asks of the stream and of the edges.
PhasesFollow ==
  \A i \in DOMAIN semantic :
    semantic[i].kind = "EVENT" /\ semantic[i].action = "PHASE_MUTATION" =>
      /\ i < Len(semantic)
      /\ semantic[i + 1].kind = "PHASE"
      /\ semantic[i].episodes = {semantic[i + 1].episode}

NothingHalfDone == IsInjective(edges) /\ PhasesFollow

EngineIInv ==
  /\ EngineCore
  /\ halfDone \in BOOLEAN /\ (~halfDone => NothingHalfDone)

(***************************************************************************)
(* EpisodeReplay                                                           *)
(***************************************************************************)

RunStart(f) == f[2] = 1 \/ Content(f).segment # inputs[f[1]][f[2] - 1].segment

\* The run of f begins with e.
InRun(e, f) == e[1] = f[1] /\ e[2] <= f[2] /\ RunStart(e) /\ SameRun(f[1], e[2], f[2])

Changed(f) == Content(f).structure # inputs[f[1]][f[2] - 1].structure

Moved(f) == ParentSignature(Content(f)) # ParentSignature(inputs[f[1]][f[2] - 1])

LastFrame == <<side, Len(inputs[side])>>

Behind(f) == <<f[1], f[2] - 1>>

Candidate(rule) == <<rule, LastFrame>>

\* Where the replay is: between two frames, before a birth, or behind a frame of
\* the episode it goes on with or closes.
Position ==
  \/ side = "DONE" /\ pending = <<>> /\ active = NoFrame
  \/ /\ side \in Sides
     /\ \/ pending = <<>> /\ inputs[side] = <<>> /\ active = NoFrame
        \/ pending = <<>> /\ inputs[side] # <<>> /\ active = ownerOf[LastFrame]
        \/ /\ pending = <<Candidate("BIRTH")>> /\ inputs[side] # <<>>
           /\ active = NoFrame /\ RunStart(LastFrame)
        \/ /\ inputs[side] # <<>> /\ LastFrame[2] # 1 /\ active = ownerOf[Behind(LastFrame)]
           /\ \/ /\ RunStart(LastFrame)
                 /\ pending = <<Candidate("CENSOR_GAP"), Candidate("BIRTH")>>
              \/ /\ ~RunStart(LastFrame)
                 /\ \/ pending = <<Candidate("CONTINUATION")>>
                    \/ /\ Changed(LastFrame)
                       /\ pending = <<Candidate("PHASE_MUTATION"), Candidate("CONTINUATION")>>
                    \/ /\ Moved(LastFrame) /\ Content(LastFrame).available
                       /\ \/ pending = <<Candidate("RE_PARENT"), Candidate("CONTINUATION")>>
                          \/ /\ Changed(LastFrame)
                             /\ pending = <<Candidate("RE_PARENT"), Candidate("PHASE_MUTATION"), Candidate("CONTINUATION")>>

SidesInTurn ==
  /\ side = "ASK" => inputs["BID"] = <<>>
  /\ side # "ASK" => inputs["ASK"] # <<>>
  /\ side = "DONE" => inputs["BID"] # <<>>
  /\ outcome = "FAILED" => side \in Sides /\ inputs[side] = <<>>
  /\ outcome = "COMPLETE" => side = "DONE"

Owned ==
  /\ \A f \in Applied : ownerOf[f] \in Applied /\ InRun(ownerOf[f], f)
  /\ \A f \in EpisodeFrames \ Applied : ownerOf[f] = NoOwner

OnlyActiveOpen ==
  \A e \in Genesis : IF e = active THEN Open(e) ELSE statusOf[e] = "CENSORED"

\* The candidates of the events are the ones applied, and the ends of the sides behind.
EventsApplied ==
  \A r \in Records("EVENT") :
    /\ r.candidate = <<r.action, r.candidate[2]>>
    /\ r.candidate[2] \in AllFrames /\ r.candidate \notin Range(pending)
    /\ r.action = "CENSOR_RELEASE_END" => r.candidate[2][1] # side

MembersOnce == \A r, q \in Records("MEMBER") : r.frame = q.frame => r = q

PhasesOf(e) == {r.interval : r \in {p \in Records("PHASE") : p.episode = e}}

PhaseEnds(e) ==
  {g \in AllFrames : /\ InRun(e, g) /\ g # e /\ Changed(g)
                     /\ <<"PHASE_MUTATION", g>> \notin Range(pending)}

PhasesSound ==
  \A e \in Genesis :
    /\ {p[2] : p \in PhasesOf(e)} = PhaseEnds(e)
    /\ \A p \in PhasesOf(e) : /\ p = <<p[1], p[2]>>
                              /\ p[1] \in PhaseEnds(e) \cup {e} /\ p[1][2] < p[2][2]
    /\ \A p, q \in PhasesOf(e) : p[1] = q[1] => p = q
    /\ PhasesOf(e) # {} => \E p \in PhasesOf(e) : p[1] = e
    /\ e = active => /\ phaseFrom[e] \in PhaseEnds(e) \cup {e}
                     /\ \A p \in PhasesOf(e) : p[1] # phaseFrom[e]
                     /\ PhasesOf(e) = {} => phaseFrom[e] = e

ReParentEvent(e, g) == BoundaryEvent("RE_PARENT", {e}, <<"RE_PARENT", g>>)

\* The parent context of the episode changed with g, and that was applied.
ParentMoves(e, g) ==
  /\ InRun(e, g) /\ g # e /\ Moved(g) /\ Content(g).available
  /\ <<"RE_PARENT", g>> \notin Range(pending)

ParentsTold ==
  \A e \in Genesis, g \in AllFrames : ReParentEvent(e, g) \in Range(semantic) <=> ParentMoves(e, g)

ParentsBlocked ==
  blocked = {<<"RE_PARENT", g>> : g \in
               {h \in AllFrames : ~RunStart(h) /\ Moved(h) /\ ~Content(h).available}}

SnapshotsTaken ==
  Records("SNAPSHOT") =
    IF outcome = "COMPLETE"
    THEN {[kind |-> "SNAPSHOT", episode |-> e, status |-> statusOf[e],
           members |-> {f \in EpisodeFrames : ownerOf[f] = e}] : e \in Genesis}
    ELSE {}

ReplayIInv ==
  /\ EngineCore /\ NothingHalfDone
  /\ calls = 0 /\ halfDone = FALSE
  /\ ReplayTypeOK
  /\ \A s \in Sides : Len(inputs[s]) <= MaxFrames
  /\ Position
  /\ SidesInTurn
  /\ Owned
  /\ OnlyActiveOpen
  /\ EventsApplied
  /\ MembersOnce
  /\ PhasesSound
  /\ ParentsTold
  /\ ParentsBlocked
  /\ SnapshotsTaken

LEMMA RecordFields ==
  /\ \A e : GenesisRecord(e).kind = "GENESIS" /\ GenesisRecord(e).episode = e
  /\ \A a, es, c : /\ BoundaryEvent(a, es, c).kind = "EVENT" /\ BoundaryEvent(a, es, c).action = a
                   /\ BoundaryEvent(a, es, c).episodes = es /\ BoundaryEvent(a, es, c).candidate = c
  /\ \A e, f, v : /\ MembershipDelta(e, f, v).kind = "MEMBER" /\ MembershipDelta(e, f, v).episode = e
                  /\ MembershipDelta(e, f, v).frame = f /\ MembershipDelta(e, f, v).by = v
  /\ \A e, n : /\ PhaseSegment(e, n).kind = "PHASE" /\ PhaseSegment(e, n).episode = e
               /\ PhaseSegment(e, n).interval = n
  /\ \A t, p, q, v : /\ LineageEdge(t, p, q, v).kind = "EDGE" /\ LineageEdge(t, p, q, v).type = t
                     /\ LineageEdge(t, p, q, v).parent = p /\ LineageEdge(t, p, q, v).child = q
                     /\ LineageEdge(t, p, q, v).by = v
BY DEF GenesisRecord, BoundaryEvent, MembershipDelta, PhaseSegment, LineageEdge

LEMMA RecordShapes ==
  /\ \A e : Shaped(GenesisRecord(e))
  /\ \A a, es, c : Shaped(BoundaryEvent(a, es, c))
  /\ \A e, f, v : Shaped(MembershipDelta(e, f, v))
  /\ \A e, n : Shaped(PhaseSegment(e, n))
  /\ \A t, p, q, v : Shaped(LineageEdge(t, p, q, v))
BY RecordFields DEF Shaped

LEMMA EndingFacts ==
  /\ DOMAIN Endings = {"CENSOR_GAP", "CENSOR_RELEASE_END", "TERMINATE", "TERMINATE_CONFLICT"}
  /\ \A a \in DOMAIN Endings : Endings[a] \in Range(Endings) /\ Endings[a] \notin {"OPEN", "UNBORN"}
  /\ Endings["CENSOR_GAP"] = "CENSORED" /\ Endings["CENSOR_RELEASE_END"] = "CENSORED"
  /\ \A a \in DOMAIN Endings : a \notin EdgeTypes
  /\ \A a \in {"BIRTH", "CONTINUATION", "PHASE_MUTATION"} \cup EdgeTypes : a \notin DOMAIN Endings
<1>1. DOMAIN Endings = {"CENSOR_GAP", "CENSOR_RELEASE_END", "TERMINATE", "TERMINATE_CONFLICT"}
  BY DEF Endings
<1>2. /\ Endings["CENSOR_GAP"] = "CENSORED" /\ Endings["CENSOR_RELEASE_END"] = "CENSORED"
      /\ Endings["TERMINATE"] = "TERMINATED" /\ Endings["TERMINATE_CONFLICT"] = "CONFLICTED"
  BY DEF Endings
<1>3. \A a \in DOMAIN Endings : Endings[a] \in Range(Endings)
  BY DEF Range
<1>4. \A a \in DOMAIN Endings : Endings[a] \notin {"OPEN", "UNBORN"}
  BY <1>1, <1>2
<1>5. \A a \in DOMAIN Endings : a \notin EdgeTypes
  BY <1>1 DEF EdgeTypes
<1>6. \A a \in {"BIRTH", "CONTINUATION", "PHASE_MUTATION"} \cup EdgeTypes : a \notin DOMAIN Endings
  BY <1>1 DEF EdgeTypes
<1> QED BY <1>1, <1>2, <1>3, <1>4, <1>5, <1>6

\* A sequence that grew at its end.
Grown(s, t, u) ==
  /\ u \in Seq(Range(u))
  /\ Range(u) = Range(s) \cup Range(t)
  /\ Len(u) = Len(s) + Len(t) /\ DOMAIN s = 1..Len(s) /\ DOMAIN u = 1..Len(u)
  /\ Len(s) \in Nat /\ Len(t) \in Nat
  /\ \A i \in DOMAIN s : i \in DOMAIN u /\ u[i] = s[i]
  /\ \A k \in 1..Len(t) : Len(s) + k \in DOMAIN u /\ u[Len(s) + k] = t[k] /\ t[k] \in Range(t)
  /\ \A i \in DOMAIN u : i \notin DOMAIN s => /\ i > Len(s) /\ i - Len(s) \in 1..Len(t)
                                              /\ u[i] = t[i - Len(s)] /\ u[i] \in Range(t)

LEMMA ConcatGrows ==
  ASSUME NEW s, s \in Seq(Range(s)), NEW t, t \in Seq(Range(t))
  PROVE  Grown(s, t, s \o t)
<1> DEFINE S == Range(s) \cup Range(t)
           u == s \o t
<1>1. s \in Seq(S) /\ t \in Seq(S)
  BY DEF Range
<1> HIDE DEF S
<1>2. /\ u \in Seq(S) /\ Len(u) = Len(s) + Len(t) /\ Len(s) \in Nat /\ Len(t) \in Nat
      /\ DOMAIN s = 1..Len(s) /\ DOMAIN u = 1..Len(u) /\ DOMAIN t = 1..Len(t)
      /\ \A i \in 1..Len(u) : u[i] = IF i <= Len(s) THEN s[i] ELSE t[i - Len(s)]
  BY <1>1, ConcatProperties
<1> HIDE DEF u
<1>3. \A i \in DOMAIN s : i \in DOMAIN u /\ u[i] = s[i]
  BY <1>2
<1>4. \A k \in 1..Len(t) : Len(s) + k \in DOMAIN u /\ u[Len(s) + k] = t[k] /\ t[k] \in Range(t)
  <2> TAKE k \in 1..Len(t)
  <2>1. Len(s) + k \in 1..Len(u) /\ ~(Len(s) + k <= Len(s)) /\ (Len(s) + k) - Len(s) = k
    BY <1>2
  <2>2. t[k] \in Range(t)
    BY <1>2 DEF Range
  <2> QED BY <1>2, <2>1, <2>2
<1>5. \A i \in DOMAIN u : i \notin DOMAIN s => /\ i > Len(s) /\ i - Len(s) \in 1..Len(t)
                                                /\ u[i] = t[i - Len(s)] /\ u[i] \in Range(t)
  <2> SUFFICES ASSUME NEW i \in DOMAIN u, i \notin DOMAIN s
               PROVE  /\ i > Len(s) /\ i - Len(s) \in 1..Len(t)
                      /\ u[i] = t[i - Len(s)] /\ u[i] \in Range(t)
    OBVIOUS
  <2>1. i > Len(s) /\ i - Len(s) \in 1..Len(t) /\ u[i] = t[i - Len(s)]
    BY <1>2
  <2> QED BY <1>2, <2>1 DEF Range
<1>6. Range(u) = Range(s) \cup Range(t)
  <2>1. \A x \in Range(u) : x \in Range(s) \cup Range(t)
    BY <1>3, <1>5 DEF Range
  <2>2. \A x \in Range(s) : x \in Range(u)
    BY <1>3 DEF Range
  <2>3. ASSUME NEW x \in Range(t) PROVE x \in Range(u)
    <3>1. PICK k \in DOMAIN t : x = t[k]
      BY DEF Range
    <3>2. Len(s) + k \in DOMAIN u /\ u[Len(s) + k] = x
      BY <1>2, <1>4, <3>1
    <3> QED BY <3>2 DEF Range
  <2> QED BY <2>1, <2>2, <2>3
<1>7. u \in Seq(Range(u))
  <2>1. \A i \in 1..Len(u) : u[i] \in Range(u)
    BY <1>2 DEF Range
  <2> QED BY <1>2, <2>1
<1>8. Grown(s, t, u)
  BY <1>2, <1>3, <1>4, <1>5, <1>6, <1>7 DEF Grown
<1> QED BY <1>8 DEF u

LEMMA ShortTuples ==
  /\ <<>> \in Seq(Range(<<>>)) /\ Range(<<>>) = {} /\ Len(<<>>) = 0
  /\ \A a : <<a>> \in Seq(Range(<<a>>)) /\ Range(<<a>>) = {a} /\ Len(<<a>>) = 1 /\ <<a>>[1] = a
  /\ \A a, b : /\ <<a, b>> \in Seq(Range(<<a, b>>)) /\ Range(<<a, b>>) = {a, b} /\ Len(<<a, b>>) = 2
               /\ <<a, b>>[1] = a /\ <<a, b>>[2] = b
  /\ \A a, b, c : /\ <<a, b, c>> \in Seq(Range(<<a, b, c>>)) /\ Range(<<a, b, c>>) = {a, b, c}
                  /\ Len(<<a, b, c>>) = 3
                  /\ <<a, b, c>>[1] = a /\ <<a, b, c>>[2] = b /\ <<a, b, c>>[3] = c
<1>1. <<>> \in Seq(Range(<<>>)) /\ Range(<<>>) = {} /\ Len(<<>>) = 0
  BY DEF Range
<1>2. ASSUME NEW a PROVE <<a>> \in Seq(Range(<<a>>)) /\ Range(<<a>>) = {a} /\ Len(<<a>>) = 1 /\ <<a>>[1] = a
  <2>1. Range(<<a>>) = {a}
    BY DEF Range
  <2> QED BY <2>1
<1>3. ASSUME NEW a, NEW b
      PROVE  /\ <<a, b>> \in Seq(Range(<<a, b>>)) /\ Range(<<a, b>>) = {a, b} /\ Len(<<a, b>>) = 2
             /\ <<a, b>>[1] = a /\ <<a, b>>[2] = b
  <2>1. Range(<<a, b>>) = {a, b}
    BY DEF Range
  <2> QED BY <2>1
<1>4. ASSUME NEW a, NEW b, NEW c
      PROVE  /\ <<a, b, c>> \in Seq(Range(<<a, b, c>>)) /\ Range(<<a, b, c>>) = {a, b, c}
             /\ Len(<<a, b, c>>) = 3
             /\ <<a, b, c>>[1] = a /\ <<a, b, c>>[2] = b /\ <<a, b, c>>[3] = c
  <2>1. Range(<<a, b, c>>) = {a, b, c}
    BY DEF Range
  <2> QED BY <2>1
<1> QED BY <1>1, <1>2, <1>3, <1>4

LEMMA StreamGrows ==
  ASSUME EngineTypes, NEW new, new \in Seq(Range(new)), Extend(new)
  PROVE  Grown(semantic, new, semantic')
<1>1. semantic \in Seq(Range(semantic)) /\ semantic' = semantic \o new
  BY DEF EngineTypes, Extend
<1> QED BY <1>1, ConcatGrows

\* What is sound stays sound while the stream and the maps only grow.
LEMMA OldRecordsSound ==
  ASSUME EngineCore, Range(semantic) \subseteq Range(semantic'), Genesis \subseteq Genesis',
         \A f \in EpisodeFrames : ownerOf[f] # NoOwner => ownerOf'[f] = ownerOf[f]
  PROVE  \A r \in Range(semantic) : RecordSound(r)'
<1> TAKE r \in Range(semantic)
<1>1. RecordSound(r)
  BY DEF EngineCore
<1>2. Genesis \subseteq EpisodeFrames /\ NoOwner \notin Genesis
  BY EngineAssumption DEF Genesis
<1>3. r.kind = "MEMBER" => ownerOf'[r.frame] = r.episode
  BY <1>1, <1>2 DEF RecordSound
<1> QED BY <1>1, <1>3 DEF RecordSound

LEMMA OldMembersOwned ==
  ASSUME EngineCore, NEW new, Grown(semantic, new, semantic'),
         \A f \in EpisodeFrames : ownerOf[f] # NoOwner => ownerOf'[f] = ownerOf[f],
         NEW i \in DOMAIN semantic, semantic[i].kind = "MEMBER"
  PROVE  /\ ownerOf'[semantic'[i].frame] = semantic'[i].episode
         /\ \E j \in 1..(i - 1) : semantic'[j] = GenesisRecord(semantic'[i].episode)
<1>1. semantic'[i] = semantic[i] /\ semantic[i] \in Range(semantic)
  BY DEF Grown, Range
<1>2. /\ semantic[i].frame \in EpisodeFrames /\ semantic[i].episode \in Genesis
      /\ ownerOf[semantic[i].frame] = semantic[i].episode
  BY <1>1 DEF EngineCore, RecordSound
<1>3. semantic[i].episode # NoOwner
  BY <1>2, EngineAssumption DEF Genesis
<1>4. PICK j \in 1..(i - 1) : semantic[j] = GenesisRecord(semantic[i].episode)
  BY DEF EngineCore, OneOwner
<1>5. i \in 1..Len(semantic) /\ Len(semantic) \in Nat /\ DOMAIN semantic = 1..Len(semantic)
  BY DEF Grown
<1>6. j \in DOMAIN semantic
  BY <1>5
<1>7. semantic'[j] = semantic[j]
  BY <1>6 DEF Grown
<1> QED BY <1>1, <1>2, <1>3, <1>4, <1>7

LEMMA EventsOfGenesis ==
  ASSUME EngineCore
  PROVE  /\ \A e : EndsAt(e) # {} => e \in Genesis
         /\ \A r \in Range(semantic) : \A e : r.kind = "EVENT" /\ e \in r.episodes => e \in Genesis
<1>1. \A r \in Range(semantic) : \A e : r.kind = "EVENT" /\ e \in r.episodes => e \in Genesis
  BY DEF EngineCore, RecordSound
<1>2. ASSUME NEW e, NEW i \in EndsAt(e) PROVE e \in Genesis
  <2>1. i \in DOMAIN semantic /\ semantic[i].kind = "EVENT" /\ e \in semantic[i].episodes
    BY DEF EndsAt
  <2>2. semantic[i] \in Range(semantic)
    BY <2>1 DEF Range
  <2> QED BY <1>1, <2>1, <2>2
<1> QED BY <1>1, <1>2

Fresh(new) ==
  /\ \A r \in Range(new) : r \notin Range(semantic)
  /\ \A i, j \in 1..Len(new) : new[i] = new[j] => i = j

LEMMA FreshOnce ==
  ASSUME EngineCore, NEW new, Grown(semantic, new, semantic'), Fresh(new)
  PROVE  RecordsOnce'
<1>0. \A i, j \in DOMAIN semantic : semantic[i] = semantic[j] => i = j
  BY DEF EngineCore, RecordsOnce, IsInjective
<1> SUFFICES ASSUME NEW i \in DOMAIN semantic', NEW j \in DOMAIN semantic', semantic'[i] = semantic'[j]
             PROVE  i = j
  BY DEF RecordsOnce, IsInjective
<1> DEFINE n == Len(semantic)
<1>1. n \in Nat /\ DOMAIN semantic = 1..n /\ Len(new) \in Nat /\ DOMAIN semantic' = 1..(n + Len(new))
  BY DEF Grown
<1>2. \A k \in DOMAIN semantic : semantic'[k] = semantic[k] /\ semantic[k] \in Range(semantic)
  BY DEF Grown, Range
<1>3. \A k \in DOMAIN semantic' : k \notin DOMAIN semantic =>
        k - n \in 1..Len(new) /\ semantic'[k] = new[k - n] /\ semantic'[k] \in Range(new)
  BY DEF Grown
<1>4. CASE i \in DOMAIN semantic /\ j \in DOMAIN semantic
  BY <1>0, <1>2, <1>4
<1>5. CASE i \in DOMAIN semantic /\ j \notin DOMAIN semantic
  BY <1>2, <1>3, <1>5 DEF Fresh
<1>6. CASE i \notin DOMAIN semantic /\ j \in DOMAIN semantic
  BY <1>2, <1>3, <1>6 DEF Fresh
<1>7. CASE i \notin DOMAIN semantic /\ j \notin DOMAIN semantic
  <2>1. i - n \in 1..Len(new) /\ j - n \in 1..Len(new) /\ new[i - n] = new[j - n]
    BY <1>3, <1>7
  <2>2. i - n = j - n
    BY <2>1 DEF Fresh
  <2> HIDE DEF n
  <2> QED BY <1>1, <2>2
<1> QED BY <1>4, <1>5, <1>6, <1>7

\* The new records say nothing of an episode that has ended.
Respectful(new) ==
  \A r \in Range(new), e \in Genesis : EndsAt(e) # {} =>
    /\ r.kind \in {"MEMBER", "PHASE"} => r.episode # e
    /\ r.kind = "EVENT" => r.episodes # {e}

Ending(r) == r.kind = "EVENT" /\ r.action \in DOMAIN Endings

LEMMA QuietExtension ==
  ASSUME EngineCore, NEW new, Grown(semantic, new, semantic'), Respectful(new),
         \A r \in Range(new) : ~Ending(r)
  PROVE  EndedForGood' /\ \A e : EndsAt(e)' = EndsAt(e)
<1>1. Len(semantic) \in Nat /\ DOMAIN semantic = 1..Len(semantic) /\ DOMAIN semantic' = 1..Len(semantic')
  BY DEF Grown
<1>2. \A k \in DOMAIN semantic : k \in DOMAIN semantic' /\ semantic'[k] = semantic[k]
  BY DEF Grown
<1>3. \A k \in DOMAIN semantic' : k \notin DOMAIN semantic => semantic'[k] \in Range(new)
  BY DEF Grown
<1>4. ASSUME NEW e PROVE EndsAt(e)' = EndsAt(e)
  <2>1. \A k \in EndsAt(e)' : k \in EndsAt(e)
    BY <1>2, <1>3 DEF EndsAt, Ending
  <2>2. \A k \in EndsAt(e) : k \in EndsAt(e)'
    BY <1>2 DEF EndsAt
  <2> QED BY <2>1, <2>2
<1>5. ASSUME NEW e, NEW i \in EndsAt(e), NEW j \in DOMAIN semantic', i < j
      PROVE  /\ semantic'[j].kind \in {"MEMBER", "PHASE"} => semantic'[j].episode # e
             /\ semantic'[j].kind = "EVENT" => semantic'[j].episodes # {e}
  <2>1. e \in Genesis
    BY EventsOfGenesis
  <2>2. CASE j \in DOMAIN semantic
    <3>1. semantic'[j] = semantic[j]
      BY <1>2, <2>2
    <3> QED BY <1>5, <2>1, <2>2, <3>1 DEF EngineCore, EndedForGood
  <2>3. CASE j \notin DOMAIN semantic
    BY <1>3, <2>1, <2>3 DEF Respectful
  <2> QED BY <2>2, <2>3
<1>6. EndedForGood'
  BY <1>4, <1>5 DEF EndedForGood
<1> QED BY <1>4, <1>6

(***************************************************************************)
(* EpisodeEngine: the topology                                             *)
(***************************************************************************)

Reach(E, Nodes, x) == (CHOOSE r : Spreads(r, E, {x}))[Cardinality(Nodes)]

LEMMA ReachLeast ==
  ASSUME NEW Nodes, IsFiniteSet(Nodes), NEW E, E \subseteq Nodes \X Nodes, NEW x \in Nodes
  PROVE  /\ x \in Reach(E, Nodes, x)
         /\ \A e \in E : e[1] \in Reach(E, Nodes, x) => e[2] \in Reach(E, Nodes, x)
         /\ \A C : x \in C /\ (\A e \in E : e[1] \in C => e[2] \in C) => Reach(E, Nodes, x) \subseteq C
<1> DEFINE r == CHOOSE w : Spreads(w, E, {x})
<1>1. {x} \subseteq Nodes
  OBVIOUS
<1>2. \E w : Spreads(w, E, {x})
  BY <1>1, SpreadExists
<1>3. Spreads(r, E, {x})
  BY <1>2
<1>4. Reach(E, Nodes, x) = r[Cardinality(Nodes)]
  BY DEF Reach
<1> HIDE DEF r
<1> DEFINE R == r[Cardinality(Nodes)]
<1>5. /\ {x} \subseteq R
      /\ \A e \in E : e[1] \in R => e[2] \in R
      /\ \A C : {x} \subseteq C /\ (\A e \in E : e[1] \in C => e[2] \in C) => R \subseteq C
  BY <1>1, <1>3, SpreadCloses
<1> QED BY <1>4, <1>5

EdgePairs == {<<r.parent, r.child>> : r \in Range(edges)}

LEMMA DescendantsReach == \A x : Descendants(x) = Reach(EdgePairs, Genesis, x)
<1> TAKE x
<1>1. \A X : X \cup UNION {Children(e) : e \in X} = Spread(EdgePairs, X)
  <2> TAKE X
  <2>1. \A y : (\E e \in X : y \in Children(e)) <=> \E r \in Range(edges) : r.parent \in X /\ y = r.child
    BY DEF Children
  <2> DEFINE Far == {e[2] : e \in {d \in EdgePairs : d[1] \in X}}
  <2>2. ASSUME NEW r \in Range(edges), r.parent \in X PROVE r.child \in Far
    <3>1. <<r.parent, r.child>> \in EdgePairs
      BY DEF EdgePairs
    <3> QED BY <2>2, <3>1
  <2>3. ASSUME NEW y \in Far PROVE \E r \in Range(edges) : r.parent \in X /\ y = r.child
    <3>1. PICK d \in EdgePairs : d[1] \in X /\ y = d[2]
      OBVIOUS
    <3>2. PICK r \in Range(edges) : d = <<r.parent, r.child>>
      BY DEF EdgePairs
    <3> QED BY <3>1, <3>2
  <2>4. Spread(EdgePairs, X) = X \cup Far
    BY DEF Spread
  <2> HIDE DEF Far
  <2> QED BY <2>1, <2>2, <2>3, <2>4
<1>2. \A w : (w = [n \in Nat |-> IF n = 0 THEN {x}
                     ELSE LET closer == w[n - 1] IN closer \cup UNION {Children(e) : e \in closer}])
              <=> Spreads(w, EdgePairs, {x})
  BY <1>1 DEF Spreads
<1> QED BY <1>2 DEF Descendants, Reach

LEMMA DescendantsReachNext == \A x : Descendants(x)' = Reach(EdgePairs', Genesis', x)
<1>1. (\A x : Descendants(x) = Reach(EdgePairs, Genesis, x))'
  BY DescendantsReach, PTL
<1> QED BY <1>1

Acyc(E, Nodes) == \A d \in E : d[1] \notin Reach(E, Nodes, d[2])

LEMMA AcycGrows ==
  ASSUME NEW Nodes, NEW More, Nodes \subseteq More, IsFiniteSet(More),
         NEW E, E \subseteq Nodes \X Nodes, Acyc(E, Nodes)
  PROVE  Acyc(E, More)
<1> SUFFICES ASSUME NEW d \in E PROVE d[1] \notin Reach(E, More, d[2])
  BY DEF Acyc
<1>1. IsFiniteSet(Nodes)
  BY FS_Subset
<1>2. d[2] \in Nodes /\ d[2] \in More /\ E \subseteq More \X More
  OBVIOUS
<1> DEFINE R == Reach(E, Nodes, d[2])
<1>3. d[2] \in R /\ \A e \in E : e[1] \in R => e[2] \in R
  BY <1>1, <1>2, ReachLeast
<1>4. \A C : d[2] \in C /\ (\A e \in E : e[1] \in C => e[2] \in C) => Reach(E, More, d[2]) \subseteq C
  <2>1. ASSUME NEW x \in More, NEW C, x \in C, \A e \in E : e[1] \in C => e[2] \in C
        PROVE  Reach(E, More, x) \subseteq C
    BY <1>2, <2>1, ReachLeast
  <2> QED BY <1>2, <2>1
<1>5. d[1] \notin R
  BY DEF Acyc
<1> HIDE DEF R
<1> QED BY <1>3, <1>4, <1>5

\* An edge to a node that does not reach its start closes no cycle.
LEMMA AcycLink ==
  ASSUME NEW Nodes, IsFiniteSet(Nodes), NEW E, E \subseteq Nodes \X Nodes, Acyc(E, Nodes),
         NEW p \in Nodes, NEW q \in Nodes, p \notin Reach(E, Nodes, q)
  PROVE  Acyc(E \cup {<<p, q>>}, Nodes)
<1> DEFINE F == E \cup {<<p, q>>}
           R(x) == Reach(E, Nodes, x)
           Closed(D, C) == \A e \in D : e[1] \in C => e[2] \in C
<1>1. F \subseteq Nodes \X Nodes
  OBVIOUS
<1>2. ASSUME NEW x \in Nodes, NEW C, x \in C, Closed(F, C) PROVE Reach(F, Nodes, x) \subseteq C
  BY <1>1, <1>2, ReachLeast
<1>3. ASSUME NEW x \in Nodes
      PROVE  x \in R(x) /\ Closed(E, R(x)) /\ \A C : x \in C /\ Closed(E, C) => R(x) \subseteq C
  BY ReachLeast
<1>4. ASSUME NEW d \in E PROVE d[1] \notin R(d[2])
  BY DEF Acyc
<1> HIDE DEF R
<1>5. p \notin R(q)
  BY DEF R
<1>6. Closed(F, R(q))
  BY <1>3, <1>5
<1>7. ASSUME NEW d \in F PROVE d[1] \notin Reach(F, Nodes, d[2])
  <2>1. CASE d = <<p, q>>
    <3>1. Reach(F, Nodes, q) \subseteq R(q)
      <4>1. q \in R(q)
        BY <1>3
      <4> HIDE DEF F
      <4> QED BY <1>2, <1>6, <4>1
    <3> QED BY <1>5, <2>1, <3>1
  <2>2. CASE d \in E
    <3>1. d[1] \in Nodes /\ d[2] \in Nodes
      BY <2>2
    <3>2. CASE p \notin R(d[2])
      <4>1. Closed(F, R(d[2])) /\ d[2] \in R(d[2])
        BY <1>3, <3>1, <3>2
      <4>2. Reach(F, Nodes, d[2]) \subseteq R(d[2])
        <5> HIDE DEF F
        <5> QED BY <1>2, <3>1, <4>1
      <4> QED BY <1>4, <2>2, <4>2
    <3>3. CASE p \in R(d[2])
      <4> DEFINE C == R(d[2]) \cup R(q)
      <4>1. Closed(E, R(d[2])) /\ d[2] \in R(d[2]) /\ q \in R(q)
        BY <1>3, <3>1
      <4>2. Closed(F, C) /\ d[2] \in C
        BY <1>6, <4>1
      <4>3. Reach(F, Nodes, d[2]) \subseteq C
        <5> HIDE DEF F, C
        <5> QED BY <1>2, <3>1, <4>2
      <4>4. d[1] \notin R(q)
        <5> SUFFICES ASSUME d[1] \in R(q) PROVE FALSE
          OBVIOUS
        <5>1. d[2] \in R(q) /\ Closed(E, R(q))
          BY <1>3, <2>2
        <5>2. R(d[2]) \subseteq R(q)
          BY <1>3, <3>1, <5>1
        <5> QED BY <1>5, <3>3, <5>2
      <4> QED BY <1>4, <2>2, <4>3, <4>4
    <3> QED BY <3>2, <3>3
  <2> QED BY <2>1, <2>2
<1> QED BY <1>7 DEF Acyc

Acyclic == \A e \in Genesis : \A child \in Children(e) : e \notin Descendants(child)

EdgesOfGenesis == \A r \in Range(edges) : r.parent \in Genesis /\ r.child \in Genesis

LEMMA AcyclicIsAcyc == EdgesOfGenesis => (Acyclic <=> Acyc(EdgePairs, Genesis))
<1> SUFFICES ASSUME EdgesOfGenesis PROVE Acyclic <=> Acyc(EdgePairs, Genesis)
  OBVIOUS
<1>1. Acyclic <=> \A r \in Range(edges) : r.parent \notin Descendants(r.child)
  BY DEF Acyclic, Children, EdgesOfGenesis
<1>2. \A r \in Range(edges) : <<r.parent, r.child>> \in EdgePairs
  BY DEF EdgePairs
<1>3. \A d \in EdgePairs : \E r \in Range(edges) : d = <<r.parent, r.child>>
  BY DEF EdgePairs
<1>4. Acyc(EdgePairs, Genesis) <=> \A r \in Range(edges) : r.parent \notin Reach(EdgePairs, Genesis, r.child)
  <2>1. ASSUME Acyc(EdgePairs, Genesis), NEW r \in Range(edges)
        PROVE  r.parent \notin Reach(EdgePairs, Genesis, r.child)
    BY <1>2, <2>1 DEF Acyc
  <2>2. ASSUME \A r \in Range(edges) : r.parent \notin Reach(EdgePairs, Genesis, r.child), NEW d \in EdgePairs
        PROVE  d[1] \notin Reach(EdgePairs, Genesis, d[2])
    <3>1. PICK r \in Range(edges) : d = <<r.parent, r.child>>
      BY <1>3
    <3> QED BY <2>2, <3>1
  <2> QED BY <2>1, <2>2 DEF Acyc
<1> QED BY <1>1, <1>4, DescendantsReach

LEMMA AcyclicIsAcycNext == EdgesOfGenesis' => (Acyclic' <=> Acyc(EdgePairs', Genesis'))
<1>1. (EdgesOfGenesis => (Acyclic <=> Acyc(EdgePairs, Genesis)))'
  BY AcyclicIsAcyc, PTL
<1> QED BY <1>1

LEMMA EdgeFacts ==
  ASSUME EngineCore
  PROVE  /\ EdgesOfGenesis /\ EdgePairs \subseteq Genesis \X Genesis /\ IsFiniteSet(Genesis)
         /\ Acyc(EdgePairs, Genesis)
<1>1. \A r \in Range(edges) : r \in Range(semantic) /\ r.kind = "EDGE"
  BY DEF EngineCore, TopologySound, Records
<1>2. EdgesOfGenesis
  BY <1>1 DEF EngineCore, RecordSound, EdgesOfGenesis
<1>3. EdgePairs \subseteq Genesis \X Genesis
  BY <1>2 DEF EdgePairs, EdgesOfGenesis
<1>4. IsFiniteSet(Genesis)
  <2>1. Genesis \subseteq EpisodeFrames
    BY DEF Genesis
  <2> QED BY <2>1, EngineAssumption, FS_Subset
<1>5. Acyclic
  BY DEF EngineCore, TopologySound, Acyclic
<1> QED BY <1>2, <1>3, <1>4, <1>5, AcyclicIsAcyc

LEMMA TopologyKept ==
  ASSUME EngineCore, EngineTypes', Genesis \subseteq Genesis', UNCHANGED edges, Records("EDGE")' = Records("EDGE")
  PROVE  TopologySound'
<1>1. Range(edges)' = Records("EDGE")'
  BY DEF EngineCore, TopologySound
<1>2. EdgesOfGenesis'
  BY EdgeFacts DEF EdgesOfGenesis
<1>3. EdgePairs' = EdgePairs
  BY DEF EdgePairs
<1>4. IsFiniteSet(Genesis')
  <2>1. Genesis' \subseteq EpisodeFrames
    BY DEF Genesis
  <2> QED BY <2>1, EngineAssumption, FS_Subset
<1>5. Acyc(EdgePairs, Genesis')
  BY <1>4, EdgeFacts, AcycGrows
<1>6. Acyclic'
  BY <1>2, <1>3, <1>5, AcyclicIsAcycNext
<1> QED BY <1>1, <1>6 DEF TopologySound, Acyclic

(***************************************************************************)
(* EpisodeEngine: its calls                                                *)
(***************************************************************************)

\* A call that ends no episode and links none.
LEMMA QuietCall ==
  ASSUME EngineCore, NEW new, new \in Seq(Range(new)), Extend(new), UNCHANGED edges, Fresh(new), Respectful(new),
         statusOf' \in [EpisodeFrames -> Range(Endings) \cup {"UNBORN", "OPEN"}],
         ownerOf' \in [EpisodeFrames -> EpisodeFrames \cup {NoOwner}],
         \A e \in Genesis : statusOf'[e] = statusOf[e],
         \A e \in Genesis' : e \in Genesis \/ statusOf'[e] = "OPEN",
         \A f \in EpisodeFrames : ownerOf[f] # NoOwner => ownerOf'[f] = ownerOf[f],
         \A r \in Range(new) : ~Ending(r) /\ r.kind # "EDGE" /\ RecordSound(r)',
         \A r \in Range(new) : r.kind = "EVENT" => \E e : r.episodes = {e},
         \A k \in 1..Len(new) : new[k].kind = "MEMBER" =>
           \/ GenesisRecord(new[k].episode) \in Range(semantic)
           \/ \E m \in 1..(k - 1) : new[m] = GenesisRecord(new[k].episode),
         MapsRecorded'
  PROVE  EngineCore'
<1>1. Grown(semantic, new, semantic')
  BY StreamGrows DEF EngineCore
<1>2. Range(semantic') = Range(semantic) \cup Range(new)
  BY <1>1 DEF Grown
<1>3. Genesis \subseteq Genesis'
  BY DEF Genesis
<1>4. EngineTypes'
  BY <1>1 DEF EngineTypes, EngineCore, Grown
<1>5. \A r \in Range(semantic)' : RecordSound(r)'
  <2>1. \A r \in Range(semantic) : RecordSound(r)'
    BY <1>2, <1>3, OldRecordsSound
  <2> QED BY <1>2, <2>1
<1>6. EndedForGood' /\ \A e : EndsAt(e)' = EndsAt(e)
  BY <1>1, QuietExtension
<1>7. StatusRecorded'
  <2> SUFFICES ASSUME NEW e \in Genesis'
               PROVE  \/ Open(e)' /\ EndsAt(e)' = {}
                      \/ /\ ~Open(e)'
                         /\ \E i \in EndsAt(e)' : EndsAt(e)' = {i} /\ statusOf'[e] = Endings[semantic'[i].action]
    BY DEF StatusRecorded
  <2>1. CASE e \notin Genesis
    BY <1>6, <2>1, EventsOfGenesis DEF Open
  <2>2. CASE e \in Genesis /\ Open(e)
    BY <1>6, <2>2 DEF EngineCore, StatusRecorded, Open
  <2>3. CASE e \in Genesis /\ ~Open(e)
    <3>1. PICK i \in EndsAt(e) : EndsAt(e) = {i} /\ statusOf[e] = Endings[semantic[i].action]
      BY <2>3 DEF EngineCore, StatusRecorded
    <3>2. semantic'[i] = semantic[i]
      BY <1>1, <3>1 DEF Grown, EndsAt
    <3> QED BY <1>6, <2>3, <3>1, <3>2 DEF Open
  <2> QED BY <2>1, <2>2, <2>3
<1>8. EventHasEdge'
  <2> SUFFICES ASSUME NEW r \in Records("EVENT")', NEW p \in Genesis', NEW q \in Genesis',
                      r.action \in EdgeTypes, r.episodes = {p, q}, p # q
               PROVE  \/ LineageEdge(r.action, p, q, r) \in Range(semantic)'
                      \/ LineageEdge(r.action, q, p, r) \in Range(semantic)'
    BY DEF EventHasEdge
  <2>1. r \notin Range(new)
    BY DEF Records
  <2>2. r \in Records("EVENT")
    BY <1>2, <2>1 DEF Records
  <2>3. p \in Genesis /\ q \in Genesis
    BY <2>2, EventsOfGenesis DEF Records
  <2> QED BY <1>2, <2>2, <2>3 DEF EngineCore, EventHasEdge
<1>9. RecordsOnce'
  BY <1>1, FreshOnce
<1>10. OneOwner'
  <2> SUFFICES ASSUME NEW i \in DOMAIN semantic', semantic'[i].kind = "MEMBER"
               PROVE  /\ ownerOf'[semantic'[i].frame] = semantic'[i].episode
                      /\ \E j \in 1..(i - 1) : semantic'[j] = GenesisRecord(semantic'[i].episode)
    BY DEF OneOwner
  <2>1. CASE i \in DOMAIN semantic
    <3>1. semantic[i].kind = "MEMBER"
      BY <1>1, <2>1 DEF Grown
    <3> QED BY <1>1, <2>1, <3>1, OldMembersOwned
  <2>2. CASE i \notin DOMAIN semantic
    <3> DEFINE n == Len(semantic)
               k == i - n
    <3>1. n \in Nat /\ i \in Nat /\ i > n /\ k \in 1..Len(new) /\ semantic'[i] = new[k] /\ new[k] \in Range(new)
      BY <1>1, <2>2 DEF Grown
    <3>2. ownerOf'[semantic'[i].frame] = semantic'[i].episode
      BY <3>1 DEF RecordSound
    <3>3. CASE GenesisRecord(new[k].episode) \in Range(semantic)
      <4>1. PICK j \in DOMAIN semantic : semantic[j] = GenesisRecord(new[k].episode)
        BY <3>3 DEF Range
      <4>2. semantic'[j] = semantic[j] /\ j \in 1..n
        BY <1>1 DEF Grown
      <4>3. j \in 1..(i - 1)
        BY <3>1, <4>2
      <4> QED BY <3>1, <3>2, <4>1, <4>2, <4>3
    <3>4. CASE \E m \in 1..(k - 1) : new[m] = GenesisRecord(new[k].episode)
      <4>1. PICK m \in 1..(k - 1) : new[m] = GenesisRecord(new[k].episode)
        BY <3>4
      <4>2. m \in 1..Len(new)
        BY <1>1, <3>1 DEF Grown
      <4>3. semantic'[n + m] = new[m]
        BY <1>1, <4>2 DEF Grown
      <4>4. n + m \in 1..(i - 1)
        BY <3>1
      <4> QED BY <3>1, <3>2, <4>1, <4>3, <4>4
    <3> QED BY <3>1, <3>3, <3>4
  <2> QED BY <2>1, <2>2
<1>11. TopologySound'
  <2>1. Records("EDGE")' = Records("EDGE")
    BY <1>2 DEF Records
  <2> QED BY <1>3, <1>4, <2>1, TopologyKept
<1> QED BY <1>4, <1>5, <1>6, <1>7, <1>8, <1>9, <1>10, <1>11 DEF EngineCore

LEMMA NewWithEvent ==
  ASSUME EngineCore, NEW event, event \notin Range(semantic)
  PROVE  /\ \A e, f : MembershipDelta(e, f, event) \notin Range(semantic)
         /\ \A t, p, q : LineageEdge(t, p, q, event) \notin Range(semantic)
BY RecordFields DEF EngineCore, RecordSound

LEMMA OpenHasNotEnded ==
  ASSUME EngineCore, NEW e \in EpisodeFrames, Open(e)
  PROVE  e \in Genesis /\ EndsAt(e) = {}
BY DEF EngineCore, StatusRecorded, Open, Genesis

LEMMA BirthCore ==
  ASSUME EngineCore, NEW f \in EpisodeFrames, NEW c, Birth(f, c)
  PROVE  EngineCore' /\ f \notin Genesis /\ Genesis' = Genesis \cup {f}
<1> DEFINE g == GenesisRecord(f)
           event == BoundaryEvent("BIRTH", {f}, c)
           m == MembershipDelta(f, f, event)
           new == <<g, event, m>>
<1>1. /\ ownerOf[f] = NoOwner /\ Extend(new) /\ UNCHANGED edges
      /\ statusOf' = [statusOf EXCEPT ![f] = "OPEN"] /\ ownerOf' = [ownerOf EXCEPT ![f] = f]
  BY DEF Birth
<1>2. statusOf \in [EpisodeFrames -> Range(Endings) \cup {"UNBORN", "OPEN"}] /\ ownerOf \in [EpisodeFrames -> EpisodeFrames \cup {NoOwner}]
  BY DEF EngineCore, EngineTypes
<1>3. f \notin Genesis
  BY <1>1, EngineAssumption DEF EngineCore, MapsRecorded
<1>4. /\ statusOf' \in [EpisodeFrames -> Range(Endings) \cup {"UNBORN", "OPEN"}]
      /\ ownerOf' \in [EpisodeFrames -> EpisodeFrames \cup {NoOwner}]
      /\ \A e \in EpisodeFrames : statusOf'[e] = IF e = f THEN "OPEN" ELSE statusOf[e]
      /\ \A h \in EpisodeFrames : ownerOf'[h] = IF h = f THEN f ELSE ownerOf[h]
  BY <1>1, <1>2
<1>5. Genesis' = Genesis \cup {f}
  BY <1>4 DEF Genesis
<1>6. /\ new \in Seq(Range(new)) /\ Range(new) = {g, event, m} /\ Len(new) = 3
      /\ new[1] = g /\ new[2] = event /\ new[3] = m
  BY ShortTuples
<1>7. /\ g.kind = "GENESIS" /\ g.episode = f
      /\ event.kind = "EVENT" /\ event.action = "BIRTH" /\ event.episodes = {f}
      /\ m.kind = "MEMBER" /\ m.episode = f /\ m.frame = f /\ m.by = event
      /\ Shaped(g) /\ Shaped(event) /\ Shaped(m)
  BY RecordFields, RecordShapes
<1>8. g \notin Range(semantic) /\ event \notin Range(semantic)
  BY <1>3, <1>7 DEF EngineCore, RecordSound
<1>9. m \notin Range(semantic)
  BY <1>8, NewWithEvent
<1> HIDE DEF g, event, m, new
<1>10. Fresh(new)
  <2>1. g # event /\ g # m /\ event # m
    BY <1>7
  <2>2. \A i, j \in 1..3 : new[i] = new[j] => i = j
    BY <1>6, <2>1
  <2> QED BY <1>6, <1>8, <1>9, <2>2 DEF Fresh
<1>11. Respectful(new)
  BY <1>3, <1>6, <1>7 DEF Respectful
<1>12. Range(semantic)' = Range(semantic) \cup {g, event, m}
  <2>1. Grown(semantic, new, semantic')
    BY <1>1, <1>6, StreamGrows DEF EngineCore
  <2> QED BY <1>6, <2>1 DEF Grown
<1>13. \A r \in Range(new) : ~Ending(r) /\ r.kind # "EDGE" /\ RecordSound(r)'
  <2>1. RecordSound(g)'
    BY <1>5, <1>7 DEF RecordSound
  <2>2. RecordSound(event)'
    BY <1>5, <1>7 DEF RecordSound
  <2>3. RecordSound(m)'
    BY <1>4, <1>5, <1>7, <1>12 DEF RecordSound
  <2>4. ~Ending(g) /\ ~Ending(event) /\ ~Ending(m)
    BY <1>7, EndingFacts DEF Ending
  <2> QED BY <1>6, <1>7, <2>1, <2>2, <2>3, <2>4
<1>14. \A k \in 1..Len(new) : new[k].kind = "MEMBER" => \E j \in 1..(k - 1) : new[j] = GenesisRecord(new[k].episode)
  <2>1. new[1] = GenesisRecord(f)
    BY <1>6 DEF g
  <2>2. ASSUME NEW k \in 1..3, new[k].kind = "MEMBER" PROVE k = 3
    BY <1>6, <1>7, <2>2
  <2> QED BY <1>6, <1>7, <2>1, <2>2
<1>15. MapsRecorded'
  <2>1. \A e \in Genesis' : GenesisRecord(e) \in Range(semantic)' /\ ownerOf'[e] = e
    BY <1>4, <1>5, <1>12 DEF EngineCore, MapsRecorded, g, Genesis
  <2>2. \A h \in EpisodeFrames : ownerOf'[h] # NoOwner => \E r \in Records("MEMBER")' : r.frame = h
    <3>1. Records("MEMBER")' = Records("MEMBER") \cup {m}
      BY <1>7, <1>12 DEF Records
    <3> QED BY <1>4, <1>7, <3>1 DEF EngineCore, MapsRecorded
  <2> QED BY <2>1, <2>2 DEF MapsRecorded
<1>16. \A e \in Genesis : statusOf'[e] = statusOf[e]
  BY <1>3, <1>4 DEF Genesis
<1>17. \A e \in Genesis' : e \in Genesis \/ statusOf'[e] = "OPEN"
  BY <1>4, <1>5
<1>18. \A h \in EpisodeFrames : ownerOf[h] # NoOwner => ownerOf'[h] = ownerOf[h]
  BY <1>1, <1>4
<1>19. \A r \in Range(new) : r.kind = "EVENT" => \E e : r.episodes = {e}
  BY <1>6, <1>7
<1>20. EngineCore'
  BY <1>1, <1>4, <1>6, <1>10, <1>11, <1>13, <1>14, <1>15, <1>16, <1>17, <1>18, <1>19, QuietCall
<1> QED BY <1>3, <1>5, <1>20

\* An event of an open episode, alone or with a member or a phase of it.
OpenStep(e, a, c, x, new) ==
  LET event == BoundaryEvent(a, {e}, c) IN
  /\ Open(e) /\ UNCHANGED <<statusOf, edges>>
  /\ a \in {"CONTINUATION", "PHASE_MUTATION", "RE_PARENT"}
  /\ event \notin Range(semantic)
  /\ \/ new = <<event>>
     \/ /\ new = <<event, x>> /\ x \notin Range(semantic)
        /\ x.kind \in {"MEMBER", "PHASE"} /\ x.episode = e /\ RecordSound(x)'
  /\ Extend(new)
  /\ ownerOf' \in [EpisodeFrames -> EpisodeFrames \cup {NoOwner}]
  /\ \A f \in EpisodeFrames : ownerOf[f] # NoOwner => ownerOf'[f] = ownerOf[f]
  /\ \A f \in EpisodeFrames : \/ ownerOf'[f] = ownerOf[f]
                              \/ new = <<event, x>> /\ x.kind = "MEMBER" /\ f = x.frame

LEMMA OpenCall ==
  ASSUME EngineCore, NEW e \in EpisodeFrames, NEW a, NEW c, NEW x, NEW new, OpenStep(e, a, c, x, new)
  PROVE  EngineCore'
<1> DEFINE event == BoundaryEvent(a, {e}, c)
<1>0. /\ Open(e) /\ statusOf' = statusOf /\ edges' = edges
      /\ a \in {"CONTINUATION", "PHASE_MUTATION", "RE_PARENT"}
      /\ event \notin Range(semantic)
      /\ new = <<event, x>> => /\ x \notin Range(semantic)
                               /\ x.kind \in {"MEMBER", "PHASE"} /\ x.episode = e /\ RecordSound(x)'
      /\ Extend(new)
      /\ ownerOf' \in [EpisodeFrames -> EpisodeFrames \cup {NoOwner}]
      /\ \A f \in EpisodeFrames : ownerOf[f] # NoOwner => ownerOf'[f] = ownerOf[f]
      /\ \A f \in EpisodeFrames : \/ ownerOf'[f] = ownerOf[f]
                                  \/ new = <<event, x>> /\ x.kind = "MEMBER" /\ f = x.frame
      /\ new = <<event>> \/ new = <<event, x>>
  <2>1. <<event>> # <<event, x>>
    OBVIOUS
  <2> HIDE DEF event
  <2> QED BY <2>1 DEF OpenStep, event
<1>1. e \in Genesis /\ EndsAt(e) = {}
  BY <1>0, OpenHasNotEnded
<1>2. Genesis' = Genesis
  BY <1>0 DEF Genesis
<1>3. event.kind = "EVENT" /\ event.action = a /\ event.episodes = {e} /\ Shaped(event)
  BY RecordFields, RecordShapes
<1>4. event \notin Range(semantic) /\ (new = <<event, x>> => x \notin Range(semantic) /\ event # x)
  BY <1>0, <1>3
<1> HIDE DEF event
<1>5. /\ new = <<event>> \/ new = <<event, x>>
      /\ new = <<event>> => Range(new) = {event} /\ Len(new) = 1 /\ new[1] = event
      /\ new = <<event, x>> => Range(new) = {event, x} /\ Len(new) = 2 /\ new[1] = event /\ new[2] = x
      /\ new \in Seq(Range(new))
  <2>1. CASE new = <<event>>
    <3>1. <<event>> # <<event, x>>
      OBVIOUS
    <3> QED BY <2>1, <3>1, ShortTuples
  <2>2. CASE new = <<event, x>>
    <3>1. <<event>> # <<event, x>>
      OBVIOUS
    <3> QED BY <2>2, <3>1, ShortTuples
  <2> QED BY <1>0, <2>1, <2>2
<1>6. Fresh(new)
  <2>1. \A i, j \in 1..1 : i = j
    OBVIOUS
  <2>2. CASE new = <<event>>
    BY <1>4, <1>5, <2>1, <2>2 DEF Fresh
  <2>3. CASE new = <<event, x>>
    <3>1. \A i, j \in 1..2 : new[i] = new[j] => i = j
      BY <1>4, <1>5, <2>3
    <3> QED BY <1>4, <1>5, <2>3, <3>1 DEF Fresh
  <2> QED BY <1>5, <2>2, <2>3
<1>7. Respectful(new)
  BY <1>0, <1>1, <1>3, <1>5 DEF Respectful
<1>8. Range(semantic)' = Range(semantic) \cup Range(new)
  <2>1. Grown(semantic, new, semantic')
    BY <1>0, <1>5, StreamGrows DEF EngineCore
  <2> QED BY <2>1 DEF Grown
<1>9. RecordSound(event)'
  BY <1>0, <1>1, <1>2, <1>3 DEF RecordSound, EdgeTypes
<1>10. \A r \in Range(new) : ~Ending(r) /\ r.kind # "EDGE" /\ RecordSound(r)'
  <2>1. ~Ending(event) /\ (new = <<event, x>> => ~Ending(x))
    BY <1>0, <1>3, EndingFacts DEF Ending, EdgeTypes
  <2> QED BY <1>0, <1>3, <1>5, <1>9, <2>1
<1>11. \A r \in Range(new) : r.kind = "EVENT" => \E d : r.episodes = {d}
  BY <1>0, <1>3, <1>5
<1>12. \A k \in 1..Len(new) : new[k].kind = "MEMBER" => GenesisRecord(new[k].episode) \in Range(semantic)
  <2>1. GenesisRecord(e) \in Range(semantic)
    BY <1>1 DEF EngineCore, MapsRecorded
  <2>2. \A k \in 1..Len(new) : new[k].kind = "MEMBER" => new = <<event, x>> /\ new[k] = x
    BY <1>3, <1>5
  <2> QED BY <1>0, <2>1, <2>2
<1>13. MapsRecorded'
  <2>1. \A d \in Genesis' : GenesisRecord(d) \in Range(semantic)' /\ ownerOf'[d] = d
    BY <1>0, <1>2, <1>8, EngineAssumption DEF EngineCore, MapsRecorded, Genesis
  <2>2. ASSUME NEW f \in EpisodeFrames, ownerOf'[f] # NoOwner PROVE \E r \in Records("MEMBER")' : r.frame = f
    <3>1. CASE ownerOf'[f] = ownerOf[f]
      <4>1. \A r \in Records("MEMBER") : r \in Records("MEMBER")'
        BY <1>8 DEF Records
      <4> QED BY <2>2, <3>1, <4>1 DEF EngineCore, MapsRecorded
    <3>2. CASE ownerOf'[f] # ownerOf[f]
      <4>1. new = <<event, x>> /\ x.kind = "MEMBER" /\ f = x.frame
        BY <1>0, <3>2
      <4>2. x \in Records("MEMBER")'
        BY <1>5, <1>8, <4>1 DEF Records
      <4> QED BY <4>1, <4>2
    <3> QED BY <3>1, <3>2
  <2> QED BY <2>1, <2>2 DEF MapsRecorded
<1>14. statusOf' \in [EpisodeFrames -> Range(Endings) \cup {"UNBORN", "OPEN"}]
  BY <1>0 DEF EngineCore, EngineTypes
<1>15. \A d \in Genesis : statusOf'[d] = statusOf[d]
  BY <1>0
<1>16. \A d \in Genesis' : d \in Genesis \/ statusOf'[d] = "OPEN"
  BY <1>2
<1> QED BY <1>0, <1>5, <1>6, <1>7, <1>10, <1>11, <1>12, <1>13, <1>14, <1>15, <1>16, QuietCall

LEMMA ContinueCore ==
  ASSUME EngineCore, NEW e \in EpisodeFrames, NEW f \in EpisodeFrames, NEW c, ContinueEpisode(e, f, c)
  PROVE  EngineCore' /\ Genesis' = Genesis
<1> DEFINE event == BoundaryEvent("CONTINUATION", {e}, c)
           m == MembershipDelta(e, f, event)
           new == <<event, m>>
<1>1. /\ Open(e) /\ ownerOf[f] \in {NoOwner, e} /\ Unheld(event) /\ Extend(new)
      /\ ownerOf' = [ownerOf EXCEPT ![f] = e] /\ UNCHANGED <<statusOf, edges>>
  BY DEF ContinueEpisode
<1>2. ownerOf \in [EpisodeFrames -> EpisodeFrames \cup {NoOwner}]
  BY DEF EngineCore, EngineTypes
<1>3. /\ ownerOf' \in [EpisodeFrames -> EpisodeFrames \cup {NoOwner}]
      /\ \A h \in EpisodeFrames : ownerOf'[h] = IF h = f THEN e ELSE ownerOf[h]
  BY <1>1, <1>2
<1>4. m.kind = "MEMBER" /\ m.episode = e /\ m.frame = f /\ m.by = event /\ Shaped(m)
  BY RecordFields, RecordShapes
<1>5. Unheld(m)
  BY <1>1, NewWithEvent DEF Unheld
<1>6. e \in Genesis /\ Genesis' = Genesis
  BY <1>1, OpenHasNotEnded DEF Genesis
<1>7. event \in Range(semantic)'
  <2>1. new \in Seq(Range(new)) /\ Range(new) = {event, m}
    BY ShortTuples
  <2>2. Grown(semantic, new, semantic')
    BY <1>1, <2>1, StreamGrows DEF EngineCore
  <2> QED BY <2>1, <2>2 DEF Grown
<1>8. RecordSound(m)'
  <2> HIDE DEF m, event
  <2> QED BY <1>3, <1>4, <1>6, <1>7 DEF RecordSound
<1>9. OpenStep(e, "CONTINUATION", c, m, new)
  <2>1. \A h \in EpisodeFrames : ownerOf[h] # NoOwner => ownerOf'[h] = ownerOf[h]
    BY <1>1, <1>3
  <2>2. \A h \in EpisodeFrames : \/ ownerOf'[h] = ownerOf[h]
                                 \/ m.kind = "MEMBER" /\ h = m.frame
    BY <1>3, <1>4
  <2>3. event \notin Range(semantic) /\ m \notin Range(semantic) /\ m.kind \in {"MEMBER", "PHASE"}
    BY <1>1, <1>4, <1>5 DEF Unheld
  <2> HIDE DEF m
  <2> QED BY <1>1, <1>3, <1>4, <1>8, <2>1, <2>2, <2>3 DEF OpenStep
<1>10. EngineCore'
  BY <1>9, OpenCall
<1> QED BY <1>6, <1>10

LEMMA PhaseCore ==
  ASSUME EngineCore, NEW e \in EpisodeFrames, NEW c, NEW interval, PhaseMutation(e, c, interval)
  PROVE  EngineCore' /\ Genesis' = Genesis
<1> DEFINE event == BoundaryEvent("PHASE_MUTATION", {e}, c)
           x == PhaseSegment(e, interval)
           new == IF PhaseLawful(e, interval) THEN <<event, x>> ELSE <<event>>
<1>1. Open(e) /\ event \notin Range(semantic) /\ Extend(new) /\ UNCHANGED <<statusOf, ownerOf, edges>>
  BY DEF PhaseMutation, Unheld
<1>2. e \in Genesis /\ Genesis' = Genesis
  BY <1>1, OpenHasNotEnded DEF Genesis
<1>3. x.kind = "PHASE" /\ x.episode = e /\ Shaped(x)
  BY RecordFields, RecordShapes
<1>4. RecordSound(x)'
  <2> HIDE DEF x
  <2> QED BY <1>2, <1>3 DEF RecordSound
<1>5. ownerOf' \in [EpisodeFrames -> EpisodeFrames \cup {NoOwner}]
  BY <1>1 DEF EngineCore, EngineTypes
<1>6. OpenStep(e, "PHASE_MUTATION", c, x, new)
  <2>1. CASE PhaseLawful(e, interval)
    <3>1. x \notin Range(semantic) /\ new = <<event, x>>
      BY <2>1 DEF PhaseLawful, Unheld
    <3> HIDE DEF x, new
    <3> QED BY <1>1, <1>3, <1>4, <1>5, <3>1 DEF OpenStep
  <2>2. CASE ~PhaseLawful(e, interval)
    <3>1. new = <<event>>
      BY <2>2
    <3> HIDE DEF x, new
    <3> QED BY <1>1, <1>5, <3>1 DEF OpenStep
  <2> QED BY <2>1, <2>2
<1>7. EngineCore'
  BY <1>6, OpenCall
<1> QED BY <1>2, <1>7

LEMMA ReParentCore ==
  ASSUME EngineCore, NEW e \in EpisodeFrames, NEW c, ReParent(e, c)
  PROVE  EngineCore' /\ Genesis' = Genesis
<1> DEFINE event == BoundaryEvent("RE_PARENT", {e}, c)
<1>1. Open(e) /\ event \notin Range(semantic) /\ Extend(<<event>>) /\ UNCHANGED <<statusOf, ownerOf, edges>>
  BY DEF ReParent, Unheld
<1>2. Genesis' = Genesis
  BY <1>1 DEF Genesis
<1>3. ownerOf' \in [EpisodeFrames -> EpisodeFrames \cup {NoOwner}]
  BY <1>1 DEF EngineCore, EngineTypes
<1>4. OpenStep(e, "RE_PARENT", c, event, <<event>>)
  BY <1>1, <1>3 DEF OpenStep
<1>5. EngineCore'
  BY <1>4, OpenCall
<1> QED BY <1>2, <1>5

LEMMA FinishCore ==
  ASSUME EngineCore, NEW e \in EpisodeFrames, NEW a \in DOMAIN Endings, NEW c, Finish(e, a, c)
  PROVE  EngineCore' /\ Genesis' = Genesis
<1> DEFINE event == BoundaryEvent(a, {e}, c)
           new == <<event>>
           n == Len(semantic)
<1>1. /\ Open(e) /\ event \notin Range(semantic) /\ Extend(new) /\ UNCHANGED <<ownerOf, edges>>
      /\ statusOf' = [statusOf EXCEPT ![e] = Endings[a]]
  BY DEF Finish, Unheld
<1>2. e \in Genesis /\ EndsAt(e) = {}
  BY <1>1, OpenHasNotEnded
<1>3. statusOf \in [EpisodeFrames -> Range(Endings) \cup {"UNBORN", "OPEN"}] /\ ownerOf \in [EpisodeFrames -> EpisodeFrames \cup {NoOwner}]
  BY DEF EngineCore, EngineTypes
<1>4. Endings[a] \in Range(Endings) /\ Endings[a] # "OPEN" /\ Endings[a] # "UNBORN" /\ a \notin EdgeTypes
  BY EndingFacts
<1>5. /\ statusOf' \in [EpisodeFrames -> Range(Endings) \cup {"UNBORN", "OPEN"}]
      /\ \A d \in EpisodeFrames : statusOf'[d] = IF d = e THEN Endings[a] ELSE statusOf[d]
  BY <1>1, <1>3, <1>4
<1>6. Genesis' = Genesis
  BY <1>2, <1>4, <1>5 DEF Genesis
<1>7. new \in Seq(Range(new)) /\ Range(new) = {event} /\ Len(new) = 1 /\ new[1] = event
  BY ShortTuples
<1>8. event.kind = "EVENT" /\ event.action = a /\ event.episodes = {e} /\ Shaped(event)
  BY RecordFields, RecordShapes
<1> HIDE DEF event, new
<1>9. Grown(semantic, new, semantic')
  BY <1>1, <1>7, StreamGrows DEF EngineCore
<1>10. Range(semantic') = Range(semantic) \cup {event}
  BY <1>7, <1>9 DEF Grown
<1>11. /\ n \in Nat /\ DOMAIN semantic = 1..n /\ DOMAIN semantic' = 1..(n + 1) /\ semantic'[n + 1] = event
       /\ \A i \in 1..n : semantic'[i] = semantic[i]
  BY <1>7, <1>9 DEF Grown
<1>12. EndsAt(e)' = {n + 1}
  <2>1. n + 1 \in EndsAt(e)'
    BY <1>8, <1>11 DEF EndsAt
  <2>2. ASSUME NEW i \in EndsAt(e)' PROVE i = n + 1
    <3>1. i \in 1..(n + 1) /\ semantic'[i].kind = "EVENT" /\ e \in semantic'[i].episodes /\ semantic'[i].action \in DOMAIN Endings
      BY <1>11 DEF EndsAt
    <3>2. i \notin 1..n
      BY <1>2, <1>11, <3>1 DEF EndsAt
    <3> QED BY <1>11, <3>1, <3>2
  <2> QED BY <2>1, <2>2
<1>13. ASSUME NEW d, d # e PROVE EndsAt(d)' = EndsAt(d)
  <2>1. ASSUME NEW i \in EndsAt(d)' PROVE i \in EndsAt(d)
    <3>1. i \in 1..(n + 1) /\ semantic'[i].kind = "EVENT" /\ d \in semantic'[i].episodes /\ semantic'[i].action \in DOMAIN Endings
      BY <1>11 DEF EndsAt
    <3>2. i # n + 1
      BY <1>8, <1>11, <1>13, <3>1
    <3>3. i \in 1..n
      BY <1>11, <3>1, <3>2
    <3> QED BY <1>11, <3>1, <3>3 DEF EndsAt
  <2>2. ASSUME NEW i \in EndsAt(d) PROVE i \in EndsAt(d)'
    <3>1. i \in 1..n /\ semantic[i].kind = "EVENT" /\ d \in semantic[i].episodes /\ semantic[i].action \in DOMAIN Endings
      BY <1>11 DEF EndsAt
    <3> QED BY <1>11, <3>1 DEF EndsAt
  <2> QED BY <2>1, <2>2
<1>14. EngineTypes'
  BY <1>1, <1>5, <1>9 DEF EngineTypes, EngineCore, Grown
<1>15. \A r \in Range(semantic)' : RecordSound(r)'
  <2>1. \A r \in Range(semantic) : RecordSound(r)'
    BY <1>1, <1>6, <1>10, OldRecordsSound
  <2>2. RecordSound(event)'
    BY <1>2, <1>6, <1>8 DEF RecordSound
  <2> QED BY <1>10, <2>1, <2>2
<1>16. MapsRecorded'
  <2>1. Records("MEMBER")' = Records("MEMBER")
    BY <1>8, <1>10 DEF Records
  <2> QED BY <1>1, <1>6, <1>10, <2>1 DEF EngineCore, MapsRecorded
<1>17. StatusRecorded'
  <2> SUFFICES ASSUME NEW d \in Genesis
               PROVE  \/ Open(d)' /\ EndsAt(d)' = {}
                      \/ /\ ~Open(d)'
                         /\ \E i \in EndsAt(d)' : EndsAt(d)' = {i} /\ statusOf'[d] = Endings[semantic'[i].action]
    BY <1>6 DEF StatusRecorded
  <2>0. d \in EpisodeFrames
    BY DEF Genesis
  <2>1. CASE d = e
    BY <1>4, <1>5, <1>8, <1>11, <1>12, <2>1 DEF Open
  <2>2. CASE d # e /\ Open(d)
    BY <1>5, <1>13, <2>0, <2>2 DEF EngineCore, StatusRecorded, Open
  <2>3. CASE d # e /\ ~Open(d)
    <3>1. PICK i \in EndsAt(d) : EndsAt(d) = {i} /\ statusOf[d] = Endings[semantic[i].action]
      BY <2>3 DEF EngineCore, StatusRecorded
    <3>2. semantic'[i] = semantic[i]
      BY <1>11, <3>1 DEF EndsAt
    <3> QED BY <1>5, <1>13, <2>0, <2>3, <3>1, <3>2 DEF Open
  <2> QED BY <2>1, <2>2, <2>3
<1>18. EventHasEdge'
  <2> SUFFICES ASSUME NEW r \in Records("EVENT")', NEW p \in Genesis, NEW q \in Genesis,
                      r.action \in EdgeTypes, r.episodes = {p, q}, p # q
               PROVE  \/ LineageEdge(r.action, p, q, r) \in Range(semantic)'
                      \/ LineageEdge(r.action, q, p, r) \in Range(semantic)'
    BY <1>6 DEF EventHasEdge
  <2>1. r \in Records("EVENT")
    BY <1>4, <1>8, <1>10 DEF Records
  <2> QED BY <1>10, <2>1 DEF EngineCore, EventHasEdge
<1>19. RecordsOnce'
  <2>1. Fresh(new)
    BY <1>1, <1>7 DEF Fresh
  <2> QED BY <1>9, <2>1, FreshOnce
<1>20. OneOwner'
  <2> SUFFICES ASSUME NEW i \in DOMAIN semantic', semantic'[i].kind = "MEMBER"
               PROVE  /\ ownerOf'[semantic'[i].frame] = semantic'[i].episode
                      /\ \E j \in 1..(i - 1) : semantic'[j] = GenesisRecord(semantic'[i].episode)
    BY DEF OneOwner
  <2>1. i \in DOMAIN semantic /\ semantic[i].kind = "MEMBER"
    <3>1. i # n + 1
      BY <1>8, <1>11
    <3> QED BY <1>11, <3>1
  <2> QED BY <1>1, <1>9, <2>1, OldMembersOwned
<1>21. EndedForGood'
  <2> SUFFICES ASSUME NEW d \in Genesis, NEW i \in EndsAt(d)', NEW j \in DOMAIN semantic', i < j
               PROVE  /\ semantic'[j].kind \in {"MEMBER", "PHASE"} => semantic'[j].episode # d
                      /\ semantic'[j].kind = "EVENT" => semantic'[j].episodes # {d}
    BY <1>6 DEF EndedForGood
  <2>1. d # e
    <3> SUFFICES ASSUME d = e PROVE FALSE
      OBVIOUS
    <3> QED BY <1>11, <1>12
  <2>2. i \in EndsAt(d)
    BY <1>13, <2>1
  <2>3. CASE j = n + 1
    BY <1>8, <1>11, <2>1, <2>3
  <2>4. CASE j # n + 1
    <3>1. j \in DOMAIN semantic /\ semantic'[j] = semantic[j]
      BY <1>11, <2>4
    <3> QED BY <2>2, <3>1 DEF EngineCore, EndedForGood
  <2> QED BY <2>3, <2>4
<1>22. TopologySound'
  <2>1. Records("EDGE")' = Records("EDGE")
    BY <1>8, <1>10 DEF Records
  <2> QED BY <1>1, <1>6, <1>14, <2>1, TopologyKept
<1>23. EngineCore'
  BY <1>14, <1>15, <1>16, <1>17, <1>18, <1>19, <1>20, <1>21, <1>22 DEF EngineCore
<1> QED BY <1>6, <1>23

LEMMA AppendGrows ==
  ASSUME NEW s, s \in Seq(Range(s)), NEW x
  PROVE  Grown(s, <<x>>, Append(s, x)) /\ Range(<<x>>) = {x} /\ Len(<<x>>) = 1
<1>1. <<x>> \in Seq(Range(<<x>>)) /\ Range(<<x>>) = {x} /\ Len(<<x>>) = 1
  BY ShortTuples
<1>2. Grown(s, <<x>>, s \o <<x>>)
  BY <1>1, ConcatGrows
<1>3. s \o <<x>> = Append(s, x)
  BY AppendIsConcat
<1> QED BY <1>1, <1>2, <1>3

LEMMA LinkCore ==
  ASSUME EngineCore, NEW type \in EdgeTypes, NEW p, NEW q, NEW c, Link(type, p, q, c)
  PROVE  /\ EngineCore' /\ Genesis' = Genesis
         /\ Unheld(BoundaryEvent(type, {p, q}, c)) /\ IsInjective(edges) => IsInjective(edges')
<1> DEFINE event == BoundaryEvent(type, {p, q}, c)
           edge == LineageEdge(type, p, q, event)
           new == IF Unheld(event) THEN <<event, edge>> ELSE <<>>
<1>1. /\ {p, q} \subseteq Genesis /\ p \notin Descendants(q) /\ edges' = Append(edges, edge)
      /\ Extend(new) /\ UNCHANGED <<statusOf, ownerOf>>
  BY DEF Link, Reaches
<1>2. p \in Genesis /\ q \in Genesis /\ Genesis' = Genesis
  BY <1>1 DEF Genesis
<1>3. /\ event.kind = "EVENT" /\ event.action = type /\ event.episodes = {p, q} /\ Shaped(event)
      /\ edge.kind = "EDGE" /\ edge.type = type /\ edge.parent = p /\ edge.child = q /\ edge.by = event /\ Shaped(edge)
  BY RecordFields, RecordShapes
<1>4. /\ new \in Seq(Range(new)) /\ \A r \in Range(new) : r \in {event, edge}
      /\ event \notin Range(semantic) => /\ Range(new) = {event, edge} /\ Len(new) = 2
                                         /\ new[1] = event /\ new[2] = edge
      /\ event \in Range(semantic) => Range(new) = {} /\ Len(new) = 0
  <2>1. CASE event \notin Range(semantic)
    <3>1. new = <<event, edge>>
      BY <2>1 DEF Unheld
    <3> HIDE DEF new, event, edge
    <3> QED BY <2>1, <3>1, ShortTuples
  <2>2. CASE event \in Range(semantic)
    <3>1. new = <<>>
      BY <2>2 DEF Unheld
    <3> HIDE DEF new, event, edge
    <3> QED BY <2>2, <3>1, ShortTuples
  <2> QED BY <2>1, <2>2
<1>5. EdgesOfGenesis /\ EdgePairs \subseteq Genesis \X Genesis /\ IsFiniteSet(Genesis) /\ Acyc(EdgePairs, Genesis)
  BY EdgeFacts
<1>6. p \notin Reach(EdgePairs, Genesis, q)
  BY <1>1, DescendantsReach
<1>7. /\ q \in Reach(EdgePairs, Genesis, q)
      /\ \A e \in EdgePairs : e[1] \in Reach(EdgePairs, Genesis, q) => e[2] \in Reach(EdgePairs, Genesis, q)
  BY <1>2, <1>5, ReachLeast
<1>8. p # q /\ <<q, p>> \notin EdgePairs
  BY <1>6, <1>7
<1>9. LineageEdge(type, q, p, event) \notin Range(semantic)
  <2> DEFINE back == LineageEdge(type, q, p, event)
  <2> SUFFICES ASSUME back \in Range(semantic) PROVE FALSE
    OBVIOUS
  <2>1. back.kind = "EDGE" /\ back.parent = q /\ back.child = p
    BY RecordFields
  <2> HIDE DEF back
  <2>2. back \in Range(edges)
    BY <2>1 DEF EngineCore, TopologySound, Records
  <2>3. <<q, p>> \in EdgePairs
    BY <2>1, <2>2 DEF EdgePairs
  <2> QED BY <1>8, <2>3
<1>10. event \in Range(semantic) => edge \in Range(semantic)
  <2> SUFFICES ASSUME event \in Range(semantic) PROVE edge \in Range(semantic)
    OBVIOUS
  <2>1. event \in Records("EVENT")
    BY <1>3 DEF Records
  <2>2. \/ LineageEdge(event.action, p, q, event) \in Range(semantic)
        \/ LineageEdge(event.action, q, p, event) \in Range(semantic)
    <3> HIDE DEF event, edge
    <3> QED BY <1>2, <1>3, <1>8, <2>1 DEF EngineCore, EventHasEdge
  <2> QED BY <1>3, <1>9, <2>2
<1>11. event \notin Range(semantic) => edge \notin Range(semantic)
  BY NewWithEvent
<1> HIDE DEF edge, new
<1>12. Grown(semantic, new, semantic')
  BY <1>1, <1>4, StreamGrows DEF EngineCore
<1>13. Range(semantic)' = Range(semantic) \cup {event, edge}
  BY <1>4, <1>10, <1>12 DEF Grown
<1>14. Grown(edges, <<edge>>, edges') /\ Range(<<edge>>) = {edge} /\ Len(<<edge>>) = 1
  BY <1>1, AppendGrows DEF EngineCore, EngineTypes
<1>15. EngineTypes'
  BY <1>1, <1>12, <1>14 DEF EngineTypes, EngineCore, Grown
<1>16. \A r \in Range(semantic)' : RecordSound(r)'
  <2>1. \A r \in Range(semantic) : RecordSound(r)'
    BY <1>1, <1>2, <1>13, OldRecordsSound
  <2>2. RecordSound(event)'
    <3> HIDE DEF event
    <3> QED BY <1>2, <1>3 DEF RecordSound
  <2>3. RecordSound(edge)'
    <3> HIDE DEF event
    <3> QED BY <1>2, <1>3, <1>13 DEF RecordSound
  <2> QED BY <1>13, <2>1, <2>2, <2>3
<1> HIDE DEF event
<1>17. Fresh(new)
  <2>1. CASE event \notin Range(semantic)
    <3>1. event # edge
      BY <1>3
    <3>2. \A i, j \in 1..2 : new[i] = new[j] => i = j
      BY <1>4, <2>1, <3>1
    <3> QED BY <1>4, <1>11, <2>1, <3>2 DEF Fresh
  <2>2. CASE event \in Range(semantic)
    BY <1>4, <2>2 DEF Fresh
  <2> QED BY <2>1, <2>2
<1>18. Respectful(new)
  <2>1. \A e : {p, q} # {e}
    BY <1>8
  <2> QED BY <1>3, <1>4, <2>1 DEF Respectful
<1>19. \A r \in Range(new) : ~Ending(r)
  BY <1>3, <1>4, EndingFacts DEF Ending
<1>20. EndedForGood' /\ \A e : EndsAt(e)' = EndsAt(e)
  BY <1>12, <1>18, <1>19, QuietExtension
<1>21. RecordsOnce'
  BY <1>12, <1>17, FreshOnce
<1>22. MapsRecorded'
  <2>1. Records("MEMBER")' = Records("MEMBER")
    BY <1>3, <1>13 DEF Records
  <2> QED BY <1>1, <1>2, <1>13, <2>1 DEF EngineCore, MapsRecorded
<1>23. StatusRecorded'
  <2> SUFFICES ASSUME NEW d \in Genesis
               PROVE  \/ Open(d)' /\ EndsAt(d)' = {}
                      \/ /\ ~Open(d)'
                         /\ \E i \in EndsAt(d)' : EndsAt(d)' = {i} /\ statusOf'[d] = Endings[semantic'[i].action]
    BY <1>2 DEF StatusRecorded
  <2>1. CASE Open(d)
    BY <1>1, <1>20, <2>1 DEF EngineCore, StatusRecorded, Open
  <2>2. CASE ~Open(d)
    <3>1. PICK i \in EndsAt(d) : EndsAt(d) = {i} /\ statusOf[d] = Endings[semantic[i].action]
      BY <2>2 DEF EngineCore, StatusRecorded
    <3>2. semantic'[i] = semantic[i]
      BY <1>12, <3>1 DEF EndsAt, Grown
    <3> QED BY <1>1, <1>20, <2>2, <3>1, <3>2 DEF Open
  <2> QED BY <2>1, <2>2
<1>24. EventHasEdge'
  <2> SUFFICES ASSUME NEW r \in Records("EVENT")', NEW x \in Genesis, NEW y \in Genesis,
                      r.action \in EdgeTypes, r.episodes = {x, y}, x # y
               PROVE  \/ LineageEdge(r.action, x, y, r) \in Range(semantic)'
                      \/ LineageEdge(r.action, y, x, r) \in Range(semantic)'
    BY <1>2 DEF EventHasEdge
  <2>1. CASE r = event
    <3>1. (x = p /\ y = q) \/ (x = q /\ y = p)
      BY <1>3, <2>1
    <3>2. LineageEdge(r.action, p, q, r) = edge
      BY <1>3, <2>1 DEF edge
    <3> QED BY <1>13, <3>1, <3>2
  <2>2. CASE r # event
    <3>1. r \in Records("EVENT")
      BY <1>3, <1>13, <2>2 DEF Records
    <3> QED BY <1>13, <3>1 DEF EngineCore, EventHasEdge
  <2> QED BY <2>1, <2>2
<1>25. OneOwner'
  <2> SUFFICES ASSUME NEW i \in DOMAIN semantic', semantic'[i].kind = "MEMBER"
               PROVE  /\ ownerOf'[semantic'[i].frame] = semantic'[i].episode
                      /\ \E j \in 1..(i - 1) : semantic'[j] = GenesisRecord(semantic'[i].episode)
    BY DEF OneOwner
  <2>1. i \in DOMAIN semantic
    BY <1>3, <1>4, <1>12 DEF Grown
  <2>2. semantic[i].kind = "MEMBER"
    BY <1>12, <2>1 DEF Grown
  <2> QED BY <1>1, <1>12, <2>1, <2>2, OldMembersOwned
<1>26. TopologySound'
  <2>1. Range(edges)' = Range(edges) \cup {edge}
    BY <1>14 DEF Grown
  <2>2. Records("EDGE")' = Records("EDGE") \cup {edge}
    BY <1>3, <1>13 DEF Records
  <2>3. Range(edges)' = Records("EDGE")'
    BY <2>1, <2>2 DEF EngineCore, TopologySound
  <2>4. EdgesOfGenesis'
    BY <1>2, <1>3, <1>5, <2>1 DEF EdgesOfGenesis
  <2>5. EdgePairs' = EdgePairs \cup {<<p, q>>}
    BY <1>3, <2>1 DEF EdgePairs
  <2>6. Acyc(EdgePairs', Genesis')
    BY <1>2, <1>5, <1>6, <2>5, AcycLink
  <2>7. Acyclic'
    BY <2>4, <2>6, AcyclicIsAcycNext
  <2> QED BY <2>3, <2>7 DEF TopologySound, Acyclic
<1>27. EngineCore'
  BY <1>15, <1>16, <1>20, <1>21, <1>22, <1>23, <1>24, <1>25, <1>26 DEF EngineCore
<1>28. ASSUME event \notin Range(semantic), IsInjective(edges) PROVE IsInjective(edges')
  <2>1. edge \notin Range(edges)
    BY <1>11, <1>28 DEF EngineCore, TopologySound, Records
  <2> DEFINE n == Len(edges)
  <2>2. /\ n \in Nat /\ DOMAIN edges = 1..n /\ DOMAIN edges' = 1..(n + 1)
        /\ \A i \in 1..n : edges'[i] = edges[i] /\ edges[i] \in Range(edges)
    BY <1>14 DEF Grown, Range
  <2>3. edges'[n + 1] = edge
    <3>1. n + 1 \in DOMAIN edges' /\ n + 1 \notin DOMAIN edges
      BY <2>2
    <3> QED BY <1>14, <3>1 DEF Grown
  <2> SUFFICES ASSUME NEW i \in 1..(n + 1), NEW j \in 1..(n + 1), edges'[i] = edges'[j] PROVE i = j
    BY <2>2 DEF IsInjective
  <2>4. CASE i \in 1..n /\ j \in 1..n
    BY <1>28, <2>2, <2>4 DEF IsInjective
  <2>5. CASE i = n + 1 /\ j \in 1..n
    BY <2>1, <2>2, <2>3, <2>5
  <2>6. CASE j = n + 1 /\ i \in 1..n
    BY <2>1, <2>2, <2>3, <2>6
  <2> QED BY <2>2, <2>4, <2>5, <2>6
<1>29. Unheld(event) <=> event \notin Range(semantic)
  BY DEF Unheld
<1> QED BY <1>2, <1>27, <1>28, <1>29 DEF event

\* A phase event at k that the phase follows.
Paired(s, k) ==
  s[k].kind = "EVENT" /\ s[k].action = "PHASE_MUTATION" =>
    /\ k < Len(s)
    /\ s[k + 1].kind = "PHASE"
    /\ s[k].episodes = {s[k + 1].episode}

LEMMA PhasesStillFollow ==
  ASSUME PhasesFollow, NEW new, Grown(semantic, new, semantic'), \A k \in 1..Len(new) : Paired(new, k)
  PROVE  PhasesFollow'
<1> DEFINE n == Len(semantic)
<1>1. /\ n \in Nat /\ DOMAIN semantic = 1..n /\ Len(new) \in Nat /\ Len(semantic') = n + Len(new)
      /\ \A i \in 1..n : semantic'[i] = semantic[i]
      /\ \A k \in 1..Len(new) : semantic'[n + k] = new[k]
      /\ DOMAIN semantic' = 1..(n + Len(new))
  BY DEF Grown
<1> SUFFICES ASSUME NEW i \in DOMAIN semantic', semantic'[i].kind = "EVENT", semantic'[i].action = "PHASE_MUTATION"
             PROVE  /\ i < Len(semantic')
                    /\ semantic'[i + 1].kind = "PHASE"
                    /\ semantic'[i].episodes = {semantic'[i + 1].episode}
  BY DEF PhasesFollow
<1>2. CASE i \in 1..n
  <2>1. i < n /\ semantic[i + 1].kind = "PHASE" /\ semantic[i].episodes = {semantic[i + 1].episode}
    BY <1>1, <1>2 DEF PhasesFollow
  <2>2. i + 1 \in 1..n /\ i < Len(semantic')
    BY <1>1, <1>2, <2>1
  <2> QED BY <1>1, <1>2, <2>1, <2>2
<1>3. CASE i \notin 1..n
  <2> DEFINE k == i - n
  <2>1. k \in 1..Len(new) /\ i = n + k
    BY <1>1, <1>3
  <2> HIDE DEF n, k
  <2>2. semantic'[i] = new[k]
    BY <1>1, <2>1
  <2>3. k < Len(new) /\ new[k + 1].kind = "PHASE" /\ new[k].episodes = {new[k + 1].episode}
    BY <2>1, <2>2 DEF Paired
  <2>4. k + 1 \in 1..Len(new) /\ i + 1 = n + (k + 1) /\ i < Len(semantic')
    BY <1>1, <2>1, <2>3
  <2>5. semantic'[i + 1] = new[k + 1]
    BY <1>1, <2>4
  <2> QED BY <2>2, <2>3, <2>4, <2>5
<1> QED BY <1>2, <1>3

LEMMA BirthFollows ==
  ASSUME EngineCore, PhasesFollow, NEW f \in EpisodeFrames, NEW c, Birth(f, c)
  PROVE  PhasesFollow'
<1> DEFINE event == BoundaryEvent("BIRTH", {f}, c)
           g == GenesisRecord(f)
           m == MembershipDelta(f, f, event)
           new == <<g, event, m>>
<1>1. Extend(new)
  BY DEF Birth
<1>2. g.kind # "EVENT" /\ event.action # "PHASE_MUTATION" /\ m.kind # "EVENT"
  BY RecordFields
<1> HIDE DEF g, event, m
<1>3. new \in Seq(Range(new)) /\ Len(new) = 3 /\ new[1] = g /\ new[2] = event /\ new[3] = m
  BY ShortTuples
<1> HIDE DEF new
<1>4. \A k \in 1..Len(new) : Paired(new, k)
  BY <1>2, <1>3 DEF Paired
<1>5. Grown(semantic, new, semantic')
  BY <1>1, <1>3, StreamGrows DEF EngineCore
<1> QED BY <1>4, <1>5, PhasesStillFollow

LEMMA ContinueFollows ==
  ASSUME EngineCore, PhasesFollow, NEW e, NEW f, NEW c, ContinueEpisode(e, f, c)
  PROVE  PhasesFollow'
<1> DEFINE event == BoundaryEvent("CONTINUATION", {e}, c)
           m == MembershipDelta(e, f, event)
           new == <<event, m>>
<1>1. Extend(new)
  BY DEF ContinueEpisode
<1>2. event.action # "PHASE_MUTATION" /\ m.kind # "EVENT"
  BY RecordFields
<1> HIDE DEF event, m
<1>3. new \in Seq(Range(new)) /\ Len(new) = 2 /\ new[1] = event /\ new[2] = m
  BY ShortTuples
<1> HIDE DEF new
<1>4. \A k \in 1..Len(new) : Paired(new, k)
  BY <1>2, <1>3 DEF Paired
<1>5. Grown(semantic, new, semantic')
  BY <1>1, <1>3, StreamGrows DEF EngineCore
<1> QED BY <1>4, <1>5, PhasesStillFollow

LEMMA PhaseFollows ==
  ASSUME EngineCore, PhasesFollow, NEW e, NEW c, NEW interval, PhaseMutation(e, c, interval),
         PhaseLawful(e, interval)
  PROVE  PhasesFollow'
<1> DEFINE event == BoundaryEvent("PHASE_MUTATION", {e}, c)
           x == PhaseSegment(e, interval)
           new == <<event, x>>
<1>1. Extend(new)
  BY DEF PhaseMutation
<1>2. event.episodes = {e} /\ x.kind = "PHASE" /\ x.episode = e
  BY RecordFields
<1> HIDE DEF event, x
<1>3. new \in Seq(Range(new)) /\ Len(new) = 2 /\ new[1] = event /\ new[2] = x
  BY ShortTuples
<1> HIDE DEF new
<1>4. \A k \in 1..Len(new) : Paired(new, k)
  BY <1>2, <1>3 DEF Paired
<1>5. Grown(semantic, new, semantic')
  BY <1>1, <1>3, StreamGrows DEF EngineCore
<1> QED BY <1>4, <1>5, PhasesStillFollow

LEMMA EventFollows ==
  ASSUME EngineCore, PhasesFollow, NEW a, a # "PHASE_MUTATION", NEW es, NEW c, Extend(<<BoundaryEvent(a, es, c)>>)
  PROVE  PhasesFollow'
<1> DEFINE event == BoundaryEvent(a, es, c)
           new == <<event>>
<1>1. event.action # "PHASE_MUTATION"
  BY RecordFields
<1>2. Extend(new)
  OBVIOUS
<1> HIDE DEF event
<1>3. new \in Seq(Range(new)) /\ Len(new) = 1 /\ new[1] = event
  BY ShortTuples
<1> HIDE DEF new
<1>4. \A k \in 1..Len(new) : Paired(new, k)
  BY <1>1, <1>3 DEF Paired
<1>5. Grown(semantic, new, semantic')
  BY <1>2, <1>3, StreamGrows DEF EngineCore
<1> QED BY <1>4, <1>5, PhasesStillFollow

LEMMA LinkFollows ==
  ASSUME EngineCore, PhasesFollow, NEW type \in EdgeTypes, NEW p, NEW q, NEW c, Link(type, p, q, c),
         Unheld(BoundaryEvent(type, {p, q}, c))
  PROVE  PhasesFollow'
<1> DEFINE event == BoundaryEvent(type, {p, q}, c)
           edge == LineageEdge(type, p, q, event)
           new == <<event, edge>>
<1>1. Extend(new)
  BY DEF Link
<1>2. event.action # "PHASE_MUTATION" /\ edge.kind # "EVENT"
  BY RecordFields DEF EdgeTypes
<1> HIDE DEF event, edge
<1>3. new \in Seq(Range(new)) /\ Len(new) = 2 /\ new[1] = event /\ new[2] = edge
  BY ShortTuples
<1> HIDE DEF new
<1>4. \A k \in 1..Len(new) : Paired(new, k)
  BY <1>2, <1>3 DEF Paired
<1>5. Grown(semantic, new, semantic')
  BY <1>1, <1>3, StreamGrows DEF EngineCore
<1> QED BY <1>4, <1>5, PhasesStillFollow

(***************************************************************************)
(* EpisodeEngine: the specification                                        *)
(***************************************************************************)

EngineSpec ==
  /\ EngineInit /\ ReplayInit
  /\ [][EngineNext /\ UNCHANGED replayVars]_<<engineVars, replayVars>>

LEMMA EmptyStream ==
  ASSUME EngineInit
  PROVE  EngineCore /\ NothingHalfDone /\ Genesis = {} /\ Range(semantic) = {}
<1>1. /\ semantic = <<>> /\ edges = <<>> /\ statusOf = [e \in EpisodeFrames |-> "UNBORN"]
      /\ ownerOf = [f \in EpisodeFrames |-> NoOwner]
  BY DEF EngineInit
<1>2. Range(semantic) = {} /\ Range(edges) = {} /\ semantic \in Seq(Range(semantic)) /\ edges \in Seq(Range(edges))
  BY <1>1, ShortTuples
<1>3. DOMAIN semantic = {} /\ DOMAIN edges = {}
  BY <1>1
<1>4. Genesis = {}
  BY <1>1 DEF Genesis
<1>5. EngineTypes
  BY <1>1, <1>2 DEF EngineTypes
<1>6. MapsRecorded /\ StatusRecorded /\ EventHasEdge /\ EndedForGood
  BY <1>1, <1>2, <1>4 DEF MapsRecorded, StatusRecorded, EventHasEdge, EndedForGood
<1>7. RecordsOnce /\ OneOwner /\ IsInjective(edges) /\ PhasesFollow
  BY <1>3 DEF RecordsOnce, OneOwner, IsInjective, PhasesFollow
<1>8. TopologySound
  BY <1>2, <1>4 DEF TopologySound, Records
<1> QED BY <1>2, <1>4, <1>5, <1>6, <1>7, <1>8 DEF EngineCore, NothingHalfDone

LEMMA EngineStep ==
  ASSUME EngineIInv, EngineNext
  PROVE  EngineIInv'
<1>0. EngineCore /\ halfDone \in BOOLEAN /\ (~halfDone => NothingHalfDone) /\ CallerFrames \subseteq EpisodeFrames
  BY EngineAssumption DEF EngineIInv
<1>1. PICK e \in CallerFrames, c \in Candidates :
        \/ CallBirth(e, c)
        \/ \E f \in CallerFrames : CallContinue(e, f, c)
        \/ \E interval \in Intervals : CallPhaseMutation(e, c, interval)
        \/ CallReParent(e, c)
        \/ \E action \in DOMAIN Endings : CallFinish(e, action, c)
        \/ \E type \in EdgeTypes, child \in CallerFrames : CallLink(type, e, child, c)
  BY DEF EngineNext
<1>2. e \in EpisodeFrames
  BY <1>0
<1>3. CASE CallBirth(e, c)
  <2>1. Birth(e, c) /\ halfDone' = halfDone /\ edges' = edges
    BY <1>3 DEF CallBirth, Whole, Birth
  <2>2. EngineCore'
    BY <1>0, <1>2, <2>1, BirthCore
  <2>3. PhasesFollow => PhasesFollow'
    BY <1>0, <1>2, <2>1, BirthFollows
  <2> QED BY <1>0, <2>1, <2>2, <2>3 DEF EngineIInv, NothingHalfDone
<1>4. CASE \E f \in CallerFrames : CallContinue(e, f, c)
  <2>0. PICK f \in CallerFrames : CallContinue(e, f, c)
    BY <1>4
  <2>1. ContinueEpisode(e, f, c) /\ halfDone' = halfDone /\ edges' = edges /\ f \in EpisodeFrames
    BY <1>0, <2>0 DEF CallContinue, Whole, ContinueEpisode
  <2>2. EngineCore'
    BY <1>0, <1>2, <2>1, ContinueCore
  <2>3. PhasesFollow => PhasesFollow'
    BY <1>0, <2>1, ContinueFollows
  <2> QED BY <1>0, <2>1, <2>2, <2>3 DEF EngineIInv, NothingHalfDone
<1>5. CASE \E interval \in Intervals : CallPhaseMutation(e, c, interval)
  <2>0. PICK interval \in Intervals : CallPhaseMutation(e, c, interval)
    BY <1>5
  <2>1. /\ PhaseMutation(e, c, interval) /\ edges' = edges
        /\ halfDone' = (halfDone \/ ~PhaseLawful(e, interval))
    BY <2>0 DEF CallPhaseMutation, PhaseMutation
  <2>2. EngineCore'
    BY <1>0, <1>2, <2>1, PhaseCore
  <2>3. PhasesFollow /\ PhaseLawful(e, interval) => PhasesFollow'
    BY <1>0, <2>1, PhaseFollows
  <2> QED BY <1>0, <2>1, <2>2, <2>3 DEF EngineIInv, NothingHalfDone
<1>6. CASE CallReParent(e, c)
  <2>1. ReParent(e, c) /\ halfDone' = halfDone /\ edges' = edges /\ Extend(<<BoundaryEvent("RE_PARENT", {e}, c)>>)
    BY <1>6 DEF CallReParent, Whole, ReParent
  <2>2. EngineCore'
    BY <1>0, <1>2, <2>1, ReParentCore
  <2>3. PhasesFollow => PhasesFollow'
    BY <1>0, <2>1, EventFollows
  <2> QED BY <1>0, <2>1, <2>2, <2>3 DEF EngineIInv, NothingHalfDone
<1>7. CASE \E action \in DOMAIN Endings : CallFinish(e, action, c)
  <2>0. PICK action \in DOMAIN Endings : CallFinish(e, action, c)
    BY <1>7
  <2>1. /\ Finish(e, action, c) /\ halfDone' = halfDone /\ edges' = edges
        /\ Extend(<<BoundaryEvent(action, {e}, c)>>) /\ action # "PHASE_MUTATION"
    BY <2>0, EndingFacts DEF CallFinish, Whole, Finish
  <2>2. EngineCore'
    BY <1>0, <1>2, <2>1, FinishCore
  <2>3. PhasesFollow => PhasesFollow'
    BY <1>0, <2>1, EventFollows
  <2> QED BY <1>0, <2>1, <2>2, <2>3 DEF EngineIInv, NothingHalfDone
<1>8. CASE \E type \in EdgeTypes, child \in CallerFrames : CallLink(type, e, child, c)
  <2>0. PICK type \in EdgeTypes, child \in CallerFrames : CallLink(type, e, child, c)
    BY <1>8
  <2> DEFINE new == Unheld(BoundaryEvent(type, {e, child}, c))
  <2>1. Link(type, e, child, c) /\ halfDone' = (halfDone \/ ~new)
    BY <2>0 DEF CallLink
  <2>2. EngineCore' /\ (new /\ IsInjective(edges) => IsInjective(edges'))
    BY <1>0, <2>1, LinkCore
  <2>3. PhasesFollow /\ new => PhasesFollow'
    BY <1>0, <2>1, LinkFollows
  <2> HIDE DEF new
  <2> QED BY <1>0, <2>1, <2>2, <2>3 DEF EngineIInv, NothingHalfDone
<1> QED BY <1>1, <1>3, <1>4, <1>5, <1>6, <1>7, <1>8

LEMMA FiniteRange ==
  ASSUME NEW s, s \in Seq(Range(s))
  PROVE  IsFiniteSet(Range(s)) /\ (IsInjective(s) => Cardinality(Range(s)) = Len(s))
<1>1. Len(s) \in Nat /\ DOMAIN s = 1..Len(s) /\ s \in [1..Len(s) -> Range(s)]
  OBVIOUS
<1>2. s \in Surjection(1..Len(s), Range(s))
  BY <1>1 DEF Surjection, Range
<1>3. IsFiniteSet(1..Len(s))
  BY <1>1, FS_Interval
<1>4. IsFiniteSet(Range(s))
  BY <1>2, <1>3, FS_Surjection
<1>5. ASSUME IsInjective(s) PROVE Cardinality(Range(s)) = Len(s)
  <2>1. s \in Bijection(1..Len(s), Range(s))
    BY <1>1, <1>2, <1>5 DEF Bijection, Injection
  <2>2. ExistsBijection(1..Len(s), Range(s))
    BY <2>1 DEF ExistsBijection
  <2> QED BY <1>1, <2>2, FS_CountingElements
<1> QED BY <1>4, <1>5

\* What a snapshot would rebuild is what the maps hold.
LEMMA CoreProjects ==
  ASSUME EngineCore
  PROVE  /\ ProjectionAgrees
         /\ \A e \in EpisodeFrames : ProjectedMembers(e) = {f \in EpisodeFrames : ownerOf[f] = e}
         /\ \A e \in EpisodeFrames : GenesisRecord(e) \in Range(semantic) <=> e \in Genesis
<1>1. ASSUME NEW e \in Genesis PROVE ProjectedStatus(e) = statusOf[e]
  <2>1. CASE Open(e)
    <3>1. EndsAt(e) = {}
      BY <2>1 DEF EngineCore, StatusRecorded
    <3> QED BY <2>1, <3>1 DEF ProjectedStatus, Open
  <2>2. CASE ~Open(e)
    <3>1. PICK i \in EndsAt(e) : EndsAt(e) = {i} /\ statusOf[e] = Endings[semantic[i].action]
      BY <2>2 DEF EngineCore, StatusRecorded
    <3>2. semantic \in Seq(Range(semantic))
      BY DEF EngineCore, EngineTypes
    <3>3. i \in Nat
      BY <3>2 DEF EndsAt
    <3>4. (CHOOSE k \in EndsAt(e) : \A j \in EndsAt(e) : j <= k) = i
      BY <3>1, <3>3
    <3> QED BY <3>1, <3>4 DEF ProjectedStatus
  <2> QED BY <2>1, <2>2
<1>2. ASSUME NEW e \in EpisodeFrames PROVE ProjectedMembers(e) = {f \in EpisodeFrames : ownerOf[f] = e}
  <2>1. ASSUME NEW f \in ProjectedMembers(e) PROVE f \in EpisodeFrames /\ ownerOf[f] = e
    <3>1. PICK r \in Records("MEMBER") : r.episode = e /\ r.frame = f
      BY DEF ProjectedMembers
    <3> QED BY <3>1 DEF EngineCore, RecordSound, Records
  <2>2. ASSUME NEW f \in EpisodeFrames, ownerOf[f] = e PROVE f \in ProjectedMembers(e)
    <3>1. ownerOf[f] # NoOwner
      BY <2>2, EngineAssumption
    <3>2. PICK r \in Records("MEMBER") : r.frame = f
      BY <3>1 DEF EngineCore, MapsRecorded
    <3>3. r.episode = e
      BY <2>2, <3>2 DEF EngineCore, RecordSound, Records
    <3> QED BY <3>2, <3>3 DEF ProjectedMembers
  <2> QED BY <2>1, <2>2
<1>3. ASSUME NEW e \in EpisodeFrames PROVE GenesisRecord(e) \in Range(semantic) <=> e \in Genesis
  <2>1. GenesisRecord(e).kind = "GENESIS" /\ GenesisRecord(e).episode = e
    BY RecordFields
  <2> QED BY <2>1 DEF EngineCore, MapsRecorded, RecordSound
<1>4. Genesis \subseteq EpisodeFrames
  BY DEF Genesis
<1> QED BY <1>1, <1>2, <1>3, <1>4 DEF ProjectionAgrees

LEMMA EngineHolds ==
  ASSUME EngineIInv, calls \in 0..MaxCalls
  PROVE  EngineInv
<1>0. EngineCore /\ halfDone \in BOOLEAN /\ (~halfDone => NothingHalfDone)
  BY DEF EngineIInv
<1>1. EngineTypeOK
  <2>1. \A r \in Range(semantic) : r.kind \in {"GENESIS", "EVENT", "MEMBER", "PHASE", "EDGE", "SNAPSHOT"}
    BY <1>0 DEF EngineCore, RecordSound, Shaped
  <2> QED BY <1>0, <2>1 DEF EngineCore, EngineTypes, EngineTypeOK
<1>2. HalfDoneOnly
  <2> SUFFICES ASSUME ~halfDone PROVE Len(edges) = Cardinality(Records("EDGE")) /\ PhasesFollow
    BY DEF HalfDoneOnly, PhasesFollow
  <2>1. IsInjective(edges) /\ PhasesFollow
    BY <1>0 DEF NothingHalfDone
  <2>2. edges \in Seq(Range(edges)) /\ Range(edges) = Records("EDGE")
    BY <1>0 DEF EngineCore, EngineTypes, TopologySound
  <2> QED BY <2>1, <2>2, FiniteRange
<1> QED BY <1>0, <1>1, <1>2, CoreProjects DEF EngineInv, EngineCore

(***************************************************************************)
(* EpisodeReplay: frames and runs                                          *)
(***************************************************************************)

InputTypes ==
  /\ inputs \in [Sides -> Seq(Inputs)]
  /\ \A s \in Sides : Len(inputs[s]) <= MaxFrames

\* f is a frame that was taken.
IsFrame(f) == f[1] \in Sides /\ f[2] \in 1..Len(inputs[f[1]]) /\ f = <<f[1], f[2]>>

LEMMA FrameFacts ==
  ASSUME InputTypes
  PROVE  /\ \A f : f \in AllFrames <=> IsFrame(f)
         /\ AllFrames \subseteq EpisodeFrames /\ IsFiniteSet(AllFrames)
         /\ \A s \in Sides : inputs[s] \in Seq(Inputs) /\ Len(inputs[s]) \in Nat /\ DOMAIN inputs[s] = 1..Len(inputs[s])
<1>1. \A s \in Sides : inputs[s] \in Seq(Inputs) /\ Len(inputs[s]) \in Nat /\ DOMAIN inputs[s] = 1..Len(inputs[s])
  BY DEF InputTypes
<1>2. ASSUME NEW f \in AllFrames PROVE IsFrame(f)
  <2>1. PICK s \in Sides : \E i \in DOMAIN inputs[s] : f = <<s, i>>
    BY DEF AllFrames, FramesOf, Sides
  <2> QED BY <1>1, <2>1 DEF IsFrame
<1>3. ASSUME NEW f, IsFrame(f) PROVE f \in AllFrames
  <2>1. f[1] \in Sides /\ f[2] \in DOMAIN inputs[f[1]] /\ f = <<f[1], f[2]>>
    BY <1>1, <1>3 DEF IsFrame
  <2>2. f \in FramesOf(f[1])
    BY <2>1 DEF FramesOf
  <2> QED BY <2>1, <2>2 DEF AllFrames, Sides
<1>4. AllFrames \subseteq EpisodeFrames
  <2> SUFFICES ASSUME NEW f \in AllFrames PROVE f \in EpisodeFrames
    OBVIOUS
  <2>1. f[1] \in Sides /\ f[2] \in 1..Len(inputs[f[1]]) /\ f = <<f[1], f[2]>> /\ Len(inputs[f[1]]) <= MaxFrames /\ Len(inputs[f[1]]) \in Nat
    BY <1>1, <1>2 DEF IsFrame, InputTypes
  <2>2. f[2] \in 1..MaxFrames /\ Sides \X (1..MaxFrames) \subseteq EpisodeFrames
    BY <2>1, ReplayAssumption
  <2>3. f \in Sides \X (1..MaxFrames)
    BY <2>1, <2>2
  <2> QED BY <2>2, <2>3
<1>5. IsFiniteSet(AllFrames)
  BY <1>4, EngineAssumption, FS_Subset
<1> QED BY <1>1, <1>2, <1>3, <1>4, <1>5

LEMMA RunFacts ==
  ASSUME InputTypes, NEW e \in AllFrames, NEW f \in AllFrames, InRun(e, f)
  PROVE  /\ e[1] = f[1] /\ e[2] <= f[2] /\ e[2] \in Nat /\ f[2] \in Nat /\ e[2] >= 1
         /\ \A d \in AllFrames : InRun(d, f) => d = e
         /\ \A g \in AllFrames : g[1] = f[1] /\ f[2] <= g[2] /\ SameRun(f[1], f[2], g[2]) => InRun(e, g)
         /\ \A g \in AllFrames : g[1] = f[1] /\ e[2] <= g[2] /\ g[2] <= f[2] => InRun(e, g) /\ SameRun(f[1], g[2], f[2])
         /\ f # e => ~RunStart(f) /\ f[2] # 1
<1>1. e[1] = f[1] /\ e[2] <= f[2] /\ RunStart(e) /\ SameRun(f[1], e[2], f[2])
  BY DEF InRun
<1>2. \A g \in AllFrames : g[2] \in Nat /\ g[2] >= 1 /\ g = <<g[1], g[2]>>
  BY FrameFacts DEF IsFrame, InputTypes
<1>3. ASSUME NEW a \in AllFrames, NEW b \in AllFrames, a[1] = b[1], a[2] < b[2], SameRun(a[1], a[2], b[2]) PROVE ~RunStart(b)
  <2>1. b[2] \in (a[2] + 1)..b[2] /\ b[2] # 1
    BY <1>2, <1>3
  <2>2. inputs[a[1]][b[2]].segment = inputs[a[1]][b[2] - 1].segment
    BY <1>3, <2>1 DEF SameRun
  <2> QED BY <1>3, <2>1, <2>2 DEF RunStart, Content
<1>4. ASSUME NEW a \in AllFrames, NEW b \in AllFrames, a[1] = f[1], b[1] = f[1], a[2] < b[2], b[2] <= f[2], SameRun(f[1], a[2], f[2])
      PROVE  ~RunStart(b)
  <2>1. SameRun(a[1], a[2], b[2])
    BY <1>2, <1>4 DEF SameRun
  <2> QED BY <1>3, <1>4, <2>1
<1>5. ASSUME NEW d \in AllFrames, InRun(d, f) PROVE d = e
  <2>1. d[1] = f[1] /\ d[2] <= f[2] /\ RunStart(d) /\ SameRun(f[1], d[2], f[2])
    BY <1>5 DEF InRun
  <2>2. ~(d[2] < e[2]) /\ ~(e[2] < d[2])
    BY <1>1, <1>4, <2>1
  <2> QED BY <1>1, <1>2, <2>1, <2>2
<1>6. ASSUME NEW g \in AllFrames, g[1] = f[1], f[2] <= g[2], SameRun(f[1], f[2], g[2]) PROVE InRun(e, g)
  <2>1. SameRun(g[1], e[2], g[2])
    <3> SUFFICES ASSUME NEW k \in (e[2] + 1)..g[2] PROVE inputs[f[1]][k].segment = inputs[f[1]][k - 1].segment
      BY <1>6 DEF SameRun
    <3>1. k \in (e[2] + 1)..f[2] \/ k \in (f[2] + 1)..g[2]
      BY <1>2
    <3> QED BY <1>1, <1>6, <3>1 DEF SameRun
  <2> QED BY <1>1, <1>2, <1>6, <2>1 DEF InRun
<1>7. ASSUME NEW g \in AllFrames, g[1] = f[1], e[2] <= g[2], g[2] <= f[2] PROVE InRun(e, g) /\ SameRun(f[1], g[2], f[2])
  <2>1. SameRun(g[1], e[2], g[2]) /\ SameRun(f[1], g[2], f[2])
    BY <1>1, <1>2, <1>7 DEF SameRun
  <2> QED BY <1>1, <1>7, <2>1 DEF InRun
<1>8. ASSUME f # e PROVE ~RunStart(f) /\ f[2] # 1
  <2>1. e[2] < f[2]
    BY <1>1, <1>2, <1>8
  <2> QED BY <1>1, <1>2, <1>4, <2>1
<1> QED BY <1>1, <1>2, <1>5, <1>6, <1>7, <1>8

LEMMA StartsOwnRun ==
  ASSUME InputTypes, NEW f \in AllFrames, RunStart(f)
  PROVE  InRun(f, f)
<1>1. f[2] \in Nat
  BY FrameFacts DEF IsFrame, InputTypes
<1> QED BY <1>1 DEF InRun, SameRun

\* A frame that starts no run is in the run of the one before it.
LEMMA RunGoesOn ==
  ASSUME InputTypes, NEW f \in AllFrames, ~RunStart(f)
  PROVE  /\ Behind(f) \in AllFrames /\ Behind(f)[1] = f[1] /\ Behind(f)[2] = f[2] - 1 /\ f[2] \in Nat /\ f[2] > 1
         /\ \A e \in AllFrames : InRun(e, Behind(f)) => InRun(e, f)
<1>1. f[1] \in Sides /\ f[2] \in 1..Len(inputs[f[1]]) /\ Len(inputs[f[1]]) \in Nat
  BY FrameFacts DEF IsFrame
<1>2. f[2] # 1 /\ inputs[f[1]][f[2]].segment = inputs[f[1]][f[2] - 1].segment
  BY DEF RunStart, Content
<1>3. f[2] \in Nat /\ f[2] > 1 /\ f[2] - 1 \in 1..Len(inputs[f[1]])
  BY <1>1, <1>2
<1>4. Behind(f)[1] = f[1] /\ Behind(f)[2] = f[2] - 1 /\ Behind(f) = <<Behind(f)[1], Behind(f)[2]>>
  BY DEF Behind
<1>5. Behind(f) \in AllFrames
  BY <1>1, <1>3, <1>4, FrameFacts DEF IsFrame
<1>6. SameRun(f[1], f[2] - 1, f[2])
  <2>1. \A k \in ((f[2] - 1) + 1)..f[2] : k = f[2]
    BY <1>3
  <2> QED BY <1>2, <2>1 DEF SameRun
<1>7. ASSUME NEW e \in AllFrames, InRun(e, Behind(f)) PROVE InRun(e, f)
  <2> DEFINE b == Behind(f)
  <2>1. b \in AllFrames /\ f[1] = b[1] /\ b[2] <= f[2] /\ SameRun(b[1], b[2], f[2])
    BY <1>3, <1>4, <1>5, <1>6
  <2> HIDE DEF b
  <2> QED BY <1>7, <2>1, RunFacts DEF b
<1> QED BY <1>3, <1>4, <1>5, <1>7

(***************************************************************************)
(* EpisodeReplay: the candidates in hand                                   *)
(***************************************************************************)

\* A first candidate and the ones behind it.
Split(first, rest) ==
  /\ pending # <<>> /\ Head(pending) = first /\ Tail(pending) = rest
  /\ Range(pending) = Range(rest) \cup {first} /\ first \notin Range(rest)

LEMMA TupleSplits ==
  /\ \A a : pending = <<a>> => Split(a, <<>>) /\ Range(<<>>) = {}
  /\ \A a, b : pending = <<a, b>> /\ a # b => Split(a, <<b>>) /\ Range(<<b>>) = {b}
  /\ \A a, b, c : pending = <<a, b, c>> /\ a # b /\ a # c => Split(a, <<b, c>>) /\ Range(<<b, c>>) = {b, c}
<1>1. ASSUME NEW a, pending = <<a>> PROVE Split(a, <<>>) /\ Range(<<>>) = {}
  <2>1. Head(<<a>>) = a /\ Tail(<<a>>) = <<>> /\ <<a>> # <<>>
    OBVIOUS
  <2> QED BY <1>1, <2>1, ShortTuples DEF Split
<1>2. ASSUME NEW a, NEW b, pending = <<a, b>>, a # b PROVE Split(a, <<b>>) /\ Range(<<b>>) = {b}
  <2>1. Head(<<a, b>>) = a /\ Tail(<<a, b>>) = <<b>> /\ <<a, b>> # <<>>
    OBVIOUS
  <2>2. Range(<<a, b>>) = {a, b} /\ Range(<<b>>) = {b}
    BY ShortTuples
  <2> QED BY <1>2, <2>1, <2>2 DEF Split
<1>3. ASSUME NEW a, NEW b, NEW c, pending = <<a, b, c>>, a # b, a # c PROVE Split(a, <<b, c>>) /\ Range(<<b, c>>) = {b, c}
  <2>1. Head(<<a, b, c>>) = a /\ Tail(<<a, b, c>>) = <<b, c>> /\ <<a, b, c>> # <<>>
    OBVIOUS
  <2>2. Range(<<a, b, c>>) = {a, b, c} /\ Range(<<b, c>>) = {b, c}
    BY ShortTuples
  <2> QED BY <1>3, <2>1, <2>2 DEF Split
<1> QED BY <1>1, <1>2, <1>3

LEMMA CandidateFields ==
  /\ \A a : Candidate(a)[1] = a /\ Candidate(a)[2] = LastFrame /\ Candidate(a) = <<a, LastFrame>>
  /\ \A a, b : Candidate(a) = Candidate(b) => a = b
<1>1. \A a : Candidate(a)[1] = a /\ Candidate(a)[2] = LastFrame /\ Candidate(a) = <<a, LastFrame>>
  BY DEF Candidate
<1> QED BY <1>1

\* Behind a frame of the episode in hand.
GoingOn == LastFrame[2] # 1 /\ active = ownerOf[Behind(LastFrame)]

BirthNext == Split(Candidate("BIRTH"), <<>>) /\ active = NoFrame /\ RunStart(LastFrame)

GapNext ==
  /\ Split(Candidate("CENSOR_GAP"), <<Candidate("BIRTH")>>) /\ Range(<<Candidate("BIRTH")>>) = {Candidate("BIRTH")}
  /\ GoingOn /\ RunStart(LastFrame)

ContinueNext == Split(Candidate("CONTINUATION"), <<>>) /\ GoingOn /\ ~RunStart(LastFrame)

PhaseNext ==
  /\ Split(Candidate("PHASE_MUTATION"), <<Candidate("CONTINUATION")>>)
  /\ Range(<<Candidate("CONTINUATION")>>) = {Candidate("CONTINUATION")}
  /\ GoingOn /\ ~RunStart(LastFrame) /\ Changed(LastFrame)

ParentNext ==
  /\ GoingOn /\ ~RunStart(LastFrame) /\ Moved(LastFrame) /\ Content(LastFrame).available
  /\ \/ /\ Split(Candidate("RE_PARENT"), <<Candidate("CONTINUATION")>>)
        /\ Range(<<Candidate("CONTINUATION")>>) = {Candidate("CONTINUATION")}
     \/ /\ Split(Candidate("RE_PARENT"), <<Candidate("PHASE_MUTATION"), Candidate("CONTINUATION")>>)
        /\ Range(<<Candidate("PHASE_MUTATION"), Candidate("CONTINUATION")>>) = {Candidate("PHASE_MUTATION"), Candidate("CONTINUATION")}
        /\ Changed(LastFrame)

LEMMA PendingCases ==
  ASSUME Position, pending # <<>>
  PROVE  /\ side \in Sides /\ inputs[side] # <<>>
         /\ BirthNext \/ GapNext \/ ContinueNext \/ PhaseNext \/ ParentNext
         /\ \A c \in Range(pending) : c = Candidate(c[1])
<1> DEFINE B == Candidate("BIRTH")
           G == Candidate("CENSOR_GAP")
           C == Candidate("CONTINUATION")
           P == Candidate("PHASE_MUTATION")
           R == Candidate("RE_PARENT")
<1>1. G # B /\ P # C /\ R # P /\ R # C
  BY CandidateFields
<1>2. \A c \in {B, G, C, P, R} : c = Candidate(c[1])
  BY CandidateFields
<1> HIDE DEF B, G, C, P, R
<1>3. /\ side \in Sides /\ inputs[side] # <<>>
      /\ \/ pending = <<B>> /\ active = NoFrame /\ RunStart(LastFrame)
         \/ GoingOn /\ RunStart(LastFrame) /\ pending = <<G, B>>
         \/ GoingOn /\ ~RunStart(LastFrame) /\ pending = <<C>>
         \/ GoingOn /\ ~RunStart(LastFrame) /\ Changed(LastFrame) /\ pending = <<P, C>>
         \/ /\ GoingOn /\ ~RunStart(LastFrame) /\ Moved(LastFrame) /\ Content(LastFrame).available
            /\ pending = <<R, C>> \/ (Changed(LastFrame) /\ pending = <<R, P, C>>)
  BY DEF Position, GoingOn, B, G, C, P, R
<1>4. CASE pending = <<B>> /\ active = NoFrame /\ RunStart(LastFrame)
  <2>1. BirthNext
    BY <1>4, TupleSplits DEF BirthNext, B
  <2>2. Range(pending) = {B}
    BY <1>4, ShortTuples
  <2> QED BY <1>2, <1>3, <2>1, <2>2
<1>5. CASE GoingOn /\ RunStart(LastFrame) /\ pending = <<G, B>>
  <2>1. GapNext
    BY <1>1, <1>5, TupleSplits DEF GapNext, B, G
  <2>2. Range(pending) = {G, B}
    BY <1>5, ShortTuples
  <2> QED BY <1>2, <1>3, <2>1, <2>2
<1>6. CASE GoingOn /\ ~RunStart(LastFrame) /\ pending = <<C>>
  <2>1. ContinueNext
    BY <1>6, TupleSplits DEF ContinueNext, C
  <2>2. Range(pending) = {C}
    BY <1>6, ShortTuples
  <2> QED BY <1>2, <1>3, <2>1, <2>2
<1>7. CASE GoingOn /\ ~RunStart(LastFrame) /\ Changed(LastFrame) /\ pending = <<P, C>>
  <2>1. PhaseNext
    BY <1>1, <1>7, TupleSplits DEF PhaseNext, C, P
  <2>2. Range(pending) = {P, C}
    BY <1>7, ShortTuples
  <2> QED BY <1>2, <1>3, <2>1, <2>2
<1>8. CASE /\ GoingOn /\ ~RunStart(LastFrame) /\ Moved(LastFrame) /\ Content(LastFrame).available
           /\ pending = <<R, C>>
  <2>1. ParentNext
    BY <1>1, <1>8, TupleSplits DEF ParentNext, C, R
  <2>2. Range(pending) = {R, C}
    BY <1>8, ShortTuples
  <2> QED BY <1>2, <1>3, <2>1, <2>2
<1>9. CASE /\ GoingOn /\ ~RunStart(LastFrame) /\ Moved(LastFrame) /\ Content(LastFrame).available
           /\ Changed(LastFrame) /\ pending = <<R, P, C>>
  <2>1. ParentNext
    BY <1>1, <1>9, TupleSplits DEF ParentNext, C, P, R
  <2>2. Range(pending) = {R, P, C}
    BY <1>9, ShortTuples
  <2> QED BY <1>2, <1>3, <2>1, <2>2
<1> QED BY <1>3, <1>4, <1>5, <1>6, <1>7, <1>8, <1>9

LEMMA InputsKept ==
  ASSUME inputs' = inputs
  PROVE  /\ AllFrames' = AllFrames
         /\ \A e, f : InRun(e, f)' <=> InRun(e, f)
         /\ \A f : /\ RunStart(f)' <=> RunStart(f)
                   /\ Changed(f)' <=> Changed(f)
                   /\ Moved(f)' <=> Moved(f)
                   /\ Content(f)' = Content(f)
BY DEF AllFrames, FramesOf, InRun, RunStart, Content, SameRun, Changed, Moved

LEMMA LastFacts ==
  ASSUME InputTypes, side \in Sides, inputs[side] # <<>>
  PROVE  /\ LastFrame \in AllFrames /\ LastFrame \in EpisodeFrames
         /\ LastFrame[1] = side /\ LastFrame[2] = Len(inputs[side]) /\ LastFrame[2] \in Nat /\ LastFrame[2] >= 1
         /\ \A g \in AllFrames : g[1] = side => g[2] <= LastFrame[2] /\ (g[2] = LastFrame[2] => g = LastFrame)
         /\ LastFrame[2] # 1 => /\ Behind(LastFrame) \in AllFrames /\ Behind(LastFrame) # LastFrame
                                /\ Behind(LastFrame)[1] = side /\ Behind(LastFrame)[2] = LastFrame[2] - 1
<1>1. inputs[side] \in Seq(Inputs) /\ Len(inputs[side]) \in Nat
  BY FrameFacts
<1>2. Len(inputs[side]) # 0
  BY <1>1
<1>3. LastFrame[1] = side /\ LastFrame[2] = Len(inputs[side]) /\ LastFrame = <<LastFrame[1], LastFrame[2]>>
  BY DEF LastFrame
<1>4. LastFrame[2] \in Nat /\ LastFrame[2] >= 1 /\ LastFrame[2] \in 1..Len(inputs[side])
  BY <1>1, <1>2, <1>3
<1>5. LastFrame \in AllFrames
  BY <1>3, <1>4, FrameFacts DEF IsFrame
<1>6. ASSUME NEW g \in AllFrames, g[1] = side PROVE g[2] <= LastFrame[2] /\ (g[2] = LastFrame[2] => g = LastFrame)
  <2>1. g[2] \in 1..Len(inputs[side]) /\ g = <<g[1], g[2]>>
    BY <1>6, FrameFacts DEF IsFrame
  <2> QED BY <1>1, <1>3, <1>6, <2>1
<1>7. ASSUME LastFrame[2] # 1
      PROVE  /\ Behind(LastFrame) \in AllFrames /\ Behind(LastFrame) # LastFrame
             /\ Behind(LastFrame)[1] = side /\ Behind(LastFrame)[2] = LastFrame[2] - 1
  <2> DEFINE b == Behind(LastFrame)
  <2>1. b[1] = side /\ b[2] = LastFrame[2] - 1 /\ b = <<b[1], b[2]>>
    BY <1>3 DEF Behind
  <2> HIDE DEF b
  <2>2. b[2] \in 1..Len(inputs[side]) /\ b[2] # LastFrame[2]
    <3>1. \A k \in Nat : k >= 1 /\ k # 1 => k - 1 \in 1..k /\ k - 1 # k
      OBVIOUS
    <3> QED BY <1>3, <1>4, <1>7, <2>1, <3>1
  <2>3. b \in AllFrames
    BY <2>1, <2>2, FrameFacts DEF IsFrame
  <2> QED BY <2>1, <2>2, <2>3 DEF b
<1> QED BY <1>3, <1>4, <1>5, <1>6, <1>7, FrameFacts

LEMMA OwnersBorn ==
  ASSUME EngineCore, NEW f \in EpisodeFrames, ownerOf[f] # NoOwner
  PROVE  ownerOf[f] \in Genesis
<1>1. PICK r \in Records("MEMBER") : r.frame = f
  BY DEF EngineCore, MapsRecorded
<1> QED BY <1>1 DEF EngineCore, RecordSound, Records

\* The frame in hand, and the episode it goes on with.
LEMMA InHand ==
  ASSUME ReplayIInv, pending # <<>>
  PROVE  /\ LastFrame \in AllFrames /\ LastFrame \in EpisodeFrames /\ Applied = AllFrames \ {LastFrame}
         /\ ownerOf[LastFrame] = NoOwner /\ LastFrame \notin Genesis
         /\ GoingOn => /\ active \in Genesis /\ active \in Applied /\ Open(active) /\ active # NoFrame
                       /\ active \in EpisodeFrames /\ active # LastFrame
                       /\ Behind(LastFrame) \in Applied /\ InRun(active, Behind(LastFrame))
                       /\ ~RunStart(LastFrame) => InRun(active, LastFrame)
<1>1. InputTypes /\ EngineCore
  BY DEF ReplayIInv, InputTypes, ReplayTypeOK
<1>2. side \in Sides /\ inputs[side] # <<>>
  BY PendingCases DEF ReplayIInv
<1>3. LastFrame \in AllFrames /\ LastFrame \in EpisodeFrames /\ AllFrames \subseteq EpisodeFrames
  BY <1>1, <1>2, LastFacts, FrameFacts
<1>4. {c[2] : c \in Range(pending)} = {LastFrame}
  <2>1. \A c \in Range(pending) : c[2] = LastFrame
    BY PendingCases, CandidateFields DEF ReplayIInv
  <2>2. \E c \in Range(pending) : TRUE
    <3>1. BirthNext \/ GapNext \/ ContinueNext \/ PhaseNext \/ ParentNext
      BY PendingCases DEF ReplayIInv
    <3> QED BY <3>1 DEF BirthNext, GapNext, ContinueNext, PhaseNext, ParentNext, Split
  <2> QED BY <2>1, <2>2
<1>5. Applied = AllFrames \ {LastFrame}
  BY <1>4 DEF Applied
<1>6. ownerOf[LastFrame] = NoOwner
  BY <1>3, <1>5 DEF ReplayIInv, Owned
<1>7. LastFrame \notin Genesis
  BY <1>1, <1>3, <1>6, EngineAssumption DEF EngineCore, MapsRecorded
<1>8. ASSUME GoingOn
      PROVE  /\ active \in Genesis /\ active \in Applied /\ Open(active) /\ active # NoFrame
             /\ active \in EpisodeFrames /\ active # LastFrame
             /\ Behind(LastFrame) \in Applied /\ InRun(active, Behind(LastFrame))
             /\ ~RunStart(LastFrame) => InRun(active, LastFrame)
  <2>1. Behind(LastFrame) \in AllFrames /\ Behind(LastFrame) # LastFrame /\ active = ownerOf[Behind(LastFrame)]
    BY <1>1, <1>2, <1>8, LastFacts DEF GoingOn
  <2>2. Behind(LastFrame) \in Applied
    BY <1>5, <2>1
  <2>3. active \in Applied /\ InRun(active, Behind(LastFrame))
    BY <2>1, <2>2 DEF ReplayIInv, Owned
  <2>4. active \in AllFrames /\ active # LastFrame /\ active \in EpisodeFrames
    BY <1>3, <1>5, <2>3
  <2>5. active # NoOwner /\ active # NoFrame
    BY <2>4, EngineAssumption, ReplayAssumption
  <2>6. active \in Genesis
    BY <1>1, <1>3, <2>1, <2>5, OwnersBorn
  <2>7. Open(active)
    BY <2>6 DEF ReplayIInv, OnlyActiveOpen
  <2>8. ~RunStart(LastFrame) => InRun(active, LastFrame)
    BY <1>1, <1>3, <2>3, <2>4, RunGoesOn
  <2> QED BY <2>2, <2>3, <2>4, <2>5, <2>6, <2>7, <2>8
<1> QED BY <1>3, <1>5, <1>6, <1>7, <1>8

\* The event of a candidate in hand is not in the stream.
LEMMA PendingUnheld ==
  ASSUME EventsApplied, NEW c \in Range(pending), NEW a, NEW es
  PROVE  BoundaryEvent(a, es, c) \notin Range(semantic)
<1>1. BoundaryEvent(a, es, c).kind = "EVENT" /\ BoundaryEvent(a, es, c).candidate = c
  BY RecordFields
<1> QED BY <1>1 DEF EventsApplied, Records

LEMMA PhasesKept ==
  ASSUME PhasesSound, inputs' = inputs, Records("PHASE")' = Records("PHASE"),
         \A g : <<"PHASE_MUTATION", g>> \in Range(pending)' <=> <<"PHASE_MUTATION", g>> \in Range(pending),
         \A e \in Genesis' : e \in Genesis \/ (PhasesOf(e) = {} /\ PhaseEnds(e) = {} /\ phaseFrom'[e] = e),
         \A e \in Genesis : e = active' => e = active /\ phaseFrom'[e] = phaseFrom[e]
  PROVE  PhasesSound'
<1>1. \A e : PhasesOf(e)' = PhasesOf(e)
  BY DEF PhasesOf
<1>2. \A e : PhaseEnds(e)' = PhaseEnds(e)
  BY InputsKept DEF PhaseEnds
<1> SUFFICES ASSUME NEW e \in Genesis'
             PROVE  /\ {p[2] : p \in PhasesOf(e)} = PhaseEnds(e)
                    /\ \A p \in PhasesOf(e) : /\ p = <<p[1], p[2]>>
                                              /\ p[1] \in PhaseEnds(e) \cup {e} /\ p[1][2] < p[2][2]
                    /\ \A p, q \in PhasesOf(e) : p[1] = q[1] => p = q
                    /\ PhasesOf(e) # {} => \E p \in PhasesOf(e) : p[1] = e
                    /\ e = active' => /\ phaseFrom'[e] \in PhaseEnds(e) \cup {e}
                                      /\ \A p \in PhasesOf(e) : p[1] # phaseFrom'[e]
                                      /\ PhasesOf(e) = {} => phaseFrom'[e] = e
  BY <1>1, <1>2 DEF PhasesSound
<1>3. CASE e \in Genesis
  BY <1>3 DEF PhasesSound
<1>4. CASE e \notin Genesis
  <2>1. PhasesOf(e) = {} /\ PhaseEnds(e) = {} /\ phaseFrom'[e] = e
    BY <1>4
  <2> QED BY <2>1
<1> QED BY <1>3, <1>4

LEMMA ToldKept ==
  ASSUME ParentsTold, inputs' = inputs,
         \A e, g : ReParentEvent(e, g) \in Range(semantic)' <=> ReParentEvent(e, g) \in Range(semantic),
         \A g : <<"RE_PARENT", g>> \in Range(pending)' <=> <<"RE_PARENT", g>> \in Range(pending),
         \A e \in Genesis' : e \in Genesis \/ \A g \in AllFrames :
            ReParentEvent(e, g) \notin Range(semantic) /\ ~(InRun(e, g) /\ g # e)
  PROVE  ParentsTold'
<1>1. AllFrames' = AllFrames
  BY InputsKept
<1>2. ASSUME NEW e, NEW g PROVE ParentMoves(e, g)' <=> ParentMoves(e, g)
  <2>1. (InRun(e, g)' <=> InRun(e, g)) /\ (Moved(g)' <=> Moved(g)) /\ Content(g)' = Content(g)
    BY InputsKept
  <2> QED BY <2>1 DEF ParentMoves
<1>3. ASSUME NEW e \in Genesis', NEW g \in AllFrames PROVE ReParentEvent(e, g) \in Range(semantic) <=> ParentMoves(e, g)
  <2>1. CASE e \in Genesis
    BY <2>1 DEF ParentsTold
  <2>2. CASE e \notin Genesis
    BY <2>2 DEF ParentMoves
  <2> QED BY <2>1, <2>2
<1> QED BY <1>1, <1>2, <1>3 DEF ParentsTold

LEMMA RecordsGrow ==
  ASSUME NEW new, Grown(semantic, new, semantic')
  PROVE  \A k : Records(k)' = Records(k) \cup {r \in Range(new) : r.kind = k}
<1>1. Range(semantic)' = Range(semantic) \cup Range(new)
  BY DEF Grown
<1> QED BY <1>1 DEF Records

LEMMA EventsKept ==
  ASSUME EventsApplied, inputs' = inputs, side' = side, \A c \in Range(pending)' : c \in Range(pending),
         NEW a, a # "CENSOR_RELEASE_END", NEW es, NEW f \in AllFrames,
         Records("EVENT")' = Records("EVENT") \cup {BoundaryEvent(a, es, <<a, f>>)},
         <<a, f>> \notin Range(pending)'
  PROVE  EventsApplied'
<1> DEFINE event == BoundaryEvent(a, es, <<a, f>>)
           c == <<a, f>>
<1>1. event.action = a /\ event.candidate = c
  BY RecordFields
<1>2. c = <<a, c[2]>> /\ c[2] = f
  OBVIOUS
<1> HIDE DEF event, c
<1>3. AllFrames' = AllFrames
  BY InputsKept
<1>4. ASSUME NEW r \in Records("EVENT")'
      PROVE  /\ r.candidate = <<r.action, r.candidate[2]>>
             /\ r.candidate[2] \in AllFrames' /\ r.candidate \notin Range(pending)'
             /\ r.action = "CENSOR_RELEASE_END" => r.candidate[2][1] # side'
  <2>1. CASE r = event
    BY <1>1, <1>2, <1>3, <2>1 DEF c
  <2>2. CASE r \in Records("EVENT")
    BY <1>3, <2>2 DEF EventsApplied
  <2> QED BY <2>1, <2>2 DEF event
<1> QED BY <1>4 DEF EventsApplied

\* A turn of the loop leaves the inputs, the side and what was blocked alone.
LEMMA Reassemble ==
  ASSUME ReplayIInv, inputs' = inputs, side' = side, blocked' = blocked,
         outcome = "RUNNING", outcome' = "RUNNING", calls' = calls, halfDone' = halfDone,
         EngineCore', NothingHalfDone', active' \in EpisodeFrames \cup {NoFrame},
         phaseFrom' \in [EpisodeFrames -> EpisodeFrames \cup {NoFrame}],
         Position', Owned', OnlyActiveOpen', EventsApplied', MembersOnce', PhasesSound', ParentsTold',
         Records("SNAPSHOT")' = Records("SNAPSHOT")
  PROVE  ReplayIInv'
<1>1. ReplayTypeOK'
  BY DEF ReplayIInv, ReplayTypeOK
<1>2. SidesInTurn' /\ calls' = 0 /\ halfDone' = FALSE /\ \A s \in Sides : Len(inputs'[s]) <= MaxFrames
  BY DEF ReplayIInv, SidesInTurn
<1>3. ParentsBlocked'
  <2> DEFINE Held == {h \in AllFrames : ~RunStart(h) /\ Moved(h) /\ ~Content(h).available}
  <2>1. Held' = Held
    BY InputsKept
  <2>2. blocked = {<<"RE_PARENT", g>> : g \in Held}
    BY DEF ReplayIInv, ParentsBlocked
  <2>3. blocked' = {<<"RE_PARENT", g>> : g \in Held'}
    <3> HIDE DEF Held
    <3> QED BY <2>1, <2>2
  <2> QED BY <2>3 DEF ParentsBlocked
<1>4. SnapshotsTaken'
  BY DEF ReplayIInv, SnapshotsTaken
<1> QED BY <1>1, <1>2, <1>3, <1>4 DEF ReplayIInv

LEMMA BirthStep ==
  ASSUME ReplayIInv, outcome = "RUNNING", BirthNext, BeginEpisode(LastFrame, Candidate("BIRTH")),
         pending' = <<>>, inputs' = inputs, side' = side, blocked' = blocked, calls' = calls, halfDone' = halfDone
  PROVE  ReplayIInv'
<1> DEFINE f == LastFrame
           c == Candidate("BIRTH")
           event == BoundaryEvent("BIRTH", {f}, c)
           new == <<GenesisRecord(f), event, MembershipDelta(f, f, event)>>
<1>0. /\ EngineCore /\ NothingHalfDone /\ InputTypes /\ Position /\ Owned /\ OnlyActiveOpen /\ EventsApplied
      /\ MembersOnce /\ PhasesSound /\ ParentsTold
      /\ phaseFrom \in [EpisodeFrames -> EpisodeFrames \cup {NoFrame}]
  BY DEF ReplayIInv, ReplayTypeOK, InputTypes
<1>1. /\ Birth(f, c) /\ active' = f /\ phaseFrom' = [phaseFrom EXCEPT ![f] = f] /\ outcome' = outcome
      /\ Extend(new) /\ edges' = edges
      /\ statusOf' = [statusOf EXCEPT ![f] = "OPEN"] /\ ownerOf' = [ownerOf EXCEPT ![f] = f]
  BY DEF BeginEpisode, Birth
<1>2. /\ pending # <<>> /\ Range(pending) = {c} /\ Range(pending)' = {} /\ active = NoFrame /\ RunStart(f)
  BY ShortTuples DEF BirthNext, Split
<1>3. side \in Sides /\ inputs[side] # <<>>
  BY <1>0, <1>2, PendingCases
<1>4. f \in AllFrames /\ f \in EpisodeFrames /\ Applied = AllFrames \ {f} /\ ownerOf[f] = NoOwner /\ f \notin Genesis
  BY <1>2, InHand
<1>5. \A g \in AllFrames : InRun(f, g) => g = f
  <2> SUFFICES ASSUME NEW g \in AllFrames, InRun(f, g) PROVE g = f
    OBVIOUS
  <2>1. f[1] = g[1] /\ f[2] <= g[2] /\ f[2] \in Nat /\ g[2] \in Nat
    BY <1>0, <1>4, RunFacts
  <2>2. f[1] = side /\ (g[1] = side => g[2] <= f[2] /\ (g[2] = f[2] => g = f))
    BY <1>0, <1>3, LastFacts
  <2> HIDE DEF f
  <2> QED BY <2>1, <2>2
<1>6. c = <<"BIRTH", f>> /\ LastFrame' = f
  BY <1>1 DEF Candidate, LastFrame
<1> HIDE DEF f
<1>7. EngineCore' /\ Genesis' = Genesis \cup {f}
  BY <1>0, <1>1, <1>4, BirthCore
<1>8. NothingHalfDone'
  <2>1. PhasesFollow'
    BY <1>0, <1>1, <1>4, BirthFollows DEF NothingHalfDone
  <2> QED BY <1>0, <1>1, <2>1 DEF NothingHalfDone
<1> DEFINE m == MembershipDelta(f, f, event)
<1>9. /\ Range(new) = {GenesisRecord(f), event, m} /\ new \in Seq(Range(new))
      /\ event.kind = "EVENT" /\ event.action = "BIRTH" /\ GenesisRecord(f).kind = "GENESIS" /\ m.kind = "MEMBER" /\ m.frame = f
  <2>1. Range(new) = {GenesisRecord(f), event, m} /\ new \in Seq(Range(new))
    BY ShortTuples
  <2>2. event.kind = "EVENT" /\ event.action = "BIRTH" /\ GenesisRecord(f).kind = "GENESIS" /\ m.kind = "MEMBER" /\ m.frame = f
    BY RecordFields
  <2> QED BY <2>1, <2>2
<1>10. Grown(semantic, new, semantic')
  BY <1>0, <1>1, <1>9, StreamGrows DEF EngineCore
<1>11. \A k : Records(k)' = Records(k) \cup {r \in Range(new) : r.kind = k}
  BY <1>10, RecordsGrow
<1>12. Range(semantic)' = Range(semantic) \cup Range(new)
  BY <1>10 DEF Grown
<1> HIDE DEF event, new, m
<1>13. /\ Records("EVENT")' = Records("EVENT") \cup {event} /\ Records("MEMBER")' = Records("MEMBER") \cup {m}
       /\ Records("PHASE")' = Records("PHASE") /\ Records("SNAPSHOT")' = Records("SNAPSHOT")
  BY <1>9, <1>11
<1>14. \A e, g : ReParentEvent(e, g) \in Range(semantic)' <=> ReParentEvent(e, g) \in Range(semantic)
  <2>1. \A e, g : ReParentEvent(e, g).kind = "EVENT" /\ ReParentEvent(e, g).action = "RE_PARENT"
    BY RecordFields DEF ReParentEvent
  <2> QED BY <1>9, <1>12, <2>1
<1>15. /\ \A h \in EpisodeFrames : ownerOf'[h] = IF h = f THEN f ELSE ownerOf[h]
       /\ \A h \in EpisodeFrames : statusOf'[h] = IF h = f THEN "OPEN" ELSE statusOf[h]
       /\ phaseFrom' \in [EpisodeFrames -> EpisodeFrames \cup {NoFrame}] /\ phaseFrom'[f] = f
  BY <1>0, <1>1, <1>4 DEF EngineCore, EngineTypes
<1>16. Applied' = AllFrames /\ AllFrames' = AllFrames /\ AllFrames \subseteq EpisodeFrames
  BY <1>0, <1>2, InputsKept, FrameFacts DEF Applied
<1>17. Position'
  BY <1>1, <1>3, <1>4, <1>6, <1>15 DEF Position
<1>18. Owned'
  <2>1. ASSUME NEW h \in AllFrames PROVE ownerOf'[h] \in AllFrames /\ InRun(ownerOf'[h], h)
    <3>1. CASE h = f
      BY <1>0, <1>2, <1>4, <1>15, <3>1, StartsOwnRun DEF f
    <3>2. CASE h # f
      BY <1>0, <1>4, <1>15, <1>16, <3>2 DEF Owned
    <3> QED BY <3>1, <3>2
  <2>2. ASSUME NEW h \in EpisodeFrames \ AllFrames PROVE ownerOf'[h] = NoOwner
    BY <1>0, <1>4, <1>15 DEF Owned
  <2>3. \A e, h : InRun(e, h)' <=> InRun(e, h)
    BY InputsKept
  <2> QED BY <1>16, <2>1, <2>2, <2>3 DEF Owned
<1>19. OnlyActiveOpen'
  <2> SUFFICES ASSUME NEW e \in Genesis' PROVE IF e = f THEN Open(e)' ELSE statusOf'[e] = "CENSORED"
    BY <1>1 DEF OnlyActiveOpen
  <2>1. CASE e = f
    BY <1>4, <1>15, <2>1 DEF Open
  <2>2. CASE e # f
    <3>1. e \in Genesis /\ e \in EpisodeFrames /\ e # active
      BY <1>2, <1>7, <2>2, ReplayAssumption DEF Genesis
    <3> QED BY <1>0, <1>15, <2>2, <3>1 DEF OnlyActiveOpen
  <2> QED BY <2>1, <2>2
<1>20. EventsApplied'
  <2>1. Records("EVENT")' = Records("EVENT") \cup {BoundaryEvent("BIRTH", {f}, <<"BIRTH", f>>)}
    BY <1>6, <1>13 DEF event
  <2> QED BY <1>0, <1>2, <1>4, <2>1, EventsKept
<1>21. MembersOnce'
  <2>1. \A r \in Records("MEMBER") : r.frame # f
    BY <1>0, <1>4, EngineAssumption DEF EngineCore, RecordSound, Records, Genesis
  <2> QED BY <1>0, <1>9, <1>13, <2>1 DEF MembersOnce
<1>22. PhasesSound'
  <2>1. \A g : <<"PHASE_MUTATION", g>> \notin Range(pending)
    BY <1>2, <1>6
  <2>2. PhasesOf(f) = {}
    BY <1>0, <1>4 DEF PhasesOf, Records, EngineCore, RecordSound
  <2>3. PhaseEnds(f) = {}
    BY <1>5 DEF PhaseEnds
  <2> QED BY <1>0, <1>1, <1>2, <1>4, <1>7, <1>13, <1>15, <2>1, <2>2, <2>3, PhasesKept
<1>23. ParentsTold'
  <2>1. \A g : <<"RE_PARENT", g>> \notin Range(pending)
    BY <1>2, <1>6
  <2>2. \A g : ReParentEvent(f, g) \notin Range(semantic)
    <3>1. \A g : ReParentEvent(f, g).kind = "EVENT" /\ ReParentEvent(f, g).episodes = {f}
      BY RecordFields DEF ReParentEvent
    <3> QED BY <1>0, <1>4, <3>1, EventsOfGenesis
  <2> QED BY <1>0, <1>2, <1>5, <1>7, <1>14, <2>1, <2>2, ToldKept
<1> QED BY <1>1, <1>4, <1>7, <1>8, <1>13, <1>15, <1>17, <1>18, <1>19, <1>20, <1>21, <1>22, <1>23, Reassemble

\* An event alone, of the episode in hand: what it leaves as it was.
LEMMA EventAlone ==
  ASSUME EngineCore, NEW a, NEW e, NEW c, Extend(<<BoundaryEvent(a, {e}, c)>>)
  PROVE  /\ Records("EVENT")' = Records("EVENT") \cup {BoundaryEvent(a, {e}, c)}
         /\ Records("MEMBER")' = Records("MEMBER") /\ Records("PHASE")' = Records("PHASE")
         /\ Records("SNAPSHOT")' = Records("SNAPSHOT")
         /\ Range(semantic)' = Range(semantic) \cup {BoundaryEvent(a, {e}, c)}
<1> DEFINE event == BoundaryEvent(a, {e}, c)
           new == <<event>>
<1>1. event.kind = "EVENT"
  BY RecordFields
<1>2. Extend(new)
  OBVIOUS
<1> HIDE DEF event
<1>3. Range(new) = {event} /\ new \in Seq(Range(new))
  BY ShortTuples
<1>4. Grown(semantic, new, semantic')
  BY <1>2, <1>3, StreamGrows DEF EngineCore
<1>5. \A k : Records(k)' = Records(k) \cup {r \in Range(new) : r.kind = k}
  BY <1>4, RecordsGrow
<1>6. Range(semantic)' = Range(semantic) \cup Range(new)
  BY <1>4 DEF Grown
<1> HIDE DEF new
<1> QED BY <1>1, <1>3, <1>5, <1>6 DEF event

\* The maps as they were: only the frame in hand is still without an owner.
LEMMA OwnedKept ==
  ASSUME Owned, inputs' = inputs, Applied' = Applied, ownerOf' = ownerOf
  PROVE  Owned'
<1>1. \A e, h : InRun(e, h)' <=> InRun(e, h)
  BY InputsKept
<1> QED BY <1>1 DEF Owned

LEMMA GapStep ==
  ASSUME ReplayIInv, outcome = "RUNNING", GapNext, CensorGap(Candidate("CENSOR_GAP")),
         pending' = <<Candidate("BIRTH")>>, inputs' = inputs, side' = side, blocked' = blocked, calls' = calls, halfDone' = halfDone
  PROVE  ReplayIInv'
<1> DEFINE f == LastFrame
           c == Candidate("CENSOR_GAP")
           b == Candidate("BIRTH")
           e == active
           event == BoundaryEvent("CENSOR_GAP", {e}, c)
<1>0. /\ EngineCore /\ NothingHalfDone /\ InputTypes /\ Position /\ Owned /\ OnlyActiveOpen /\ EventsApplied
      /\ MembersOnce /\ PhasesSound /\ ParentsTold
      /\ phaseFrom \in [EpisodeFrames -> EpisodeFrames \cup {NoFrame}]
  BY DEF ReplayIInv, ReplayTypeOK, InputTypes
<1>1. /\ Finish(e, "CENSOR_GAP", c) /\ active' = NoFrame /\ phaseFrom' = phaseFrom /\ outcome' = outcome
      /\ Extend(<<event>>) /\ edges' = edges /\ ownerOf' = ownerOf
      /\ statusOf' = [statusOf EXCEPT ![e] = "CENSORED"]
  BY EndingFacts DEF CensorGap, Finish
<1>2. pending # <<>> /\ Range(pending) = {c, b} /\ Range(pending)' = {b} /\ GoingOn /\ RunStart(f)
  <2>1. Range(<<b>>) = {b}
    BY ShortTuples
  <2> QED BY <2>1 DEF GapNext, Split
<1>3. side \in Sides /\ inputs[side] # <<>>
  BY <1>0, <1>2, PendingCases
<1>4. f \in AllFrames /\ f \in EpisodeFrames /\ Applied = AllFrames \ {f} /\ e \in Genesis /\ e \in EpisodeFrames
  BY <1>2, InHand
<1>5. c = <<"CENSOR_GAP", f>> /\ b = <<"BIRTH", f>> /\ b[2] = f /\ b' = b
  BY DEF Candidate, LastFrame
<1>6. EngineCore' /\ Genesis' = Genesis
  <2>1. "CENSOR_GAP" \in DOMAIN Endings
    BY EndingFacts
  <2> QED BY <1>0, <1>1, <1>4, <2>1, FinishCore
<1>7. NothingHalfDone'
  <2>1. PhasesFollow'
    BY <1>0, <1>1, EventFollows DEF NothingHalfDone
  <2> QED BY <1>0, <1>1, <2>1 DEF NothingHalfDone
<1>8. /\ Records("EVENT")' = Records("EVENT") \cup {event} /\ Records("MEMBER")' = Records("MEMBER")
      /\ Records("PHASE")' = Records("PHASE") /\ Records("SNAPSHOT")' = Records("SNAPSHOT")
      /\ Range(semantic)' = Range(semantic) \cup {event}
  BY <1>0, <1>1, EventAlone
<1>9. \A d, g : ReParentEvent(d, g) \in Range(semantic)' <=> ReParentEvent(d, g) \in Range(semantic)
  <2>1. \A d, g : ReParentEvent(d, g).action = "RE_PARENT" /\ event.action = "CENSOR_GAP"
    BY RecordFields DEF ReParentEvent
  <2> QED BY <1>8, <2>1
<1> HIDE DEF event, b, c, f
<1>10. \A d \in EpisodeFrames : statusOf'[d] = IF d = e THEN "CENSORED" ELSE statusOf[d]
  BY <1>0, <1>1, <1>4 DEF EngineCore, EngineTypes
<1>11. Applied' = Applied
  <2>1. {d[2] : d \in Range(pending)'} = {f} /\ {d[2] : d \in Range(pending)} = {f}
    BY <1>2, <1>5
  <2> QED BY <2>1, InputsKept DEF Applied
<1>12. Position'
  <2>1. LastFrame' = LastFrame
    BY DEF LastFrame
  <2>2. RunStart(LastFrame)'
    BY <1>2, <2>1, InputsKept DEF f
  <2>3. pending' = <<Candidate("BIRTH")>>'
    BY <1>5 DEF b
  <2> QED BY <1>1, <1>3, <2>2, <2>3 DEF Position
<1>13. Owned'
  BY <1>0, <1>1, <1>11, OwnedKept
<1>14. OnlyActiveOpen'
  <2> SUFFICES ASSUME NEW d \in Genesis PROVE statusOf'[d] = "CENSORED" /\ d # active'
    BY <1>6 DEF OnlyActiveOpen
  <2>1. d \in EpisodeFrames /\ d # NoFrame
    BY ReplayAssumption DEF Genesis
  <2> QED BY <1>0, <1>1, <1>10, <2>1 DEF OnlyActiveOpen
<1>15. EventsApplied'
  <2>1. Records("EVENT")' = Records("EVENT") \cup {BoundaryEvent("CENSOR_GAP", {e}, <<"CENSOR_GAP", f>>)}
    BY <1>5, <1>8 DEF event
  <2>2. <<"CENSOR_GAP", f>> \notin Range(pending)'
    BY <1>2, <1>5
  <2> QED BY <1>0, <1>2, <1>4, <2>1, <2>2, EventsKept
<1>16. MembersOnce'
  BY <1>0, <1>8 DEF MembersOnce
<1>17. PhasesSound'
  <2>1. \A g : <<"PHASE_MUTATION", g>> \notin Range(pending) /\ <<"PHASE_MUTATION", g>> \notin Range(pending)'
    BY <1>2, <1>5
  <2>2. \A d \in Genesis : d # active'
    BY <1>1, ReplayAssumption DEF Genesis
  <2> QED BY <1>0, <1>6, <1>8, <2>1, <2>2, PhasesKept
<1>18. ParentsTold'
  <2>1. \A g : <<"RE_PARENT", g>> \notin Range(pending) /\ <<"RE_PARENT", g>> \notin Range(pending)'
    BY <1>2, <1>5
  <2> QED BY <1>0, <1>6, <1>9, <2>1, ToldKept
<1> QED BY <1>0, <1>1, <1>6, <1>7, <1>8, <1>12, <1>13, <1>14, <1>15, <1>16, <1>17, <1>18, Reassemble

LEMMA GenesisApplied ==
  ASSUME ReplayIInv
  PROVE  Genesis \subseteq Applied /\ Applied \subseteq AllFrames /\ Genesis \subseteq EpisodeFrames
<1>1. ASSUME NEW e \in Genesis PROVE e \in Applied
  <2>1. e \in EpisodeFrames /\ ownerOf[e] = e /\ e # NoOwner
    BY EngineAssumption DEF ReplayIInv, EngineCore, MapsRecorded, Genesis
  <2> QED BY <2>1 DEF ReplayIInv, Owned
<1> QED BY <1>1 DEF Applied, Genesis

LEMMA ContinueStep ==
  ASSUME ReplayIInv, outcome = "RUNNING", ContinueNext, Continue(LastFrame, Candidate("CONTINUATION")),
         pending' = <<>>, inputs' = inputs, side' = side, blocked' = blocked, calls' = calls, halfDone' = halfDone
  PROVE  ReplayIInv'
<1> DEFINE f == LastFrame
           c == Candidate("CONTINUATION")
           e == active
           event == BoundaryEvent("CONTINUATION", {e}, c)
           m == MembershipDelta(e, f, event)
           new == <<event, m>>
<1>0. /\ EngineCore /\ NothingHalfDone /\ InputTypes /\ Position /\ Owned /\ OnlyActiveOpen /\ EventsApplied
      /\ MembersOnce /\ PhasesSound /\ ParentsTold
      /\ phaseFrom \in [EpisodeFrames -> EpisodeFrames \cup {NoFrame}]
  BY DEF ReplayIInv, ReplayTypeOK, InputTypes
<1>1. /\ ContinueEpisode(e, f, c) /\ active' = e /\ phaseFrom' = phaseFrom /\ outcome' = outcome
      /\ Extend(new) /\ edges' = edges /\ statusOf' = statusOf
      /\ ownerOf' = [ownerOf EXCEPT ![f] = e]
  BY DEF Continue, ContinueEpisode
<1>2. pending # <<>> /\ Range(pending) = {c} /\ Range(pending)' = {} /\ GoingOn /\ ~RunStart(f)
  BY ShortTuples DEF ContinueNext, Split
<1>3. side \in Sides /\ inputs[side] # <<>>
  BY <1>0, <1>2, PendingCases
<1>4. /\ f \in AllFrames /\ f \in EpisodeFrames /\ Applied = AllFrames \ {f} /\ ownerOf[f] = NoOwner
      /\ e \in Genesis /\ e \in EpisodeFrames /\ e \in Applied /\ InRun(e, f)
  BY <1>2, InHand
<1>5. c = <<"CONTINUATION", f>> /\ LastFrame' = f
  BY DEF Candidate, LastFrame
<1> HIDE DEF f
<1>6. EngineCore' /\ Genesis' = Genesis
  BY <1>0, <1>1, <1>4, ContinueCore
<1>7. NothingHalfDone'
  <2>1. PhasesFollow'
    BY <1>0, <1>1, ContinueFollows DEF NothingHalfDone
  <2> QED BY <1>0, <1>1, <2>1 DEF NothingHalfDone
<1>8. event.kind = "EVENT" /\ event.action = "CONTINUATION" /\ m.kind = "MEMBER" /\ m.frame = f
  BY RecordFields
<1>9. Range(new) = {event, m} /\ new \in Seq(Range(new))
  BY ShortTuples
<1>10. Grown(semantic, new, semantic')
  BY <1>0, <1>1, <1>9, StreamGrows DEF EngineCore
<1>11. \A k : Records(k)' = Records(k) \cup {r \in Range(new) : r.kind = k}
  BY <1>10, RecordsGrow
<1>12. Range(semantic)' = Range(semantic) \cup Range(new)
  BY <1>10 DEF Grown
<1> HIDE DEF event, new, m
<1>13. /\ Records("EVENT")' = Records("EVENT") \cup {event} /\ Records("MEMBER")' = Records("MEMBER") \cup {m}
       /\ Records("PHASE")' = Records("PHASE") /\ Records("SNAPSHOT")' = Records("SNAPSHOT")
  BY <1>8, <1>9, <1>11
<1>14. \A d, g : ReParentEvent(d, g) \in Range(semantic)' <=> ReParentEvent(d, g) \in Range(semantic)
  <2>1. \A d, g : ReParentEvent(d, g).kind = "EVENT" /\ ReParentEvent(d, g).action = "RE_PARENT"
    BY RecordFields DEF ReParentEvent
  <2> QED BY <1>8, <1>9, <1>12, <2>1
<1>15. \A h \in EpisodeFrames : ownerOf'[h] = IF h = f THEN e ELSE ownerOf[h]
  BY <1>0, <1>1, <1>4 DEF EngineCore, EngineTypes
<1>16. Applied' = AllFrames /\ AllFrames' = AllFrames /\ AllFrames \subseteq EpisodeFrames
  BY <1>0, <1>2, InputsKept, FrameFacts DEF Applied
<1>17. Position'
  BY <1>1, <1>3, <1>4, <1>5, <1>15 DEF Position
<1>18. Owned'
  <2>1. ASSUME NEW h \in AllFrames PROVE ownerOf'[h] \in AllFrames /\ InRun(ownerOf'[h], h)
    <3>1. CASE h = f
      BY <1>4, <1>15, <3>1
    <3>2. CASE h # f
      BY <1>0, <1>4, <1>15, <1>16, <3>2 DEF Owned
    <3> QED BY <3>1, <3>2
  <2>2. ASSUME NEW h \in EpisodeFrames \ AllFrames PROVE ownerOf'[h] = NoOwner
    BY <1>0, <1>4, <1>15 DEF Owned
  <2>3. \A d, h : InRun(d, h)' <=> InRun(d, h)
    BY InputsKept
  <2> QED BY <1>16, <2>1, <2>2, <2>3 DEF Owned
<1>19. OnlyActiveOpen'
  BY <1>0, <1>1, <1>6 DEF OnlyActiveOpen, Open
<1>20. EventsApplied'
  <2>1. Records("EVENT")' = Records("EVENT") \cup {BoundaryEvent("CONTINUATION", {e}, <<"CONTINUATION", f>>)}
    BY <1>5, <1>13 DEF event
  <2> QED BY <1>0, <1>2, <1>4, <2>1, EventsKept
<1>21. MembersOnce'
  <2>1. \A r \in Records("MEMBER") : r.frame # f
    BY <1>0, <1>4, EngineAssumption DEF EngineCore, RecordSound, Records, Genesis
  <2> QED BY <1>0, <1>8, <1>13, <2>1 DEF MembersOnce
<1>22. PhasesSound'
  <2>1. \A g : <<"PHASE_MUTATION", g>> \notin Range(pending)
    BY <1>2, <1>5
  <2> QED BY <1>0, <1>1, <1>2, <1>6, <1>13, <2>1, PhasesKept
<1>23. ParentsTold'
  <2>1. \A g : <<"RE_PARENT", g>> \notin Range(pending)
    BY <1>2, <1>5
  <2> QED BY <1>0, <1>2, <1>6, <1>14, <2>1, ToldKept
<1> QED BY <1>0, <1>1, <1>4, <1>6, <1>7, <1>13, <1>17, <1>18, <1>19, <1>20, <1>21, <1>22, <1>23, Reassemble

LEMMA ParentStep ==
  ASSUME ReplayIInv, outcome = "RUNNING", ParentNext, RecordReParent(Candidate("RE_PARENT")),
         pending' = Tail(pending), inputs' = inputs, side' = side, blocked' = blocked, calls' = calls, halfDone' = halfDone
  PROVE  ReplayIInv'
<1>a. PICK f, e : f = LastFrame /\ e = active
  OBVIOUS
<1> DEFINE c == <<"RE_PARENT", f>>
           event == BoundaryEvent("RE_PARENT", {e}, c)
<1>0. /\ EngineCore /\ NothingHalfDone /\ InputTypes /\ Position /\ Owned /\ OnlyActiveOpen /\ EventsApplied
      /\ MembersOnce /\ PhasesSound /\ ParentsTold
      /\ phaseFrom \in [EpisodeFrames -> EpisodeFrames \cup {NoFrame}] /\ active \in EpisodeFrames \cup {NoFrame}
  BY DEF ReplayIInv, ReplayTypeOK, InputTypes
<1>1. /\ ReParent(e, c) /\ active' = e /\ phaseFrom' = phaseFrom /\ outcome' = outcome
      /\ Extend(<<event>>) /\ edges' = edges /\ statusOf' = statusOf /\ ownerOf' = ownerOf
  BY <1>a DEF RecordReParent, ReParent, Candidate
<1>2. /\ GoingOn /\ ~RunStart(f) /\ Moved(f) /\ Content(f).available /\ pending # <<>>
      /\ Range(pending) = Range(pending') \cup {c} /\ c \notin Range(pending')
      /\ \/ pending' = <<Candidate("CONTINUATION")>> /\ Range(pending') = {Candidate("CONTINUATION")}
         \/ /\ pending' = <<Candidate("PHASE_MUTATION"), Candidate("CONTINUATION")>>
            /\ Range(pending') = {Candidate("PHASE_MUTATION"), Candidate("CONTINUATION")} /\ Changed(f)
  BY <1>a DEF ParentNext, Split, Candidate
<1>3. side \in Sides /\ inputs[side] # <<>>
  BY <1>0, <1>2, PendingCases
<1>4. /\ f \in AllFrames /\ f \in EpisodeFrames /\ Applied = AllFrames \ {f} /\ f # e
      /\ e \in Genesis /\ e \in EpisodeFrames /\ e \in Applied /\ InRun(e, f)
  BY <1>a, <1>2, InHand
<1>5. /\ c = <<"RE_PARENT", f>> /\ LastFrame' = f
      /\ \A a : Candidate(a)' = Candidate(a) /\ Candidate(a) = <<a, f>>
  BY <1>a DEF Candidate, LastFrame
<1>6. EngineCore' /\ Genesis' = Genesis
  BY <1>0, <1>1, <1>4, ReParentCore
<1>7. NothingHalfDone'
  <2>1. PhasesFollow'
    BY <1>0, <1>1, EventFollows DEF NothingHalfDone
  <2> QED BY <1>0, <1>1, <2>1 DEF NothingHalfDone
<1>8. /\ Records("EVENT")' = Records("EVENT") \cup {event} /\ Records("MEMBER")' = Records("MEMBER")
      /\ Records("PHASE")' = Records("PHASE") /\ Records("SNAPSHOT")' = Records("SNAPSHOT")
      /\ Range(semantic)' = Range(semantic) \cup {event}
  BY <1>0, <1>1, EventAlone
<1> HIDE DEF event, c
<1>9. Range(pending)' = Range(pending')
  OBVIOUS
<1>11. Applied' = Applied
  <2>1. {d[2] : d \in Range(pending)'} = {f} /\ {d[2] : d \in Range(pending)} = {f}
    BY <1>2, <1>5
  <2> QED BY <2>1, InputsKept DEF Applied
<1>12. Position'
  <2>1. /\ (RunStart(f)' <=> RunStart(f)) /\ (Changed(f)' <=> Changed(f)) /\ Behind(f)' = Behind(f)
    BY InputsKept DEF Behind
  <2>2. active' = ownerOf'[Behind(f)] /\ LastFrame'[2] # 1
    BY <1>a, <1>1, <1>2, <1>5 DEF GoingOn
  <2> QED BY <1>2, <1>3, <1>5, <2>1, <2>2 DEF Position
<1>13. Owned'
  BY <1>0, <1>1, <1>11, OwnedKept
<1>14. OnlyActiveOpen'
  BY <1>a, <1>0, <1>1, <1>6 DEF OnlyActiveOpen, Open
<1>15. EventsApplied'
  <2>1. Records("EVENT")' = Records("EVENT") \cup {BoundaryEvent("RE_PARENT", {e}, <<"RE_PARENT", f>>)}
    BY <1>5, <1>8 DEF event
  <2>2. <<"RE_PARENT", f>> \notin Range(pending)' /\ \A d \in Range(pending)' : d \in Range(pending)
    BY <1>2, <1>5
  <2> QED BY <1>0, <1>4, <2>1, <2>2, EventsKept
<1>16. MembersOnce'
  BY <1>0, <1>8 DEF MembersOnce
<1>17. PhasesSound'
  <2>1. \A g : <<"PHASE_MUTATION", g>> \in Range(pending)' <=> <<"PHASE_MUTATION", g>> \in Range(pending)
    BY <1>2, <1>5
  <2> QED BY <1>a, <1>0, <1>1, <1>6, <1>8, <2>1, PhasesKept
<1>18. ParentsTold'
  <2>0. AllFrames' = AllFrames
    BY InputsKept
  <2>1. ASSUME NEW d, NEW g PROVE ParentMoves(d, g)' <=> InRun(d, g) /\ g # d /\ Moved(g) /\ Content(g).available /\ <<"RE_PARENT", g>> \notin Range(pending)'
    <3>1. (InRun(d, g)' <=> InRun(d, g)) /\ (Moved(g)' <=> Moved(g)) /\ Content(g)' = Content(g)
      BY InputsKept
    <3> QED BY <3>1 DEF ParentMoves
  <2>2. event = ReParentEvent(e, f)
    BY <1>5 DEF event, ReParentEvent
  <2>3. \A d, g : ReParentEvent(d, g) = event => d = e /\ g = f
    <3>1. \A d, g : ReParentEvent(d, g).episodes = {d} /\ ReParentEvent(d, g).candidate = <<"RE_PARENT", g>>
      BY RecordFields DEF ReParentEvent
    <3> SUFFICES ASSUME NEW d, NEW g, ReParentEvent(d, g) = event PROVE d = e /\ g = f
      OBVIOUS
    <3>2. ReParentEvent(d, g).episodes = {d} /\ ReParentEvent(d, g).candidate = <<"RE_PARENT", g>>
      BY <3>1
    <3>3. ReParentEvent(e, f).episodes = {e} /\ ReParentEvent(e, f).candidate = <<"RE_PARENT", f>>
      BY <3>1
    <3>4. {d} = {e} /\ <<"RE_PARENT", g>> = <<"RE_PARENT", f>>
      BY <2>2, <3>2, <3>3
    <3> QED BY <3>4
  <2>4. \A g : g # f => (<<"RE_PARENT", g>> \in Range(pending)' <=> <<"RE_PARENT", g>> \in Range(pending))
    BY <1>2, <1>5
  <2>5. <<"RE_PARENT", f>> \notin Range(pending)' /\ <<"RE_PARENT", f>> \in Range(pending)
    BY <1>2, <1>5
  <2>6. ASSUME NEW d \in Genesis, NEW g \in AllFrames PROVE ReParentEvent(d, g) \in Range(semantic)' <=> ParentMoves(d, g)'
    <3>1. CASE g # f
      <4>1. ReParentEvent(d, g) \in Range(semantic)' <=> ReParentEvent(d, g) \in Range(semantic)
        BY <1>8, <2>3, <3>1
      <4>2. ParentMoves(d, g)' <=> ParentMoves(d, g)
        BY <2>1, <2>4, <3>1 DEF ParentMoves
      <4> QED BY <1>0, <4>1, <4>2 DEF ParentsTold
    <3>2. CASE g = f /\ d = e
      <4>1. ParentMoves(e, f)'
        BY <1>2, <1>4, <2>1, <2>5
      <4> QED BY <1>8, <2>2, <3>2, <4>1
    <3>3. CASE g = f /\ d # e
      <4>1. ReParentEvent(d, g) \notin Range(semantic)'
        <5>1. ReParentEvent(d, g) \notin Range(semantic)
          BY <1>0, <2>5, <3>3 DEF ParentsTold, ParentMoves
        <5> QED BY <1>8, <2>3, <3>3, <5>1
      <4>2. ~InRun(d, f)
        <5>1. d \in AllFrames /\ e \in AllFrames
          BY <1>4, GenesisApplied
        <5> QED BY <1>0, <1>4, <3>3, <5>1, RunFacts
      <4> QED BY <2>1, <3>3, <4>1, <4>2
    <3> QED BY <3>1, <3>2, <3>3
  <2> QED BY <1>6, <2>0, <2>6 DEF ParentsTold
<1> QED BY <1>a, <1>0, <1>1, <1>6, <1>7, <1>8, <1>12, <1>13, <1>14, <1>15, <1>16, <1>17, <1>18, Reassemble

\* What PhasesSound says of the phases of e and of the frame the open one began with.
Tiled(e, phases, ends, from) ==
  /\ {p[2] : p \in phases} = ends
  /\ \A p \in phases : p = <<p[1], p[2]>> /\ p[1] \in ends \cup {e} /\ p[1][2] < p[2][2]
  /\ \A p, q \in phases : p[1] = q[1] => p = q
  /\ phases # {} => \E p \in phases : p[1] = e
  /\ from \in ends \cup {e} /\ (\A p \in phases : p[1] # from)
  /\ phases = {} => from = e

\* One phase more behind the ones there are.
LEMMA PhaseTiles ==
  ASSUME NEW e, NEW f, NEW from, NEW phases, NEW ends, Tiled(e, phases, ends, from),
         f \notin ends, f # e, from[2] < f[2]
  PROVE  Tiled(e, phases \cup {<<from, f>>}, ends \cup {f}, f)
<1> DEFINE phases2 == phases \cup {<<from, f>>}
           ends2 == ends \cup {f}
<1>0. /\ {p[2] : p \in phases} = ends
      /\ \A p \in phases : p = <<p[1], p[2]>> /\ p[1] \in ends \cup {e} /\ p[1][2] < p[2][2]
      /\ \A p, q \in phases : p[1] = q[1] => p = q
      /\ phases # {} => \E p \in phases : p[1] = e
      /\ from \in ends \cup {e} /\ (\A p \in phases : p[1] # from)
      /\ phases = {} => from = e
  BY DEF Tiled
<1> DEFINE new == <<from, f>>
<1>1. new[1] = from /\ new[2] = f /\ new = <<new[1], new[2]>>
  OBVIOUS
<1> HIDE DEF new
<1>2. phases2 = phases \cup {new} /\ ends2 = ends \cup {f}
  BY DEF new
<1> HIDE DEF phases2, ends2
<1>3. {p[2] : p \in phases2} = ends2
  BY <1>0, <1>1, <1>2
<1>4. \A p \in phases2 : p = <<p[1], p[2]>> /\ p[1] \in ends2 \cup {e} /\ p[1][2] < p[2][2]
  <2> SUFFICES ASSUME NEW p \in phases2 PROVE p = <<p[1], p[2]>> /\ p[1] \in ends2 \cup {e} /\ p[1][2] < p[2][2]
    OBVIOUS
  <2>1. CASE p = new
    BY <1>0, <1>1, <1>2, <2>1
  <2>2. CASE p \in phases
    BY <1>0, <1>2, <2>2
  <2> QED BY <1>2, <2>1, <2>2
<1>5. \A p, q \in phases2 : p[1] = q[1] => p = q
  BY <1>0, <1>1, <1>2
<1>6. \E p \in phases2 : p[1] = e
  BY <1>0, <1>1, <1>2
<1>7. \A p \in phases2 : p[1] # f
  <2>1. from # f
    BY <1>0
  <2> QED BY <1>0, <1>1, <1>2, <2>1
<1>8. f \in ends2 \cup {e} /\ phases2 # {}
  BY <1>2
<1>9. Tiled(e, phases2, ends2, f)
  BY <1>3, <1>4, <1>5, <1>6, <1>7, <1>8 DEF Tiled
<1> QED BY <1>9 DEF phases2, ends2

LEMMA PhaseStep ==
  ASSUME ReplayIInv, outcome = "RUNNING", PhaseNext, ClosePhase(LastFrame, Candidate("PHASE_MUTATION")),
         pending' = Tail(pending), inputs' = inputs, side' = side, blocked' = blocked, calls' = calls, halfDone' = halfDone
  PROVE  ReplayIInv'
<1>a. PICK f, e, from : f = LastFrame /\ e = active /\ from = phaseFrom[active]
  OBVIOUS
<1> DEFINE c == <<"PHASE_MUTATION", f>>
           d == <<"CONTINUATION", f>>
           event == BoundaryEvent("PHASE_MUTATION", {e}, c)
           interval == <<from, f>>
           phase == PhaseSegment(e, interval)
           new == <<event, phase>>
<1>0. /\ EngineCore /\ NothingHalfDone /\ InputTypes /\ Position /\ Owned /\ OnlyActiveOpen /\ EventsApplied
      /\ MembersOnce /\ PhasesSound /\ ParentsTold
      /\ phaseFrom \in [EpisodeFrames -> EpisodeFrames \cup {NoFrame}]
  BY DEF ReplayIInv, ReplayTypeOK, InputTypes
<1>1. /\ PhaseMutation(e, c, interval) /\ active' = e
      /\ outcome' = IF PhaseLawful(e, interval) THEN outcome ELSE "FAILED"
      /\ phaseFrom' = [phaseFrom EXCEPT ![e] = f]
      /\ edges' = edges /\ statusOf' = statusOf /\ ownerOf' = ownerOf
      /\ PhaseLawful(e, interval) => Extend(new)
  BY <1>a DEF ClosePhase, AfterPhase, PhaseMutation, Candidate
<1>2. /\ GoingOn /\ ~RunStart(f) /\ Changed(f) /\ pending # <<>> /\ pending' = <<d>>
      /\ Range(pending) = {d, c} /\ Range(pending') = {d}
  BY <1>a DEF PhaseNext, Split, Candidate
<1>3. side \in Sides /\ inputs[side] # <<>>
  BY <1>0, <1>2, PendingCases
<1>4. /\ f \in AllFrames /\ f \in EpisodeFrames /\ Applied = AllFrames \ {f} /\ f # e
      /\ e \in Genesis /\ e \in EpisodeFrames /\ e \in Applied /\ InRun(e, f)
  BY <1>a, <1>2, InHand
<1>5. /\ LastFrame' = f /\ \A a : Candidate(a)' = <<a, f>>
  BY <1>a DEF Candidate, LastFrame
<1>6. Tiled(e, PhasesOf(e), PhaseEnds(e), from)
  BY <1>a, <1>0, <1>4 DEF PhasesSound, Tiled
<1>7. event.kind = "EVENT" /\ event.action = "PHASE_MUTATION" /\ phase.kind = "PHASE" /\ phase.episode = e /\ phase.interval = interval
  BY RecordFields
<1>8. Range(new) = {event, phase} /\ new \in Seq(Range(new)) /\ interval[1] = from /\ interval[2] = f
  BY ShortTuples
<1>9. PhaseLawful(e, interval)
  <2>1. interval[2] # NoEnd
    BY <1>4, <1>8, ReplayAssumption
  <2>2. phase \notin Range(semantic)
    <3> SUFFICES ASSUME phase \in Range(semantic) PROVE FALSE
      OBVIOUS
    <3>1. interval \in PhasesOf(e)
      BY <1>7 DEF PhasesOf, Records
    <3> QED BY <1>6, <1>8, <3>1 DEF Tiled
  <2> QED BY <2>1, <2>2 DEF PhaseLawful, Unheld
<1>10. EngineCore' /\ Genesis' = Genesis
  BY <1>0, <1>1, <1>4, PhaseCore
<1>11. NothingHalfDone'
  <2>1. PhasesFollow'
    BY <1>0, <1>1, <1>9, PhaseFollows DEF NothingHalfDone
  <2> QED BY <1>0, <1>1, <2>1 DEF NothingHalfDone
<1>12. Grown(semantic, new, semantic')
  BY <1>0, <1>1, <1>8, <1>9, StreamGrows DEF EngineCore
<1>13. \A k : Records(k)' = Records(k) \cup {r \in Range(new) : r.kind = k}
  BY <1>12, RecordsGrow
<1>14. Range(semantic)' = Range(semantic) \cup Range(new)
  BY <1>12 DEF Grown
<1>15. c[2] = f /\ d[2] = f /\ c # d
  OBVIOUS
<1> HIDE DEF event, new, phase, interval, c, d
<1>16. /\ Records("EVENT")' = Records("EVENT") \cup {event} /\ Records("MEMBER")' = Records("MEMBER")
       /\ Records("PHASE")' = Records("PHASE") \cup {phase} /\ Records("SNAPSHOT")' = Records("SNAPSHOT")
  BY <1>7, <1>8, <1>13
<1>17. Applied' = Applied
  <2>1. {x[2] : x \in Range(pending)'} = {f} /\ {x[2] : x \in Range(pending)} = {f}
    BY <1>2, <1>15
  <2> QED BY <2>1, InputsKept DEF Applied
<1>18. Position'
  <2>1. RunStart(f)' <=> RunStart(f)
    BY InputsKept
  <2>2. active' = ownerOf'[Behind(f)] /\ LastFrame'[2] # 1
    BY <1>a, <1>1, <1>2, <1>5 DEF GoingOn
  <2>3. Behind(f)' = Behind(f)
    BY DEF Behind
  <2> QED BY <1>2, <1>3, <1>5, <2>1, <2>2, <2>3 DEF Position, d
<1>19. Owned'
  BY <1>0, <1>1, <1>17, OwnedKept
<1>20. OnlyActiveOpen'
  BY <1>a, <1>0, <1>1, <1>10 DEF OnlyActiveOpen, Open
<1>21. EventsApplied'
  <2>1. Records("EVENT")' = Records("EVENT") \cup {BoundaryEvent("PHASE_MUTATION", {e}, <<"PHASE_MUTATION", f>>)}
    BY <1>16 DEF event, c
  <2>2. <<"PHASE_MUTATION", f>> \notin Range(pending)' /\ \A x \in Range(pending)' : x \in Range(pending)
    BY <1>2, <1>15 DEF c
  <2> QED BY <1>0, <1>4, <2>1, <2>2, EventsKept
<1>22. MembersOnce'
  BY <1>0, <1>16 DEF MembersOnce
<1>23. AllFrames' = AllFrames
  BY InputsKept
<1>24. ASSUME NEW g PROVE <<"PHASE_MUTATION", g>> \notin Range(pending)' /\ (<<"PHASE_MUTATION", g>> \in Range(pending) <=> g = f)
  BY <1>2 DEF c, d
<1>25. ASSUME NEW b \in Genesis PROVE PhaseEnds(b)' = IF b = e THEN PhaseEnds(e) \cup {f} ELSE PhaseEnds(b)
  <2>1. InRun(b, f) => b = e
    <3>1. b \in AllFrames /\ e \in AllFrames
      BY <1>4, GenesisApplied
    <3> QED BY <1>0, <1>4, <3>1, RunFacts
  <2>2. \A g : (InRun(b, g)' <=> InRun(b, g)) /\ (Changed(g)' <=> Changed(g))
    BY InputsKept
  <2>3. \A g : g \in PhaseEnds(b)' <=> g \in AllFrames /\ InRun(b, g) /\ g # b /\ Changed(g)
    BY <1>23, <1>24, <2>2 DEF PhaseEnds
  <2>4. \A g : g \in PhaseEnds(b) <=> g \in AllFrames /\ InRun(b, g) /\ g # b /\ Changed(g) /\ g # f
    BY <1>24 DEF PhaseEnds
  <2>5. CASE b = e
    BY <1>2, <1>4, <2>3, <2>4, <2>5
  <2>6. CASE b # e
    BY <2>1, <2>3, <2>4, <2>6
  <2> QED BY <2>5, <2>6
<1>26. ASSUME NEW b \in Genesis PROVE PhasesOf(b)' = IF b = e THEN PhasesOf(e) \cup {interval} ELSE PhasesOf(b)
  BY <1>7, <1>16 DEF PhasesOf
<1>27. from[2] < f[2] /\ f \notin PhaseEnds(e)
  <2>1. from \in AllFrames /\ InRun(e, from) /\ from # f /\ e \in AllFrames /\ f \notin PhaseEnds(e)
    <3>1. e \in AllFrames /\ InRun(e, e)
      <4>1. e \in AllFrames /\ RunStart(e)
        BY <1>4, GenesisApplied DEF InRun
      <4> QED BY <1>0, <4>1, StartsOwnRun
    <3> QED BY <1>4, <1>6, <1>24, <3>1 DEF PhaseEnds, Tiled
  <2>2. from[1] = e[1] /\ e[1] = f[1] /\ f[1] = side /\ f[2] \in Nat /\ from[2] \in Nat
    BY <1>a, <1>0, <1>3, <1>4, <2>1, RunFacts, LastFacts
  <2>3. from[2] <= f[2] /\ from[2] # f[2]
    BY <1>a, <1>0, <1>3, <2>1, <2>2, LastFacts
  <2> QED BY <2>1, <2>2, <2>3
<1>28. PhasesSound'
  <2> SUFFICES ASSUME NEW b \in Genesis
               PROVE  /\ {p[2] : p \in PhasesOf(b)'} = PhaseEnds(b)'
                      /\ \A p \in PhasesOf(b)' : /\ p = <<p[1], p[2]>>
                                                 /\ p[1] \in PhaseEnds(b)' \cup {b} /\ p[1][2] < p[2][2]
                      /\ \A p, q \in PhasesOf(b)' : p[1] = q[1] => p = q
                      /\ PhasesOf(b)' # {} => \E p \in PhasesOf(b)' : p[1] = b
                      /\ b = active' => /\ phaseFrom'[b] \in PhaseEnds(b)' \cup {b}
                                        /\ \A p \in PhasesOf(b)' : p[1] # phaseFrom'[b]
                                        /\ PhasesOf(b)' = {} => phaseFrom'[b] = b
    BY <1>10 DEF PhasesSound
  <2>1. CASE b # e
    <3>1. PhasesOf(b)' = PhasesOf(b) /\ PhaseEnds(b)' = PhaseEnds(b) /\ b # active'
      BY <1>1, <1>25, <1>26, <2>1
    <3> QED BY <1>0, <3>1 DEF PhasesSound
  <2>2. CASE b = e
    <3>1. PhasesOf(e)' = PhasesOf(e) \cup {<<from, f>>} /\ PhaseEnds(e)' = PhaseEnds(e) \cup {f}
      BY <1>4, <1>25, <1>26 DEF interval
    <3>2. Tiled(e, PhasesOf(e)', PhaseEnds(e)', f)
      BY <1>4, <1>6, <1>27, <3>1, PhaseTiles
    <3>3. phaseFrom'[e] = f
      BY <1>0, <1>1, <1>4
    <3> QED BY <2>2, <3>2, <3>3 DEF Tiled
  <2> QED BY <2>1, <2>2
<1>29. ParentsTold'
  <2>1. \A g : <<"RE_PARENT", g>> \notin Range(pending) /\ <<"RE_PARENT", g>> \notin Range(pending)'
    BY <1>2 DEF c, d
  <2>2. \A b, g : ReParentEvent(b, g) \in Range(semantic)' <=> ReParentEvent(b, g) \in Range(semantic)
    <3>1. \A b, g : ReParentEvent(b, g).kind = "EVENT" /\ ReParentEvent(b, g).action = "RE_PARENT"
      BY RecordFields DEF ReParentEvent
    <3> QED BY <1>7, <1>8, <1>14, <3>1
  <2> QED BY <1>0, <1>10, <2>1, <2>2, ToldKept
<1>30. active' \in EpisodeFrames /\ phaseFrom' \in [EpisodeFrames -> EpisodeFrames \cup {NoFrame}] /\ outcome' = "RUNNING"
  BY <1>0, <1>1, <1>4, <1>9
<1> QED BY <1>10, <1>11, <1>16, <1>18, <1>19, <1>20, <1>21, <1>22, <1>28, <1>29, <1>30, Reassemble

\* The engine never refuses what the rules ask of it.
LEMMA NeverRefused ==
  ASSUME ReplayIInv, pending # <<>>, NEW rule, Head(pending) = Candidate(rule), Head(pending) \in Range(pending),
         rule = "BIRTH" \/ GoingOn
  PROVE  ~Refused(rule, LastFrame, Candidate(rule))
<1>1. rule # "BIRTH" => active # NoFrame /\ Open(active)
  BY InHand
<1>2. ownerOf[LastFrame] = NoOwner
  BY InHand
<1>3. Unheld(BoundaryEvent(rule, {active}, Candidate(rule)))
  BY PendingUnheld DEF ReplayIInv, Unheld
<1> QED BY <1>1, <1>2, <1>3 DEF Refused

LEMMA ApplyStep ==
  ASSUME ReplayIInv, Apply, calls' = calls, halfDone' = halfDone
  PROVE  ReplayIInv'
<1> DEFINE c == Head(pending)
<1>1. /\ outcome = "RUNNING" /\ pending # <<>> /\ pending' = Tail(pending) /\ inputs' = inputs /\ blocked' = blocked
      /\ ~Refused(c[1], c[2], c) =>
           /\ side' = side
           /\ \/ c[1] = "CENSOR_GAP" /\ CensorGap(c)
              \/ c[1] = "RE_PARENT" /\ RecordReParent(c)
              \/ c[1] = "PHASE_MUTATION" /\ ClosePhase(c[2], c)
              \/ c[1] = "CONTINUATION" /\ Continue(c[2], c)
              \/ c[1] = "BIRTH" /\ BeginEpisode(c[2], c)
  BY DEF Apply
<1>2. BirthNext \/ GapNext \/ ContinueNext \/ PhaseNext \/ ParentNext
  BY <1>1, PendingCases DEF ReplayIInv
<1> HIDE DEF c
<1>3. ASSUME NEW rule, NEW rest, Split(Candidate(rule), rest), rule = "BIRTH" \/ GoingOn
      PROVE  /\ c = Candidate(rule) /\ c[1] = rule /\ c[2] = LastFrame /\ pending' = rest /\ side' = side
             /\ \/ c[1] = "CENSOR_GAP" /\ CensorGap(c)
                \/ c[1] = "RE_PARENT" /\ RecordReParent(c)
                \/ c[1] = "PHASE_MUTATION" /\ ClosePhase(c[2], c)
                \/ c[1] = "CONTINUATION" /\ Continue(c[2], c)
                \/ c[1] = "BIRTH" /\ BeginEpisode(c[2], c)
  <2>1. c = Candidate(rule) /\ Head(pending) = Candidate(rule) /\ Head(pending) \in Range(pending) /\ pending' = rest
    BY <1>1, <1>3 DEF Split, c
  <2>2. c[1] = rule /\ c[2] = LastFrame
    BY <2>1, CandidateFields
  <2>3. ~Refused(rule, LastFrame, Candidate(rule))
    BY <1>1, <1>3, <2>1, NeverRefused
  <2> QED BY <1>1, <2>1, <2>2, <2>3
<1>4. CASE BirthNext
  <2>1. pending' = <<>> /\ side' = side /\ BeginEpisode(LastFrame, Candidate("BIRTH"))
    BY <1>3, <1>4 DEF BirthNext
  <2> QED BY <1>1, <1>4, <2>1, BirthStep
<1>5. CASE GapNext
  <2>1. pending' = <<Candidate("BIRTH")>> /\ side' = side /\ CensorGap(Candidate("CENSOR_GAP"))
    BY <1>3, <1>5 DEF GapNext
  <2> QED BY <1>1, <1>5, <2>1, GapStep
<1>6. CASE ContinueNext
  <2>1. pending' = <<>> /\ side' = side /\ Continue(LastFrame, Candidate("CONTINUATION"))
    BY <1>3, <1>6 DEF ContinueNext
  <2> QED BY <1>1, <1>6, <2>1, ContinueStep
<1>7. CASE PhaseNext
  <2>1. side' = side /\ ClosePhase(LastFrame, Candidate("PHASE_MUTATION"))
    BY <1>3, <1>7 DEF PhaseNext
  <2> QED BY <1>1, <1>7, <2>1, PhaseStep
<1>8. CASE ParentNext
  <2>1. \E rest : Split(Candidate("RE_PARENT"), rest)
    BY <1>8 DEF ParentNext
  <2>2. side' = side /\ RecordReParent(Candidate("RE_PARENT"))
    BY <1>3, <1>8, <2>1 DEF ParentNext
  <2> QED BY <1>1, <1>8, <2>2, ParentStep
<1> QED BY <1>2, <1>4, <1>5, <1>6, <1>7, <1>8

(***************************************************************************)
(* EpisodeReplay: the next frame                                           *)
(***************************************************************************)

LEMMA PriorityFacts ==
  /\ Priority["CENSOR_GAP"] = 2 /\ Priority["RE_PARENT"] = 4 /\ Priority["PHASE_MUTATION"] = 6
  /\ Priority["CONTINUATION"] = 7 /\ Priority["BIRTH"] = 8
BY DEF Priority

LEMMA OrderedOne ==
  ASSUME NEW a
  PROVE  Ordered({a}) = <<a>>
<1> DEFINE S == [1..1 -> {a}]
           Rising(s) == \A i, j \in DOMAIN s : i < j => Priority[s[i]] < Priority[s[j]]
<1>1. Cardinality({a}) = 1
  BY FS_Singleton
<1>2. \A s \in S : s = <<a>>
  OBVIOUS
<1>3. <<a>> \in S /\ Rising(<<a>>)
  OBVIOUS
<1>4. Ordered({a}) = CHOOSE s \in S : Rising(s)
  BY <1>1 DEF Ordered
<1> HIDE DEF S, Rising
<1> QED BY <1>2, <1>3, <1>4

LEMMA OrderedTwo ==
  ASSUME NEW a, NEW b, Priority[a] \in Int, Priority[b] \in Int, Priority[a] < Priority[b]
  PROVE  Ordered({a, b}) = <<a, b>>
<1> DEFINE S == [1..2 -> {a, b}]
           Rising(s) == \A i, j \in DOMAIN s : i < j => Priority[s[i]] < Priority[s[j]]
<1>0. a # b
  OBVIOUS
<1>1. Cardinality({a, b}) = 2
  <2>1. IsFiniteSet({a}) /\ Cardinality({a}) = 1
    BY FS_Singleton
  <2>2. Cardinality({a} \cup {b}) = Cardinality({a}) + 1
    BY <1>0, <2>1, FS_AddElement
  <2>3. {a} \cup {b} = {a, b}
    OBVIOUS
  <2> QED BY <2>1, <2>2, <2>3
<1>2. ASSUME NEW s \in S, Rising(s) PROVE s = <<a, b>>
  <2>1. DOMAIN s = 1..2 /\ s[1] \in {a, b} /\ s[2] \in {a, b} /\ Priority[s[1]] < Priority[s[2]]
    BY <1>2
  <2>2. s[1] = a /\ s[2] = b
    BY <2>1
  <2> QED BY <1>2, <2>2
<1>3. <<a, b>> \in S /\ Rising(<<a, b>>)
  OBVIOUS
<1>4. Ordered({a, b}) = CHOOSE s \in S : Rising(s)
  BY <1>1 DEF Ordered
<1> HIDE DEF S, Rising
<1> QED BY <1>2, <1>3, <1>4

LEMMA OrderedThree ==
  ASSUME NEW a, NEW b, NEW c, Priority[a] \in Int, Priority[b] \in Int, Priority[c] \in Int,
         Priority[a] < Priority[b], Priority[b] < Priority[c]
  PROVE  Ordered({a, b, c}) = <<a, b, c>>
<1> DEFINE S == [1..3 -> {a, b, c}]
           Rising(s) == \A i, j \in DOMAIN s : i < j => Priority[s[i]] < Priority[s[j]]
<1>0. a # b /\ b # c /\ a # c
  OBVIOUS
<1>1. Cardinality({a, b, c}) = 3
  <2>1. IsFiniteSet({a}) /\ Cardinality({a}) = 1
    BY FS_Singleton
  <2>2. Cardinality({a} \cup {b}) = Cardinality({a}) + 1 /\ IsFiniteSet({a} \cup {b})
    BY <1>0, <2>1, FS_AddElement
  <2>3. Cardinality(({a} \cup {b}) \cup {c}) = Cardinality({a} \cup {b}) + 1
    BY <1>0, <2>2, FS_AddElement
  <2>4. ({a} \cup {b}) \cup {c} = {a, b, c}
    OBVIOUS
  <2>5. Cardinality({a} \cup {b}) = 2
    BY <2>1, <2>2
  <2>6. Cardinality({a, b, c}) = 2 + 1
    BY <2>3, <2>4, <2>5, Zenon
  <2> QED BY <2>6
<1>2. ASSUME NEW s \in S, Rising(s) PROVE s = <<a, b, c>>
  <2>1. /\ DOMAIN s = 1..3 /\ s[1] \in {a, b, c} /\ s[2] \in {a, b, c} /\ s[3] \in {a, b, c}
        /\ Priority[s[1]] < Priority[s[2]] /\ Priority[s[2]] < Priority[s[3]]
    BY <1>2
  <2>2. s[1] = a /\ s[2] = b /\ s[3] = c
    BY <2>1
  <2> QED BY <1>2, <2>2
<1>3. <<a, b, c>> \in S /\ Rising(<<a, b, c>>)
  OBVIOUS
<1>4. Ordered({a, b, c}) = CHOOSE s \in S : Rising(s)
  BY <1>1 DEF Ordered
<1> HIDE DEF S, Rising
<1> QED BY <1>2, <1>3, <1>4

\* The candidates of the frame, in their order.
Lined(rules, f) == [i \in DOMAIN Ordered(rules) |-> <<Ordered(rules)[i], f>>]

LEMMA LinedUp ==
  ASSUME NEW f
  PROVE  /\ Lined({"BIRTH"}, f) = << <<"BIRTH", f>> >>
         /\ Lined({"CENSOR_GAP", "BIRTH"}, f) = << <<"CENSOR_GAP", f>>, <<"BIRTH", f>> >>
         /\ Lined({"CONTINUATION"}, f) = << <<"CONTINUATION", f>> >>
         /\ Lined({"PHASE_MUTATION", "CONTINUATION"}, f) = << <<"PHASE_MUTATION", f>>, <<"CONTINUATION", f>> >>
         /\ Lined({"RE_PARENT", "CONTINUATION"}, f) = << <<"RE_PARENT", f>>, <<"CONTINUATION", f>> >>
         /\ Lined({"RE_PARENT", "PHASE_MUTATION", "CONTINUATION"}, f)
              = << <<"RE_PARENT", f>>, <<"PHASE_MUTATION", f>>, <<"CONTINUATION", f>> >>
<1>1. \A a : Lined({a}, f) = << <<a, f>> >>
  <2> SUFFICES ASSUME NEW a PROVE Lined({a}, f) = << <<a, f>> >>
    OBVIOUS
  <2>1. Ordered({a}) = <<a>>
    BY OrderedOne
  <2> QED BY <2>1 DEF Lined
<1>2. ASSUME NEW a, NEW b, Priority[a] \in Int, Priority[b] \in Int, Priority[a] < Priority[b]
      PROVE  Lined({a, b}, f) = << <<a, f>>, <<b, f>> >>
  <2>1. Ordered({a, b}) = <<a, b>>
    BY <1>2, OrderedTwo
  <2> QED BY <2>1 DEF Lined
<1>3. Lined({"CENSOR_GAP", "BIRTH"}, f) = << <<"CENSOR_GAP", f>>, <<"BIRTH", f>> >>
  <2>1. Priority["CENSOR_GAP"] \in Int /\ Priority["BIRTH"] \in Int /\ Priority["CENSOR_GAP"] < Priority["BIRTH"]
    BY PriorityFacts
  <2> QED BY <1>2, <2>1
<1>4. Lined({"PHASE_MUTATION", "CONTINUATION"}, f) = << <<"PHASE_MUTATION", f>>, <<"CONTINUATION", f>> >>
  <2>1. Priority["PHASE_MUTATION"] \in Int /\ Priority["CONTINUATION"] \in Int /\ Priority["PHASE_MUTATION"] < Priority["CONTINUATION"]
    BY PriorityFacts
  <2> QED BY <1>2, <2>1
<1>5. Lined({"RE_PARENT", "CONTINUATION"}, f) = << <<"RE_PARENT", f>>, <<"CONTINUATION", f>> >>
  <2>1. Priority["RE_PARENT"] \in Int /\ Priority["CONTINUATION"] \in Int /\ Priority["RE_PARENT"] < Priority["CONTINUATION"]
    BY PriorityFacts
  <2> QED BY <1>2, <2>1
<1>6. Ordered({"RE_PARENT", "PHASE_MUTATION", "CONTINUATION"}) = <<"RE_PARENT", "PHASE_MUTATION", "CONTINUATION">>
  BY PriorityFacts, OrderedThree
<1>7. Lined({"RE_PARENT", "PHASE_MUTATION", "CONTINUATION"}, f)
              = << <<"RE_PARENT", f>>, <<"PHASE_MUTATION", f>>, <<"CONTINUATION", f>> >>
  BY <1>6 DEF Lined
<1> QED BY <1>1, <1>3, <1>4, <1>5, <1>7

LEMMA NoConflict ==
  /\ ~Conflict({"BIRTH"}) /\ ~Conflict({"CENSOR_GAP", "BIRTH"})
  /\ \A rules \in SUBSET {"RE_PARENT", "PHASE_MUTATION", "CONTINUATION"} : ~Conflict(rules)
<1>1. {"CENSOR_GAP", "BIRTH"} \in Compound /\ {"BIRTH", "CENSOR_GAP"} \in Compound
  BY DEF Compound
<1>2. \A a, b \in {"RE_PARENT", "PHASE_MUTATION", "CONTINUATION"} : a # b => {a, b} \in Compound
  BY DEF Compound
<1> QED BY <1>1, <1>2 DEF Conflict

LEMMA SideCounted ==
  ASSUME InputTypes, NEW s \in Sides
  PROVE  Len(inputs[s]) <= Cardinality(AllFrames) /\ Cardinality(AllFrames) \in Nat
<1> DEFINE n == Len(inputs[s])
           b == [i \in 1..n |-> <<s, i>>]
<1>1. n \in Nat /\ DOMAIN inputs[s] = 1..n
  BY FrameFacts
<1> HIDE DEF n
<1>2. b \in Bijection(1..n, FramesOf(s))
  <2>1. FramesOf(s) = {<<s, i>> : i \in 1..n}
    BY <1>1 DEF FramesOf
  <2>2. b \in [1..n -> FramesOf(s)]
    BY <2>1
  <2>3. \A i, j \in 1..n : b[i] = b[j] => i = j
    OBVIOUS
  <2>4. \A g \in FramesOf(s) : \E i \in 1..n : b[i] = g
    BY <2>1
  <2> HIDE DEF b
  <2> QED BY <2>2, <2>3, <2>4 DEF Bijection, Injection, Surjection, IsInjective
<1>3. ExistsBijection(1..n, FramesOf(s))
  BY <1>2 DEF ExistsBijection
<1>4. Cardinality(FramesOf(s)) = n
  BY <1>1, <1>3, FS_CountingElements
<1>5. FramesOf(s) \subseteq AllFrames /\ IsFiniteSet(AllFrames)
  BY FrameFacts DEF AllFrames, Sides
<1>6. Cardinality(FramesOf(s)) <= Cardinality(AllFrames) /\ Cardinality(AllFrames) \in Nat
  BY <1>5, FS_Subset, FS_CardinalityType
<1> QED BY <1>4, <1>6 DEF n

FramesRight == (\A g : g \in AllFrames <=> IsFrame(g)) /\ AllFrames \subseteq EpisodeFrames

LEMMA FramesIf == InputTypes => FramesRight
BY FrameFacts DEF FramesRight

RunsRight ==
  \A e, g \in AllFrames : InRun(e, g) /\ g # e => ~RunStart(g) /\ g[2] # 1

LEMMA RunsIf == InputTypes => RunsRight
BY RunFacts DEF RunsRight

\* The frame f with this content is the next of the side s.
Taking(s, frame, f) ==
  /\ InputTypes /\ s \in Sides /\ frame \in Inputs /\ Cardinality(AllFrames) < MaxFrames
  /\ inputs' = [inputs EXCEPT ![s] = Append(@, frame)] /\ f = <<s, Len(inputs[s]) + 1>>

\* What that changes, and what it leaves as it was.
Taken(s, frame, f) ==
  /\ InputTypes' /\ AllFrames' = AllFrames \cup {f} /\ f \notin AllFrames /\ f \in EpisodeFrames
  /\ f[1] = s /\ f[2] = Len(inputs[s]) + 1 /\ f[2] \in Nat /\ Len(inputs'[s]) = f[2] /\ inputs'[s] # <<>>
  /\ Content(f)' = frame
  /\ \A g \in AllFrames : Content(g)' = Content(g) /\ (RunStart(g)' <=> RunStart(g))
  /\ \A g \in AllFrames : g[2] # 1 => (Changed(g)' <=> Changed(g)) /\ (Moved(g)' <=> Moved(g))
  /\ \A e, g \in AllFrames : InRun(e, g)' <=> InRun(e, g)
  /\ IF inputs[s] = <<>> THEN f[2] = 1
     ELSE f[2] # 1 /\ inputs'[s][f[2] - 1] = Last(inputs[s])
  /\ \A t \in Sides : t # s => inputs'[t] = inputs[t]

LEMMA FrameTaken ==
  ASSUME NEW s, NEW frame, NEW f, Taking(s, frame, f)
  PROVE  Taken(s, frame, f)
<1>0. /\ InputTypes /\ s \in Sides /\ frame \in Inputs /\ Cardinality(AllFrames) < MaxFrames
      /\ inputs' = [inputs EXCEPT ![s] = Append(@, frame)] /\ f = <<s, Len(inputs[s]) + 1>>
  BY DEF Taking
<1> DEFINE n == Len(inputs[s])
<1>1. /\ inputs \in [Sides -> Seq(Inputs)] /\ inputs[s] \in Seq(Inputs) /\ n \in Nat
      /\ \A t \in Sides : Len(inputs[t]) \in Nat /\ DOMAIN inputs[t] = 1..Len(inputs[t])
  BY <1>0, FrameFacts DEF InputTypes
<1>2. f[1] = s /\ f[2] = n + 1 /\ f = <<f[1], f[2]>>
  BY <1>0
<1>3. /\ inputs' \in [Sides -> Seq(Inputs)] /\ inputs'[s] = Append(inputs[s], frame)
      /\ \A t \in Sides : t # s => inputs'[t] = inputs[t]
  BY <1>0, <1>1
<1>4. /\ Len(inputs'[s]) = n + 1 /\ inputs'[s][n + 1] = frame /\ inputs'[s] # <<>>
      /\ \A i \in 1..n : inputs'[s][i] = inputs[s][i]
  <2>1. \A q \in Seq(Inputs) : /\ Len(Append(q, frame)) = Len(q) + 1 /\ Append(q, frame)[Len(q) + 1] = frame
                               /\ Append(q, frame) # <<>> /\ \A i \in 1..Len(q) : Append(q, frame)[i] = q[i]
    <3>1. frame \in Inputs
      BY <1>0
    <3> SUFFICES ASSUME NEW q \in Seq(Inputs)
                 PROVE  /\ Len(Append(q, frame)) = Len(q) + 1 /\ Append(q, frame)[Len(q) + 1] = frame
                        /\ Append(q, frame) # <<>> /\ \A i \in 1..Len(q) : Append(q, frame)[i] = q[i]
      OBVIOUS
    <3> QED BY <3>1
  <2>2. inputs[s] \in Seq(Inputs) /\ inputs'[s] = Append(inputs[s], frame)
    BY <1>1, <1>3
  <2> QED BY <2>1, <2>2
<1>5. n < MaxFrames
  BY <1>0, <1>1, SideCounted, ReplayAssumption
<1>5a. f[2] \in Nat /\ f[2] >= 1 /\ f[2] <= MaxFrames
  BY <1>0, <1>1, <1>2, <1>5, ReplayAssumption
<1> HIDE DEF n
<1>6. InputTypes'
  <2>1. \A t \in Sides : Len(inputs'[t]) <= MaxFrames
    BY <1>0, <1>2, <1>3, <1>4, <1>5a DEF InputTypes
  <2> QED BY <1>0, <1>3, <2>1 DEF InputTypes
<1>7. ASSUME NEW g PROVE IsFrame(g)' <=> IsFrame(g) \/ g = f
  <2>1. CASE g[1] = s
    <3>1. g[2] \in 1..(n + 1) <=> g[2] \in 1..n \/ g[2] = n + 1
      BY <1>0, <1>1
    <3>2. IsFrame(g)' <=> g[1] \in Sides /\ g[2] \in 1..(n + 1) /\ g = <<g[1], g[2]>>
      BY <1>0, <1>4, <2>1 DEF IsFrame
    <3>3. IsFrame(g) <=> g[1] \in Sides /\ g[2] \in 1..n /\ g = <<g[1], g[2]>>
      BY <1>0, <2>1 DEF IsFrame, n
    <3>4. g = f <=> g[1] \in Sides /\ g[2] = n + 1 /\ g = <<g[1], g[2]>>
      BY <1>0, <1>2, <2>1
    <3> QED BY <1>0, <3>1, <3>2, <3>3, <3>4
  <2>2. CASE g[1] # s
    BY <1>0, <1>2, <1>3, <2>2 DEF IsFrame
  <2> QED BY <1>0, <2>1, <2>2
<1>8. /\ \A g : g \in AllFrames <=> IsFrame(g)
      /\ AllFrames \subseteq EpisodeFrames
  BY <1>0, FrameFacts
<1>9. (\A g : g \in AllFrames <=> IsFrame(g))' /\ (AllFrames \subseteq EpisodeFrames)'
  BY <1>0, <1>6, FramesIf, PTL DEF FramesRight
<1>10. AllFrames' = AllFrames \cup {f} /\ f \in EpisodeFrames
  <2>1. \A g : g \in AllFrames' <=> IsFrame(g)'
    BY <1>0, <1>9
  <2>2. AllFrames' = AllFrames \cup {f}
    BY <1>0, <1>7, <1>8, <2>1
  <2> QED BY <1>0, <1>9, <2>2
<1>11. f \notin AllFrames
  <2>1. ~(n + 1 \in 1..n)
    BY <1>0, <1>1
  <2> QED BY <1>0, <1>2, <1>8, <2>1 DEF IsFrame, n
<1>12. Content(f)' = frame
  BY <1>0, <1>2, <1>4 DEF Content
<1>13. ASSUME NEW t \in Sides, NEW i \in 1..Len(inputs[t]) PROVE inputs'[t][i] = inputs[t][i]
  <2>1. CASE t = s
    BY <1>0, <1>4, <1>13, <2>1 DEF n
  <2>2. CASE t # s
    BY <1>0, <1>3, <2>2
  <2> QED BY <1>0, <2>1, <2>2
<1>14. ASSUME NEW g \in AllFrames
       PROVE  /\ Content(g)' = Content(g) /\ (RunStart(g)' <=> RunStart(g))
              /\ g[2] # 1 => (Changed(g)' <=> Changed(g)) /\ (Moved(g)' <=> Moved(g))
  <2>1. g[1] \in Sides /\ g[2] \in 1..Len(inputs[g[1]])
    BY <1>0, <1>8 DEF IsFrame
  <2>2. Content(g)' = Content(g)
    BY <1>0, <1>13, <2>1 DEF Content
  <2>3. CASE g[2] = 1
    BY <1>0, <2>2, <2>3 DEF RunStart
  <2>4. CASE g[2] # 1
    <3>1. g[2] - 1 \in 1..Len(inputs[g[1]])
      BY <1>0, <1>1, <2>1, <2>4
    <3>2. inputs'[g[1]][g[2] - 1] = inputs[g[1]][g[2] - 1]
      BY <1>0, <1>13, <2>1, <3>1
    <3> QED BY <1>0, <2>2, <3>2 DEF RunStart, Changed, Moved
  <2> QED BY <1>0, <2>2, <2>3, <2>4
<1>15. ASSUME NEW e \in AllFrames, NEW g \in AllFrames PROVE InRun(e, g)' <=> InRun(e, g)
  <2>1. g[1] \in Sides /\ g[2] \in 1..Len(inputs[g[1]]) /\ e[2] \in Nat /\ e[2] >= 1
    BY <1>0, <1>1, <1>8 DEF IsFrame
  <2>2. \A k \in (e[2] + 1)..g[2] : inputs'[g[1]][k] = inputs[g[1]][k] /\ inputs'[g[1]][k - 1] = inputs[g[1]][k - 1]
    <3> SUFFICES ASSUME NEW k \in (e[2] + 1)..g[2] PROVE inputs'[g[1]][k] = inputs[g[1]][k] /\ inputs'[g[1]][k - 1] = inputs[g[1]][k - 1]
      OBVIOUS
    <3>1. k \in 1..Len(inputs[g[1]]) /\ k - 1 \in 1..Len(inputs[g[1]])
      BY <1>0, <1>1, <2>1
    <3> QED BY <1>0, <1>13, <2>1, <3>1
  <2>3. SameRun(g[1], e[2], g[2])' <=> SameRun(g[1], e[2], g[2])
    BY <1>0, <2>2 DEF SameRun
  <2>4. RunStart(e)' <=> RunStart(e)
    BY <1>0, <1>14
  <2> QED BY <1>0, <2>3, <2>4 DEF InRun
<1>16. inputs[s] = <<>> => f[2] = 1
  BY <1>0, <1>2 DEF n
<1>17. ASSUME inputs[s] # <<>> PROVE f[2] # 1 /\ inputs'[s][f[2] - 1] = Last(inputs[s])
  <2>1. n # 0
    BY <1>0, <1>1, <1>17 DEF n, Taken
  <2>2. n \in 1..n /\ f[2] # 1 /\ f[2] - 1 = n
    BY <1>0, <1>1, <1>2, <2>1
  <2>3. Last(inputs[s]) = inputs[s][n]
    BY <1>0 DEF Last, n
  <2> QED BY <1>0, <1>4, <2>2, <2>3
<1> QED BY <1>0, <1>2, <1>3, <1>4, <1>5a, <1>6, <1>10, <1>11, <1>12, <1>14, <1>15, <1>16, <1>17 DEF n, Taken

\* A step that leaves the engine alone.
LEMMA CoreKept ==
  ASSUME EngineCore, semantic' = semantic, statusOf' = statusOf, ownerOf' = ownerOf, edges' = edges
  PROVE  /\ EngineCore' /\ (NothingHalfDone => NothingHalfDone') /\ Genesis' = Genesis
         /\ \A k : Records(k)' = Records(k)
<1>1. Genesis' = Genesis /\ \A k : Records(k)' = Records(k)
  BY DEF Genesis, Records
<1>2. semantic \in Seq(Range(semantic)) /\ <<>> \in Seq(Range(<<>>)) /\ Range(<<>>) = {} /\ Len(<<>>) = 0
  BY ShortTuples DEF EngineCore, EngineTypes
<1>3. Extend(<<>>)
  BY <1>2 DEF Extend
<1>4. Fresh(<<>>) /\ Respectful(<<>>)
  BY <1>2 DEF Fresh, Respectful
<1>5. MapsRecorded'
  BY <1>1 DEF EngineCore, MapsRecorded
<1>6. /\ statusOf' \in [EpisodeFrames -> Range(Endings) \cup {"UNBORN", "OPEN"}]
      /\ ownerOf' \in [EpisodeFrames -> EpisodeFrames \cup {NoOwner}]
  BY DEF EngineCore, EngineTypes
<1>7. EngineCore'
  <2>1. PICK new : new = <<>>
    OBVIOUS
  <2>2. new \in Seq(Range(new)) /\ Range(new) = {} /\ Extend(new) /\ Fresh(new) /\ Respectful(new)
    BY <1>2, <1>3, <1>4, <2>1
  <2>3. 1..Len(new) = {}
    BY <1>2, <2>1
  <2> QED BY <1>1, <1>5, <1>6, <2>2, <2>3, QuietCall
<1>8. NothingHalfDone => NothingHalfDone'
  BY DEF NothingHalfDone, PhasesFollow
<1> QED BY <1>1, <1>7, <1>8

\* The candidates of the frame taken.
Continuing(moved, changed) ==
  {"CONTINUATION"} \cup (IF moved THEN {"RE_PARENT"} ELSE {}) \cup (IF changed THEN {"PHASE_MUTATION"} ELSE {})

LEMMA ContinuingCases ==
  ASSUME NEW moved \in BOOLEAN, NEW changed \in BOOLEAN, NEW f
  PROVE  /\ ~Conflict(Continuing(moved, changed))
         /\ Lined(Continuing(moved, changed), f) =
              IF moved THEN IF changed THEN << <<"RE_PARENT", f>>, <<"PHASE_MUTATION", f>>, <<"CONTINUATION", f>> >>
                            ELSE << <<"RE_PARENT", f>>, <<"CONTINUATION", f>> >>
              ELSE IF changed THEN << <<"PHASE_MUTATION", f>>, <<"CONTINUATION", f>> >> ELSE << <<"CONTINUATION", f>> >>
         /\ Range(Lined(Continuing(moved, changed), f)) = {<<r, f>> : r \in Continuing(moved, changed)}
<1>1. CASE moved /\ changed
  <2>1. Continuing(moved, changed) = {"RE_PARENT", "PHASE_MUTATION", "CONTINUATION"}
    BY <1>1 DEF Continuing
  <2>2. Lined(Continuing(moved, changed), f) = << <<"RE_PARENT", f>>, <<"PHASE_MUTATION", f>>, <<"CONTINUATION", f>> >>
    BY <2>1, LinedUp
  <2>3. Range(Lined(Continuing(moved, changed), f)) = {<<"RE_PARENT", f>>, <<"PHASE_MUTATION", f>>, <<"CONTINUATION", f>>}
    BY <2>2, ShortTuples
  <2>4. {<<r, f>> : r \in Continuing(moved, changed)} = {<<"RE_PARENT", f>>, <<"PHASE_MUTATION", f>>, <<"CONTINUATION", f>>}
    BY <2>1
  <2>5. ~Conflict(Continuing(moved, changed))
    BY <2>1, NoConflict
  <2> QED BY <1>1, <2>2, <2>3, <2>4, <2>5
<1>2. CASE moved /\ ~changed
  <2>1. Continuing(moved, changed) = {"RE_PARENT", "CONTINUATION"}
    BY <1>2 DEF Continuing
  <2>2. Lined(Continuing(moved, changed), f) = << <<"RE_PARENT", f>>, <<"CONTINUATION", f>> >>
    BY <2>1, LinedUp
  <2>3. Range(Lined(Continuing(moved, changed), f)) = {<<"RE_PARENT", f>>, <<"CONTINUATION", f>>}
    BY <2>2, ShortTuples
  <2>4. {<<r, f>> : r \in Continuing(moved, changed)} = {<<"RE_PARENT", f>>, <<"CONTINUATION", f>>}
    BY <2>1
  <2>5. ~Conflict(Continuing(moved, changed))
    BY <2>1, NoConflict
  <2> QED BY <1>2, <2>2, <2>3, <2>4, <2>5
<1>3. CASE ~moved /\ changed
  <2>1. Continuing(moved, changed) = {"PHASE_MUTATION", "CONTINUATION"}
    BY <1>3 DEF Continuing
  <2>2. Lined(Continuing(moved, changed), f) = << <<"PHASE_MUTATION", f>>, <<"CONTINUATION", f>> >>
    BY <2>1, LinedUp
  <2>3. Range(Lined(Continuing(moved, changed), f)) = {<<"PHASE_MUTATION", f>>, <<"CONTINUATION", f>>}
    BY <2>2, ShortTuples
  <2>4. {<<r, f>> : r \in Continuing(moved, changed)} = {<<"PHASE_MUTATION", f>>, <<"CONTINUATION", f>>}
    BY <2>1
  <2>5. ~Conflict(Continuing(moved, changed))
    BY <2>1, NoConflict
  <2> QED BY <1>3, <2>2, <2>3, <2>4, <2>5
<1>4. CASE ~moved /\ ~changed
  <2>1. Continuing(moved, changed) = {"CONTINUATION"}
    BY <1>4 DEF Continuing
  <2>2. Lined(Continuing(moved, changed), f) = << <<"CONTINUATION", f>> >>
    BY <2>1, LinedUp
  <2>3. Range(Lined(Continuing(moved, changed), f)) = {<<"CONTINUATION", f>>}
    BY <2>2, ShortTuples
  <2>4. {<<r, f>> : r \in Continuing(moved, changed)} = {<<"CONTINUATION", f>>}
    BY <2>1
  <2>5. ~Conflict(Continuing(moved, changed))
    BY <2>1, NoConflict
  <2> QED BY <1>4, <2>2, <2>3, <2>4, <2>5
<1> QED BY <1>1, <1>2, <1>3, <1>4

Before(s) == IF inputs[s] = <<>> THEN <<>> ELSE <<Last(inputs[s])>>

LEMMA TakenRules ==
  ASSUME NEW s, NEW frame, NEW f, Taken(s, frame, f), NEW previous, previous = Before(s)
  PROVE  IF inputs[s] = <<>> THEN RunStart(f)' /\ Matched(frame, previous) = {"BIRTH"}
         ELSE Matched(frame, previous) = IF RunStart(f)' THEN {"CENSOR_GAP", "BIRTH"}
                                         ELSE Continuing(Moved(f)', Changed(f)')
<1>0. /\ f[1] = s /\ Content(f)' = frame
      /\ previous = IF inputs[s] = <<>> THEN <<>> ELSE <<Last(inputs[s])>>
      /\ IF inputs[s] = <<>> THEN f[2] = 1 ELSE f[2] # 1 /\ inputs'[s][f[2] - 1] = Last(inputs[s])
  BY DEF Taken, Before
<1>1. CASE inputs[s] = <<>>
  BY <1>0, <1>1 DEF Matched, RunStart
<1>2. CASE inputs[s] # <<>>
  <2>1. PICK prior : prior = Last(inputs[s])
    OBVIOUS
  <2>2. previous = <<prior>> /\ previous # <<>> /\ previous[1] = prior
    BY <1>0, <1>2, <2>1
  <2>3. /\ RunStart(f)' <=> frame.segment # prior.segment
        /\ Moved(f)' <=> ParentSignature(frame) # ParentSignature(prior)
        /\ Changed(f)' <=> frame.structure # prior.structure
    BY <1>0, <1>2, <2>1 DEF RunStart, Moved, Changed
  <2>4. Matched(frame, previous) =
          IF frame.segment # prior.segment THEN {"CENSOR_GAP", "BIRTH"}
          ELSE {"CONTINUATION"}
               \cup (IF ParentSignature(frame) # ParentSignature(prior) THEN {"RE_PARENT"} ELSE {})
               \cup (IF frame.structure # prior.structure THEN {"PHASE_MUTATION"} ELSE {})
    BY <2>2 DEF Matched
  <2> QED BY <1>2, <2>3, <2>4 DEF Continuing
<1> QED BY <1>1, <1>2

RulesChoosing(frame, empty, first, moved, changed, rules, ready) ==
  /\ frame.available \in BOOLEAN /\ {empty, first, moved, changed} \subseteq BOOLEAN /\ (empty => first)
  /\ rules = IF empty THEN {"BIRTH"} ELSE IF first THEN {"CENSOR_GAP", "BIRTH"} ELSE Continuing(moved, changed)
  /\ ready = {r \in rules : Evaluable(r, frame)}

RulesChosen(frame, empty, first, moved, changed, rules, ready) ==
  /\ ready = IF empty THEN {"BIRTH"} ELSE IF first THEN {"CENSOR_GAP", "BIRTH"}
             ELSE Continuing(moved /\ frame.available, changed)
  /\ rules \ ready = IF ~first /\ moved /\ ~frame.available THEN {"RE_PARENT"} ELSE {}
  /\ ~Conflict(ready) /\ (\A f : Range(Lined(ready, f)) = {<<r, f>> : r \in ready}) /\ ready # {}
  /\ ~first /\ changed => "PHASE_MUTATION" \in ready
  /\ ~first /\ moved /\ frame.available => "RE_PARENT" \in ready

LEMMA ReadyCases ==
  ASSUME NEW frame, NEW empty, NEW first, NEW moved, NEW changed, NEW rules, NEW ready,
         RulesChoosing(frame, empty, first, moved, changed, rules, ready)
  PROVE  RulesChosen(frame, empty, first, moved, changed, rules, ready)
<1>0. /\ frame.available \in BOOLEAN /\ empty \in BOOLEAN /\ first \in BOOLEAN /\ moved \in BOOLEAN /\ changed \in BOOLEAN
      /\ (empty => first)
      /\ rules = IF empty THEN {"BIRTH"} ELSE IF first THEN {"CENSOR_GAP", "BIRTH"} ELSE Continuing(moved, changed)
      /\ ready = {r \in rules : Evaluable(r, frame)}
  BY DEF RulesChoosing
<1>1. CASE empty
  <2>1. rules = {"BIRTH"} /\ ready = {"BIRTH"}
    BY <1>0, <1>1 DEF Evaluable
  <2>2. ASSUME NEW f PROVE Range(Lined(ready, f)) = {<<r, f>> : r \in ready}
    <3>1. Lined(ready, f) = << <<"BIRTH", f>> >>
      BY <2>1, LinedUp
    <3>2. Range(Lined(ready, f)) = {<<"BIRTH", f>>}
      BY <3>1, ShortTuples
    <3>3. {<<r, f>> : r \in ready} = {<<"BIRTH", f>>}
      BY <2>1
    <3> QED BY <3>2, <3>3
  <2>5. ~Conflict(ready)
    BY <2>1, NoConflict
  <2> QED BY <1>0, <1>1, <2>1, <2>2, <2>5 DEF RulesChosen
<1>2. CASE ~empty /\ first
  <2>1. rules = {"CENSOR_GAP", "BIRTH"} /\ ready = {"CENSOR_GAP", "BIRTH"}
    BY <1>0, <1>2 DEF Evaluable
  <2>2. ASSUME NEW f PROVE Range(Lined(ready, f)) = {<<r, f>> : r \in ready}
    <3>1. Lined(ready, f) = << <<"CENSOR_GAP", f>>, <<"BIRTH", f>> >>
      BY <2>1, LinedUp
    <3>2. \A a, c : Range(<<a, c>>) = {a, c}
      BY ShortTuples
    <3>3. {<<r, f>> : r \in ready} = {<<"CENSOR_GAP", f>>, <<"BIRTH", f>>}
      BY <2>1
    <3> QED BY <3>1, <3>2, <3>3
  <2>5. ~Conflict(ready)
    BY <2>1, NoConflict
  <2> QED BY <1>0, <1>2, <2>1, <2>2, <2>5 DEF RulesChosen
<1>3. CASE ~empty /\ ~first
  <2>1. rules = Continuing(moved, changed)
    BY <1>0, <1>3
  <2>2. PICK told \in BOOLEAN : told <=> moved /\ frame.available
    BY <1>0
  <2>3. ready = Continuing(told, changed)
    BY <1>0, <2>1, <2>2 DEF Evaluable, Continuing
  <2>4. rules \ ready = IF moved /\ ~frame.available THEN {"RE_PARENT"} ELSE {}
    BY <1>0, <2>1, <2>2, <2>3 DEF Continuing
  <2>5. ASSUME NEW f PROVE ~Conflict(ready) /\ Range(Lined(ready, f)) = {<<r, f>> : r \in ready}
    <3>1. /\ ~Conflict(Continuing(told, changed))
          /\ Range(Lined(Continuing(told, changed), f)) = {<<r, f>> : r \in Continuing(told, changed)}
      BY <1>0, ContinuingCases
    <3> QED BY <2>3, <3>1
  <2>6. ready # {} /\ (changed => "PHASE_MUTATION" \in ready) /\ (told => "RE_PARENT" \in ready)
    BY <2>3 DEF Continuing
  <2>7. Continuing(moved /\ frame.available, changed) = Continuing(told, changed)
    BY <2>2 DEF Continuing
  <2> QED BY <1>0, <1>3, <2>2, <2>3, <2>4, <2>5, <2>6, <2>7 DEF RulesChosen
<1> QED BY <1>1, <1>2, <1>3

LEMMA TakeStep ==
  ASSUME ReplayIInv, NEW frame \in Inputs, TakeFrame(frame), calls' = calls, halfDone' = halfDone
  PROVE  ReplayIInv'
<1>a. PICK s, f, previous : /\ s = side /\ f = <<s, Len(inputs[s]) + 1>>
                            /\ previous = Before(s)
  OBVIOUS
<1>b. PICK rules, ready : rules = Matched(frame, previous) /\ ready = {r \in rules : Evaluable(r, frame)}
  OBVIOUS
<1>c. PICK empty, first, moved, changed \in BOOLEAN :
        /\ empty <=> inputs[s] = <<>>
        /\ first <=> RunStart(f)'
        /\ moved <=> Moved(f)'
        /\ changed <=> Changed(f)'
  <2>1. (inputs[s] = <<>>) \in BOOLEAN /\ RunStart(f)' \in BOOLEAN /\ Moved(f)' \in BOOLEAN /\ Changed(f)' \in BOOLEAN
    BY DEF RunStart, Moved, Changed
  <2> QED BY <2>1
<1>0. /\ EngineCore /\ NothingHalfDone /\ InputTypes /\ Position /\ Owned /\ OnlyActiveOpen /\ EventsApplied
      /\ MembersOnce /\ PhasesSound /\ ParentsTold /\ ParentsBlocked /\ SnapshotsTaken /\ SidesInTurn /\ ReplayTypeOK
      /\ calls = 0 /\ halfDone = FALSE
  BY DEF ReplayIInv, ReplayTypeOK, InputTypes
<1>1. /\ outcome = "RUNNING" /\ pending = <<>> /\ s \in Sides /\ Cardinality(AllFrames) < MaxFrames
      /\ inputs' = [inputs EXCEPT ![s] = Append(@, frame)]
      /\ blocked' = blocked \cup {<<r, f>> : r \in rules \ ready}
      /\ ~Conflict(ready) => /\ pending' = Lined(ready, f)
                             /\ UNCHANGED <<engineState, side, active, phaseFrom, outcome>>
  BY <1>a, <1>b DEF TakeFrame, Idle, Lined, Before
<1>d. Taking(s, frame, f)
  BY <1>a, <1>0, <1>1 DEF Taking
<1>e. Taken(s, frame, f)
  BY <1>d, FrameTaken
<1>2. /\ InputTypes' /\ AllFrames' = AllFrames \cup {f} /\ f \notin AllFrames /\ f \in EpisodeFrames
      /\ f[1] = s /\ f[2] = Len(inputs[s]) + 1 /\ f[2] \in Nat /\ Len(inputs'[s]) = f[2] /\ inputs'[s] # <<>>
      /\ Content(f)' = frame
      /\ \A g \in AllFrames : Content(g)' = Content(g) /\ (RunStart(g)' <=> RunStart(g))
      /\ \A g \in AllFrames : g[2] # 1 => (Changed(g)' <=> Changed(g)) /\ (Moved(g)' <=> Moved(g))
      /\ \A e, g \in AllFrames : InRun(e, g)' <=> InRun(e, g)
      /\ IF inputs[s] = <<>> THEN f[2] = 1
         ELSE f[2] # 1 /\ inputs'[s][f[2] - 1] = Last(inputs[s])
      /\ \A t \in Sides : t # s => inputs'[t] = inputs[t]
  BY <1>e DEF Taken
<1>3. IF inputs[s] = <<>> THEN RunStart(f)' /\ rules = {"BIRTH"}
      ELSE rules = IF RunStart(f)' THEN {"CENSOR_GAP", "BIRTH"} ELSE Continuing(Moved(f)', Changed(f)')
  <2>1. IF inputs[s] = <<>> THEN RunStart(f)' /\ Matched(frame, previous) = {"BIRTH"}
        ELSE Matched(frame, previous) = IF RunStart(f)' THEN {"CENSOR_GAP", "BIRTH"} ELSE Continuing(Moved(f)', Changed(f)')
    BY <1>a, <1>e, TakenRules
  <2> QED BY <1>b, <2>1
<1>4. (empty => first) /\ rules = IF empty THEN {"BIRTH"} ELSE IF first THEN {"CENSOR_GAP", "BIRTH"} ELSE Continuing(moved, changed)
  <2>1. Continuing(moved, changed) = Continuing(Moved(f)', Changed(f)')
    BY <1>c DEF Continuing
  <2> QED BY <1>c, <1>3, <2>1
<1>5. frame.available \in BOOLEAN
  BY DEF Inputs
<1>6. /\ ready = IF empty THEN {"BIRTH"} ELSE IF first THEN {"CENSOR_GAP", "BIRTH"}
                 ELSE Continuing(moved /\ frame.available, changed)
      /\ rules \ ready = IF ~first /\ moved /\ ~frame.available THEN {"RE_PARENT"} ELSE {}
      /\ ~Conflict(ready) /\ Range(Lined(ready, f)) = {<<r, f>> : r \in ready} /\ ready # {}
      /\ ~first /\ changed => "PHASE_MUTATION" \in ready
      /\ ~first /\ moved /\ frame.available => "RE_PARENT" \in ready
  <2>1. RulesChoosing(frame, empty, first, moved, changed, rules, ready)
    BY <1>b, <1>4, <1>5 DEF RulesChoosing
  <2>2. RulesChosen(frame, empty, first, moved, changed, rules, ready)
    BY <2>1, ReadyCases
  <2> QED BY <2>2 DEF RulesChosen
<1>7. /\ pending' = Lined(ready, f) /\ Range(pending') = {<<r, f>> : r \in ready}
      /\ semantic' = semantic /\ statusOf' = statusOf /\ ownerOf' = ownerOf /\ edges' = edges
      /\ side' = side /\ active' = active /\ phaseFrom' = phaseFrom /\ outcome' = outcome
  BY <1>1, <1>6 DEF engineState
<1>8. EngineCore' /\ NothingHalfDone' /\ Genesis' = Genesis /\ \A k : Records(k)' = Records(k)
  BY <1>0, <1>7, CoreKept
<1>9. Range(pending) = {} /\ Applied = AllFrames
  <2>1. Range(pending) = {}
    BY <1>1, ShortTuples
  <2> QED BY <2>1 DEF Applied
<1>10. \A c \in Range(pending') : c[2] = f
  BY <1>7
<1>11. Applied' = Applied
  <2>1. {c[2] : c \in Range(pending')} = {f}
    <3>1. ready # {} /\ Range(pending') = {<<r, f>> : r \in ready}
      BY <1>6, <1>7
    <3>2. PICK r \in ready : <<r, f>> \in Range(pending')
      BY <3>1
    <3>3. <<r, f>>[2] = f
      OBVIOUS
    <3> QED BY <1>10, <3>2, <3>3
  <2> QED BY <1>2, <1>9, <2>1 DEF Applied
<1>12. f \notin Genesis /\ Genesis \subseteq AllFrames
  BY <1>2, GenesisApplied
<1>13. LastFrame' = f
  <2>1. f = <<f[1], f[2]>>
    BY <1>a
  <2> QED BY <1>a, <1>2, <1>7, <2>1 DEF LastFrame
<1>14. Position'
  <2>0. \A a : Candidate(a)' = <<a, f>>
    BY <1>13 DEF Candidate
  <2>1. CASE empty
    <3>1. pending' = << <<"BIRTH", f>> >>
      BY <1>6, <1>7, <2>1, LinedUp
    <3>2. active = NoFrame
      BY <1>a, <1>c, <1>0, <1>1, <2>1 DEF Position, Sides
    <3> QED BY <1>a, <1>c, <1>1, <1>2, <1>4, <1>7, <1>13, <2>0, <2>1, <3>1, <3>2 DEF Position
  <2>2. CASE ~empty
    <3>1. active = ownerOf[LastFrame]
      BY <1>a, <1>c, <1>0, <1>1, <2>2 DEF Position, Sides
    <3>2. Behind(f) = LastFrame /\ f[2] # 1
      <4>1. f[2] - 1 = Len(inputs[s])
        BY <1>0, <1>1, <1>2, FrameFacts
      <4> QED BY <1>a, <1>c, <1>2, <2>2, <4>1 DEF Behind, LastFrame
    <3>3. active' = ownerOf'[Behind(f)] /\ Behind(f)' = Behind(f)
      BY <1>7, <3>1, <3>2 DEF Behind
    <3>4. CASE first
      <4>1. pending' = << <<"CENSOR_GAP", f>>, <<"BIRTH", f>> >>
        BY <1>6, <1>7, <2>2, <3>4, LinedUp
      <4> QED BY <1>a, <1>c, <1>1, <1>2, <1>7, <1>13, <2>0, <3>2, <3>3, <3>4, <4>1 DEF Position
    <3>5. CASE ~first
      <4>1. PICK told \in BOOLEAN : told <=> moved /\ frame.available
        BY <1>5
      <4>2. ready = Continuing(told, changed)
        BY <1>6, <2>2, <3>5, <4>1 DEF Continuing
      <4>3. pending' =
              IF told THEN IF changed THEN << <<"RE_PARENT", f>>, <<"PHASE_MUTATION", f>>, <<"CONTINUATION", f>> >>
                           ELSE << <<"RE_PARENT", f>>, <<"CONTINUATION", f>> >>
              ELSE IF changed THEN << <<"PHASE_MUTATION", f>>, <<"CONTINUATION", f>> >> ELSE << <<"CONTINUATION", f>> >>
        <5>1. pending' = Lined(Continuing(told, changed), f)
          BY <1>7, <4>2
        <5> QED BY <5>1, ContinuingCases
      <4>4. side' \in Sides /\ inputs'[side'] # <<>> /\ LastFrame'[2] # 1 /\ active' = ownerOf'[Behind(LastFrame)'] /\ ~RunStart(LastFrame)'
        BY <1>a, <1>c, <1>1, <1>2, <1>7, <1>13, <3>2, <3>3, <3>5 DEF Behind, RunStart, Content
      <4>5. told => Moved(LastFrame)' /\ Content(LastFrame)'.available
        BY <1>c, <1>2, <1>13, <4>1 DEF Moved, Content
      <4>6. changed => Changed(LastFrame)'
        BY <1>c, <1>13 DEF Changed, Content
      <4>7. CASE told /\ changed
        BY <2>0, <4>3, <4>4, <4>5, <4>6, <4>7 DEF Position
      <4>8. CASE told /\ ~changed
        BY <2>0, <4>3, <4>4, <4>5, <4>6, <4>8 DEF Position
      <4>9. CASE ~told /\ changed
        BY <2>0, <4>3, <4>4, <4>5, <4>6, <4>9 DEF Position
      <4>10. CASE ~told /\ ~changed
        BY <2>0, <4>3, <4>4, <4>5, <4>6, <4>10 DEF Position
      <4> QED BY <4>7, <4>8, <4>9, <4>10
    <3> QED BY <3>4, <3>5
  <2> QED BY <2>1, <2>2
<1>15. Owned'
  <2>1. \A e, g \in Applied : InRun(e, g)' <=> InRun(e, g)
    BY <1>2, <1>9
  <2> QED BY <1>0, <1>7, <1>11, <2>1 DEF Owned
<1>16. OnlyActiveOpen' /\ MembersOnce'
  BY <1>0, <1>7, <1>8 DEF OnlyActiveOpen, Open, MembersOnce
<1>17. EventsApplied'
  <2> SUFFICES ASSUME NEW r \in Records("EVENT")
               PROVE  /\ r.candidate = <<r.action, r.candidate[2]>>
                      /\ r.candidate[2] \in AllFrames' /\ r.candidate \notin Range(pending')
                      /\ r.action = "CENSOR_RELEASE_END" => r.candidate[2][1] # side'
    BY <1>8 DEF EventsApplied
  <2>1. /\ r.candidate = <<r.action, r.candidate[2]>> /\ r.candidate[2] \in AllFrames
        /\ r.action = "CENSOR_RELEASE_END" => r.candidate[2][1] # side
    BY <1>0 DEF EventsApplied
  <2> QED BY <1>2, <1>7, <1>10, <2>1
<1>18. ASSUME NEW e \in Genesis, InRun(e, f)' PROVE ~RunStart(f)' /\ f # e
  <2>1. RunsRight'
    BY <1>2, RunsIf, PTL
  <2>2. e \in AllFrames' /\ f \in AllFrames' /\ f # e
    BY <1>2, <1>12
  <2> QED BY <1>18, <2>1, <2>2 DEF RunsRight
<1>19. ASSUME NEW e \in Genesis, NEW g \in AllFrames, InRun(e, g), g # e
       PROVE  (Changed(g)' <=> Changed(g)) /\ (Moved(g)' <=> Moved(g)) /\ Content(g)' = Content(g)
  <2>1. g[2] # 1
    BY <1>0, <1>12, <1>19, RunFacts
  <2> QED BY <1>2, <2>1
<1>20. PhasesSound'
  <2>1. ASSUME NEW e \in Genesis PROVE PhaseEnds(e)' = PhaseEnds(e)
    <3>1. ASSUME NEW g \in AllFrames PROVE g \in PhaseEnds(e)' <=> g \in PhaseEnds(e)
      <4>1. <<"PHASE_MUTATION", g>> \notin Range(pending) /\ <<"PHASE_MUTATION", g>> \notin Range(pending')
        BY <1>2, <1>9, <1>10
      <4>2. (InRun(e, g)' <=> InRun(e, g)) /\ g \in AllFrames'
        BY <1>2, <1>12
      <4>3. g \in PhaseEnds(e)' <=> InRun(e, g)' /\ g # e /\ Changed(g)'
        BY <4>1, <4>2 DEF PhaseEnds
      <4>4. g \in PhaseEnds(e) <=> InRun(e, g) /\ g # e /\ Changed(g)
        BY <4>1 DEF PhaseEnds
      <4> QED BY <1>19, <4>2, <4>3, <4>4
    <3>2. f \notin PhaseEnds(e)'
      <4> SUFFICES ASSUME f \in PhaseEnds(e)' PROVE FALSE
        OBVIOUS
      <4>1. InRun(e, f)' /\ Changed(f)' /\ <<"PHASE_MUTATION", f>> \notin Range(pending')
        BY DEF PhaseEnds
      <4>2. "PHASE_MUTATION" \in ready
        BY <1>c, <1>6, <1>18, <4>1
      <4> QED BY <1>7, <4>1, <4>2
    <3>3. PhaseEnds(e)' \subseteq AllFrames \cup {f} /\ PhaseEnds(e) \subseteq AllFrames
      BY <1>2 DEF PhaseEnds
    <3> QED BY <1>2, <3>1, <3>2, <3>3
  <2>2. \A e : PhasesOf(e)' = PhasesOf(e)
    BY <1>8 DEF PhasesOf
  <2> QED BY <1>0, <1>7, <1>8, <2>1, <2>2 DEF PhasesSound
<1>21. ParentsTold'
  <2> SUFFICES ASSUME NEW e \in Genesis, NEW g \in AllFrames'
               PROVE  ReParentEvent(e, g) \in Range(semantic) <=> ParentMoves(e, g)'
    BY <1>7, <1>8 DEF ParentsTold
  <2>1. CASE g \in AllFrames
    <3>1. <<"RE_PARENT", g>> \notin Range(pending) /\ <<"RE_PARENT", g>> \notin Range(pending')
      BY <1>2, <1>9, <1>10, <2>1
    <3>2. InRun(e, g)' <=> InRun(e, g)
      BY <1>2, <1>12, <2>1
    <3>3. ParentMoves(e, g)' <=> InRun(e, g)' /\ g # e /\ Moved(g)' /\ Content(g)'.available
      BY <3>1 DEF ParentMoves
    <3>4. ParentMoves(e, g) <=> InRun(e, g) /\ g # e /\ Moved(g) /\ Content(g).available
      BY <3>1 DEF ParentMoves
    <3>5. ParentMoves(e, g)' <=> ParentMoves(e, g)
      BY <1>19, <2>1, <3>2, <3>3, <3>4
    <3> QED BY <1>0, <2>1, <3>5 DEF ParentsTold
  <2>2. CASE g = f
    <3>1. ReParentEvent(e, g) \notin Range(semantic)
      <4>1. ReParentEvent(e, g).kind = "EVENT" /\ ReParentEvent(e, g).candidate = <<"RE_PARENT", g>>
        BY RecordFields DEF ReParentEvent
      <4>2. <<"RE_PARENT", g>>[2] = g
        OBVIOUS
      <4> QED BY <1>0, <1>2, <2>2, <4>1, <4>2 DEF EventsApplied, Records
    <3>2. ASSUME ParentMoves(e, f)' PROVE FALSE
      <4>1. InRun(e, f)' /\ Moved(f)' /\ frame.available /\ <<"RE_PARENT", f>> \notin Range(pending')
        BY <1>2, <3>2 DEF ParentMoves
      <4>2. "RE_PARENT" \in ready
        BY <1>c, <1>6, <1>18, <4>1
      <4> QED BY <1>7, <4>1, <4>2
    <3> QED BY <2>2, <3>1, <3>2
  <2> QED BY <1>2, <2>1, <2>2
<1>22. ParentsBlocked'
  <2> DEFINE Held == {h \in AllFrames : ~RunStart(h) /\ Moved(h) /\ ~Content(h).available}
             more == IF ~first /\ moved /\ ~frame.available THEN {f} ELSE {}
  <2>1. ASSUME NEW h \in AllFrames PROVE h \in Held' <=> h \in Held
    <3>1. ~RunStart(h) => h[2] # 1
      BY DEF RunStart
    <3> QED BY <1>2, <3>1
  <2>2. f \in Held' <=> f \in more
    BY <1>c, <1>2
  <2>3. Held' \subseteq AllFrames \cup {f} /\ more \subseteq {f} /\ Held \subseteq AllFrames
    BY <1>2
  <2>4. blocked = {<<"RE_PARENT", g>> : g \in Held}
    BY <1>0 DEF ParentsBlocked
  <2>5. blocked' = blocked \cup {<<"RE_PARENT", g>> : g \in more}
    <3>1. {<<r, f>> : r \in rules \ ready} = {<<"RE_PARENT", g>> : g \in more}
      BY <1>6
    <3> QED BY <1>1, <3>1
  <2> HIDE DEF Held, more
  <2>6. Held' = Held \cup more
    BY <1>2, <2>1, <2>2, <2>3
  <2>7. blocked' = {<<"RE_PARENT", g>> : g \in Held'}
    BY <2>4, <2>5, <2>6
  <2> QED BY <2>7 DEF ParentsBlocked, Held
<1>23. SnapshotsTaken'
  BY <1>0, <1>1, <1>7, <1>8 DEF SnapshotsTaken
<1>24. SidesInTurn'
  BY <1>a, <1>0, <1>1, <1>2, <1>7 DEF SidesInTurn, Sides
<1>25. ReplayTypeOK'
  BY <1>0, <1>2, <1>7 DEF ReplayTypeOK, InputTypes
<1> QED BY <1>0, <1>2, <1>8, <1>14, <1>15, <1>16, <1>17, <1>20, <1>21, <1>22, <1>23, <1>24, <1>25 DEF ReplayIInv, InputTypes

(***************************************************************************)
(* EpisodeReplay: between and behind the sides                             *)
(***************************************************************************)

LEMMA BlockedKept ==
  ASSUME ParentsBlocked, inputs' = inputs, blocked' = blocked
  PROVE  ParentsBlocked'
<1> DEFINE Held == {h \in AllFrames : ~RunStart(h) /\ Moved(h) /\ ~Content(h).available}
<1>1. Held' = Held
  BY InputsKept
<1>2. blocked = {<<"RE_PARENT", g>> : g \in Held}
  BY DEF ParentsBlocked
<1>3. blocked' = {<<"RE_PARENT", g>> : g \in Held'}
  <2> HIDE DEF Held
  <2> QED BY <1>1, <1>2
<1> QED BY <1>3 DEF ParentsBlocked

\* A step that takes no frame, applies no candidate and ends no side.
LEMMA StandsStill ==
  ASSUME ReplayIInv, inputs' = inputs, side' = side, pending' = pending, blocked' = blocked, active' = active,
         statusOf' = statusOf, ownerOf' = ownerOf,
         Records("EVENT")' = Records("EVENT"), Records("MEMBER")' = Records("MEMBER"),
         Records("PHASE")' = Records("PHASE"),
         \A e \in Genesis : e = active => phaseFrom'[e] = phaseFrom[e]
  PROVE  /\ Genesis' = Genesis /\ Position' /\ Owned' /\ OnlyActiveOpen' /\ EventsApplied' /\ MembersOnce'
         /\ PhasesSound' /\ ParentsTold' /\ ParentsBlocked'
<1>0. /\ Position /\ Owned /\ OnlyActiveOpen /\ EventsApplied /\ MembersOnce /\ PhasesSound /\ ParentsTold /\ ParentsBlocked
  BY DEF ReplayIInv
<1>1. Genesis' = Genesis /\ AllFrames' = AllFrames /\ Applied' = Applied
  BY InputsKept DEF Genesis, Applied
<1>2. Position'
  <2>1. LastFrame' = LastFrame /\ Behind(LastFrame)' = Behind(LastFrame) /\ \A a : Candidate(a)' = Candidate(a)
    BY DEF LastFrame, Behind, Candidate
  <2>2. /\ (RunStart(LastFrame)' <=> RunStart(LastFrame)) /\ (Changed(LastFrame)' <=> Changed(LastFrame))
        /\ (Moved(LastFrame)' <=> Moved(LastFrame)) /\ Content(LastFrame)' = Content(LastFrame)
    BY <2>1 DEF RunStart, Changed, Moved, Content
  <2> QED BY <1>0, <2>1, <2>2 DEF Position
<1>3. Owned'
  BY <1>0, <1>1, OwnedKept
<1>4. OnlyActiveOpen' /\ MembersOnce'
  BY <1>0, <1>1 DEF OnlyActiveOpen, Open, MembersOnce
<1>5. EventsApplied'
  BY <1>0, <1>1 DEF EventsApplied
<1>6. PhasesSound'
  BY <1>0, <1>1, PhasesKept
<1>7. ParentsTold'
  <2>1. \A e, g : ReParentEvent(e, g) \in Range(semantic)' <=> ReParentEvent(e, g) \in Range(semantic)
    <3>1. \A e, g : ReParentEvent(e, g).kind = "EVENT"
      BY RecordFields DEF ReParentEvent
    <3> QED BY <3>1 DEF Records
  <2> QED BY <1>0, <1>1, <2>1, ToldKept
<1>8. ParentsBlocked'
  BY <1>0, BlockedKept
<1> QED BY <1>1, <1>2, <1>3, <1>4, <1>5, <1>6, <1>7, <1>8

LEMMA RaisesStep ==
  ASSUME ReplayIInv, outcome = "RUNNING", ReplayRaises, side \in Sides, inputs[side] = <<>>,
         inputs' = inputs, pending' = pending, blocked' = blocked, calls' = calls, halfDone' = halfDone
  PROVE  ReplayIInv'
<1>1. /\ outcome' = "FAILED" /\ side' = side /\ active' = active /\ phaseFrom' = phaseFrom
      /\ semantic' = semantic /\ statusOf' = statusOf /\ ownerOf' = ownerOf /\ edges' = edges
  BY DEF ReplayRaises, engineState
<1>2. EngineCore' /\ NothingHalfDone' /\ \A k : Records(k)' = Records(k)
  BY <1>1, CoreKept DEF ReplayIInv
<1>3. /\ Position' /\ Owned' /\ OnlyActiveOpen' /\ EventsApplied' /\ MembersOnce'
      /\ PhasesSound' /\ ParentsTold' /\ ParentsBlocked'
  BY <1>1, <1>2, StandsStill
<1>4. ReplayTypeOK' /\ SidesInTurn' /\ SnapshotsTaken'
  BY <1>1, <1>2 DEF ReplayIInv, ReplayTypeOK, SidesInTurn, SnapshotsTaken
<1>5. calls' = 0 /\ halfDone' = FALSE /\ \A s \in Sides : Len(inputs'[s]) <= MaxFrames
  BY DEF ReplayIInv
<1> QED BY <1>2, <1>3, <1>4, <1>5 DEF ReplayIInv

LEMMA EndStep ==
  ASSUME ReplayIInv, EndSide, calls' = calls, halfDone' = halfDone
  PROVE  ReplayIInv'
<1>0. /\ EngineCore /\ NothingHalfDone /\ InputTypes /\ Position /\ Owned /\ OnlyActiveOpen /\ EventsApplied
      /\ MembersOnce /\ PhasesSound /\ ParentsTold /\ ParentsBlocked /\ SnapshotsTaken /\ SidesInTurn /\ ReplayTypeOK
      /\ calls = 0 /\ halfDone = FALSE
  BY DEF ReplayIInv, ReplayTypeOK, InputTypes
<1>1. outcome = "RUNNING" /\ pending = <<>> /\ side \in Sides /\ inputs' = inputs /\ pending' = pending /\ blocked' = blocked
  BY DEF EndSide, Idle
<1>2. CASE inputs[side] = <<>>
  <2>1. ReplayRaises
    BY <1>2 DEF EndSide
  <2> QED BY <1>1, <1>2, <2>1, RaisesStep
<1>3. CASE inputs[side] # <<>>
  <2>a. PICK f, e : f = LastFrame /\ e = active
    OBVIOUS
  <2> DEFINE c == <<"CENSOR_RELEASE_END", f>>
             event == BoundaryEvent("CENSOR_RELEASE_END", {e}, c)
  <2>1. Range(pending) = {} /\ Range(pending)' = {} /\ Applied = AllFrames /\ Applied' = Applied /\ AllFrames' = AllFrames
    <3>1. Range(pending) = {} /\ Range(pending)' = {}
      BY <1>1, ShortTuples
    <3> QED BY <1>1, <3>1, InputsKept DEF Applied
  <2>2. f \in AllFrames /\ f[1] = side
    BY <2>a, <1>0, <1>1, <1>3, LastFacts
  <2>3. e = ownerOf[f] /\ e \in AllFrames /\ e \in EpisodeFrames /\ e # NoFrame
    <3>1. e = ownerOf[f]
      BY <2>a, <1>0, <1>1, <1>3 DEF Position, Sides
    <3>2. ownerOf[f] \in AllFrames /\ AllFrames \subseteq EpisodeFrames
      BY <1>0, <2>1, <2>2, FrameFacts DEF Owned
    <3> QED BY <3>1, <3>2, ReplayAssumption
  <2>4. /\ Finish(e, "CENSOR_RELEASE_END", c) /\ side' = NextSide /\ active' = NoFrame
        /\ phaseFrom' = phaseFrom /\ outcome' = outcome
        /\ Extend(<<event>>) /\ edges' = edges /\ ownerOf' = ownerOf
        /\ statusOf' = [statusOf EXCEPT ![e] = "CENSORED"]
    <3>1. /\ Finish(e, "CENSOR_RELEASE_END", c) /\ side' = NextSide /\ active' = NoFrame
          /\ phaseFrom' = phaseFrom /\ outcome' = outcome
      BY <2>a, <1>3, <2>3 DEF EndSide, LastFrame
    <3> QED BY <3>1, EndingFacts DEF Finish
  <2>5. EngineCore' /\ Genesis' = Genesis
    <3>1. "CENSOR_RELEASE_END" \in DOMAIN Endings
      BY EndingFacts
    <3> QED BY <1>0, <2>3, <2>4, <3>1, FinishCore
  <2>6. NothingHalfDone'
    <3>1. PhasesFollow'
      BY <1>0, <2>4, EventFollows DEF NothingHalfDone
    <3> QED BY <1>0, <2>4, <3>1 DEF NothingHalfDone
  <2>7. /\ Records("EVENT")' = Records("EVENT") \cup {event} /\ Records("MEMBER")' = Records("MEMBER")
        /\ Records("PHASE")' = Records("PHASE") /\ Records("SNAPSHOT")' = Records("SNAPSHOT")
        /\ Range(semantic)' = Range(semantic) \cup {event}
    BY <1>0, <2>4, EventAlone
  <2>8. event.action = "CENSOR_RELEASE_END" /\ event.candidate = c
    BY RecordFields
  <2>9. c = <<"CENSOR_RELEASE_END", c[2]>> /\ c[2] = f
    OBVIOUS
  <2> HIDE DEF event, c
  <2>10. \A d, g : ReParentEvent(d, g) \in Range(semantic)' <=> ReParentEvent(d, g) \in Range(semantic)
    <3>1. \A d, g : ReParentEvent(d, g).action = "RE_PARENT"
      BY RecordFields DEF ReParentEvent
    <3> QED BY <2>7, <2>8, <3>1
  <2>11. /\ side = "ASK" => side' = "BID" /\ inputs["BID"] = <<>>
         /\ side = "BID" => side' = "DONE"
    BY <1>0, <2>4 DEF NextSide, SidesInTurn
  <2>12. Position'
    BY <1>1, <2>4, <2>11 DEF Position, Sides
  <2>13. SidesInTurn'
    BY <1>0, <1>1, <1>3, <2>4, <2>11 DEF SidesInTurn, Sides
  <2>14. Owned'
    BY <1>0, <1>1, <2>1, <2>4, OwnedKept
  <2>15. OnlyActiveOpen'
    <3> SUFFICES ASSUME NEW d \in Genesis PROVE statusOf'[d] = "CENSORED" /\ d # active'
      BY <2>5 DEF OnlyActiveOpen
    <3>1. d \in EpisodeFrames /\ d # NoFrame
      BY ReplayAssumption DEF Genesis
    <3>2. \A b \in EpisodeFrames : statusOf'[b] = IF b = e THEN "CENSORED" ELSE statusOf[b]
      BY <1>0, <2>3, <2>4 DEF EngineCore, EngineTypes
    <3> QED BY <2>a, <1>0, <2>4, <3>1, <3>2 DEF OnlyActiveOpen
  <2>16. EventsApplied'
    <3>1. \A g \in AllFrames : g[1] \in Sides /\ inputs[g[1]] # <<>>
      <4>1. \A g \in AllFrames : IsFrame(g)
        BY <1>0, FrameFacts
      <4> QED BY <4>1 DEF IsFrame
    <3>2. \A g \in AllFrames : g[1] # side'
      BY <1>1, <2>11, <3>1 DEF Sides
    <3>3. ASSUME NEW r \in Records("EVENT")'
          PROVE  /\ r.candidate = <<r.action, r.candidate[2]>>
                 /\ r.candidate[2] \in AllFrames' /\ r.candidate \notin Range(pending)'
      <4>1. CASE r = event
        BY <2>1, <2>2, <2>8, <2>9, <4>1
      <4>2. CASE r \in Records("EVENT")
        BY <1>0, <2>1, <4>2 DEF EventsApplied
      <4> QED BY <2>7, <4>1, <4>2
    <3> QED BY <2>1, <3>2, <3>3 DEF EventsApplied
  <2>17. MembersOnce'
    BY <1>0, <2>7 DEF MembersOnce
  <2>18. PhasesSound'
    <3>1. \A d \in Genesis : d # active'
      BY <2>4, ReplayAssumption DEF Genesis
    <3> QED BY <1>0, <1>1, <2>1, <2>5, <2>7, <3>1, PhasesKept
  <2>19. ParentsTold'
    BY <1>0, <1>1, <2>1, <2>5, <2>10, ToldKept
  <2>20. ParentsBlocked'
    BY <1>0, <1>1, BlockedKept
  <2>21. SnapshotsTaken'
    BY <1>0, <1>1, <2>4, <2>7 DEF SnapshotsTaken
  <2>22. ReplayTypeOK'
    BY <1>0, <1>1, <2>4 DEF ReplayTypeOK, NextSide, Sides
  <2>23. calls' = 0 /\ halfDone' = FALSE /\ \A s \in Sides : Len(inputs'[s]) <= MaxFrames
    BY <1>1 DEF ReplayIInv
  <2> QED BY <2>5, <2>6, <2>12, <2>13, <2>14, <2>15, <2>16, <2>17, <2>18, <2>19, <2>20, <2>21, <2>22, <2>23 DEF ReplayIInv
<1> QED BY <1>2, <1>3

LEMMA RestartStep ==
  ASSUME ReplayIInv, Restart, calls' = calls, halfDone' = halfDone
  PROVE  ReplayIInv'
<1>1. /\ outcome = "RUNNING" /\ pending = <<>> /\ side = "BID" /\ inputs["BID"] = <<>>
      /\ statusOf' = [e \in EpisodeFrames |-> IF Unheld(GenesisRecord(e)) THEN "UNBORN" ELSE ProjectedStatus(e)]
      /\ ownerOf' = [f \in EpisodeFrames |-> RestoredOwner(f)]
      /\ phaseFrom' = [e \in EpisodeFrames |-> NoFrame]
      /\ semantic' = semantic /\ edges' = edges /\ inputs' = inputs /\ side' = side /\ pending' = pending
      /\ active' = active /\ blocked' = blocked /\ outcome' = outcome
  BY DEF Restart, Idle
<1>2. EngineCore /\ statusOf \in [EpisodeFrames -> Range(Endings) \cup {"UNBORN", "OPEN"}] /\ ownerOf \in [EpisodeFrames -> EpisodeFrames \cup {NoOwner}]
  BY DEF ReplayIInv, EngineCore, EngineTypes
<1>3. /\ \A e \in Genesis : ProjectedStatus(e) = statusOf[e]
      /\ \A e \in EpisodeFrames : ProjectedMembers(e) = {f \in EpisodeFrames : ownerOf[f] = e}
      /\ \A e \in EpisodeFrames : GenesisRecord(e) \in Range(semantic) <=> e \in Genesis
  BY <1>2, CoreProjects DEF ProjectionAgrees
<1>4. statusOf' = statusOf
  <2>1. ASSUME NEW e \in EpisodeFrames PROVE (IF Unheld(GenesisRecord(e)) THEN "UNBORN" ELSE ProjectedStatus(e)) = statusOf[e]
    BY <1>3 DEF Unheld, Genesis
  <2> QED BY <1>1, <1>2, <2>1
<1>5. ownerOf' = ownerOf
  <2>1. ASSUME NEW f \in EpisodeFrames PROVE RestoredOwner(f) = ownerOf[f]
    <3>1. CASE ownerOf[f] = NoOwner
      <4>1. \A e \in EpisodeFrames : f \notin ProjectedMembers(e)
        BY <1>3, <3>1, EngineAssumption
      <4> QED BY <3>1, <4>1 DEF RestoredOwner
    <3>2. CASE ownerOf[f] # NoOwner
      <4>1. ownerOf[f] \in EpisodeFrames
        BY <1>2, <3>2
      <4>2. \A e \in EpisodeFrames : f \in ProjectedMembers(e) <=> e = ownerOf[f]
        BY <1>3
      <4> QED BY <4>1, <4>2 DEF RestoredOwner
    <3> QED BY <3>1, <3>2
  <2> QED BY <1>1, <1>2, <2>1
<1>6. EngineCore' /\ NothingHalfDone' /\ \A k : Records(k)' = Records(k)
  BY <1>1, <1>4, <1>5, CoreKept DEF ReplayIInv
<1>7. \A e \in Genesis : e # active
  <2>1. active = NoFrame
    BY <1>1 DEF ReplayIInv, Position, Sides
  <2> QED BY <2>1, ReplayAssumption DEF Genesis
<1>8. /\ Position' /\ Owned' /\ OnlyActiveOpen' /\ EventsApplied' /\ MembersOnce'
      /\ PhasesSound' /\ ParentsTold' /\ ParentsBlocked'
  BY <1>1, <1>4, <1>5, <1>6, <1>7, StandsStill
<1>9. ReplayTypeOK' /\ SidesInTurn' /\ SnapshotsTaken'
  BY <1>1, <1>6 DEF ReplayIInv, ReplayTypeOK, SidesInTurn, SnapshotsTaken
<1>10. calls' = 0 /\ halfDone' = FALSE /\ \A s \in Sides : Len(inputs'[s]) <= MaxFrames
  BY <1>1 DEF ReplayIInv
<1> QED BY <1>6, <1>8, <1>9, <1>10 DEF ReplayIInv

\* The frames taken, and the records of their members, are the same in number.
LEMMA MembersCounted ==
  ASSUME ReplayIInv, pending = <<>>
  PROVE  Cardinality(Records("MEMBER")) = Cardinality(AllFrames)
<1>0. EngineCore /\ Owned /\ MembersOnce /\ InputTypes
  BY DEF ReplayIInv, ReplayTypeOK, InputTypes
<1>1. Applied = AllFrames
  <2>1. Range(pending) = {}
    BY ShortTuples
  <2> QED BY <2>1 DEF Applied
<1> DEFINE M == Records("MEMBER")
           frameOf == [r \in M |-> r.frame]
<1>2. ASSUME NEW r \in M PROVE r.frame \in AllFrames
  <2>1. r.frame \in EpisodeFrames /\ ownerOf[r.frame] = r.episode /\ r.episode \in Genesis
    BY <1>0 DEF EngineCore, RecordSound, Records
  <2>2. ownerOf[r.frame] # NoOwner
    BY <2>1, EngineAssumption DEF Genesis
  <2> QED BY <1>0, <1>1, <2>1, <2>2 DEF Owned
<1>3. ASSUME NEW f \in AllFrames PROVE \E r \in M : r.frame = f
  <2>1. f \in EpisodeFrames /\ ownerOf[f] \in EpisodeFrames
    BY <1>0, <1>1, FrameFacts DEF Owned
  <2> QED BY <1>0, <2>1, EngineAssumption DEF EngineCore, MapsRecorded
<1>4. \A r, q \in M : r.frame = q.frame => r = q
  BY <1>0 DEF MembersOnce
<1> HIDE DEF M
<1>5. frameOf \in [M -> AllFrames] /\ \A r \in M : frameOf[r] = r.frame
  BY <1>2
<1> HIDE DEF frameOf
<1>6. frameOf \in Bijection(M, AllFrames)
  BY <1>3, <1>4, <1>5 DEF Bijection, Injection, Surjection, IsInjective
<1>7. ExistsBijection(M, AllFrames)
  BY <1>6 DEF ExistsBijection
<1>8. IsFiniteSet(M) /\ IsFiniteSet(AllFrames)
  <2>1. IsFiniteSet(Range(semantic))
    BY <1>0, FiniteRange DEF EngineCore, EngineTypes
  <2>2. M \subseteq Range(semantic)
    BY DEF M, Records
  <2> QED BY <1>0, <2>1, <2>2, FS_Subset, FrameFacts
<1> QED BY <1>7, <1>8, FS_Bijection DEF M

LEMMA SetInSequence ==
  ASSUME NEW S, IsFiniteSet(S)
  PROVE  /\ SetToSeq(S) \in Seq(Range(SetToSeq(S))) /\ Range(SetToSeq(S)) = S
         /\ \A i, j \in 1..Len(SetToSeq(S)) : SetToSeq(S)[i] = SetToSeq(S)[j] => i = j
<1> DEFINE n == Cardinality(S)
           q == SetToSeq(S)
<1>1. n \in Nat /\ ExistsBijection(1..n, S)
  BY FS_NatBijection, FS_CountingElements, FS_CardinalityType
<1>2. PICK b \in Bijection(1..n, S) : TRUE
  BY <1>1 DEF ExistsBijection
<1>3. b \in [1..n -> S] /\ IsInjective(b)
  BY <1>2 DEF Bijection, Injection
<1>4. q \in [1..n -> S] /\ IsInjective(q)
  BY <1>3 DEF SetToSeq
<1> HIDE DEF q, n
<1>5. q \in Seq(S) /\ Len(q) = n /\ DOMAIN q = 1..n
  BY <1>1, <1>4
<1>6. Range(q) \subseteq S /\ q \in Seq(Range(q))
  BY <1>4, <1>5 DEF Range
<1>7. Cardinality(Range(q)) = n
  BY <1>4, <1>5, <1>6, FiniteRange
<1>8. Range(q) = S
  BY <1>6, <1>7, FS_Subset DEF n
<1>9. \A i, j \in 1..Len(q) : q[i] = q[j] => i = j
  BY <1>4, <1>5 DEF IsInjective
<1> QED BY <1>6, <1>8, <1>9 DEF q

LEMMA ConcludeStep ==
  ASSUME ReplayIInv, Conclude, calls' = calls, halfDone' = halfDone
  PROVE  ReplayIInv'
<1> DEFINE S == {SnapshotOf(e) : e \in Genesis}
<1>0. EngineCore /\ NothingHalfDone
  BY DEF ReplayIInv
<1>1. outcome = "RUNNING" /\ pending = <<>> /\ side = "DONE" /\ inputs' = inputs /\ pending' = pending /\ blocked' = blocked
  BY DEF Conclude, Idle
<1>2. /\ Extend(SetToSeq(S)) /\ outcome' = "COMPLETE" /\ statusOf' = statusOf /\ ownerOf' = ownerOf /\ edges' = edges
      /\ side' = side /\ active' = active /\ phaseFrom' = phaseFrom
  BY <1>1, MembersCounted DEF Conclude
<1>3. \A r \in S : r.kind = "SNAPSHOT"
  BY DEF SnapshotOf
<1>4. IsFiniteSet(S)
  <2>1. IsFiniteSet(Genesis)
    BY EngineAssumption, FS_Subset DEF Genesis
  <2>2. [e \in Genesis |-> SnapshotOf(e)] \in Surjection(Genesis, S)
    BY DEF Surjection
  <2> QED BY <2>1, <2>2, FS_Surjection
<1>5. S = {[kind |-> "SNAPSHOT", episode |-> e, status |-> statusOf[e],
            members |-> {f \in EpisodeFrames : ownerOf[f] = e}] : e \in Genesis}
  <2>1. ASSUME NEW e \in Genesis
        PROVE  SnapshotOf(e) = [kind |-> "SNAPSHOT", episode |-> e, status |-> statusOf[e],
                                members |-> {f \in EpisodeFrames : ownerOf[f] = e}]
    <3>1. ProjectedStatus(e) = statusOf[e] /\ ProjectedMembers(e) = {f \in EpisodeFrames : ownerOf[f] = e}
      BY <1>0, CoreProjects DEF ProjectionAgrees
    <3> QED BY <3>1 DEF SnapshotOf
  <2> QED BY <2>1
<1> HIDE DEF S
<1>6. PICK new : new = SetToSeq(S)
  OBVIOUS
<1>7. /\ new \in Seq(Range(new)) /\ Range(new) = S /\ Extend(new)
      /\ \A i, j \in 1..Len(new) : new[i] = new[j] => i = j
  BY <1>2, <1>4, <1>6, SetInSequence
<1>8. Grown(semantic, new, semantic')
  BY <1>0, <1>7, StreamGrows DEF EngineCore
<1>9. \A k : Records(k)' = Records(k) \cup {r \in S : r.kind = k}
  BY <1>7, <1>8, RecordsGrow
<1>10. Records("SNAPSHOT") = {}
  BY <1>1 DEF ReplayIInv, SnapshotsTaken
<1>11. /\ Records("EVENT")' = Records("EVENT") /\ Records("MEMBER")' = Records("MEMBER")
       /\ Records("PHASE")' = Records("PHASE") /\ Records("SNAPSHOT")' = S
  BY <1>3, <1>9, <1>10
<1>12. Genesis' = Genesis
  BY <1>2 DEF Genesis
<1>13. EngineCore'
  <2>1. Fresh(new)
    BY <1>3, <1>7, <1>10 DEF Fresh, Records
  <2>2. Respectful(new)
    BY <1>3, <1>7 DEF Respectful
  <2>3. \A r \in Range(new) : ~Ending(r) /\ r.kind # "EDGE" /\ RecordSound(r)'
    BY <1>3, <1>7 DEF Ending, RecordSound, Shaped
  <2>4. MapsRecorded'
    <3>1. Range(semantic) \subseteq Range(semantic)'
      BY <1>8 DEF Grown
    <3> QED BY <1>0, <1>2, <1>11, <1>12, <3>1 DEF EngineCore, MapsRecorded
  <2>5. \A k \in 1..Len(new) : new[k].kind # "MEMBER"
    BY <1>3, <1>7, <1>8 DEF Grown
  <2>6. \A r \in Range(new) : r.kind # "EVENT"
    BY <1>3, <1>7
  <2>7. /\ statusOf' \in [EpisodeFrames -> Range(Endings) \cup {"UNBORN", "OPEN"}]
        /\ ownerOf' \in [EpisodeFrames -> EpisodeFrames \cup {NoOwner}]
    BY <1>0, <1>2 DEF EngineCore, EngineTypes
  <2> QED BY <1>0, <1>2, <1>7, <1>12, <2>1, <2>2, <2>3, <2>4, <2>5, <2>6, <2>7, QuietCall
<1>14. NothingHalfDone'
  <2>1. \A k \in 1..Len(new) : Paired(new, k)
    BY <1>3, <1>7, <1>8 DEF Paired, Grown
  <2>2. PhasesFollow'
    BY <1>0, <1>8, <2>1, PhasesStillFollow DEF NothingHalfDone
  <2> QED BY <1>0, <1>2, <2>2 DEF NothingHalfDone
<1>15. /\ Position' /\ Owned' /\ OnlyActiveOpen' /\ EventsApplied' /\ MembersOnce'
       /\ PhasesSound' /\ ParentsTold' /\ ParentsBlocked'
  BY <1>1, <1>2, <1>11, StandsStill
<1>16. SnapshotsTaken'
  BY <1>2, <1>5, <1>11, <1>12 DEF SnapshotsTaken
<1>17. ReplayTypeOK' /\ SidesInTurn'
  BY <1>1, <1>2 DEF ReplayIInv, ReplayTypeOK, SidesInTurn
<1>18. calls' = 0 /\ halfDone' = FALSE /\ \A s \in Sides : Len(inputs'[s]) <= MaxFrames
  BY <1>1 DEF ReplayIInv
<1> QED BY <1>13, <1>14, <1>15, <1>16, <1>17, <1>18 DEF ReplayIInv

LEMMA ReplayStep ==
  ASSUME ReplayIInv, ReplayNext
  PROVE  ReplayIInv'
<1>1. calls' = calls /\ halfDone' = halfDone
  BY DEF ReplayNext
<1>2. ASSUME NEW frame \in Inputs, TakeFrame(frame) PROVE ReplayIInv'
  BY <1>1, <1>2, TakeStep
<1>3. CASE Apply
  BY <1>1, <1>3, ApplyStep
<1>4. CASE EndSide
  BY <1>1, <1>4, EndStep
<1>5. CASE Restart
  BY <1>1, <1>5, RestartStep
<1>6. CASE Conclude
  BY <1>1, <1>6, ConcludeStep
<1> QED BY <1>2, <1>3, <1>4, <1>5, <1>6 DEF ReplayNext

(***************************************************************************)
(* EpisodeReplay: what the invariant says                                  *)
(***************************************************************************)

LEMMA AppliedFacts ==
  ASSUME ReplayIInv
  PROVE  /\ Applied \subseteq AllFrames /\ AllFrames \subseteq EpisodeFrames /\ InputTypes
         /\ pending = <<>> => Applied = AllFrames
         /\ \A f \in Applied : /\ ownerOf[f] \in AllFrames /\ ownerOf[f] \in Genesis /\ InRun(ownerOf[f], f)
                               /\ \A a : <<a, f>> \notin Range(pending)
<1>1. InputTypes
  BY DEF ReplayIInv, ReplayTypeOK, InputTypes
<1>2. Applied \subseteq AllFrames /\ AllFrames \subseteq EpisodeFrames
  BY <1>1, FrameFacts DEF Applied
<1>3. pending = <<>> => Applied = AllFrames
  <2>1. pending = <<>> => Range(pending) = {}
    BY ShortTuples
  <2> QED BY <2>1 DEF Applied
<1>4. ASSUME NEW f \in Applied
      PROVE  ownerOf[f] \in AllFrames /\ ownerOf[f] \in Genesis /\ InRun(ownerOf[f], f)
  <2>1. ownerOf[f] \in Applied /\ InRun(ownerOf[f], f)
    BY DEF ReplayIInv, Owned
  <2>2. ownerOf[f] \in EpisodeFrames /\ f \in EpisodeFrames
    BY <1>2, <2>1
  <2>3. ownerOf[f] # NoOwner
    BY <2>2, EngineAssumption
  <2> QED BY <1>2, <2>1, <2>2, <2>3, OwnersBorn DEF ReplayIInv
<1>5. ASSUME NEW f \in Applied, NEW a PROVE <<a, f>> \notin Range(pending)
  <2>1. \A c \in Range(pending) : c[2] # f
    BY DEF Applied
  <2>2. <<a, f>>[2] = f
    OBVIOUS
  <2> QED BY <2>1, <2>2
<1> QED BY <1>1, <1>2, <1>3, <1>4, <1>5

LEMMA EpisodesAreTheRuns ==
  ASSUME ReplayIInv
  PROVE  EpisodesAreRuns
<1>1. \A f \in Applied : ownerOf[f] # NoOwner
  <2>1. \A f \in Applied : ownerOf[f] \in EpisodeFrames
    BY AppliedFacts
  <2> QED BY <2>1, EngineAssumption
<1>2. ASSUME NEW f \in Applied, NEW g \in Applied, f[1] = g[1], f[2] <= g[2]
      PROVE  ownerOf[f] = ownerOf[g] <=> SameRun(f[1], f[2], g[2])
  <2>1. /\ InputTypes /\ f \in AllFrames /\ g \in AllFrames /\ ownerOf[f] \in AllFrames /\ ownerOf[g] \in AllFrames
        /\ InRun(ownerOf[f], f) /\ InRun(ownerOf[g], g)
    BY AppliedFacts
  <2>2. ASSUME ownerOf[f] = ownerOf[g] PROVE SameRun(f[1], f[2], g[2])
    <3>1. ownerOf[f][2] <= f[2]
      BY <2>1, RunFacts
    <3> QED BY <1>2, <2>1, <2>2, <3>1, RunFacts
  <2>3. ASSUME SameRun(f[1], f[2], g[2]) PROVE ownerOf[f] = ownerOf[g]
    <3>1. InRun(ownerOf[f], g)
      BY <1>2, <2>1, <2>3, RunFacts
    <3> QED BY <2>1, <3>1, RunFacts
  <2> QED BY <2>2, <2>3
<1> QED BY <1>1, <1>2 DEF EpisodesAreRuns

LEMMA OneIsOpen ==
  ASSUME ReplayIInv
  PROVE  OneOpenEpisode
<1>1. ASSUME active # NoFrame PROVE active \in Genesis
  <2>1. CASE pending = <<>>
    <3>1. side \in Sides /\ inputs[side] # <<>> /\ active = ownerOf[LastFrame]
      BY <1>1, <2>1 DEF ReplayIInv, Position, Candidate
    <3>2. LastFrame \in Applied
      BY <2>1, <3>1, AppliedFacts, LastFacts
    <3> QED BY <3>1, <3>2, AppliedFacts
  <2>2. CASE pending # <<>>
    <3>1. GoingOn
      BY <1>1, <2>2, PendingCases DEF ReplayIInv, BirthNext, GapNext, ContinueNext, PhaseNext, ParentNext
    <3> QED BY <2>2, <3>1, InHand
  <2> QED BY <2>1, <2>2
<1>2. \A e \in Genesis : e # NoFrame /\ (Open(e) <=> e = active)
  <2> SUFFICES ASSUME NEW e \in Genesis PROVE e # NoFrame /\ (Open(e) <=> e = active)
    OBVIOUS
  <2>1. IF e = active THEN Open(e) ELSE statusOf[e] = "CENSORED"
    BY DEF ReplayIInv, OnlyActiveOpen
  <2>2. e # NoFrame
    BY ReplayAssumption DEF Genesis
  <2> QED BY <2>1, <2>2 DEF Open
<1> QED BY <1>1, <1>2 DEF OneOpenEpisode

LEMMA PhasesDoTile ==
  ASSUME ReplayIInv
  PROVE  PhasesTile
<1> SUFFICES ASSUME Idle, NEW e \in Genesis
             PROVE  LET phases == PhasesOf(e)
                        starts == {p[1] : p \in phases}
                        ends == {p[2] : p \in phases}
                    IN /\ \A p \in phases : p[1] \in ends \cup {e} /\ p[1][2] < p[2][2]
                       /\ phases # {} => e \in starts
                       /\ Cardinality(starts) = Cardinality(phases)
                       /\ ends = {f \in ProjectedMembers(e) \ {e} :
                            Content(f).structure # inputs[f[1]][f[2] - 1].structure}
  BY DEF PhasesTile, PhasesOf
<1> DEFINE phases == PhasesOf(e)
           starts == {p[1] : p \in phases}
           ends == {p[2] : p \in phases}
<1>1. pending = <<>> /\ Applied = AllFrames /\ EngineCore /\ InputTypes
  BY AppliedFacts DEF Idle, ReplayIInv
<1>2. /\ ends = PhaseEnds(e)
      /\ \A p \in phases : p[1] \in PhaseEnds(e) \cup {e} /\ p[1][2] < p[2][2]
      /\ \A p, q \in phases : p[1] = q[1] => p = q
      /\ phases # {} => \E p \in phases : p[1] = e
  BY DEF ReplayIInv, PhasesSound
<1>3. IsFiniteSet(phases)
  <2> DEFINE R == {p \in Records("PHASE") : p.episode = e}
  <2>1. IsFiniteSet(Range(semantic))
    BY <1>1, FiniteRange DEF EngineCore, EngineTypes
  <2>2. IsFiniteSet(R)
    BY <2>1, FS_Subset DEF Records
  <2>3. [r \in R |-> r.interval] \in Surjection(R, phases)
    BY DEF Surjection, PhasesOf
  <2> QED BY <2>2, <2>3, FS_Surjection
<1> HIDE DEF phases
<1>4. Cardinality(starts) = Cardinality(phases)
  <2> DEFINE first == [p \in phases |-> p[1]]
  <2>1. first \in [phases -> starts] /\ \A p \in phases : first[p] = p[1]
    OBVIOUS
  <2> HIDE DEF first
  <2>2. first \in Bijection(phases, starts)
    BY <1>2, <2>1 DEF Bijection, Injection, Surjection, IsInjective
  <2>3. ExistsBijection(phases, starts)
    BY <2>2 DEF ExistsBijection
  <2> HIDE DEF starts
  <2> QED BY <1>3, <2>3, FS_Bijection
<1>5. PhaseEnds(e) = {f \in ProjectedMembers(e) \ {e} : Content(f).structure # inputs[f[1]][f[2] - 1].structure}
  <2>1. e \in EpisodeFrames /\ e \in AllFrames
    BY GenesisApplied
  <2>2. ProjectedMembers(e) = {f \in EpisodeFrames : ownerOf[f] = e}
    BY <1>1, <2>1, CoreProjects
  <2>3. ASSUME NEW g PROVE g \in ProjectedMembers(e) <=> g \in AllFrames /\ InRun(e, g)
    <3>1. ASSUME g \in ProjectedMembers(e) PROVE g \in AllFrames /\ InRun(e, g)
      <4>1. g \in EpisodeFrames /\ ownerOf[g] = e /\ e # NoOwner
        BY <2>1, <2>2, <3>1, EngineAssumption
      <4>2. g \in Applied
        BY <4>1 DEF ReplayIInv, Owned
      <4> QED BY <4>1, <4>2, AppliedFacts
    <3>2. ASSUME g \in AllFrames, InRun(e, g) PROVE g \in ProjectedMembers(e)
      <4>1. ownerOf[g] \in AllFrames /\ InRun(ownerOf[g], g) /\ g \in EpisodeFrames
        BY <1>1, <3>2, AppliedFacts
      <4>2. ownerOf[g] = e
        BY <1>1, <2>1, <3>2, <4>1, RunFacts
      <4> QED BY <2>2, <4>1, <4>2
    <3> QED BY <3>1, <3>2
  <2>4. \A g : <<"PHASE_MUTATION", g>> \notin Range(pending)
    BY <1>1, ShortTuples
  <2> QED BY <2>3, <2>4 DEF PhaseEnds, Changed
<1>6. /\ \A p \in phases : p[1] \in ends \cup {e} /\ p[1][2] < p[2][2]
      /\ phases # {} => e \in starts
      /\ ends = {f \in ProjectedMembers(e) \ {e} : Content(f).structure # inputs[f[1]][f[2] - 1].structure}
  BY <1>2, <1>5
<1> QED BY <1>4, <1>6 DEF phases

\* The frames before an applied one of the same side are applied.
LEMMA AppliedInOrder ==
  ASSUME ReplayIInv, NEW f \in Applied, NEW h \in AllFrames, h[1] = f[1], h[2] <= f[2]
  PROVE  h \in Applied
<1>1. CASE pending = <<>>
  BY <1>1, AppliedFacts
<1>2. CASE pending # <<>>
  <2>1. Applied = AllFrames \ {LastFrame} /\ f \in AllFrames /\ InputTypes
    BY <1>2, InHand, AppliedFacts
  <2>2. side \in Sides /\ inputs[side] # <<>>
    BY <1>2, PendingCases DEF ReplayIInv
  <2>3. ASSUME h = LastFrame PROVE FALSE
    <3>1. f[1] = side /\ LastFrame[2] <= f[2] /\ LastFrame[2] \in Nat
      BY <2>1, <2>2, <2>3, LastFacts
    <3>2. f[2] <= LastFrame[2] /\ (f[2] = LastFrame[2] => f = LastFrame) /\ f[2] \in Nat
      BY <2>1, <2>2, <3>1, LastFacts, FrameFacts DEF IsFrame
    <3> QED BY <2>1, <3>1, <3>2
  <2> QED BY <2>1, <2>3
<1> QED BY <1>1, <1>2

\* The frames with which the episode recorded its parent context.
ParentRecorded(e) ==
  {e} \cup {g \in AllFrames : ~Unheld(BoundaryEvent("RE_PARENT", {e}, <<"RE_PARENT", g>>))}

\* g is the last of them up to f.
LastRecordedUpTo(e, f, g) ==
  g[2] <= f[2] /\ \A h \in ParentRecorded(e) : h[2] <= f[2] => h[2] <= g[2]

LEMMA RecordedFrames ==
  ASSUME ReplayIInv, NEW f \in Applied, NEW e, e = ownerOf[f]
  PROVE  /\ e \in AllFrames /\ InRun(e, f) /\ e[1] = f[1] /\ e[2] <= f[2] /\ e[2] \in Nat /\ f[2] \in Nat
         /\ \A g : g \in ParentRecorded(e) <=> g = e \/ (g \in AllFrames /\ ParentMoves(e, g))
         /\ \A g \in ParentRecorded(e) : g \in AllFrames /\ InRun(e, g) /\ g[1] = f[1] /\ e[2] <= g[2] /\ g[2] \in Nat /\ g[2] >= 1
         /\ \E g \in ParentRecorded(e) : LastRecordedUpTo(e, f, g)
<1>1. InputTypes /\ f \in AllFrames /\ e \in AllFrames /\ e \in Genesis /\ InRun(e, f)
  BY AppliedFacts
<1>2. e[1] = f[1] /\ e[2] <= f[2] /\ e[2] \in Nat /\ f[2] \in Nat /\ InRun(e, e)
  BY <1>1, RunFacts
<1>3. ASSUME NEW g PROVE g \in ParentRecorded(e) <=> g = e \/ (g \in AllFrames /\ ParentMoves(e, g))
  <2>1. g \in AllFrames => (ReParentEvent(e, g) \in Range(semantic) <=> ParentMoves(e, g))
    BY <1>1 DEF ReplayIInv, ParentsTold
  <2> QED BY <2>1 DEF ParentRecorded, ReParentEvent, Unheld
<1>4. ASSUME NEW g \in ParentRecorded(e)
      PROVE  g \in AllFrames /\ InRun(e, g) /\ g[1] = f[1] /\ e[2] <= g[2] /\ g[2] \in Nat /\ g[2] >= 1
  <2>1. g \in AllFrames /\ InRun(e, g)
    BY <1>1, <1>2, <1>3 DEF ParentMoves
  <2>2. e[1] = g[1] /\ e[2] <= g[2] /\ g[2] \in Nat /\ e[2] >= 1 /\ e[2] \in Nat
    BY <1>1, <2>1, RunFacts
  <2> QED BY <1>2, <2>1, <2>2
<1>5. \E g \in ParentRecorded(e) : LastRecordedUpTo(e, f, g)
  <2> DEFINE early == {h \in ParentRecorded(e) : h[2] <= f[2]}
             places == {h[2] : h \in early}
  <2>1. places \subseteq 1..f[2]
    BY <1>2, <1>4
  <2>2. places # {}
    BY <1>2 DEF ParentRecorded
  <2>3. Max(places) \in places /\ \A i \in places : i <= Max(places)
    BY <1>2, <2>1, <2>2, MaxOfIndices
  <2>4. PICK g \in early : g[2] = Max(places)
    BY <2>3
  <2>5. \A h \in ParentRecorded(e) : h[2] <= f[2] => h[2] \in places
    OBVIOUS
  <2> HIDE DEF places
  <2> QED BY <2>3, <2>4, <2>5 DEF LastRecordedUpTo
<1> QED BY <1>1, <1>2, <1>3, <1>4, <1>5

LEMMA SignatureParts ==
  \A a, b : ParentSignature(a) = ParentSignature(b) => a.parent = b.parent /\ a.available = b.available
BY DEF ParentSignature

\* A frame behind the last recorded one, whose context is available, has the
\* context of the frame before.
LEMMA SignatureStands ==
  ASSUME ReplayIInv, NEW f \in Applied, NEW e, e = ownerOf[f], NEW g \in ParentRecorded(e), LastRecordedUpTo(e, f, g),
         NEW k \in Nat, g[2] < k, k <= f[2], inputs[f[1]][k].available
  PROVE  ParentSignature(inputs[f[1]][k]) = ParentSignature(inputs[f[1]][k - 1])
<1> DEFINE h == <<f[1], k>>
<1>1. /\ InputTypes /\ f \in AllFrames /\ e \in AllFrames /\ InRun(e, f)
      /\ g[1] = f[1] /\ e[2] <= g[2] /\ g[2] \in Nat /\ g[2] >= 1 /\ e[2] \in Nat /\ f[2] \in Nat
  BY AppliedFacts, RecordedFrames
<1>2. h[1] = f[1] /\ h[2] = k /\ h = <<h[1], h[2]>>
  OBVIOUS
<1> HIDE DEF h
<1>3. h \in AllFrames
  <2>1. f[1] \in Sides /\ f[2] \in 1..Len(inputs[f[1]]) /\ Len(inputs[f[1]]) \in Nat
    BY <1>1, FrameFacts DEF IsFrame
  <2>2. k \in 1..Len(inputs[f[1]])
    BY <1>1, <2>1
  <2> QED BY <1>1, <1>2, <2>1, <2>2, FrameFacts DEF IsFrame
<1>4. e[2] <= k /\ e[2] # k
  BY <1>1
<1>5. InRun(e, h) /\ h # e
  BY <1>1, <1>2, <1>3, <1>4, RunFacts
<1>6. h \in Applied
  BY <1>1, <1>2, <1>3, AppliedInOrder
<1>7. <<"RE_PARENT", h>> \notin Range(pending)
  BY <1>6, AppliedFacts
<1>8. h \notin ParentRecorded(e)
  <2>1. h \in ParentRecorded(e) => k <= g[2]
    BY <1>2 DEF LastRecordedUpTo
  <2> QED BY <1>1, <2>1
<1>9. ~ParentMoves(e, h)
  BY <1>3, <1>8, RecordedFrames
<1>10. Content(h).available
  BY <1>2 DEF Content
<1>11. ~Moved(h)
  BY <1>5, <1>7, <1>9, <1>10 DEF ParentMoves
<1> QED BY <1>2, <1>11 DEF Moved, Content

LEMMA ParentIsCurrent ==
  ASSUME ReplayIInv
  PROVE  ParentContextCurrent
<1> SUFFICES ASSUME NEW f \in Applied, Content(f).available
             PROVE  LET current == CHOOSE g \in ParentRecorded(ownerOf[f]) : LastRecordedUpTo(ownerOf[f], f, g)
                    IN Content(current).available /\ Content(current).parent = Content(f).parent
  BY Zenon DEF ParentContextCurrent, ParentRecorded, LastRecordedUpTo
<1>1. PICK e, g : e = ownerOf[f] /\ g = CHOOSE h \in ParentRecorded(e) : LastRecordedUpTo(e, f, h)
  OBVIOUS
<1>2. g \in ParentRecorded(e) /\ LastRecordedUpTo(e, f, g)
  BY <1>1, RecordedFrames
<1>3. g[1] = f[1] /\ g[2] \in Nat /\ f[2] \in Nat /\ g[2] <= f[2]
  BY <1>1, <1>2, RecordedFrames DEF LastRecordedUpTo
<1> DEFINE sig(k) == ParentSignature(inputs[f[1]][k])
           P == {j \in Nat : f[2] - j >= g[2] => sig(f[2] - j) = sig(f[2])}
<1>4. 0 \in P
  <2>1. f[2] - 0 = f[2]
    BY <1>3
  <2> QED BY <2>1
<1>5. ASSUME NEW j \in Nat, j \in P PROVE j + 1 \in P
  <2> SUFFICES ASSUME f[2] - (j + 1) >= g[2] PROVE sig(f[2] - (j + 1)) = sig(f[2])
    OBVIOUS
  <2>1. PICK k : k = f[2] - j
    OBVIOUS
  <2>2. k \in Nat /\ g[2] < k /\ k <= f[2] /\ f[2] - (j + 1) = k - 1 /\ f[2] - j >= g[2]
    BY <1>3, <2>1
  <2>3. sig(k) = sig(f[2])
    BY <1>5, <2>1, <2>2
  <2>4. inputs[f[1]][k].available = Content(f).available
    BY <2>3, SignatureParts DEF Content
  <2>5. sig(k) = sig(k - 1)
    BY <1>1, <1>2, <2>2, <2>4, SignatureStands
  <2> QED BY <2>2, <2>3, <2>5
<1>6. Nat \subseteq P
  <2> HIDE DEF P
  <2> QED BY <1>4, <1>5, InductionOnNat
<1>7. sig(g[2]) = sig(f[2])
  <2>1. PICK j \in Nat : f[2] - j = g[2]
    <3>1. f[2] - g[2] \in Nat /\ f[2] - (f[2] - g[2]) = g[2]
      BY <1>3
    <3> QED BY <3>1
  <2>2. j \in P
    BY <1>6
  <2> QED BY <1>3, <2>1, <2>2
<1>8. Content(g).parent = Content(f).parent /\ Content(g).available = Content(f).available
  <2>1. ParentSignature(Content(g)) = ParentSignature(Content(f))
    BY <1>3, <1>7 DEF Content
  <2> QED BY <2>1, SignatureParts
<1> QED BY <1>1, <1>8

LEMMA ParentsAccounted ==
  ASSUME ReplayIInv
  PROVE  ParentChangesAccounted
<1> SUFFICES ASSUME NEW f \in Applied, f # ownerOf[f]
             PROVE  LET told == ~Unheld(BoundaryEvent("RE_PARENT", {ownerOf[f]}, <<"RE_PARENT", f>>))
                        held == <<"RE_PARENT", f>> \in blocked
                    IN Moved(f) <=> (told # held)
  BY DEF ParentChangesAccounted, Moved
<1>1. /\ InputTypes /\ f \in AllFrames /\ ownerOf[f] \in AllFrames /\ ownerOf[f] \in Genesis /\ InRun(ownerOf[f], f)
      /\ <<"RE_PARENT", f>> \notin Range(pending)
  BY AppliedFacts
<1>2. ~RunStart(f)
  BY <1>1, RunFacts
<1>3. ReParentEvent(ownerOf[f], f) \in Range(semantic) <=> Moved(f) /\ Content(f).available
  BY <1>1 DEF ReplayIInv, ParentsTold, ParentMoves
<1>4. <<"RE_PARENT", f>> \in blocked <=> Moved(f) /\ ~Content(f).available
  <2>1. \A g : <<"RE_PARENT", g>> = <<"RE_PARENT", f>> => g = f
    OBVIOUS
  <2> QED BY <1>1, <1>2, <2>1 DEF ReplayIInv, ParentsBlocked
<1> QED BY <1>3, <1>4 DEF ReParentEvent, Unheld

LEMMA SnapshotsDoPartition ==
  ASSUME ReplayIInv
  PROVE  SnapshotsPartition
<1> SUFFICES ASSUME outcome = "COMPLETE"
             PROVE  /\ \A s \in Sides : inputs[s] # <<>>
                    /\ \A r \in Records("SNAPSHOT") : r.status = "CENSORED"
                    /\ UNION {r.members : r \in Records("SNAPSHOT")} = AllFrames
                    /\ \A r, q \in Records("SNAPSHOT") : r # q => r.members \cap q.members = {}
  BY DEF SnapshotsPartition
<1> DEFINE snap(e) == [kind |-> "SNAPSHOT", episode |-> e, status |-> statusOf[e],
                       members |-> {f \in EpisodeFrames : ownerOf[f] = e}]
<1>1. side = "DONE" /\ \A s \in Sides : inputs[s] # <<>>
  BY DEF ReplayIInv, SidesInTurn, Sides
<1>2. pending = <<>> /\ active = NoFrame
  BY <1>1 DEF ReplayIInv, Position, Sides
<1>3. Records("SNAPSHOT") = {snap(e) : e \in Genesis}
  BY DEF ReplayIInv, SnapshotsTaken
<1>4. \A e : snap(e).status = statusOf[e] /\ snap(e).members = {f \in EpisodeFrames : ownerOf[f] = e}
  OBVIOUS
<1> HIDE DEF snap
<1>5. ASSUME NEW e \in Genesis PROVE statusOf[e] = "CENSORED"
  <2>1. e # active
    BY <1>2, ReplayAssumption DEF Genesis
  <2> QED BY <2>1 DEF ReplayIInv, OnlyActiveOpen
<1>6. Applied = AllFrames /\ AllFrames \subseteq EpisodeFrames /\ \A f \in AllFrames : ownerOf[f] \in Genesis
  BY <1>2, AppliedFacts
<1>7. ASSUME NEW f \in EpisodeFrames, ownerOf[f] \in Genesis PROVE f \in AllFrames
  <2>1. ownerOf[f] # NoOwner
    BY <1>7, EngineAssumption DEF Genesis
  <2> QED BY <1>6, <2>1 DEF ReplayIInv, Owned
<1>8. ASSUME NEW f PROVE f \in UNION {r.members : r \in Records("SNAPSHOT")} <=> f \in AllFrames
  <2>1. ASSUME f \in AllFrames PROVE \E r \in Records("SNAPSHOT") : f \in r.members
    <3>1. snap(ownerOf[f]) \in Records("SNAPSHOT") /\ f \in snap(ownerOf[f]).members
      BY <1>3, <1>4, <1>6, <2>1
    <3> QED BY <3>1
  <2>2. ASSUME NEW r \in Records("SNAPSHOT"), f \in r.members PROVE f \in AllFrames
    <3>1. PICK e \in Genesis : r = snap(e)
      BY <1>3
    <3> QED BY <1>4, <1>7, <2>2, <3>1
  <2> QED BY <2>1, <2>2
<1>9. ASSUME NEW r \in Records("SNAPSHOT"), NEW q \in Records("SNAPSHOT"), r # q PROVE r.members \cap q.members = {}
  <2>1. PICK d \in Genesis, e \in Genesis : r = snap(d) /\ q = snap(e)
    BY <1>3
  <2>2. d # e
    BY <1>9, <2>1
  <2> QED BY <1>4, <2>1, <2>2
<1>10. \A r \in Records("SNAPSHOT") : r.status = "CENSORED"
  BY <1>3, <1>4, <1>5
<1> QED BY <1>1, <1>8, <1>9, <1>10

\* The induction carries every part of the property.
LEMMA ReplayHolds ==
  ASSUME ReplayIInv
  PROVE  EpisodeInv
<1>1. OnlyEmptyFails
  BY DEF ReplayIInv, SidesInTurn, OnlyEmptyFails
<1>2. ReplayTypeOK
  BY DEF ReplayIInv
<1>3. ReplayInv
  BY <1>1, <1>2, EpisodesAreTheRuns, OneIsOpen, PhasesDoTile, ParentIsCurrent, ParentsAccounted, SnapshotsDoPartition
     DEF ReplayInv
<1>4. calls \in 0..MaxCalls /\ halfDone = FALSE /\ EngineCore /\ NothingHalfDone
  BY EngineAssumption DEF ReplayIInv
<1>5. EngineIInv
  BY <1>4, Zenon DEF EngineIInv
<1> QED BY <1>3, <1>4, <1>5, EngineHolds DEF EpisodeInv

LEMMA ReplayBegins ==
  ASSUME EngineInit, ReplayInit
  PROVE  ReplayIInv
<1>1. EngineCore /\ NothingHalfDone /\ Genesis = {} /\ Range(semantic) = {} /\ calls = 0 /\ halfDone = FALSE
  BY EmptyStream DEF EngineInit
<1>2. /\ inputs = [s \in Sides |-> <<>>] /\ side = "ASK" /\ pending = <<>> /\ active = NoFrame
      /\ phaseFrom = [e \in EpisodeFrames |-> NoFrame] /\ blocked = {} /\ outcome = "RUNNING"
      /\ ownerOf = [f \in EpisodeFrames |-> NoOwner]
  BY DEF EngineInit, ReplayInit
<1>3. \A s \in Sides : inputs[s] = <<>> /\ Len(inputs[s]) = 0 /\ DOMAIN inputs[s] = {}
  BY <1>2
<1>4. side \in Sides /\ "BID" \in Sides
  BY <1>2 DEF Sides
<1>5. AllFrames = {}
  BY <1>3, <1>4 DEF AllFrames, FramesOf, Sides
<1>6. ReplayTypeOK
  <2>1. <<>> \in Seq(Inputs)
    OBVIOUS
  <2>2. inputs \in [Sides -> Seq(Inputs)]
    BY <1>2, <2>1
  <2> QED BY <1>2, <1>4, <2>2 DEF ReplayTypeOK
<1>7. \A s \in Sides : Len(inputs[s]) <= MaxFrames
  BY <1>3, ReplayAssumption
<1>8. Position /\ SidesInTurn
  BY <1>2, <1>3, <1>4 DEF Position, SidesInTurn
<1>9. Owned
  BY <1>2, <1>5 DEF Owned, Applied
<1>10. \A kind : Records(kind) = {}
  BY <1>1 DEF Records
<1>11. OnlyActiveOpen /\ EventsApplied /\ MembersOnce /\ PhasesSound /\ ParentsTold
  BY <1>1, <1>10 DEF OnlyActiveOpen, EventsApplied, MembersOnce, PhasesSound, ParentsTold
<1>12. ParentsBlocked
  BY <1>2, <1>5 DEF ParentsBlocked
<1>13. SnapshotsTaken
  BY <1>2, <1>10 DEF SnapshotsTaken
<1> QED BY <1>1, <1>6, <1>7, <1>8, <1>9, <1>11, <1>12, <1>13 DEF ReplayIInv

ReplaySpec ==
  /\ EngineInit /\ ReplayInit
  /\ [][ReplayNext]_<<engineVars, replayVars>>

\* The replay keeps the stream, the maps of the engine and the frames in agreement,
\* for every set of segments, structures and parents, and for releases of any size:
\* no candidate of the pack is refused or conflicts with another, the episodes are
\* the runs between the gaps, the phases tile them, every change of the parent
\* context is in the stream or among the blocked candidates, the restart between
\* the sides restores the engine it dropped, and the snapshots partition the frames
\* (run_source_replay, EpisodeEngine).
THEOREM ReplayCorrect == ReplaySpec => []EpisodeInv
<1>1. EngineInit /\ ReplayInit => ReplayIInv
  BY ReplayBegins
<1>2. ReplayIInv /\ [ReplayNext]_<<engineVars, replayVars>> => ReplayIInv'
  <2> SUFFICES ASSUME ReplayIInv, [ReplayNext]_<<engineVars, replayVars>> PROVE ReplayIInv'
    OBVIOUS
  <2>1. CASE ReplayNext
    BY <2>1, ReplayStep
  <2>2. CASE UNCHANGED <<engineVars, replayVars>>
    <3>1. /\ semantic' = semantic /\ statusOf' = statusOf /\ ownerOf' = ownerOf /\ edges' = edges
          /\ calls' = calls /\ halfDone' = halfDone /\ inputs' = inputs /\ side' = side /\ pending' = pending
          /\ active' = active /\ phaseFrom' = phaseFrom /\ blocked' = blocked /\ outcome' = outcome
      BY <2>2 DEF engineVars, engineState, replayVars
    <3>2. EngineCore' /\ NothingHalfDone' /\ \A k : Records(k)' = Records(k)
      BY <3>1, CoreKept DEF ReplayIInv
    <3>3. /\ Genesis' = Genesis /\ Position' /\ Owned' /\ OnlyActiveOpen' /\ EventsApplied' /\ MembersOnce'
          /\ PhasesSound' /\ ParentsTold' /\ ParentsBlocked'
      BY <3>1, <3>2, StandsStill
    <3>4. ReplayTypeOK' /\ SidesInTurn' /\ SnapshotsTaken'
      BY <3>1, <3>2, <3>3 DEF ReplayIInv, ReplayTypeOK, SidesInTurn, SnapshotsTaken
    <3>5. calls' = 0 /\ halfDone' = FALSE /\ \A s \in Sides : Len(inputs'[s]) <= MaxFrames
      BY <3>1 DEF ReplayIInv
    <3> QED BY <3>2, <3>3, <3>4, <3>5 DEF ReplayIInv
  <2> QED BY <2>1, <2>2
<1>3. ReplayIInv => EpisodeInv
  BY ReplayHolds
<1> QED BY <1>1, <1>2, <1>3, PTL DEF ReplaySpec

\* The replay at rest while the caller of the engine makes its calls.
UnderCaller ==
  /\ EngineIInv /\ ReplayInit
  /\ calls \in 0..MaxCalls
  /\ calls = 0 => EngineInit

\* Whatever calls a caller makes of the engine, in whatever order, the stream and
\* the maps agree: no record twice, one owner for a frame, nothing of an episode
\* behind its end, no cycle in the lineage, and an event without its record only
\* after a call that raised half-way (EpisodeEngine, AppendOnlyStream.append,
\* EpisodeTopology.add_edge).
THEOREM EngineCorrect == EngineSpec => []EpisodeInv
<1>1. EngineInit /\ ReplayInit => UnderCaller
  <2> SUFFICES ASSUME EngineInit, ReplayInit PROVE UnderCaller
    OBVIOUS
  <2>1. EngineCore /\ NothingHalfDone
    BY EmptyStream
  <2>2. halfDone = FALSE /\ calls = 0
    BY DEF EngineInit
  <2>3. EngineIInv
    BY <2>1, <2>2, Zenon DEF EngineIInv
  <2>4. calls \in 0..MaxCalls
    BY <2>2, EngineAssumption
  <2> QED BY <2>3, <2>4 DEF UnderCaller
<1>2. UnderCaller /\ [EngineNext /\ UNCHANGED replayVars]_<<engineVars, replayVars>> => UnderCaller'
  <2> SUFFICES ASSUME UnderCaller, [EngineNext /\ UNCHANGED replayVars]_<<engineVars, replayVars>> PROVE UnderCaller'
    OBVIOUS
  <2>0. ReplayInit'
    BY DEF UnderCaller, ReplayInit, replayVars
  <2>1. CASE EngineNext
    <3>1. EngineIInv'
      BY <2>1, EngineStep DEF UnderCaller
    <3>2. calls < MaxCalls /\ calls' = calls + 1
      BY <2>1 DEF EngineNext, CallBirth, CallContinue, CallPhaseMutation, CallReParent, CallFinish, CallLink, Call
    <3>3. calls' \in 0..MaxCalls /\ calls' # 0
      BY <3>2, EngineAssumption DEF UnderCaller
    <3> QED BY <2>0, <3>1, <3>3 DEF UnderCaller
  <2>2. CASE UNCHANGED <<engineVars, replayVars>>
    <3>1. /\ semantic' = semantic /\ statusOf' = statusOf /\ ownerOf' = ownerOf /\ edges' = edges
          /\ calls' = calls /\ halfDone' = halfDone
      BY <2>2 DEF engineVars, engineState
    <3>2. EngineCore' /\ (NothingHalfDone => NothingHalfDone')
      BY <3>1, CoreKept DEF UnderCaller, EngineIInv
    <3>3. EngineIInv'
      BY <3>1, <3>2 DEF UnderCaller, EngineIInv
    <3>4. (calls = 0 => EngineInit)' /\ (calls \in 0..MaxCalls)'
      BY <3>1 DEF UnderCaller, EngineInit
    <3> QED BY <2>0, <3>3, <3>4 DEF UnderCaller
  <2> QED BY <2>1, <2>2
<1>3. UnderCaller => EpisodeInv
  <2> SUFFICES ASSUME UnderCaller PROVE EpisodeInv
    OBVIOUS
  <2>1. EngineInv
    BY EngineHolds DEF UnderCaller
  <2>2. calls = 0 => EpisodeInv
    BY ReplayBegins, ReplayHolds DEF UnderCaller
  <2>3. ReplayInv
    BY <2>2 DEF EpisodeInv, ReplayInv
  <2> QED BY <2>1, <2>3 DEF EpisodeInv
<1> QED BY <1>1, <1>2, <1>3, PTL DEF EngineSpec
================================================================================
