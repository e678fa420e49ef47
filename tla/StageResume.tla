------------------------------ MODULE StageResume ------------------------------
(***************************************************************************)
(* The restart of an orchestrated research run: the canonical order of its *)
(* stages, the resume plan made from the completions and sub-stage         *)
(* checkpoints of earlier attempts, and the semantic artifact cache.  The  *)
(* caller hands build_resume_plan all records of earlier attempts; the     *)
(* variables are these inputs as they grow, and the plan is an operator on *)
(* them.  A stage is a number, in the order of the stage identities; the   *)
(* content of a completion or checkpoint stands for all that is compared   *)
(* when it is registered.  A record is own if it is of the run that is     *)
(* resumed: the caller may hand over checkpoints of other runs.            *)
(***************************************************************************)
EXTENDS Integers, Sequences, FiniteSets, FiniteSetsExt, SequencesExt

CONSTANTS
  Stages,
  Attempts,         \* what a new attempt may be given: see attempt
  StageSpecs,
  StageContents,
  OpaqueIds,
  CacheKeys,
  Artifacts,        \* [logical : StageSpecs, content : StageContents or NoContent, complete : BOOLEAN]
  NoArtifact,
  NoContent,        \* no hash was observed
  MaxResumeRecords, \* bound: completions and sub-stage checkpoints of earlier attempts
  MaxCacheCalls     \* bound: calls of the cache

\* Stage identities are ordered, and no record stands for the absence of one.
ASSUME ResumeAssumption ==
  /\ IsFiniteSet(Stages) /\ Stages \subseteq Int
  /\ \A a \in Attempts : a.included \subseteq Stages
  /\ NoArtifact \notin Artifacts

VARIABLES
  attempt,          \* [included, dependencies : the profile,
                    \*  inputs, outputs : [Stages -> sets of types], external : a set of types,
                    \*  expected : [subset of Stages -> StageSpecs],
                    \*  observed : [Stages -> StageContents or NoContent],
                    \*  observedOpaque : [OpaqueIds -> StageContents or NoContent]]
  completions,      \* sequence of [stage, spec, content]
  opaques,          \* sequence of [id, own, stage, content]
  cached,           \* [CacheKeys -> NoArtifact or an artifact]
  quarantinedKeys,
  cacheCalls,       \* number of calls so far
  registered,       \* history: <<key, artifact>> of all registrations
  disproved         \* history: keys of which a payload did not have its hash

cacheVars == <<cached, quarantinedKeys, cacheCalls, registered, disproved>>
planVars == <<attempt, completions, opaques>>
resumeVars == <<planVars, cacheVars>>

(***************************************************************************)
(* The canonical order: dag.py                                             *)
(***************************************************************************)

Included == attempt.included

\* A dependency is [stage, on, disposition, expects : a set of types].
Admissible ==
  \A d \in attempt.dependencies : d.stage \in Included =>
    /\ d.disposition = "REQUIRED" => d.on \in Included
    /\ d.disposition = "FORBIDDEN" => d.on \notin Included
    /\ d.on \in Included => d.expects \subseteq attempt.outputs[d.on]

StageEdges == {<<d.on, d.stage>> : d \in {e \in attempt.dependencies : {e.stage, e.on} \subseteq Included}}

ChildrenOf(s) == {e[2] : e \in {f \in StageEdges : f[1] = s}}
ParentsOf(s) == {e[1] : e \in {f \in StageEdges : f[2] = s}}

\* Mutant of Ready: a stage is ready with its first parent.
MutReady(done) ==
  {s \in Included \ done : ParentsOf(s) = {} \/ ParentsOf(s) \cap done # {}}

Ready(done) == {s \in Included \ done : ParentsOf(s) \subseteq done}

\* _topological_order: the least stage that is ready comes next.
StageOrder ==
  LET popped[n \in Nat] ==
        IF n = 0 THEN <<>>
        ELSE LET before == popped[n - 1]
                 ready == Ready(ToSet(before))
             IN IF ready = {} THEN before ELSE Append(before, Min(ready))
  IN popped[Cardinality(Included)]

\* What the stages and the world hand over.
OutputsOf(stages) == attempt.external \cup UNION {attempt.outputs[s] : s \in stages}

\* Mutant of InputsSatisfied: the output of any stage of the profile will do.
MutInputsSatisfied == \A s \in Included : attempt.inputs[s] \subseteq OutputsOf(Included)

\* build_plan: a stage gets its inputs from its parents or from outside.
InputsSatisfied == \A s \in Included : attempt.inputs[s] \subseteq OutputsOf(ParentsOf(s))

Planned == Admissible /\ ToSet(StageOrder) = Included /\ InputsSatisfied

\* Mutant of BlockedDescendants: the children only.
MutBlockedDescendants(blocked) == UNION {ChildrenOf(s) : s \in blocked} \ blocked

\* blocked_descendants, frontier by frontier
BlockedDescendants(blocked) ==
  LET reached[n \in Nat] ==
        IF n = 0 THEN blocked
        ELSE LET before == reached[n - 1]
             IN before \cup UNION {ChildrenOf(s) : s \in before}
  IN reached[Cardinality(Included)] \ blocked

(***************************************************************************)
(* The resume plan: checkpoint.py                                          *)
(***************************************************************************)

\* Mutant of RegisterCompletion: a conflicting completion replaces the first.
MutRegisterCompletion(ledger, c) ==
  [ledger EXCEPT !.done = {d \in @ : d.stage # c.stage} \cup {c}]

\* register_completion: a conflict puts the stage in quarantine for good.
RegisterCompletion(ledger, c) ==
  IF c.stage \in ledger.quarantined THEN ledger
  ELSE IF \E d \in ledger.done : d.stage = c.stage /\ d # c
  THEN [done |-> {d \in ledger.done : d.stage # c.stage},
        quarantined |-> ledger.quarantined \cup {c.stage}]
  ELSE [ledger EXCEPT !.done = @ \cup {c}]

LedgerOf(list) ==
  FoldLeft(RegisterCompletion, [done |-> {}, quarantined |-> {}], list)

\* Mutant of RegisterOpaque: the run is not compared.
MutRegisterOpaque(held, o) ==
  IF held[o.id] \notin {NoContent, o.content} THEN [held EXCEPT ![o.id] = NoContent]
  ELSE [held EXCEPT ![o.id] = o.content]

\* register_opaque: a checkpoint of another run is refused; a conflict removes the
\* one held, and the next record of it is taken again.
RegisterOpaque(held, o) ==
  IF ~o.own THEN held
  ELSE IF held[o.id] \notin {NoContent, o.content} THEN [held EXCEPT ![o.id] = NoContent]
  ELSE [held EXCEPT ![o.id] = o.content]

HeldOpaques(list) == FoldLeft(RegisterOpaque, [id \in OpaqueIds |-> NoContent], list)

\* verify_stage
VerifyStage(ledger, s) ==
  \E c \in ledger.done :
    /\ c.stage = s
    /\ c.spec = attempt.expected[s]
    /\ attempt.observed[s] \in {NoContent, c.content}

\* Stages of which an observed checkpoint is not the one held: verify_opaque, called
\* for the refused records too.
OpaqueFailures ==
  LET held == HeldOpaques(opaques)
  IN {o.stage : o \in {r \in ToSet(opaques) :
        attempt.observedOpaque[r.id] \notin {NoContent, held[r.id]}}}

Invalid ==
  LET ledger == LedgerOf(completions)
  IN {s \in Included : s \notin DOMAIN attempt.expected \/ ~VerifyStage(ledger, s)} \cup OpaqueFailures

\* blocked_descendants raises for a stage that is not in the plan.
PlanRaises == ~Planned \/ ~(Invalid \subseteq Included)

Affected == LET invalid == Invalid IN invalid \cup BlockedDescendants(invalid)

\* The stages that are not run again; they keep the order of StageOrder.
Reusable == ToSet(StageOrder) \ Affected

(***************************************************************************)
(* The records of earlier attempts                                         *)
(***************************************************************************)

ResumeInit ==
  /\ attempt \in Attempts
  /\ completions = <<>> /\ opaques = <<>>
  /\ cached = [k \in CacheKeys |-> NoArtifact]
  /\ quarantinedKeys = {} /\ cacheCalls = 0
  /\ registered = {} /\ disproved = {}

RecordsLeft == Len(completions) + Len(opaques) < MaxResumeRecords

RecordCompletion ==
  /\ RecordsLeft
  /\ \E s \in Stages, spec \in StageSpecs, content \in StageContents :
       completions' = Append(completions, [stage |-> s, spec |-> spec, content |-> content])
  /\ UNCHANGED <<attempt, opaques, cacheVars>>

RecordOpaque ==
  /\ RecordsLeft
  /\ \E id \in OpaqueIds, own \in BOOLEAN, s \in Stages, content \in StageContents :
       opaques' = Append(opaques, [id |-> id, own |-> own, stage |-> s, content |-> content])
  /\ UNCHANGED <<attempt, completions, cacheVars>>

(***************************************************************************)
(* The cache: cache.py.  The key hashes the parents too.                   *)
(***************************************************************************)

CacheCall ==
  /\ cacheCalls < MaxCacheCalls
  /\ cacheCalls' = cacheCalls + 1
  /\ UNCHANGED planVars

SameSemantics(a, b) == a.logical = b.logical /\ a.content = b.content

\* register: an artifact with other semantics puts the key in quarantine, and one
\* for a key in quarantine is stored all the same.
RegisterArtifact(k, a) ==
  /\ CacheCall
  /\ registered' = registered \cup {<<k, a>>}
  /\ IF cached[k] # NoArtifact /\ ~SameSemantics(cached[k], a)
     THEN /\ cached' = [cached EXCEPT ![k] = NoArtifact]
          /\ quarantinedKeys' = quarantinedKeys \cup {k}
     ELSE cached' = [cached EXCEPT ![k] = a] /\ UNCHANGED quarantinedKeys
  /\ UNCHANGED disproved

\* A content hash is compared when the caller observed one and the artifact has one.
PayloadMatches(a, content) == NoContent \in {content, a.content} \/ content = a.content

\* Mutant of Hit: the quarantine is not looked at.
MutHit(k, content) ==
  cached[k] # NoArtifact /\ cached[k].complete /\ PayloadMatches(cached[k], content)

\* lookup returns HIT
Hit(k, content) ==
  /\ k \notin quarantinedKeys
  /\ cached[k] # NoArtifact
  /\ cached[k].complete
  /\ PayloadMatches(cached[k], content)

QuarantineRecord(k) ==
  /\ cached' = [cached EXCEPT ![k] = NoArtifact]
  /\ quarantinedKeys' = quarantinedKeys \cup {k}
  /\ disproved' = disproved \cup {k}
  /\ UNCHANGED registered

LookupCorrupted(k, content) ==
  /\ k \notin quarantinedKeys
  /\ cached[k] # NoArtifact /\ cached[k].complete
  /\ ~PayloadMatches(cached[k], content)
  /\ CacheCall
  /\ QuarantineRecord(k)

\* quarantine: called by an adapter that knows a payload to be bad.
QuarantineKey(k) ==
  /\ CacheCall
  /\ QuarantineRecord(k)

PlanNext == RecordCompletion \/ RecordOpaque

CacheNext ==
  \E k \in CacheKeys :
    \/ \E a \in Artifacts : RegisterArtifact(k, a)
    \/ \E content \in StageContents : LookupCorrupted(k, content)
    \/ QuarantineKey(k)

(***************************************************************************)
(* Properties                                                              *)
(***************************************************************************)

\* The stages from which s can be reached, itself included: the least set with s
\* that is closed under parents.
Lineage(s) ==
  {a \in Stages : \A closed \in SUBSET Stages :
     (s \in closed /\ \A e \in StageEdges : e[2] \in closed => e[1] \in closed) => a \in closed}

\* Why a stage cannot be reused, told without the order of the records: it has no
\* completion, or two that differ, or one that is not of the expected
\* specification or not what is on disk.
Unproved(s) ==
  LET own == {c \in ToSet(completions) : c.stage = s} IN
  \/ Cardinality(own) # 1
  \/ s \notin DOMAIN attempt.expected
  \/ \E c \in own : c.spec # attempt.expected[s] \/ attempt.observed[s] \notin {NoContent, c.content}

\* The run's last record of a checkpoint.
LastOpaque(id) == SelectLastInSeq(opaques, LAMBDA o : o.id = id /\ o.own)

\* Every stage is planned once, after its parents and after all that its inputs
\* come from; one is reused exactly if no stage of its lineage is unproved or fails
\* for a checkpoint; and a checkpoint that passes is the last one this run recorded,
\* whatever other runs recorded under its identity.
ReusedExactly ==
  ~PlanRaises =>
    LET order == StageOrder
        reused == Reusable
        failures == OpaqueFailures
    IN
    /\ \A i \in 1..Len(order) :
         LET before == ToSet(SubSeq(order, 1, i - 1)) IN
         ParentsOf(order[i]) \subseteq before /\ attempt.inputs[order[i]] \subseteq OutputsOf(before)
    /\ reused = {s \in Included : \A a \in Lineage(s) : ~Unproved(a) /\ a \notin failures}
    /\ \A s \in reused, o \in ToSet(opaques) :
         (o.stage = s /\ attempt.observedOpaque[o.id] # NoContent) =>
           /\ LastOpaque(o.id) # 0
           /\ opaques[LastOpaque(o.id)].content = attempt.observedOpaque[o.id]

\* A plan is made for every profile whose dependencies are met, hand over the types
\* expected and needed, and have no cycle.
AcyclicIsPlanned ==
  (Admissible /\ InputsSatisfied /\ \A e \in StageEdges : e[2] \notin Lineage(e[1])) => Planned

\* A hit is backed by all registrations of its key, and its payload was never found
\* to be bad: what is registered after that stays unused.
HitsAgree ==
  \A k \in CacheKeys, content \in StageContents \cup {NoContent} :
    Hit(k, content) =>
      /\ k \notin disproved
      /\ \A r \in registered : r[1] = k => SameSemantics(r[2], cached[k])

\* What a run relies on that resumes earlier attempts or uses the cache: see the
\* parts.  Before the first record there is nothing to reuse.
ResumeInv ==
  (completions # <<>> \/ opaques # <<>> \/ cacheCalls > 0) =>
    ReusedExactly /\ AcyclicIsPlanned /\ HitsAgree
================================================================================
