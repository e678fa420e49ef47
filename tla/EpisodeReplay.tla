----------------------------- MODULE EpisodeReplay -----------------------------
(***************************************************************************)
(* run_source_replay of C2E v0.2: the frames of the ASK side and then of   *)
(* the BID side drive the episode engine, one frame after the other by the *)
(* boundary rules of the June pack; the restart harness drops the engine   *)
(* between the sides and restores it from the persisted records.  A frame  *)
(* is named by its side and position, and its time is its position.  What  *)
(* it holds is reduced to what the rules compare.  DEP.CONTINUITY,         *)
(* DEP.STRUCTURAL and DEP.SOURCE_RELEASE are always available; the         *)
(* comparison with the legacy predicates changes no state of the engine.   *)
(***************************************************************************)
EXTENDS EpisodeEngine, SequencesExt

CONSTANTS
  Segments, Structures, Parents,  \* continuity segments, structural bases, parents
  NoFrame,
  MaxFrames                       \* bound: frames of both sides together

VARIABLES
  inputs,    \* [Sides -> the frames taken so far]
  side,      \* the side being replayed, or "DONE"
  pending,   \* candidates of the current frame still to be applied, in order
  active,    \* active_episode_id, or NoFrame
  phaseFrom, \* phase_state: [episode -> the frame its open phase began with]
  blocked,   \* blocked_candidates
  outcome    \* "RUNNING", "COMPLETE" or "FAILED": the replay raised

replayVars == <<inputs, side, pending, active, phaseFrom, blocked, outcome>>

Sides == {"ASK", "BID"}

Inputs == [segment : Segments, structure : Structures, parent : Parents,
           available : BOOLEAN]

\* The engine knows every frame of the bound, and None is neither a frame nor a time.
ASSUME ReplayAssumption ==
  /\ MaxFrames \in Nat /\ Sides \X (1..MaxFrames) \subseteq EpisodeFrames
  /\ NoFrame \notin EpisodeFrames /\ NoEnd \notin EpisodeFrames

FramesOf(s) == {<<s, i>> : i \in DOMAIN inputs[s]}

AllFrames == FramesOf("ASK") \cup FramesOf("BID")

Content(f) == inputs[f[1]][f[2]]

Priority == [CENSOR_GAP |-> 2, CENSOR_RELEASE_END |-> 2, RE_PARENT |-> 4,
             PHASE_MUTATION |-> 6, CONTINUATION |-> 7, BIRTH |-> 8]

\* The pairs the pack's compatibility matrix calls COMPATIBLE_COMPOUND; every
\* other pair is MUTUALLY_EXCLUSIVE_BY_RULE.
Compound == {{"CENSOR_GAP", "BIRTH"}, {"RE_PARENT", "PHASE_MUTATION"},
             {"RE_PARENT", "CONTINUATION"}, {"PHASE_MUTATION", "CONTINUATION"}}

\* Mutant of ParentSignature: the parent alone, without the dependency's state.
MutParentSignature(frame) == <<frame.parent>>

ParentSignature(frame) == <<frame.parent, frame.available>>

\* Mutant of Matched: a frame behind a gap also continues.
MutMatched(frame, previous) ==
  IF previous = <<>> THEN {"BIRTH"}
  ELSE LET prior == previous[1] IN
       (IF frame.segment # prior.segment THEN {"CENSOR_GAP", "BIRTH"} ELSE {})
       \cup {"CONTINUATION"}

\* evaluate_boundary_predicates_v2 without release_end; previous is the frame
\* before as a sequence of length one, or empty.
Matched(frame, previous) ==
  IF previous = <<>> THEN {"BIRTH"}
  ELSE LET prior == previous[1] IN
       IF frame.segment # prior.segment THEN {"CENSOR_GAP", "BIRTH"}
       ELSE {"CONTINUATION"}
            \cup (IF ParentSignature(frame) # ParentSignature(prior)
                  THEN {"RE_PARENT"} ELSE {})
            \cup (IF frame.structure # prior.structure
                  THEN {"PHASE_MUTATION"} ELSE {})

\* build_candidate: RE_PARENT requires DEP.PARENT_CONTEXT of the frame.
Evaluable(rule, frame) == rule = "RE_PARENT" => frame.available

\* resolve_candidates: no candidate invalidates another, so a pair that is not
\* compound is a conflict, whatever the priorities.
Conflict(rules) == \E a, b \in rules : a # b /\ {a, b} \notin Compound

\* Mutant of Ordered: candidates by falling priority class.
MutOrdered(rules) ==
  CHOOSE s \in [1..Cardinality(rules) -> rules] :
    \A i, j \in DOMAIN s : i < j => Priority[s[i]] > Priority[s[j]]

Ordered(rules) ==
  CHOOSE s \in [1..Cardinality(rules) -> rules] :
    \A i, j \in DOMAIN s : i < j => Priority[s[i]] < Priority[s[j]]

ReplayInit ==
  /\ inputs = [s \in Sides |-> <<>>]
  /\ side = "ASK"
  /\ pending = <<>>
  /\ active = NoFrame
  /\ phaseFrom = [e \in EpisodeFrames |-> NoFrame]
  /\ blocked = {}
  /\ outcome = "RUNNING"

Idle == outcome = "RUNNING" /\ pending = <<>>

ReplayRaises ==
  /\ outcome' = "FAILED"
  /\ UNCHANGED <<engineState, side, active, phaseFrom>>

\* The next bundle of the side, up to resolve_candidates.
TakeFrame(frame) ==
  LET s == side
      previous == IF inputs[s] = <<>> THEN <<>> ELSE <<Last(inputs[s])>>
      rules == Matched(frame, previous)
      ready == {r \in rules : Evaluable(r, frame)}
      f == <<s, Len(inputs[s]) + 1>>
  IN
  /\ Idle
  /\ s \in Sides
  /\ Cardinality(AllFrames) < MaxFrames
  /\ inputs' = [inputs EXCEPT ![s] = Append(@, frame)]
  /\ blocked' = blocked \cup {<<r, f>> : r \in rules \ ready}
  /\ IF Conflict(ready)
     THEN ReplayRaises /\ UNCHANGED pending
     ELSE /\ pending' = [i \in DOMAIN Ordered(ready) |-> <<Ordered(ready)[i], f>>]
          /\ UNCHANGED <<engineState, side, active, phaseFrom, outcome>>

CensorGap(c) ==
  /\ Finish(active, "CENSOR_GAP", c)
  /\ active' = NoFrame
  /\ UNCHANGED <<phaseFrom, outcome>>

RecordReParent(c) ==
  /\ ReParent(active, c)
  /\ UNCHANGED <<active, phaseFrom, outcome>>

\* Mutant of AfterPhase: the next phase starts where the last one did.
MutAfterPhase(f) == UNCHANGED phaseFrom

AfterPhase(f) == phaseFrom' = [phaseFrom EXCEPT ![active] = f]

ClosePhase(f, c) ==
  LET interval == <<phaseFrom[active], f>> IN
  /\ PhaseMutation(active, c, interval)
  /\ outcome' = IF PhaseLawful(active, interval) THEN outcome ELSE "FAILED"
  /\ AfterPhase(f)
  /\ UNCHANGED active

Continue(f, c) ==
  /\ ContinueEpisode(active, f, c)
  /\ UNCHANGED <<active, phaseFrom, outcome>>

BeginEpisode(f, c) ==
  /\ Birth(f, c)
  /\ active' = f
  /\ phaseFrom' = [phaseFrom EXCEPT ![f] = f]
  /\ UNCHANGED outcome

\* The engine refuses the call, or there is no episode to make it for.
Refused(rule, f, c) ==
  \/ rule # "BIRTH" /\ (active = NoFrame \/ ~Open(active))
  \/ rule # "BIRTH" /\ ~Unheld(BoundaryEvent(rule, {active}, c))
  \/ rule = "CONTINUATION" /\ ownerOf[f] \notin {NoOwner, active}
  \/ rule = "BIRTH" /\ ownerOf[f] # NoOwner

\* One turn of the loop over resolved["resolved"].  A candidate is its rule and
\* its frame.
Apply ==
  LET c == Head(pending)
      rule == c[1]
      f == c[2]
  IN
  /\ outcome = "RUNNING" /\ pending # <<>>
  /\ pending' = Tail(pending)
  /\ UNCHANGED <<inputs, blocked>>
  /\ IF Refused(rule, f, c)
     THEN ReplayRaises
     ELSE /\ UNCHANGED side
          /\ \/ rule = "CENSOR_GAP" /\ CensorGap(c)
             \/ rule = "RE_PARENT" /\ RecordReParent(c)
             \/ rule = "PHASE_MUTATION" /\ ClosePhase(f, c)
             \/ rule = "CONTINUATION" /\ Continue(f, c)
             \/ rule = "BIRTH" /\ BeginEpisode(f, c)

\* Mutant of NextSide: the replay stops behind the first side.
MutNextSide == "DONE"

NextSide == IF side = "ASK" THEN "BID" ELSE "DONE"

\* The input of the side is at its end: its last episode is censored.
EndSide ==
  /\ Idle
  /\ side \in Sides
  /\ UNCHANGED <<inputs, pending, blocked>>
  /\ IF inputs[side] = <<>> \/ active = NoFrame
     THEN ReplayRaises
     ELSE /\ Finish(active, "CENSOR_RELEASE_END",
                    <<"CENSOR_RELEASE_END", <<side, Len(inputs[side])>>>>)
          /\ side' = NextSide
          /\ active' = NoFrame
          /\ UNCHANGED <<phaseFrom, outcome>>

\* Mutant of RestoredOwner: the memberships are not read back.
MutRestoredOwner(f) == NoOwner

RestoredOwner(f) ==
  IF \E e \in EpisodeFrames : f \in ProjectedMembers(e)
  THEN CHOOSE e \in EpisodeFrames : f \in ProjectedMembers(e)
  ELSE NoOwner

\* The restart harness between the sides: the records are persisted, the engine
\* is dropped and restored from them; only a closed partition may be restored.
Restart ==
  /\ Idle
  /\ side = "BID" /\ inputs["BID"] = <<>>
  /\ \A e \in EpisodeFrames : GenesisRecord(e) \in Range(semantic) =>
       ProjectedStatus(e) = "CENSORED"
  /\ statusOf' = [e \in EpisodeFrames |->
       IF Unheld(GenesisRecord(e)) THEN "UNBORN" ELSE ProjectedStatus(e)]
  /\ ownerOf' = [f \in EpisodeFrames |-> RestoredOwner(f)]
  /\ phaseFrom' = [e \in EpisodeFrames |-> NoFrame]
  /\ UNCHANGED <<semantic, edges, inputs, side, pending, active, blocked, outcome>>

SnapshotOf(e) ==
  [kind |-> "SNAPSHOT", episode |-> e, status |-> ProjectedStatus(e),
   members |-> ProjectedMembers(e)]

\* The memberships are counted against the frames, and every episode is snapshot.
Conclude ==
  /\ Idle
  /\ side = "DONE"
  /\ UNCHANGED <<inputs, pending, blocked>>
  /\ IF Cardinality(Records("MEMBER")) # Cardinality(AllFrames)
     THEN ReplayRaises
     ELSE /\ Extend(SetToSeq({SnapshotOf(e) : e \in Genesis}))
          /\ outcome' = "COMPLETE"
          /\ UNCHANGED <<statusOf, ownerOf, edges, side, active, phaseFrom>>

ReplayNext ==
  /\ UNCHANGED <<calls, halfDone>>
  /\ \/ \E frame \in Inputs : TakeFrame(frame)
     \/ Apply
     \/ EndSide
     \/ Restart
     \/ Conclude

--------------------------------------------------------------------------------
ReplayTypeOK ==
  /\ inputs \in [Sides -> Seq(Inputs)]
  /\ side \in Sides \cup {"DONE"}
  /\ active \in EpisodeFrames \cup {NoFrame}
  /\ phaseFrom \in [EpisodeFrames -> EpisodeFrames \cup {NoFrame}]
  /\ outcome \in {"RUNNING", "COMPLETE", "FAILED"}

\* Frames whose candidates have all been applied.
Applied == AllFrames \ {c[2] : c \in Range(pending)}

\* The pack's rules never ask of the engine what it refuses, nor two things at
\* once that exclude each other: a replay raises only for a side without frames.
OnlyEmptyFails == outcome = "FAILED" => \E s \in Sides : inputs[s] = <<>>

\* No segment change lies behind i up to j.
SameRun(s, i, j) ==
  \A k \in (i + 1)..j : inputs[s][k].segment = inputs[s][k - 1].segment

\* The episodes are the runs of frames between two gaps: two frames of a side
\* have one owner exactly if no gap lies between them, and every frame has one.
EpisodesAreRuns ==
  outcome # "FAILED" =>
    /\ \A f \in Applied : ownerOf[f] # NoOwner
    /\ \A f, g \in Applied : f[1] = g[1] /\ f[2] <= g[2] =>
         (ownerOf[f] = ownerOf[g] <=> SameRun(f[1], f[2], g[2]))

\* Only the run in progress is open, although it is the candidates of a later
\* frame, or the end of the side, that close the one before.
OneOpenEpisode ==
  outcome # "FAILED" =>
    {e \in Genesis : Open(e)} = {active} \ {NoFrame}

\* The phases of an episode follow upon one another without a hole from its birth
\* to the last change of structure, and each one ends where the structure changed.
PhasesTile ==
  Idle =>
    \A e \in Genesis :
      LET phases == {r.interval : r \in {p \in Records("PHASE") : p.episode = e}}
          starts == {p[1] : p \in phases}
          ends == {p[2] : p \in phases}
      IN /\ \A p \in phases : p[1] \in ends \cup {e} /\ p[1][2] < p[2][2]
         /\ phases # {} => e \in starts
         /\ Cardinality(starts) = Cardinality(phases)
         /\ ends = {f \in ProjectedMembers(e) \ {e} :
              Content(f).structure # inputs[f[1]][f[2] - 1].structure}

\* Where the parent context of a frame is available, it is the one the episode
\* last recorded: at its birth or by RE_PARENT.  A change that was blocked is not
\* lost, for the state of the dependency is part of the signature.
ParentContextCurrent ==
  outcome # "FAILED" =>
    \A f \in Applied :
      LET e == ownerOf[f]
          recorded == {e} \cup {g \in AllFrames :
            ~Unheld(BoundaryEvent("RE_PARENT", {e}, <<"RE_PARENT", g>>))}
          current == CHOOSE g \in recorded :
            g[2] <= f[2] /\ \A h \in recorded : h[2] <= f[2] => h[2] <= g[2]
      IN Content(f).available =>
           Content(current).available /\ Content(current).parent = Content(f).parent

\* A change of the parent context inside an episode is in the stream or among the
\* blocked candidates, never in both and never in neither.
ParentChangesAccounted ==
  outcome # "FAILED" =>
    \A f \in Applied : f # ownerOf[f] =>
      LET changed == ParentSignature(Content(f))
                       # ParentSignature(inputs[f[1]][f[2] - 1])
          told == ~Unheld(BoundaryEvent("RE_PARENT", {ownerOf[f]}, <<"RE_PARENT", f>>))
          held == <<"RE_PARENT", f>> \in blocked
      IN changed <=> (told # held)

\* A replay that completed took both sides, and its snapshots are censored
\* episodes that share the frames among them.
SnapshotsPartition ==
  outcome = "COMPLETE" =>
    LET snapshots == Records("SNAPSHOT") IN
    /\ \A s \in Sides : inputs[s] # <<>>
    /\ \A r \in snapshots : r.status = "CENSORED"
    /\ UNION {r.members : r \in snapshots} = AllFrames
    /\ \A r, q \in snapshots : r # q => r.members \cap q.members = {}

\* The parts above, of an engine that only the replay has called.
ReplayInv ==
  calls = 0 =>
    /\ ReplayTypeOK
    /\ OnlyEmptyFails
    /\ EpisodesAreRuns
    /\ OneOpenEpisode
    /\ PhasesTile
    /\ ParentContextCurrent
    /\ ParentChangesAccounted
    /\ SnapshotsPartition

\* The engine under either user, and the replay: what the stream says, what the
\* engine acts upon and what the frames show agree.
EpisodeInv == EngineInv /\ ReplayInv
================================================================================
