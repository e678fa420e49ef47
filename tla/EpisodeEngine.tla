----------------------------- MODULE EpisodeEngine -----------------------------
(***************************************************************************)
(* EpisodeEngine of C2E v0.2: an append-only stream of records, of which   *)
(* the live maps (status_by_episode, owner_by_frame, the topology) are a   *)
(* second copy.  A record's id is the digest of its content, so a record   *)
(* is its content and the stream refuses one it already holds.  An episode *)
(* is named by its birth frame.  The calls of one caller below carry one   *)
(* time, the case in which two records can be equal; a candidate id stands *)
(* for the times of its call.  A call that raises before it has changed    *)
(* anything is no step.                                                    *)
(***************************************************************************)
EXTENDS Integers, Sequences, FiniteSets, Functions

CONSTANTS
  EpisodeFrames,  \* frames of one scope and scale; also the names of the episodes
  CallerFrames,   \* the ones the caller passes
  NoOwner,
  Candidates,     \* candidate ids a caller passes
  Intervals,      \* start and end times a caller passes to phase_mutation
  NoEnd,          \* end_time = None
  MaxCalls        \* bound: calls of the caller that change something

\* A release has finitely many frames, and a frame that nobody owns has no owner.
ASSUME EngineAssumption ==
  /\ IsFiniteSet(EpisodeFrames) /\ CallerFrames \subseteq EpisodeFrames
  /\ NoOwner \notin EpisodeFrames
  /\ MaxCalls \in Nat

VARIABLES
  semantic,   \* AppendOnlyStream._records
  statusOf,   \* status_by_episode, with "UNBORN" for what is in no map
  ownerOf,    \* owner_by_frame, or NoOwner
  edges,      \* EpisodeTopology._edges, _children with it
  calls,      \* calls made so far
  halfDone    \* history: phase_mutation or link raised after its first change

engineState == <<semantic, statusOf, ownerOf, edges>>
engineVars == <<engineState, calls, halfDone>>

Endings == [CENSOR_GAP |-> "CENSORED", CENSOR_RELEASE_END |-> "CENSORED",
            TERMINATE |-> "TERMINATED", TERMINATE_CONFLICT |-> "CONFLICTED"]

EdgeTypes == {"NEST", "RE_PARENT", "SPLIT", "MERGE"}

GenesisRecord(e) == [kind |-> "GENESIS", episode |-> e]

BoundaryEvent(action, es, c) ==
  [kind |-> "EVENT", action |-> action, episodes |-> es, candidate |-> c]

MembershipDelta(e, f, event) ==
  [kind |-> "MEMBER", episode |-> e, frame |-> f, by |-> event]

PhaseSegment(e, interval) == [kind |-> "PHASE", episode |-> e, interval |-> interval]

LineageEdge(type, parent, child, event) ==
  [kind |-> "EDGE", type |-> type, parent |-> parent, child |-> child, by |-> event]

Records(kind) == {r \in Range(semantic) : r.kind = kind}

\* AppendOnlyStream.append does not raise.
Unheld(record) == record \notin Range(semantic)

Extend(records) == semantic' = semantic \o records

Genesis == {e \in EpisodeFrames : statusOf[e] # "UNBORN"}

Open(e) == statusOf[e] = "OPEN"

(***************************************************************************)
(* The projection: what project_episode folds out of the records.  The     *)
(* last ending event of the episode decides its status.                    *)
(***************************************************************************)
EndsAt(e) ==
  {i \in DOMAIN semantic : /\ semantic[i].kind = "EVENT"
                           /\ e \in semantic[i].episodes
                           /\ semantic[i].action \in DOMAIN Endings}

\* Mutant of ProjectedStatus: a conflict counts as an ordinary termination.
MutProjectedStatus(e) ==
  IF EndsAt(e) = {} THEN "OPEN"
  ELSE LET last == CHOOSE i \in EndsAt(e) : \A j \in EndsAt(e) : j <= i
       IN IF semantic[last].action = "TERMINATE_CONFLICT" THEN "TERMINATED"
          ELSE Endings[semantic[last].action]

ProjectedStatus(e) ==
  IF EndsAt(e) = {} THEN "OPEN"
  ELSE LET last == CHOOSE i \in EndsAt(e) : \A j \in EndsAt(e) : j <= i
       IN Endings[semantic[last].action]

ProjectedMembers(e) == {r.frame : r \in {m \in Records("MEMBER") : m.episode = e}}

EngineInit ==
  /\ semantic = <<>>
  /\ statusOf = [e \in EpisodeFrames |-> "UNBORN"]
  /\ ownerOf = [f \in EpisodeFrames |-> NoOwner]
  /\ edges = <<>>
  /\ calls = 0
  /\ halfDone = FALSE

\* Mutant of Birth: the frame's owner is not looked up.
MutBirth(f, c) ==
  LET event == BoundaryEvent("BIRTH", {f}, c) IN
  /\ f \notin Genesis
  /\ Extend(<<GenesisRecord(f), event, MembershipDelta(f, f, event)>>)
  /\ statusOf' = [statusOf EXCEPT ![f] = "OPEN"]
  /\ ownerOf' = [ownerOf EXCEPT ![f] = f]
  /\ UNCHANGED edges

\* The genesis of an unowned frame is new, and so is the event that names it.
Birth(f, c) ==
  LET event == BoundaryEvent("BIRTH", {f}, c) IN
  /\ ownerOf[f] = NoOwner
  /\ Extend(<<GenesisRecord(f), event, MembershipDelta(f, f, event)>>)
  /\ statusOf' = [statusOf EXCEPT ![f] = "OPEN"]
  /\ ownerOf' = [ownerOf EXCEPT ![f] = f]
  /\ UNCHANGED edges

ContinueEpisode(e, f, c) ==
  LET event == BoundaryEvent("CONTINUATION", {e}, c) IN
  /\ Open(e)
  /\ ownerOf[f] \in {NoOwner, e}
  /\ Unheld(event)
  /\ Extend(<<event, MembershipDelta(e, f, event)>>)
  /\ ownerOf' = [ownerOf EXCEPT ![f] = e]
  /\ UNCHANGED <<statusOf, edges>>

\* The phase record is built, and build_record wants an end, after the event.
PhaseLawful(e, interval) == interval[2] # NoEnd /\ Unheld(PhaseSegment(e, interval))

PhaseMutation(e, c, interval) ==
  LET event == BoundaryEvent("PHASE_MUTATION", {e}, c) IN
  /\ Open(e)
  /\ Unheld(event)
  /\ Extend(IF PhaseLawful(e, interval) THEN <<event, PhaseSegment(e, interval)>>
            ELSE <<event>>)
  /\ UNCHANGED <<statusOf, ownerOf, edges>>

ReParent(e, c) ==
  LET event == BoundaryEvent("RE_PARENT", {e}, c) IN
  /\ Open(e)
  /\ Unheld(event)
  /\ Extend(<<event>>)
  /\ UNCHANGED <<statusOf, ownerOf, edges>>

\* Mutant of Finish: any episode there is may be ended.
MutFinish(e, action, c) ==
  LET event == BoundaryEvent(action, {e}, c) IN
  /\ e \in Genesis
  /\ Unheld(event)
  /\ Extend(<<event>>)
  /\ statusOf' = [statusOf EXCEPT ![e] = Endings[action]]
  /\ UNCHANGED <<ownerOf, edges>>

\* censor and terminate.
Finish(e, action, c) ==
  LET event == BoundaryEvent(action, {e}, c) IN
  /\ Open(e)
  /\ Unheld(event)
  /\ Extend(<<event>>)
  /\ statusOf' = [statusOf EXCEPT ![e] = Endings[action]]
  /\ UNCHANGED <<ownerOf, edges>>

(***************************************************************************)
(* The topology.                                                           *)
(***************************************************************************)
Children(p) == {r.child : r \in {edge \in Range(edges) : edge.parent = p}}

Descendants(start) ==
  LET within[n \in Nat] ==
        IF n = 0 THEN {start}
        ELSE LET closer == within[n - 1] IN closer \cup UNION {Children(e) : e \in closer}
  IN within[Cardinality(Genesis)]

\* Mutant of Reaches: only an edge from an episode to itself is a cycle.
MutReaches(start, target) == start = target

Reaches(start, target) == target \in Descendants(start)

\* link adds the edge to the topology before the stream sees either record.
Link(type, parent, child, c) ==
  LET event == BoundaryEvent(type, {parent, child}, c)
      edge == LineageEdge(type, parent, child, event)
  IN
  /\ {parent, child} \subseteq Genesis
  /\ ~Reaches(child, parent)
  /\ edges' = Append(edges, edge)
  /\ Extend(IF Unheld(event) THEN <<event, edge>> ELSE <<>>)
  /\ UNCHANGED <<statusOf, ownerOf>>

Call ==
  /\ calls < MaxCalls
  /\ calls' = calls + 1

Whole == UNCHANGED halfDone

CallBirth(f, c) == Call /\ Whole /\ Birth(f, c)

CallContinue(e, f, c) == Call /\ Whole /\ ContinueEpisode(e, f, c)

CallPhaseMutation(e, c, interval) ==
  /\ Call
  /\ PhaseMutation(e, c, interval)
  /\ halfDone' = (halfDone \/ ~PhaseLawful(e, interval))

CallReParent(e, c) == Call /\ Whole /\ ReParent(e, c)

CallFinish(e, action, c) == Call /\ Whole /\ Finish(e, action, c)

CallLink(type, parent, child, c) ==
  /\ Call
  /\ Link(type, parent, child, c)
  /\ halfDone' = (halfDone \/ ~Unheld(BoundaryEvent(type, {parent, child}, c)))

EngineNext ==
  \E e \in CallerFrames, c \in Candidates :
    \/ CallBirth(e, c)
    \/ \E f \in CallerFrames : CallContinue(e, f, c)
    \/ \E interval \in Intervals : CallPhaseMutation(e, c, interval)
    \/ CallReParent(e, c)
    \/ \E action \in DOMAIN Endings : CallFinish(e, action, c)
    \/ \E type \in EdgeTypes, child \in CallerFrames : CallLink(type, e, child, c)

--------------------------------------------------------------------------------
EngineTypeOK ==
  /\ \A r \in Range(semantic) :
       r.kind \in {"GENESIS", "EVENT", "MEMBER", "PHASE", "EDGE", "SNAPSHOT"}
  /\ statusOf \in [EpisodeFrames -> Range(Endings) \cup {"UNBORN", "OPEN"}]
  /\ ownerOf \in [EpisodeFrames -> EpisodeFrames \cup {NoOwner}]
  /\ calls \in 0..MaxCalls
  /\ halfDone \in BOOLEAN

\* The stream holds no record twice: AppendOnlyStream.append.
RecordsOnce == IsInjective(semantic)

\* What a snapshot rebuilds from the stream is what the engine acts upon: the
\* status of every episode, and its members are the frames it owns.
ProjectionAgrees ==
  \A e \in Genesis :
    /\ ProjectedStatus(e) = statusOf[e]
    /\ ProjectedMembers(e) = {f \in EpisodeFrames : ownerOf[f] = e}

\* Over the whole stream a frame is added to one episode only, and to one that
\* its genesis precedes.
OneOwner ==
  \A i \in DOMAIN semantic : semantic[i].kind = "MEMBER" =>
    /\ ownerOf[semantic[i].frame] = semantic[i].episode
    /\ \E j \in 1..(i - 1) : semantic[j] = GenesisRecord(semantic[i].episode)

\* After the event that ended an episode the stream adds no member, no phase
\* and no event of that episode alone; lineage may still name it.
EndedForGood ==
  \A e \in Genesis : \A i \in EndsAt(e), j \in DOMAIN semantic : i < j =>
    LET r == semantic[j] IN
    /\ r.kind \in {"MEMBER", "PHASE"} => r.episode # e
    /\ r.kind = "EVENT" => r.episodes # {e}

\* No episode is its own ancestor, and the edges a reader of the stream finds are
\* the ones the cycle check looks at, although the two are written apart.
TopologySound ==
  /\ \A e \in Genesis : \A child \in Children(e) : e \notin Descendants(child)
  /\ Range(edges) = Records("EDGE")

\* An event of a phase or of an edge without its record is what a call that
\* raised half-way left, and nothing else leaves one.
HalfDoneOnly ==
  ~halfDone =>
    /\ Len(edges) = Cardinality(Records("EDGE"))
    /\ \A i \in DOMAIN semantic :
         /\ semantic[i].kind = "EVENT"
         /\ semantic[i].action = "PHASE_MUTATION"
         => /\ i < Len(semantic)
            /\ semantic[i + 1].kind = "PHASE"
            /\ semantic[i].episodes = {semantic[i + 1].episode}

EngineInv ==
  /\ EngineTypeOK
  /\ RecordsOnce
  /\ ProjectionAgrees
  /\ OneOwner
  /\ EndedForGood
  /\ TopologySound
  /\ HalfDoneOnly
================================================================================
