------------------------------- MODULE MCRecords -------------------------------
(***************************************************************************)
(* The append-only histories of the repository, the publication of a       *)
(* release, of a bundle and of an atlas, the intake of source data and the *)
(* restart of a research run.  They share nothing, so a behaviour is one   *)
(* of them running while the others rest: the states are the sum of theirs *)
(* and not the product.  The episode engine runs under a caller of its own *)
(* and under the replay.                                                   *)
(***************************************************************************)
EXTENDS EventJournal, GenesisLedger, ResearchRecords, CheckpointLineage,
  RemotePublication, EpisodeReplay, SourceRecovery, AtlasGeneration, StageResume,
  EvidenceExport, TLC

CONSTANTS c1, c2

VARIABLE running

vars ==
  <<running, journalVars, genesisVars, recordVars, lineageVars, remoteVars,
    engineVars, replayVars, sourceVars, atlasVars, resumeVars, exportVars>>

\* Two files of which one has two contents, and a release with one file less.
MCDirectories == {1 :> c1 @@ 2 :> c1, 1 :> c1 @@ 2 :> c2, 1 :> c2}
MCFrozen == 1 :> c1 @@ 2 :> c1

MCEpisodeFrames == Sides \X (1..MaxFrames)
MCCallerFrames == {"ASK"} \X (1..MaxFrames)
MCIntervals == {<<1, 2>>, <<1, NoEnd>>}

episodeVars == <<engineVars, replayVars>>

\* The whole market, and markets in which minutes, or an hour, are missing on one or
\* both sides, or in which prices disagree.  Day 3 is a Saturday.
WholeMarket ==
  [m1 |-> [quotes \in QuoteSides |-> Minutes], h1 |-> [quotes \in QuoteSides |-> Days],
   crossed |-> {}, unlike |-> {}]
Without(times, missing, sides) ==
  [quotes \in QuoteSides |-> IF quotes \in sides THEN times \ missing ELSE times]
MCMarkets ==
  {[WholeMarket EXCEPT !.m1 = Without(Minutes, from..to, sides)] :
     from \in Minutes, to \in Minutes, sides \in {{"ASK"}, QuoteSides}}
  \cup {[WholeMarket EXCEPT !.m1 = Without(Minutes, missing, QuoteSides),
                           !.h1 = Without(Days, {d}, sides)] :
     missing \in {{}, MinutesOf(3), {6}}, d \in Days, sides \in {{"BID"}, QuoteSides}}
  \cup {[WholeMarket EXCEPT !.crossed = {3}], [WholeMarket EXCEPT !.unlike = {2}]}
MCAcceptable == {1 :> 1 @@ 2 :> 1, 1 :> 2 @@ 2 :> 1}

\* A call that RPS makes while a recovery is under way, with every object there.
RivalIntake(p) ==
  /\ IntakeStep(p)
  /\ denials' = 0
  /\ intake'[p] # NoIntake => intake'[p].profile = "RPS"

\* The generation of each of main's commits.
MCSourceCommit == 1 :> 1 @@ 2 :> 2

\* Attempts over a chain, a fork, a join and a cycle of stages, over profiles that
\* leave out an optional stage, a required one or a forbidden one, with a stage
\* that has no expected specification, and with and without observed hashes.  A
\* stage hands over the type of its own number; what a dependency expects, and what
\* a stage needs, fits but in the attempts made for it.
Dependency(s, on, disposition) ==
  [stage |-> s, on |-> on, disposition |-> disposition, expects |-> {on}]
MCAttempt(included, dependencies, known, content) ==
  [included |-> included, dependencies |-> dependencies, expected |-> [s \in known |-> 1],
   observed |-> [s \in Stages |-> content], observedOpaque |-> [id \in OpaqueIds |-> content],
   inputs |-> [s \in Stages |-> {0} \cup {d.on : d \in {e \in dependencies : e.stage = s /\ e.on \in included}}],
   outputs |-> [s \in Stages |-> {s}], external |-> {0}]
Chain == {Dependency(2, 1, "REQUIRED"), Dependency(3, 2, "OPTIONAL")}
Fork == {Dependency(1, 3, "REQUIRED"), Dependency(2, 3, "REQUIRED")}
Join == {Dependency(2, 1, "REQUIRED"), Dependency(2, 3, "REQUIRED")}
Cycle == {Dependency(1, 2, "REQUIRED"), Dependency(2, 1, "OPTIONAL")}
ChainAttempt == MCAttempt(Stages, Chain, Stages, 1)
MCAttempts ==
  {MCAttempt(Stages, graph, Stages, content) : graph \in {Chain, Fork, Join}, content \in {1, NoContent}}
  \cup {MCAttempt(Stages, Fork, {2, 3}, 1), MCAttempt(Stages, Cycle, Stages, 1),
        MCAttempt({1, 3}, Chain, Stages, 1), MCAttempt({2, 3}, Chain, Stages, 1),
        MCAttempt({1, 3}, {Dependency(1, 3, "FORBIDDEN")}, Stages, 1),
        [ChainAttempt EXCEPT !.outputs[1] = {}],
        [ChainAttempt EXCEPT !.inputs[1] = {2}]}
MCArtifacts == [logical : StageSpecs, content : {1, NoContent}, complete : BOOLEAN]

quietVars == <<journalVars, genesisVars, recordVars, lineageVars, remoteVars, episodeVars>>

Init ==
  /\ running \in {"journal", "genesis", "records", "lineage", "publication",
                  "episodes", "replay", "intake", "race", "recovery",
                  "atlas", "resume", "cache", "export"}
  /\ JournalInit /\ GenesisInit /\ RecordsInit /\ LineageInit /\ RemoteInit
  /\ EngineInit /\ ReplayInit
  /\ IntakeInit /\ RecoveryInit
  /\ AtlasInit /\ ResumeInit /\ ExportInit
  /\ running # "resume" => attempt = ChainAttempt
  /\ running # "intake" => market = WholeMarket
  /\ running \notin {"intake", "race"} => destination["MDR"] = NoDirectory
  /\ running \notin {"intake", "race", "recovery"} => destination["RPS"] = NoDirectory

Next ==
  /\ UNCHANGED running
  /\ \/ /\ \/ running = "journal" /\ JournalNext
              /\ UNCHANGED <<genesisVars, recordVars, lineageVars, remoteVars, episodeVars>>
           \/ running = "genesis" /\ GenesisNext
              /\ UNCHANGED <<journalVars, recordVars, lineageVars, remoteVars, episodeVars>>
           \/ running = "records" /\ RecordsNext
              /\ UNCHANGED <<journalVars, genesisVars, lineageVars, remoteVars, episodeVars>>
           \/ running = "lineage" /\ LineageNext
              /\ UNCHANGED <<journalVars, genesisVars, recordVars, remoteVars, episodeVars>>
           \/ running = "publication" /\ RemoteNext
              /\ UNCHANGED <<journalVars, genesisVars, recordVars, lineageVars, episodeVars>>
           \/ running = "episodes" /\ EngineNext
              /\ UNCHANGED <<journalVars, genesisVars, recordVars, lineageVars, remoteVars, replayVars>>
           \/ running = "replay" /\ ReplayNext
              /\ UNCHANGED <<journalVars, genesisVars, recordVars, lineageVars, remoteVars>>
        /\ UNCHANGED <<sourceVars, atlasVars, resumeVars, exportVars>>
     \/ /\ \/ running = "intake" /\ IntakeStep(1) /\ UNCHANGED recoveryVars
           \/ running = "race" /\ (\E p \in Intakers : IntakeStep(p)) /\ UNCHANGED recoveryVars
           \/ running = "recovery" /\ RecoveryNext
           \/ running = "recovery" /\ RivalIntake(1) /\ UNCHANGED recoveryVars
        /\ UNCHANGED <<quietVars, atlasVars, resumeVars, exportVars>>
     \/ /\ \/ running = "atlas" /\ AtlasNext /\ UNCHANGED <<resumeVars, exportVars>>
           \/ running = "resume" /\ PlanNext /\ UNCHANGED <<atlasVars, exportVars>>
           \/ running = "cache" /\ CacheNext /\ UNCHANGED <<atlasVars, exportVars>>
           \/ running = "export" /\ ExportNext /\ UNCHANGED <<atlasVars, resumeVars>>
        /\ UNCHANGED <<quietVars, sourceVars>>

Spec == Init /\ [][Next]_vars
================================================================================
