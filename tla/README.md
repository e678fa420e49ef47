# OVC Replay: a TLA+ verification project

OVC Replay replays market data through a chain of research layers and keeps the
evidence of every run in stores that must survive crashes, retries and repeated
invocations; a supervisor dispatches work to executors under a fenced lease, and a
change reaches main through a queue, a lease of the base branch and a proof of
completion. This project models that stateful machinery in TLA+, model-checks it
with TLC and proves the main results with TLAPS. Paths are relative to the
repository; `srfd/` stands for `src/ovc/opt_b/srfd/`, `store/` for
`src/ovc_evidence_store/`, `skills/` for `src/ovc/development/skills/`, `prospective/`
for `src/ovc/research_operations/prospective_source/`.

## 1. The system

### Components, state and operations

| component | state it keeps | operations that change it |
|---|---|---|
| SRFD WP10 durable run (`srfd/wp10_execution_resilience.py`, `wp10_durable_execution.py`, `wp10_v11_*.py`, `wp10_v07_runner.py`) | token consumption receipt, artifact file per work unit, capacity telemetry, numbered checkpoints | `start_wp10`, `resume_wp10`, and inside them `consume`, `latest`, `account_unit`, `commit_output`, `commit` |
| Content-addressed artifact store (`store/content_addressed.py`, `streaming.py`) | chunk files, manifests, temporary and staged files; a size cache in memory | `commit_bytes`, `commit_file`, `verify_receipt` |
| Evidence workspace and release (`store/lifecycle.py`) | workspace, release directory, freeze receipt | `init_workspace`, `freeze_release` |
| Remote publication (`store/remote.py`, `manifest.py`) | objects below a remote prefix | `build_manifest`, `upload`, `verify_remote` |
| Evidence checkpoint store (`store/checkpoints.py`) | numbered, parent-hashed checkpoints | `commit`, `verify` |
| CERS persistent supervisor (`skills/cers/persistent_service.py`) | fencing generation and lease, dispatch transactions, worker ownership, event log, sweeps, provider attempts | lease operations, `ingest_event`, `reference_sweep`, every `persist/mark/acknowledge/heartbeat/reconcile/complete` |
| C2P event journal (`src/ovc/opt_b/c2p_v0_2/persistence.py`, `ledger.py`) | journal file, seal file, checkpoint | `append_event`, `load_ledger`, `build_checkpoint`, `restore_checkpoint` |
| C2E episodes (`src/ovc/opt_b/c2e_v2/lifecycle.py`, `source_replay_runtime.py`) | append-only record stream and the live maps beside it | `birth`, `continue_episode`, `phase_mutation`, `re_parent`, endings, `link`; the replay loop; the restart |
| Programme genesis ledger (`src/ovc/programme_genesis/ledger.py`) | one JSONL file | `append`, `inventory` |
| Research records (`src/ovc/research_operations/storage.py`) | drafts, frozen records, audit records | create, update, freeze, supersede |
| Dukascopy source intake and recovery (`prospective/dukascopy_*.py`) | staging, quarantine and destination directories, an inventory | `execute_intake` in three profiles; `inventory`, `freeze` |
| Evidence export (`src/ovc/development/evidence_export.py`) | staging and bundle directory | `execute_export` |
| System atlas (`src/ovc/system_atlas/generation.py`) | generation directories, receipts, `CURRENT.json` | `publish_current_generation` |
| Research orchestration (`src/ovc/research_orchestration/dag.py`, `planner.py`, `checkpoint.py`, `cache.py`) | completions, sub-stage checkpoints, cache entries | `build_resume_plan`, registrations, `lookup`, `quarantine` |
| Serial integration queue (`skills/siq_core.py`) | an immutable queue value with a lease | enqueue, acquire, release, elapse, terminate, integrate |
| Late-binding admission (`tools/ci/prvitr_live_admission.py`, `ovc_run_with_main_lease.py`, `.github/workflows/ovc-tiered-tests.yml`) | workflow runs, admission receipts, a child process and the branch it watches | ready, acquire, `run_with_lease`, finalize |
| Post-merge completion (`skills/vit_materialisation.py`, `tools/ci/vit_post_merge_completion_late_binding.py`) | receipts, index, proof | `_recover_one`, `complete_frozen_transaction` |
| CERS authority view and reconciler (`skills/cers/persistent.py`, `reconcile.py`) | none (values) | `reconcile_persistent_requests` |
| Science layers, projections, consoles, CI scripts | derived data | pure transformations and I/O |

How they interact: a durable run's worker loads artifacts of earlier units through
the artifact store and writes its own through it; later runners keep their
artifacts in the content-addressed store. A release is frozen from a workspace that
collects such artifacts, and is published from there. Source slices feed the replay,
whose frames drive the episode engine; its records end in ledgers. The reconciler
turns work requests into proposals, which the supervisor persists as dispatch
transactions under its lease; executors report starts, heartbeats and outcomes back.
A pull request is qualified, enters a lane of one, is bound to the present main,
assured under the lease of the base branch and admitted; its merge is then proven
and completed on the receipt store. Hardly anything takes an operating-system lock:
every protection is an exists-check, an exclusive creation, an atomic rename, a hash
comparison or a fencing number.

### What is hard about it

- *Stops between two writes.* Every store writes several files for one logical
  operation and has to make sense of what a dead process left; some files are
  written in place, so even one write can be cut.
- *Exists-check, then replace.* `os.replace` overwrites silently; two invocations
  can both pass the check. Several temporary names depend on the object only, so two
  writers share the temporary file too.
- *Stale values.* The last checkpoint and the number of stored bytes are cached for
  the life of a process; a manifest, a quarantine directory, main or a qualification
  is looked at, and looked at again, and moves between.
- *Two copies of the truth.* Seal and journal, stream and live maps, object and
  audit record, proof and receipts are written one after the other.
- *Limits.* Byte, time and memory envelopes are enforced across restarts.
- *Stale callers.* A supervisor that was fenced off keeps calling, executors
  report late, twice or not at all, a mirror denies objects the provider has.

`PROJECT.json` lists the hazards line by line with the properties that cover each.
Three more that no property covers: `account_unit` is a read-modify-write of the
telemetry file without a lock, so concurrent invocations lose counts
(`srfd/wp10_durable_execution.py:302`; capacity is checked for one invocation at a
time only); a NO_START observation after an acknowledged start was marked unknown
resets the phase and leaves the owner (`skills/cers/persistent_service.py:300`);
and no code of the repository saves the supervisor's payload or writes a
`QueueState` back, so what two callers do to each other through old values depends
on a caller that does not exist yet.

## 2. The modules

| module | models |
|---|---|
| `DurableRun`, `RunLedger` | the durable run over its four stores; what it promises: a log to which planned units are appended in order |
| `ArtifactStore`, `PublishedOutputs` | `commit_bytes` and `commit_file` file by file; what they promise: a unit is published once, whole, for ever |
| `ReleaseFreeze` | `init_workspace` and `freeze_release` with its error handler |
| `RemotePublication` | the approved manifest, `upload` and `verify-remote` |
| `CheckpointLineage` | `AppendOnlyCheckpointStore` |
| `PersistentSupervisor` | `PersistentSupervisorService` |
| `EventJournal` | the C2P journal, its seal and its checkpoints |
| `EpisodeEngine`, `EpisodeReplay` | the C2E engine under any caller; the replay and the restart that drive it |
| `GenesisLedger` | `AppendOnlyLedger` of programme genesis |
| `ResearchRecords` | `ResearchWriteService` over its two stores |
| `SourceIntake`, `SourceRecovery` | the intake of a source slice; the recovery of a quarantined one into the same destination |
| `EvidenceExport` | `execute_export` |
| `AtlasGeneration` | the publication of atlas generations |
| `StageResume` | stage order, resume plan and semantic cache |
| `IntegrationQueue` | the queue value of SIQ |
| `MainLease`, `FinalAdmission` | `run_with_lease`; the admission of pull requests composed with it, to the proven merge |
| `PhysicalCompletion` | the files of a completion |
| `MC*` | instances for TLC; `MCRecords` and `MCIntegration` join the modules that share nothing |
| `DurableRun_proofs`, `ArtifactStore_proofs`, `PersistentSupervisor_proofs` | theorems about the module they are named after |
| `Integration_proofs` | theorems about `IntegrationQueue`, `MainLease` with `FinalAdmission`, `PhysicalCompletion` |
| `Histories_proofs` | theorems about `GenesisLedger`, `CheckpointLineage`, `EventJournal`, `ResearchRecords` |
| `Publication_proofs` | theorems about `RemotePublication`, `AtlasGeneration`, `EvidenceExport`, `SourceIntake` with `SourceRecovery`, `ReleaseFreeze` |
| `Research_proofs` | theorems about `StageResume`, `EpisodeEngine` and `EpisodeReplay` |
| `FiniteSetLemmas` | lemmas on finite sets, sums, recursive functions, folds and closures, which the proofs share |

`FinalAdmission` extends `MainLease` and runs its loop as one of its parts, `EpisodeReplay`
drives `EpisodeEngine` by its actions, and `SourceRecovery` shares the destination
with `SourceIntake`: these are the compositions. `MCRecords` and `MCIntegration` put
components side by side that share no state; a variable `running`, chosen in Init,
says which of them moves, so that the states are the sum of theirs and not
the product.

History variables record named causes. Where the code loses or damages something
under a known circumstance, the property says that nothing else does: `contested`
and `unlucky` (two writers of one name, or a stopped creation), `torn` of `PhysicalCompletion` (a file whose
writer stopped), `causes`, `disturbed` (the operator changed a file under a command),
`halfDone`, `pinnedTwice`, `stuck`, `retouched`, `metPending`, `sharing`, `disproved`.
No action reads one of them in a guard.

### `DurableRun`

A member of `Procs` is a slot for an invocation. `StartChecks`/`StartConsumes` are
the two halves of `RunAuthorityStore.consume`, `ResumeLoads` is `load`; `LoadLatest`
is `latest(allow_missing=True)` with the verification of every receipt; `Compute`
is the worker (the science is a choice from `Results[unit]`); `AccountReads` and
`AccountWrites` are `account_unit`; `CommitOutputChecks`/`CommitOutputWrites` are
`commit_output`; `CommitChecks`/`CommitWrites` are `RunCheckpointStore.commit`, with
`Cached` choosing `CachedRunCheckpointStoreV11`. `Crash` kills an invocation between
any two of these, `Damage` corrupts a file, `StopEarly` is `stop_after_new_units`.
A write (temporary file, fsync, `os.replace`) is one step because readers ignore the
temporary file. `RunLedger` is implemented under `log <- Latest`. `CheckpointInv`
joins `CheckpointsBacked` and `CommittedUnitsAccounted`.

### `ArtifactStore`

One store object works on a namespace. `Open` is the call; `ScanBytes` and
`StageChunk`/`StagedAll` find the chunks that are missing; `Decide` compares an
existing manifest or reserves capacity; `WriteChunkTmp`/`SwapChunk` (bytes) and
`MoveChunk` (file) put a chunk in place; `WriteManifestTmp`/`PublishManifest` write
the manifest; `Verify` reads everything back and returns the receipt. Here temporary
files *are* state, since `total_bytes` counts them. `PublishedOutputs` is implemented
under `published <- ` the units whose manifest and chunks are on disk. `CapacityInv`
relates the limit, the size cache and the disk.

### `ReleaseFreeze`

One step per file hashed (`VerifyFile`) or copied (`CopyInventory`), the two exists-checks
(`CheckRelease`, `CheckReceipt`), the verification of the copy, the rename (`Replace`),
the receipt (`WriteReceipt`), and the exception handler (`Undo`, `RemoveFile`,
`RemoveDirectory`, `RemoveFails`). The operator edits the workspace at any time.
`RenamesOverEmpty` says whether the platform renames over an empty directory (POSIX).

### `PersistentSupervisor`

The variables are the fields of `DurableSupervisorState`; `lease` is what each
process holds in memory, so fenced-off processes keep calling. A dispatch is the pair
of a request and a generation, because `dispatch_id` hashes both. Each method is an
action (`reconcile_unknown` is three, by what was observed); a call that raises or
returns early stutters. Executors' reports are arbitrary. `Restart` is
`zero_chat_restart` from the payload that was saved.

### `EventJournal`

`LoadLedger` and `ReadSeal` are the two reads of `load_ledger`; `AppendEvent` is the
caller's build of an event on the ledger it has, `WriteLine` the appended line,
`WriteSeal` the replaced seal; `AlreadyAppended` and `Quarantine` are what the ledger
answers to a known or a conflicting event; `Stop` kills an appender anywhere, also in
a line. An event is its stream and the types up to it, because it names its
predecessor by hash. `JournalInv`: what loads is exactly what was acknowledged
(`LoadedIsAcknowledged`), seal, checkpoint and ledgers in memory hold nothing else
(`NothingAheadOfJournal`), every acknowledged stream projects
(`AcknowledgedProjects`), and a journal that does not load while nobody is appending
never loads again (`SealedForEver`): a stop between line and seal needs an operator.

### `EpisodeEngine` and `EpisodeReplay`

The engine's variables are the stream (`semantic`) and the maps beside it
(`statusOf`, `ownerOf`, `edges`); each method is an action, and the calls that raise
after a first change keep that change: `phase_mutation` with an interval that its
segment refuses has appended its event, `link` has added its edge. `EngineInv`: no
record twice, the projection of the stream is what the maps say, a frame has one
owner, an ended episode stays ended, the topology has no cycle and its edges are the
stream's, and an event without its record has one of those calls as its cause.

The replay takes the frames of the ASK side and then of the BID side, turns each into
candidates by the boundary rules of the June pack (`TakeFrame`), applies them one by
one (`Apply`), censors the last episode (`EndSide`), and takes the snapshots
(`Conclude`). `Restart` is the harness that drops the engine between the sides and
restores it from its records. `ReplayInv`: episodes are the runs of frames between
two gaps, only the run in progress is open, phases tile the episode, the parent
context recorded last is the frame's unless it is unavailable, parent changes are
re-parentings or blocked candidates, and the snapshots partition the frames. A frame
is what the rules compare (segment, structure, parent, available) and its time is its
position. `ReplayInv` speaks of an engine nobody else has called.

### `GenesisLedger`, `ResearchRecords`, `CheckpointLineage`

`GenesisLedger`: `CheckDuplicate` reads the file, `AppendProgrammeEvent` writes the
line, `StopMidLine` cuts it; `CountEvents` and `HashBytes` are the two reads of
`inventory`. `GenesisInv`: a ledger that reads has every event whose append returned
(`ReadableIsComplete`); one that does not has a cut line or a rival append behind it
(`UnreadableHasCause`); an inventory counts a prefix of what it hashes.

`ResearchRecords`: a mutation is a write (exclusive creation, or for an update a
temporary file whose name the draft determines) and an audit record after it, each
opened and filled apart, and `Halt` between any two. `RecordsInv`: an audit has its
object, an object without audit has a writer under way or a stopped one, and the
latter never gets its audit; drafts are readable but for two named causes;
`FrozenImmutable` is about steps.

`CheckpointLineage`: `BuildRecord` reads the newest checkpoint, `TestExists` tests the
next number, `OpenTemporary`/`FillTemporary`/`Rename` write through a temporary name
which two commits of one number share, `Verify` returns the receipt. `LineageInv`:
receipts stay good and parents match unless the number was contested, and there is
never a gap.

### `RemotePublication`

`upload` reads the manifest (`BeginUpload`), the approval, the local files one by one
(`VerifyLocal`), copies each (`CopyFile`) and, last, the manifest file *from its path*
(`CopyManifest`); `verify-remote` reads the manifest twice and then every object.
`BreakOff` ends a command anywhere. Objects are immutable (`Writable`: the remote
accepts the same bytes again). `RemoteInv`: a manifest object means an approved,
complete release (`ReleaseExact`) unless the operator changed a file under a command;
what was verified stays (`VerifiedExact`), and even then only manifest and document
can differ.

### `SourceIntake` and `SourceRecovery`

`execute_intake` looks at the destination (`CheckDestination`, `ClearDestination`),
fetches (`FetchObjects`: a mirror may deny an object it has), audits (`AuditRows`,
with the rules of the profile), renames its staging directory to the destination or
to the quarantine. The recovery pins a quarantine directory by an inventory
(`BeginInventory` ... `WriteInventory`), and later compares it, copies it and looks again
before it renames (`BeginFreeze` ... `RenameRecovered`); every pass takes the files one
by one and the directory may change under it. `SourceInv`: a destination is frozen
once, by intake or recovery (`OneSlicePerId`); one denial is caught by the other side
(`OneDenialIsCaught`); sessions of RPS and A1 have no hole (`SessionsWhole`); native or
derived hours follow the minutes (`HoursFollowMinutes`); a recovered slice is what
was pinned (`RecoveredAsPinned`).

### `EvidenceExport`, `AtlasGeneration`, `StageResume`

`EvidenceExport`: staging and bundle directory have names that depend on the bundle
only, so a call moves a staging directory it finds into quarantine, also one in use.
Directories are numbered, because a file stays open when its directory is renamed.
`ExportInv`: calls one after the other only ever put a whole bundle in place
(`InPlaceIsWhole`); a returned one stays whole unless exports shared the name and a
source was edited under an open copy (`ReturnedStaysWhole`).

`AtlasGeneration`: two looks at main, the files of the generation one by one or, if
its directory exists, their verification; the receipt; the pointer through a shared
temporary file. `AtlasInv`: what `CURRENT.json` names is whole and has the receipt of a
call that saw main at its commit twice (`CurrentIsPublished`), and the pointer is
readable unless two calls were in its temporary file (`PointerReadable`).

`StageResume` holds the records handed to `build_resume_plan` as state and the plan as
operators on them. `Admissible` and `InputsSatisfied` are the refusals of
`build_canonical_dag` and `build_plan`: a required dependency left out, a forbidden one
present, a parent without the output types expected of it, an input that neither a parent
nor the world hands over; the cycle shows in `StageOrder`. `RegisterOpaque` refuses a
checkpoint of another run, which `OpaqueFailures` still looks up by its identity.
`ResumeInv`: every planned stage comes after all that hands it its inputs; a stage is reused exactly if
nothing in its lineage is unproved or fails a checkpoint, told without the order of
registration, and a checkpoint that passes is the last this run recorded
(`ReusedExactly`); every profile without a cycle that is not refused for its
dependencies or types is planned (`AcyclicIsPlanned`); a cache hit agrees with every registration of its key and was never disproved (`HitsAgree`).

### `IntegrationQueue`, `MainLease`, `FinalAdmission`, `PhysicalCompletion`

`IntegrationQueue` has an action for every function of `siq_core` that returns a new
`QueueState`, with admission abstracted to its verdict; `Offered` is what callers enqueue,
with any state and reason codes. `QueueInv` has `HolderReady`;
`QueueSteps` says that a lease is never taken from its holder by another's acquire
and that a packet which is not READY never becomes so, not even when the queue is
rebuilt from its rows.

`MainLease` is the polling loop of `run_with_lease`: the child's end, the observation
of the branch, three failed observations in a row, the exit codes. `FinalAdmission`
adds the workflow: a run qualifies a payload, waits for the lane, binds the base, has
it assured and looks once more at head, main and qualification before the receipt;
heads, qualifications and main move between any two looks. `AdmissionInv`: code 0 was
on the base (`PassedOnBase`), a receipt is for what was qualified
(`ReceiptIsQualified`), a proven merge was assured (`ProvenIsAssured`).

`PhysicalCompletion` writes the receipts of a transaction, rebuilds the index and writes
the proof, each file tested, created and filled apart. `CompletionInv`: a proof has its bundle
(`ProofHasBundle`), the index can be rebuilt (`IndexHolds`), but for a stopped writer
or attempts with different observations.

## 3. The runs

| run | instance | shows |
|---|---|---|
| `durable_crash` | 1 invocation at a time, 3 units, 3 crashes, 1 damaged file, drifting worker, tight limits | checkpoints are backed by artifacts and accounted (`CheckpointInv`), artifacts never change, an overrun is final; implements `RunLedger` |
| `durable_cached` | 2 racing invocations, cached store, reproducible worker, 1 crash, 1 damage, fairness | `GoldenLog` (the invariant of the proofs), append-only history, equal results; the run completes unless a file is damaged, and after damage no resume commits or returns anything |
| `durable_race` (violation) | 2 racing invocations, plain store | a committed checkpoint is overwritten |
| `store_crash` | 2 units sharing chunks, one chunk twice in an output, one unit recomputed differently, both routes, 3 crashes, 1 damage, limit 7 | complete manifests, good receipts, limits, cache; implements `PublishedOutputs` |
| `store_file` (violation) | the file route, no crash | an output that fits is refused |
| `store_live` | both routes, 2 crashes, fairness | every unit is stored |
| `freeze_local` | 1 freezer, 2 files, 3 edits, 2 faults, 1 crash, fairness | receipts are exact and final, failures clean up, a retry succeeds |
| `freeze_race` (violation) | 2 freezers | the winner's release is removed |
| `supervisor` | 2 processes with one identity, 2 generations, 1 request, 2 workers, 2 sources, 2 events, sweeps and backoff | fencing, ownership and hand-over; the event log is append-only |
| `supervisor_reclaim` (violation) | as `supervisor`, no events | one request gets two active workers |
| `records` | each of the record, publication, intake, episode and resume components with 2 processes | their invariants (section 2), and that frozen records are immutable |
| `integration` | queue of 3 packets; 2 pull requests, 2 runs; 2 completers; fairness | one lease holder, admission and completion (section 2); a moved base ends the assurance, every run ends |

### Bounds

- Three planned units give a first, a middle and a last one, and a unit that needs an
  earlier artifact. `MaxSequence` equals the plan's length
  where the chain cannot be longer, and is larger in `durable_race`.
- Three crashes reach "crash, resume, crash again in the same place, resume";
  one damaged file reaches every branch of verification.
- Wall time and counts saturate just above their limit: no test in the code tells
  larger values apart.
- In the store, chunk sizes 1, 1 and 4, a manifest of 1 and the limit 7 make some combinations fit and
  others fail by exactly the manifest's byte.
- Two freezers, processes, workers, appenders, committers, publishers, intakers,
  exporters or completers are the fewest that can conflict, and two generations the
  fewest that make a lease stale. `WorkerSymmetry` is sound: no action or property
  names a worker, and the run states no liveness.
- `EventsOrDispatches` constrains `supervisor` to states with events or with dispatches:
  no action reads both, and the proofs cover them together.
- `records`: `MaxEvents` = 3 is a first event, one built on it and one by a rival;
  `MaxLines`, `MaxFiles` and `MaxCheckpoints` bound what a call begins with, and the calls
  under way go beyond them; 2 give a predecessor and a conflict. `MaxChanges` = 2 is a
  change and a change back. `MaxCalls` = 4 of the engine is two births, a link and a call
  that closes the cycle or repeats a record; `MaxFrames` = 3 puts two frames on one side and
  one on the other, in either way, with every combination of segment, structure, parent and
  availability. The intake's window has four days of one hour of two minutes: two trading days, a
  weekend, a day after the target; 2 denials are one more than the audits must catch.
  `MaxTouches` = 1 falls into any of the recovery's passes. `MaxPublications` = 3 over 2
  generations publishes one of them twice. Three stages form a chain, a fork, a join
  and a cycle, and chains that are refused for an output or an input type; `MaxResumeRecords` = 3 is a conflict and one more, `MaxCacheCalls` = 4 a
  registration after the quarantine that a conflict brings. `MaxExports` = 2 with
  3 directories has room for a staging directory made again under a copy.
- `integration`: `MCOffered` has all facts with ready sequences 0 to 2 in the first state,
  and complete candidates that claim to be ready, integrated or quarantined, with and without
  a reason code; `MaxRuns` = 2 runs for 2 pull requests, or twice for one;
  `MaxEdits` = 1 pushes a head or replaces a qualification; `MaxUnobserved` = 3 is
  the number of failures that ends a lease; `MaxStops` = 1 leaves a file half written
  beside an attempt that goes on.

### Fairness

`DurableRun!FairSpec` has weak fairness of `Step(p)`: a running process goes on and
the operator resumes a run that has not completed. `ArtifactStore!FairSpec` adds that
the caller asks for a unit without receipt again (the resumed run recomputes it).
`ReleaseFreeze!FairSpec` is weakly fair to a freezer's own steps and strongly fair to
the operator's request with an inventory that matches the workspace: who retries
a failed freeze first takes a new inventory. `FinalAdmission!FinalFairness` is weakly
fair to the steps of each workflow run and to the polling loop; nothing says that the
assurance ends, so `MovedEndsLease` holds of one that hangs, and `EveryRunEnds` states
in its premise that none hangs for ever (the job's time limit sees to that, which
fails the run). Crashes, faults, edits and damage are bounded and never fair.
Deadlock is checked except in `records` and `integration`, where callers whose bound is
used up have nothing left to do.

### What the model abstracts in these runs

- *Durable run.* `Damage` changes what a file holds and removes none. A committed artifact or
  an inner checkpoint that is gone fails the same verification; a *last* checkpoint that is gone
  does not, `latest` takes the one before it, and no property speaks of that. The packet's worker calls
  `checkpoints.latest` itself and puts the receipts into its output: the model has them in
  the unit's `Results`, and not the exception of that call. With the cached store they are the
  invocation's own receipts and the packet is reproducible; with the plain store an invocation behind
  another reads the other's, and `commit_output` refuses the packet that differs.
- *Research records.* Audit records are written by the mutations only; a direct call of
  the public `emit_audit` would write one for whatever it is told.
- *Episodes.* The calls of the engine's own caller carry one time, the case in which
  two records can be equal. The restart harness (`scripts/c2e_v2/`) fills the engine of an
  executor module it is handed, in the model the maps of `EpisodeEngine`; the comparison
  with the legacy rules and the writing of output files change no state of the engine.
- *Intake.* The provider's data do not change during an intake; the fetch loop is one
  step, since no other process sees its staging directory; limits, broken bodies and
  disk errors are exceptions for one handler. The incident report of a recovery is
  left out.
- *Queue.* The queue is the value its caller goes on with; who writes it back is not
  in the repository.
- *Admission.* GitHub (lane, pull requests, merges) is environment. A merge is proven
  from the receipt of the newest run for it, whichever run that is. The last looks at head and
  qualification are one step, and of the legacy fallback only the outcome is modelled. The check of
  the checkout's head before the child starts is one of the failures of `StartFails`. An
  exception in the polling loop that is not a `LeaseError` leaves `run_with_lease` with its child
  alive; in the model only `CancelRun`, the end of the job, does.
- *Completion.* The files are the receipts, the attachments, the index and the proof. The objects
  of the trace (its summary, and its events in the late binding) are put before them by the same
  `put` and are left out: one of them cut short breaks the index as a receipt does. Of the conflicts of
  `rebuild_index`, `Indexable` has that of attachments; the other keys conflict when one
  transaction is observed with two commits or two transactions complete one generation of a packet,
  which are not inputs of the model.
- *Export.* One bundle: plans with other hashes have other names. `ExportRaises` is a file system
  error anywhere inside the `try`; one outside ends the call like `StopExport`.

## 4. The proofs

All theorems hold for every value of the constants under the ASSUMEs of the modules.

Every safety invariant and every safety action property of the runs that pass is proved;
the last part of this section says what stays with TLC.
Each proof has the same shape: an inductive invariant, checked by TLC on the instance of
the run before it was proved, one lemma per action or group of actions that leaves the
same variables alone, and a theorem that joins them.

The ASSUMEs say what the code's data types give: numbers are natural, `NoCall`, `Absent`,
`Vacant` and their like are none of the values they stand beside, files and packets have
an order (they are integers), and the sets that are summed up or searched for a least
element are finite. `IntakeAssumption` says that a market has rows of the window's
minutes and days only, and that the profiles are the three the code has; `EngineAssumption`
and `ReplayAssumption` that a release has finitely many frames, which the engine knows, and
that no frame is `None`; `ResumeAssumption` that the stages are finite in number and that
their ids, integers in the model, have an order.

Induction over data is out of the prover's reach; where a proof needs one, it takes a
least counterexample (`MinimalFiniteSet`, `LeastNatural` in `FiniteSetLemmas`) or the largest
element below a hole. This is how the lifecycle function of `EventJournal`, `Min`, `Max` and
the byte sums of `ArtifactStore` are reasoned about: `SumsExist` constructs the sum of a
function over a finite set as the choice the library's fold makes, and `SumRemove`, `SumAdd`
and `SumExtensional` are what the byte budget needs of it. `InductionOnNat` is induction over
a *set* of numbers, for which no operator has to be instantiated; from it follow what a
recursive function computes (`IterationExists`), that a left fold over a sequence is the
last of its partial results (`FoldExists`), and that the nodes reached in as many steps as
there are nodes are closed under the edges (`SpreadCloses`). The proofs about the canonical
order, the ledgers and the lineage graph rest on these three.

### `DurableRun_proofs`

`TypeCorrect` holds with no further assumption, and so does `DamageAlwaysFailsClosed`: an
invocation leaves `load` only through the verification of every receipt, so if a committed
file is damaged while nobody is past it, nobody ever gets past it.

With `Cached` and `Reproducible` (each unit has one output) the inductive invariant is
`GoldenLog`: every artifact on disk is its unit's output, the checkpoint files are a prefix
of the golden log (checkpoint *s* holds the first *s* planned units with their outputs),
and each invocation's `committed` is a prefix whose length is tied to its cached
sequence. `ChainFollowsPlan` alone is not inductive: one must know that an invocation
about to write sequence *s* has exactly *s* receipts, although another process may have
gone further. From it follow `CachedChainFollowsPlan`, `CachedCheckpointsBacked`,
`CachedResultsAgree`, `CachedHistoryAppendOnly` (a second write of a sequence writes the
same content) and `CachedRefinesLedger`.

With one invocation at a time (`SoleProcess`), over either store and with a worker that
need not be reproducible, the inductive invariant is `SoleInv`: the checkpoints are
numbered without a gap, checkpoint *s* is backed by artifacts of the first *s* planned
units, the invocation works on the unit after the latest checkpoint, the artifact it is
about to write does not exist, and past `account_unit` its telemetry is within the
envelope. It gives `SoleCheckpointsHold`, `SoleArtifactsImmutable`,
`SoleCapacityExceededIsFinal`, `SoleHistoryAppendOnly`, `SoleResultsAgree` and
`SoleRefinesLedger`. `SoleCheckpointsHold` assumes `Len(Plan) <= MaxAccounts`, because the
counter of the model saturates there and the one of the code does not. What the two
assumptions leave out, racing invocations over the plain store, is where `durable_race`
finds the history overwritten.

### `ArtifactStore_proofs`

`StoreInv` strengthens `ManifestComplete` and `ReceiptsHonoured` by what a running call
knows: every chunk it has looked at is stored or pending, and it writes only a unit
without manifest. From it follow `ManifestsComplete`, `ReceiptsStayGood` and the
refinement `RefinesPublishedOutputs`.

`TypeCorrect` goes through `WritingInv` (a call that writes has scanned the namespace, so
its cache is a number). `CapacityKept` needs `BudgetInv`: what is committed is within the
limit, the cache counts everything on disk except what the running call has only staged
or written to a temporary name, and what the call still has to write was reserved. It
is not enough to know this between calls, since a crash turns the call's own files
into leftovers that the next scan counts.

### `PersistentSupervisor_proofs`

`Inv` joins `TypeOK`, `LeaseInv` (no generation was given to two processes, none is ahead
of the durable one), `ActiveHasOwner` and `WatermarkInv` (no accepted event is above its
source's watermark). `OneSupervisor` needs `LeaseInv`, which speaks of fenced-off leases
too. The transitions are handled by one lemma, `OneDispatch`: a step that changes a single
dispatch properly keeps `Inv` and satisfies the step formulas of the action properties.

### `Integration_proofs`

- `QueueCorrect`, `QueueStepsCorrect`: `QueueIInv` adds to `QueueInv` that every row which is
  not READY has the blocker that `build_queue_state` would find again (`RowsExplained`).
- `AdmissionCorrect`: `FinalIInv` adds that while the child of a lease runs the last look
  at the branch that succeeded saw the base (`LeaseWatched`), that one run is in the lane, that each run has the records its
  place implies, down to the assurance of the base it was bound to (`RunsBacked`), and that
  merges follow each other on main (`MergesInOrder`).
- `CompletionCorrect`: `CompletionIInv` adds that the files of an attempt appear in the
  order of its plan (`FilesInOrder`) and that every file belongs to a plan some attempt made.

### `Histories_proofs`

- `GenesisCorrect`: while nothing was cut and no rival appended, the event an append
  is about to write is still new to the file it read (`StillNew`).
- `LineageCorrect`: a commit holds a record built on the checkpoint before its number
  (`CommitsFollow`), and alone on its number it finds only itself in the temporary file
  (`CommitsAlone`).
- `JournalCorrect`: ledgers in memory, seal and checkpoint are prefixes that hold the
  predecessors of their events (`LedgersClosed`), an event in hand extends the ledger it was
  built on (`EventsInHand`), and nobody gets past the seal of a journal that did not load
  while all was quiet (`StuckFrozen`).
- `RecordsCorrect`: an object that is unaudited or unreadable is still in the hands of the
  one operator that created it, or is in `unlucky`, and at most one update is in a draft's temporary file unless
  the draft is `unlucky`. `FrozenStaysImmutable` is the step formula under that invariant.

### `Publication_proofs`

- `RemoteCorrect`: as long as no file was changed under a command, each command's
  manifest is the one on disk and what it has verified, copied or read back is there
  (`Undisturbed`); what `verify-remote` has compared holds in any case (`ReadBack`).
- `AtlasCorrect`: the files a call has written or verified are still whole, unless a call
  opened one of them again (`retouched`), once it is past the receipt that is there too, and the pointer's temporary file
  belongs to the call that opened it unless it was shared (`PendingIsOwn`).
- `ExportCorrect`: the staging and the bundle name belong to two directories
  (`DirectoriesApart`), and while no two calls were under way at once (`sharing`) the call
  finds in the staging directory what it put there and nobody takes its name (`Alone`).
- `SourceCorrect`: an intake about to rename has rows the audits passed, a recovery past
  the comparison has copies of what was pinned, and each returned slice has one of the two
  origins. The other half of the proof is about the audits themselves: `SessionHasNoHole` takes
  the last row before and the first after a hole, which `_gap_audit` would have compared.
- `FreezeTypeCorrect` for any number of freezers; the other theorems about `ReleaseFreeze`
  assume `SoleFreezer` (there is one), since `freeze_race` shows they fail with two.
  `FreezeInv` says that a freezer past its checks finds no receipt, and past its rename finds
  its own verified copy. `SoleFailureLeavesNothing` adds `OneErrorInv`: with one error and no
  crash, what stands in the release's place was put there by the call itself, and is removed
  only after the error.

### `Research_proofs`

- `ResumeCorrect` joins three arguments. *Order*: what `_topological_order` returns is
  well ordered and cannot be continued (`OrderIsMaximal`); a stage left over by it would
  have a parent left over, whose lineage is strictly smaller, so in an acyclic profile
  nothing is left over (`PlannedIfAcyclic`, whose premise also has the checks of dependencies and types). *Plan*: the ledger, a fold in the order of
  registration, holds exactly the stages whose completions all agree
  (`LedgerIsUnanimous`), a checkpoint is held with the content this run recorded last or not at all (`HeldIsLast`), and
  `blocked_descendants` stops only when it has all descendants
  (`BlockedAreDescendants`); so the stages reused are the ones with a proved lineage
  (`ReuseIsExact`). *Cache*: a key out of quarantine holds what all its registrations say
  and was never disproved (`CacheAgrees`).
- `EngineCorrect`, for any caller. `EngineIInv` adds to `EngineInv` that every record in the
  stream is one a constructor makes and refers to what the maps hold (`RecordSound`), that
  everything in the maps was recorded (`MapsRecorded`), that an ended episode has exactly
  one ending event and an open one none (`StatusRecorded`), and that an event of two
  episodes has its edge in one direction or the other (`EventHasEdge`): without the last
  two a repeated `link` and a second ending could not be told from a first. That no cycle
  arises is `AcycLink`: an edge whose parent is not reached from its child adds no path
  back, and with a bounded number of steps the search reaches whatever is reachable.
- `ReplayCorrect`, for the replay. `ReplayIInv` says where the loop over the candidates is
  (`Position`: which of the six lists of candidates is in hand, and whose episode they
  continue), that the owner of an applied frame is the start of its run (`Owned`), that
  no event of a candidate still in hand is in the stream (`EventsApplied`, hence no call
  is refused), that the intervals form a chain whose free end is `phase_state` (`PhasesSound`),
  and which frames have a re-parenting event or a blocked candidate (`ParentsTold`,
  `ParentsBlocked`). None of the parts of `ReplayInv` is inductive without `Position`,
  because they speak of frames whose candidates have been applied, and three candidates
  may be in hand. `RestartStep` shows that what the harness restores is what it dropped.
  `ParentIsCurrent` goes from a frame back to the last recorded one, step by step.

### Only model-checked

- Liveness (`Completes`, `EveryUnitStored`, `EventuallyFrozen`, `MovedEndsLease`,
  `EveryRunEnds`) needs fairness and ENABLED, which the prover does not handle.
- What no assumption of the theorems covers: invocations of `DurableRun` that race over
  the plain store or with a worker that is not reproducible, and two freezers; the runs
  `durable_race` and `freeze_race` show what goes wrong there.

## 5. Findings

1. `RunCheckpointStore.commit` (`srfd/wp10_execution_resilience.py:250`): two
   invocations of one run can replace each other's committed checkpoint, although the
   packet promises an append-only history. `CachedRunCheckpointStoreV11` does not have
   the problem when the worker is reproducible: that is proved.
2. `commit_file` (`store/streaming.py:111`) counts its own staged chunks twice on a
   fresh store object and refuses an output that `commit_bytes` would accept.
3. `freeze_release` (`store/lifecycle.py:248`): with two calls for one release id the
   loser's handler removes the winner's release; the receipt remains.
4. `persist_dispatch_intent` (`skills/cers/persistent_service.py:216`): the dispatch id
   contains the fencing generation, so after a reclaim the same request gets a second
   authoritative worker while the first is active.

What the other invariants show by their named causes, though nothing in the
repository says otherwise:

- A C2P journal whose appender stopped between line and seal, and a genesis ledger
  whose writer stopped in a line, need an operator before anything can be appended.
- A research record whose writer stopped before its audit record never gets one.
- Two commits of one checkpoint number, two updates of one draft, and two publications
  of the atlas share a temporary file; the loser's bytes can end under the final name.
- A half-written generation directory of the atlas can never be published again,
  because its existence selects verification. A torn recovery inventory has to be
  removed by hand, because it is never overwritten.
- Two exports of one bundle can put a broken bundle in place, which nothing removes.
- The profile A1 accepts a missing trading stretch that touches a weekend, A2 any
  absence that both sides share.
- `register_opaque` takes a third record of a checkpoint after a conflict, where stages
  and cache keys stay in conflict; `register` stores artifacts under a quarantined key,
  which `lookup` never returns; `build_resume_plan` goes through `opaque_checkpoints`
  twice, so a one-shot iterator would skip the verification.

## 6. Not modelled

Of modelled components: the science inside a worker, record formats and reports; the
preflight record of a durable run and its predecessor `execute_resumable_units`;
directory fsync and power loss below the file system; two store objects on one
namespace of `ArtifactStore` (each run owns its namespace); the saving of the
supervisor's payload, which no code of the repository does; updates, genealogy and
retrieval of C2P objects, which leave the journal alone; the requeue plan of SIQ; the
completion of a lineage without late binding; the extraction and partition of the atlas graph;
the stateless checks of manifests, identifiers, supersession and admission.

Whole components: the CERS authority view and reconciler, and its in-memory
predecessors; the DIAS transaction; the virtual integration ledger; the tile cache of
the SRFD runners (all in the plan below); and, without state of their own, skills
governance, topology and read models, catalogues, consoles, CLI and CI scripts, and the
numerical layers (SRFD science, C1, C2, ESL, market grammar, Option A): deterministic
functions of documents and prices, for which a model would repeat the code. They are
by far most of the repository's lines, so the share of lines that the map covers stays
small. `PROJECT.json` names every component with its reason.

## 7. Plan

In order of importance:

1. `Dispatch`: the reconciler composed with `PersistentSupervisor`, with a stale
   authority view and a caller that saves payloads and restarts from an old one; an
   abstract dispatch specification both this and the in-memory runtime implement.
2. The DIAS transaction (its terminal states are not final: a stale event quarantines
   a completed one), the scheduling of the virtual integration ledger, the
   quarantine rules of `TileCompletionLedger`.
3. An abstract append-only history that `CheckpointLineage`, `GenesisLedger` and
   `EventJournal` implement while nobody contests a number and nobody stops.

Small runs of one module are merged as modules are added, so that the list of
runs stays one of questions.
