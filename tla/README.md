# SceneAPI: a TLA+ model of the server

SceneAPI is a web service that runs structure-from-motion and radiance-field
pipelines as jobs. A job is a DAG of tasks; tasks are rows of a database, run by
worker processes that share nothing but that database, a Redis queue and a file
system. Backends are plugins, installed, enabled and routed at run time. The server
has no lock manager and no long transactions: its correctness rests on leases, on
conditional updates, on renames of files, on cache keys, on a periodic janitor and
on the assumption that what a process read before an `await` still matters when it
writes. That is what the modules here model, check and prove.

Paths are relative to `sceneapi/server/` of the repository, or to its root where
they start with `sfm_hub/`.

## Inventory

| Component | State | Operations | Interacts with |
|---|---|---|---|
| Dispatcher, `workers/dispatcher.py` | `Task` rows (status, worker, lease), `Job.status`, the reconstruction's status through hooks; per attempt, what it has read | `execute_task`: delivery, dependency gate, lease gate, cancellation check, handler, ownership check, terminal commit, roll-up, advance of the DAG | queue, lease, roll-up, janitor through the rows |
| Lease, `orchestrator/lease.py` | `worker_id`, `lease_expires_at` | `try_acquire_lease`, `refresh_lease` | dispatcher, janitor |
| Janitor, `orchestrator/janitor.py` | the sweep in progress | reclaim, propagate, re-enqueue, collect uploads, collect old jobs | every table, the queue |
| Scheduler and roll-up, `orchestrator/scheduler.py`, `services/job_service.py`, `orchestrator/readiness.py` | `Job`, `Task` | submit with cache look-ups, roll up, cancel | queue, dispatcher |
| Resume, `orchestrator/resume.py` | `Job`, `Task` | reset the failed and cancelled tasks of a job | all of the above |
| Queue, `orchestrator/queue.py` | messages in Redis | enqueue (ARQ, raw Redis), run in place (inline) | dispatcher |
| Progress, `workers/progress.py`, `workers/events.py`, `services/job_progress_service.py` | `JobEvent` rows, `events.jsonl` | append, mirror, report | tails, retention |
| Tails, `api/v1/jobs.py`, `api/v1/ws_jobs.py` | a cursor per connection | poll events, poll the job, end | progress, roll-up, retention |
| Uploads, `services/upload_service.py`, `storage/blobs.py`, `api/v1/uploads.py` | `Upload` and `Blob` rows, working files, blobs, the bucket | init, patch, finalize, collect | janitor |
| Catalog, `services/{project,dataset,image,similarity}_service.py` and their routes | `Project`, `Dataset`, `Image`, `Blob.refcount`, index files | create, rename, delete, add and remove images, derive, build an index | uploads (blobs), stages (manifest hash) |
| Stages and recipes, `services/_sfm_stage_*.py`, `api/v1/pipelines.py`, `api/v1/*_stages.py`, `workers/tasks/`, `workers/_io_*.py` | keys of `Task` rows, `Reconstruction` rows, the correspondence store, `sparse/` | every stage endpoint, recipes, handlers | catalog, cache, snapshots, routing |
| Snapshots, `storage/snapshots.py`, `storage/snapshot_emit.py`, `storage/tiles.py` | `sparse/`, `snapshots/`, `latest`, tiles, submodel rows | emit, seal, list, tile | stages, reading routes |
| Artifacts, `services/artifact_service.py`, `services/artifact_conversion_service.py`, `workers/tasks/convert_artifact.py` | `StageArtifact` rows | record, import, select as input, plan and run a conversion, validate, purge | dispatcher, routing, cache |
| Radiance, `services/radiance_service.py`, `workers/tasks/radiance_*.py` | `RadianceField`, `RadianceEvaluation`, `RadianceSnapshot` rows, managed directories | submit, train (stub or service), seal, evaluate, serve files | dispatcher, plugins |
| Plugin hub, `sfm_hub/`, `services/plugin_service.py` | `plugins.json`, the packages of the environment, a registry per process | install (four methods), replay, enable, disable, route, diagnose | routing, processes that start |
| Routing, `sfm_hub/routing.py`, `services/provider_routing_service.py`, `workers/backend_resolver.py` | none | resolve at submission, resolve again at execution | hub, stages, actions |
| Descriptors, `adapters/backend_*.py` | none | rows, contract violations, validation of options | hub, stages |
| Typed dataflow, `core/pipelines.py`, `core/processors.py`, `services/dataflow_registry_service.py`, `sfm_hub/models/dataflow.py` | none | merge the registry, check a pipeline, infer its dependencies | hub |
| S3 cache and sources, tenancy and quotas, pagination, container runtime, plugin server, schemas, MCP, CLI | see `PROJECT.json` | not modelled | |

What is hard here:

- any number of attempts at one task, because delivery is at least once, a slow
  worker is reclaimed while it is still running, and the janitor enqueues every
  ready task at every sweep;
- read, `await`, blind write: the terminal commit, the roll-up, both cascades, the
  resume, every upload and every catalog request write rows by primary key that
  they read earlier, on two databases with different locks;
- sessions that keep what they loaded (`expire_on_commit=False`);
- crashes between two commits that belong together, between a file and a row, and
  between two renames;
- answers from a cache whose key does not name everything that was read;
- choices made at submission (backend, options, conversion plan) and acted on later
  in another process, after the plugins have changed;
- external services that may answer anything;
- the same rule implemented twice: two pipeline checkers, two dependency views.

What makes the parts correct: one owner per task; nothing runs before its
dependencies; outcomes are final; a verdict is the one its tasks add up to;
cancellation sticks; everything that is submitted ends; no event is skipped by a
tail; a finalized upload names all of its bytes; derived facts (hashes, counts,
stamps, artifact rows, statuses of fields) agree with what they are derived from;
published files never change; what runs is what was routed; an accepted pipeline
composes whatever plugins are active. `PROJECT.json` lists the hazards, each at its
line, with the properties aimed at it.

## Modules

| Module | What it is |
|---|---|
| `Readiness` | the dependency vocabulary of `orchestrator/readiness.py`, shared by the others |
| `Orchestrator` | dispatcher, leases, janitor, scheduler, cancellation, resume, queue |
| `Lifecycle` | the abstract specification: how the statuses of tasks and jobs may change |
| `EventStream` | events, their mirror and report, the SSE and WebSocket tails |
| `Uploads` | chunked uploads over rows, files and either blob store |
| `Catalog` | projects, datasets, images, derived datasets, similarity indexes on two databases |
| `CorrespondenceStore` | what extraction, matching and verification leave in the shared store, as operators |
| `Stages` | every stage and recipe endpoint, the cache, what handlers read and write (extends `CorrespondenceStore`) |
| `Snapshots` | emission, sealing and tiling as system calls |
| `Conversion` | kinds, formats, data types, roles and the search for a conversion path, as operators |
| `Artifacts` | artifact rows, conversion jobs and validation (extends `Conversion`) |
| `Radiance` | a radiance field with its jobs, rows and directories |
| `Routing` | candidates, preferences and resolution of a provider, as operators |
| `Descriptors` | what a backend publishes, its contract and the validation of options, as operators |
| `Doctor` | the probes and the report of the plugin doctor, as operators |
| `Hub` | operators, `plugins.json`, registries and routed stages (extends the three above) |
| `Dataflow` | the typed registry, the three checkers, inferred dependencies and the two endpoints |
| `OrchestratorProofs`, `EventStreamProofs`, `RadianceProofs`, `HubProofs`, `CatalogProofs`, `ArtifactsProofs` | the theorems about the module each is named after |
| `FilesProofs` | the theorems about `Snapshots` and `Uploads` |
| `PipelinesProofs` | the theorems about `Stages` and `Dataflow` |
| `MC...` | instances for TLC (`Snapshots` and `Radiance` need none: `MCSnapshots.cfg` and `MCRadiance.cfg` instantiate them directly), with the repository's own test cases as `ASSUME`s where the module is an algorithm |

Each module keeps the control of the code and reduces its data: names, hashes and
payloads are model values or the thing they stand for (a hash is what was hashed).

### Orchestrator

A step is one read or one committed transaction of the code. `task`, `owner` and
`lease` are the columns of a `Task` row (a lease is *none*, *live* or *expired*
rather than a time), `job`, `requested` and `forced` those of a `Job`, `recon` the
status of its reconstruction, `queue` the tasks with a message. `att[a]` is one
execution of `execute_task`: where it is, its task, the status it is about to
write, the status of the job that its session holds, and the marks and ready
tasks of a cascade it has computed. `janitor` and `resuming` are the same for a
sweep and a resume.

| Actions | Code |
|---|---|
| `Submit`, `SubmitFinalize`, `SubmitCrash` | `submit_job_dag`, `materialize_dag` |
| `Cancel` | `cancel_job`, and the cancel frame of the WebSocket |
| `ResumeRead`, `ResumeCommit` | `resume_job` |
| `Pickup`, `Doom`, `Acquire` | `execute_task` up to the commit of "running" |
| `HandlerReturns`, `HandlerRaises`, `Settle` | the success and failure sessions, the terminal commit with its hook |
| `RollUp`, `RollUpJob`, `RollUpCommit` | `_maybe_finalize_job` |
| `AdvanceRead`, then `AdvanceFlush`, or `AdvanceRollUp`, `AdvanceJob`, `AdvanceCommit` | `_advance_job_after_terminal` |
| `Heartbeat`, `Expire` | `_heartbeat`, the clock |
| `Crash`, `Raise` | a worker dies; a statement raises |
| `Reclaim`, `PropagateRead`, `PropagateCommit`, `Requeue`, `GcRead`, `GcDelete`, `PhaseFails`, `JanitorCrash` | `run_janitor_once` |

Abstractions. The two roll-ups of an attempt, in the session of the terminal commit
and in that of the advance, read the tasks, read the job and write it in three steps,
each from what was read before. There is one exception: when the cascade has marks,
its session has flushed them by the time it reads, and on SQLite a session that has
written keeps every other from writing until it commits, so `AdvanceFlush` and
`PropagateCommit` read and write in one step. On PostgreSQL a flush locks the marked
rows only. A cascade that read before a resume and commits after it can there leave
the resumed job pending for ever, which the model does not have. The fixed-point
loops of the cascades are `Cascades`: every set of marks that some order of the
rows produces. `finished_at` and `pinned` are abstracted by letting retention take
any terminal job. A heartbeat matters only when it is late: one in time changes
nothing here, and one after the terminal commit only touches the lease of a row
that nobody looks at. Tasks without metadata, jobs without tasks and the inline
queue are left out. A job is submitted once.

### Lifecycle

What the rows show to a client: a task is admitted with its job, starts only when
its dependencies are satisfied, may be started again while it has no outcome, ends,
and is deleted with its job; without running, it is cancelled or falls with a
dependency; a job is decided once, when all its tasks have ended, and succeeds
exactly when they all did. Nothing but that its rows come and go together is promised
of a job once it is *overtaken*. `Orchestrator!ImplementsLifecycle` instantiates it
with the identity mapping of `task`, `job` and `overtaken`.

`overtaken` is the one history variable of the two modules. A job joins it when a
resume of it commits, when the lease of one of its tasks lapses between the ownership
check and the terminal commit of an attempt, and when a process that is still at a
task starts it a second time (the attempts of a process share `WORKER_ID`, and the
ARQ worker runs ten). The configurations below show what these take away; the
properties and the theorems speak of the other jobs of the same deployment.

### EventStream

`events` maps event ids to jobs, `writer` holds the emissions in flight, `stream`
the connections: the cursor, the job status that the request's session has loaded
(SSE keeps one session for the whole stream), and what the client has received.
`Emit`, `ReadMax`, `Insert`, `GiveUpWaiting` and `Mirror` are `_emit` and
`append_job_event`; `Open`, `Reconnect`, `PollEvents`, `PollJobSse` and `PollJobWs`
are the two tails; `Finish` and `Collect` stand for the roll-up and the retention
sweep; `get_job_progress` is the report over the stored events. Payloads are left
out. Retention is taken to outlast the emissions of the job itself.

### Uploads

`row` is the `Upload` row, `temp` the working file, `blobs` and `blobRows` the blob
store and its table, `req` the requests in flight. A request reads its row
(`InitRead`, `PatchRead`, `FinRead`), touches the file system (`PatchAppend`,
`FinMove`) and commits at the teardown of `get_db` (`InitCommit`, `PatchCommit`,
`FinCommit`), as a blind update of the columns it changed. With the S3 store a
content is cached, then pushed unless the bucket has it, and a push may fail
(`FinPushFails`). A content stands for its own hash. Left out: empty chunks, a crash
half way through the copy into the blob store, the quota check.

### Catalog

A request is a session: it reads (`Client`, `ReadItem`, `BuildSelect`), writes what
only it can see (`InsertItem`, `DropImage`, `RegisterDerived`, ...), recomputes the
manifest hash (`WriteHash`) and commits or aborts. `Writing` is what the database
lets it do: on SQLite the first write takes the only write lock until the commit and
foreign keys are not enforced; on PostgreSQL (read committed) writers of different
rows go on side by side, writers of one row wait, and foreign keys are enforced and
cascade. `raced` marks the blobs that two
sessions were counting at once or that a cascade took images from, and the datasets
whose images a commit changed under a session that had read their manifest hash; the
properties say that nothing else breaks a count or a stamp, and so they do not catch
the lost update and the late commit themselves, which the code does allow. The images of a derived
dataset get their ids in some fixed order (`Numbering`).

### Stages and CorrespondenceStore

A task row is its kind, its inputs, its resolved specification and a result that
names everything the handler read; `want` is the result a reader of the request
expects. `Submit` covers every endpoint: it finds or makes the reconstruction, builds
the nodes (`build_recipe_dag`, `_recon_stage_base`, ...) and answers from the cache
those whose `cache_key` a succeeded task has. `Start` checks what the handler needs
(`ModelLoads`, `MatchLoads`, ...), `Finish` writes the store, the live model or a
snapshot; `Edit` changes images and priors, `Switch` the route. A request may pass
artifacts of tasks that have succeeded as inputs, by role (`get_dataset` chooses them).
The uri of one leads a recipe's match, verify and map, or a stage, to another database
than its own (`database_path_from_input_artifacts`): to the very database of the task,
when the backend was of the first generation, or to a store nested in it (`Leads`). The
role `pairs`, which names no database, and imported artifacts, whose uri may be
anything, are left out, as are specifications that a stage's artifacts change, which
are another setting. The store maps the
images and pairs of a database path to what was extracted, matched and verified
there. Leases and retries are in `Orchestrator`.

### Snapshots

Every system call of `SnapshotStore.seal` and of the pointer is a step of a run of a
task (`CheckTarget`, `MakeTmp`, `CopyFile`, `EndCopy`, `WriteSummary`,
`WriteComplete`, `Publish`, `WritePointer`, `SwapPointer`), and a crash may happen
between any two. Map tasks emit into the shared `sparse/`, derived ones into a directory of
their own. A map whose backend returns no reconstruction emits nothing and seals all
the same, whatever earlier executions left in `sparse/`; what the backend writes into
the directory of a derived task is any set of files (`Emissions`). The directories of
several submodels under `sparse/` are left out. `overlap`, chosen at the start, says whether two workers may
seal at once.

### Conversion and Artifacts

`Conversion` has the vocabulary of `core/artifacts.py`, the breadth-first search of
`find_conversion_path`, and the planning of a request. In `Artifacts` a job has one
task; a worker holds the handler's local variables in `run[j]` and calls the backend
once per step of the plan (`ConvertStep`), whose answer is a list of the constant
`Answers`: empty, or of descriptors that name any format, kind, type and source or none,
malformed ones included. What a descriptor names is kept, what it leaves out is filled
in (`Filled`), the last answer is judged like any task's output. A format that is given
as null is in the model another format, an item that is no object is a malformed
descriptor, and answers carry no `artifact_id`. An output keeps the place it had in the handler's list when a
duplicate before it is dropped; job and place identify a row. `Commit` is the
dispatcher's terminal commit with `record_task_artifacts`; `Import`, `SubmitStage` and
`SubmitConvert` are the requests; `Purge` is retention.

### Radiance

`field`, `eval` and `snaps` are the rows, `disk` the managed directories, `exec` a
worker's execution. The provider is the stub or a service whose `Answers` are
enumerated and judged as `_run_container_service_provider` does. `StatusHook` and
`Commit` are the hooks of the two kinds, `SealEffect` the writes into the directory,
`Readable` what the file route would serve.

### Routing, Descriptors, Doctor and Hub

`file` is `plugins.json`, replaced under its lock, so every mutation is one step; an
install is several of them with commands between (`RunUv`, `RecordPackage`,
`Provisioned`, `InstallService`, `ProvisionService`, `InstallOther`), each of which
may fail (`InstallerFails`), die with its process (`Dies`) or, in the provisioner, raise
what `install_plugin` does not catch (`ProvisionerEscapes`: an `ImportError` that is no
`ModuleNotFoundError`, a module or a signature that raises). `env` is what is importable, `reg[p]`
what process p loaded when it last started (`Restart`). A plugin may register ids
that its manifest does not declare (`Serves` against `Declares`). Ids that contain
an "@", and are selectors themselves, are left out. `done` tells installs apart by
plugin and request id, as the replay does: a uv install repeats the answer of another
method's under the same id. `Submit` resolves a provider
and checks the options against the backend of the process that answers; `Execute`
and `ExecuteAction` resolve again where the task runs. `Doctor` is the health check
that a `container_service` install makes before and after its command, with the row
as it is at that moment. `MCHub` holds the repository's contract and doctor tests.

### Dataflow

A request is drafted step by step (`AddStep`) against any set of active plugins
(`Toggle`), and sent to `validate_pipeline` or `run_pipeline`. `HubAccepts` is the
hub's validation of a manifest, `_strict_validate_pipeline` and
`_legacy_validate_pipeline` the server's, `RegistryRaises` the merge of the active
manifests, `inferred_step_dependencies` the order of the steps; no native pipeline is
executed yet (the endpoint answers 501), so that this order is what the server
publishes and nothing more. Identifiers are sequences of segments; attribute values are
classes by who accepts them, except for values of type `datatype-ref`, which are names
of data types (`types`) that the hub looks up among the core's and the manifest's own
local ids and the server in the merged registry, after `_pipeline_from_manifest` has
made them canonical. To compare the two checkers, `Offered(m)` puts the draft into
plugin m's manifest: the hub checks it there, the server in a registry with any other
plugins (`ServerAccepts`). What the hub accepts the server must. The converse is stated
of drafts under local names (`LocallyNamed`): a manifest may as well hold canonical ids
of its own plugin or of another, or another plugin's bare type as a `datatype-ref` value;
the hub refuses each of these, and the server would resolve them (`CheckersAlwaysAgree`).

## Runs

Bounds are chosen so that every action and every disjunct fires in a passing run and
each hazard can happen.

| Run | Checks | Bounds and why |
|---|---|---|
| `orchestrator` | `TypeOK`, `SettleIsExclusive`, `VerdictMatches`, `InFlightIsCurrent`, `OutcomeIsFinal`, `CancelSticks`, `ImplementsLifecycle`, `TasksEnd` | a chain of two tasks is the least DAG with a gate, a cascade and a roll-up; two attempts let a reclaimed owner meet its successor; any two faults, a cancellation, retention |
| `jobs` | `NoEarlyVerdict`, `DoomIsJustified` | two jobs, the second with a chain of two tasks that begins with a dependency in the first, so that its sibling cascade runs with a view that is complete and with one that is not; retention may delete the first under the second (the only way to the dependency-failed branch of `execute_task`); one fault, a crash (between the two commits of a submission with cache hits only, too) or a commit slower than its lease |
| `resume` | `RunsAfterDeps`, `JobEnds` | a resume and a cancellation racing with attempts, roll-ups and sweeps; no fault |
| `event_stream` | `NoSkippedEvent`, `SseDrains`, `WsCloses` | two writers with two tries exhaust the retries; one tail of each kind, a reconnection, retention |
| `uploads` | `TempIsPrefix`, `SealedIsWhole`, `OneUploadPerKey` | three uploads, two under one key and of one content of two bytes (cut, torn, out of order), two requests in flight, one fault of four kinds, the S3 store |
| `catalog` | `ManifestCurrent`, `RefcountExact`, `NoOrphans`, `StampsHonest` | two sessions, five requests of nine kinds, two datasets, two blobs, both databases |
| `hub` | `RunsRouted`, `OptionsDeclared`, `AnswersHonest`, `RunningHasOwner` | two plugins that declare one provider id, one of which registers another that it does not declare, two operators, three admin requests, one stage or action, a service that is healthy or not configured; a task that has run is not followed further (`Undone`), nothing depends on it |
| `snapshots` | `SealedWhole`, `PointerLag`, `SealedImmutable` | three executions (two where they overlap), one mandatory and one optional file, with and without a reconstruction, tiles of one snapshot at one level |
| `radiance` | `RowsAgree`, `ServedImmutable`, `FieldSettles` | a training with an evaluation, a later evaluation, one crash, one resume, one change of plugin, answers with two snapshots |
| `artifacts` | `RowsMatchOutputs`, `ConversionDelivers` | three jobs, two backends and datasets, plans of two steps, answers of every kind the handler tells apart, one crash, re-route and purge |
| `stages` | `UniformSound`, `RerunHits` | two submissions of up to eight tasks over all endpoints, with and without input artifacts of either generation of backends, and one edit, failure or switch of provider; changes after the last submission are not followed (`MoreToCome`), only requests read them |
| `dataflow` | `CheckersAgree`, `DepsComplete`, `PluginsAreIsolated` | drafts of five flat or two native steps, with `datatype-ref` values, every set of the plugins of the instance |

`TypeOK` of the other modules is stated there and was checked while they were
written; the runs spend their time on the properties above.

What the runs show in short. On SQLite the derived facts of the catalog hold; on
PostgreSQL no row is orphaned, but the hash may go stale. However plugins are switched
between submission and execution, a selector to which one plugin answers and whose id
it declares never runs another plugin or a disabled one. A plugin's row stays
"running" only after its provisioner died or raised what nobody catches. A snapshot is
published with all that its execution wrote or not at all while one worker seals. A radiance field and its evaluations end with their job. Artifact
rows are exactly the outputs of succeeded tasks. A reconstruction whose requests kept
to one setting, and whose recipes no input artifact led elsewhere, has the result of
that setting, and repeating a recipe runs nothing. What the hub's pipeline checker
accepts never brings the server's registry down, whatever else is active, and of
pipelines under local names the two accept the same.

Fairness. In `LiveSpec` of `Orchestrator` every process that is up takes its next
step, a handler returns or raises, a message in the queue is delivered to some
worker, the janitor keeps sweeping, a lease that nobody renews ages out. This is what
the event loop, ARQ and `_janitor_loop` give; nothing is assumed of clients, and no
fault is ever obliged or repaired by fairness: after a crash only the lease's age and
the sweep bring a task back. In `EventStream` only coroutines and polls that are
scheduled are fair. In `Radiance` the steps of a worker and of the janitor on a job
(`Work`) are fair: the service answers or its request times out. The other modules
state safety only. Deadlock is checked in the runs of `Orchestrator` (the janitor
always has a next step) and of `Dataflow`; clients of the others may simply stop.

### Where the code and its documentation disagree

The statements below are the repository's own, or what its code plainly intends, and
TLC refutes them. They are kept as definitions, with the configurations that refute
them where those need an instance of their own; they are not among the runs.

| Configuration (module) | Property | Counterexample |
|---|---|---|
| `MCStuckJob` (MCOrchestrator) | `JobEnds` | the worker dies after the last task's commit; no sweep rolls up the job. "Job rollup via `_maybe_finalize_job` after every Task transition" (`docs/guides/decisions.md`) |
| `MCCrossJob` (MCJobs) | `EveryDoomIsJustified` | a task with a dependency in another job is failed when its sibling ends. "deps may cross job boundaries" (`orchestrator/janitor.py`) |
| `MCSharedWorker` (MCOrchestrator) | `SettlesAlwaysAlone` | two attempts in one process share `WORKER_ID` and both pass the ownership check. "the lease gate above guarantees a single owner" |
| `MCSlowCommit` (MCOrchestrator) | `SettlesAlwaysAlone` | the lease lapses between the ownership check and the commit, which still overwrites the row |
| `MCSseCloses` (MCEventStream) | `SseCloses` | a stream that has seen the job pending is never told that it ended. "The stream closes (server-side EOF) once the job's status reaches a terminal value" (`api/v1/jobs.py`) |
| `MCSsePage` (MCEventStream) | `SseDrains` | a backlog of more than a page after the end is cut off |
| `MCIdReuse` (MCEventStream) | `NoSkippedEvent` | with two jobs, retention makes event ids go back, and a reconnecting client misses events |
| `MCUploadsWedged` (MCUploads) | `Resumable` | a PATCH dies after the append; no chunk is accepted any more. "resume at ``received_bytes``" (`api/v1/uploads.py`) |
| `MCStageCache` (MCStages) | `CacheSound` | a mapping is answered from the cache although the shared store has other matches. "the cache key is the contract" (`docs/guides/architecture.md`) |
| `MCStageExport` (MCStages) | `ExportCurrent` | a cached export is of a model that has been replaced |
| `MCHubDisabled` (MCHub) | `RunsEnabled` | a bare provider id that two plugins declare runs the disabled one; and so does an id that a plugin registers without declaring it, since `provider_enabled` does not know it and a registry loaded before still has it |
| `MCHubOptions` (MCHub) | `OptionsDeclared` | a closed schema that lists no properties lets every option through |

These are refuted by the configuration of the run named, with the property in place
of the run's own and the constant changed where one is given:

| Run | Properties |
|---|---|
| `orchestrator` | `ReconFollows`: a task felled by the dispatcher's cascade fires no `on_status` hook; `JobEnds` |
| `resume` | `VerdictConverges`: a roll-up that read the tasks before a resume commits after it and after the tasks have run again, and nothing rolls the job up once more |
| `event_stream` | `SseClosesOnDeletion`, `WsDrains`, `JsonlInOrder`, `SseCloses`; with `Window = 1`, `ProgressIsLatest`: the report reads a window of events, out of which a quiet task falls |
| `uploads` | `ReceivedHasPayload`, `SealedStays`, `Resumable` |
| `catalog` | `IndexFresh` |
| `hub` | `FrameworkRowsConform`, `DisableSticks`, `RunsEnabled` |
| `snapshots` | `NoStaleFiles`, `EmptyCellIsEmpty`, `ListedIsWhole`; `SealFindsFreeSeq`: after a crash between the two renames every later seal of the reconstruction finds its target taken; `ListedHasModel`: a map without a reconstruction publishes a snapshot without a model |
| `radiance` | `CoEvaluationOfRow`, `SummaryAgrees`, `StubCanRetry` |
| `artifacts` | `InputsOfDataset`, `ProvenanceKept`, `ExecutedAsPlanned`; `TargetsReached`: a backend that names another format than it was asked for is believed |
| `stages` | `LatestIsLive`, `StageParity`, `SnapshotHonest`, `CacheSound`, `FeaturesThenMatches`; `KeptApart`: POST /verify, given the matches of a recipe as an input artifact, verifies them with its own settings in the recipe's store |
| `dataflow` | `CheckersAlwaysAgree`: the server takes a step whose `datatype-ref` attribute is the canonical id of a type of the same plugin, the hub does not; with `Dotted = TRUE`, `CheckersAgree`: when one plugin's id is a dotted extension of another's, both manifests pass the hub, and a name under the longer prefix is under the shorter one too, so that the two declare one input of one processor and the merged registry raises |

Seen while modelling, and not a property of any module:

- On PostgreSQL two requests that add images leave a manifest hash that covers one of
  them; reference counts lose updates there too, and nothing reads them.
- SQLite does not enforce foreign keys, so deleting a project leaves its datasets.
- `ensure_reconstruction` has no unique constraint behind it: two submissions at once
  make two rows.
- A worker's registry is as old as the worker: a plugin that is installed or enabled
  is unknown to it until it restarts.
- A crash while a plugin is provisioned, or an exception that is neither a
  `ProvisioningError` nor made one, leaves its row "running" for ever, and the doctor
  passes it. A failed `container_service` install leaves the plugin installed
  and enabled, and over a row of another method it always fails, since the doctor
  reports the service as inactive. `provisioned` is recorded as true when the plan
  has a command even if nothing was to be provisioned.
- The preference order of `accepted_formats` is not that of the breadth-first search.
- `gc_completed_jobs` and `check_gpu_seconds` are called by nothing, and
  `storage_bytes_used` is never incremented.
- One-shot localization reads the live `sparse/` directory.
- Temporary names are shared in `S3BlobStore.local_path`, `S3Cache.insert` and the
  thumbnails.

## Theorems

Ten modules are proved about, each for every value of its constants: any sets of
jobs, tasks, workers, requests, plugins, manifests, blobs and rows, and any bounds.
Every safety invariant and every action property that a run checks is a theorem, but
for `RunsAfterDeps`, which is one of the jobs that were not overtaken. Each theorem
states a property of a run, which TLC checks on an instance; the inductive invariants
below were checked by TLC before they were proved.

| Theorem | States | Assuming |
|---|---|---|
| `TypeCorrect` of six modules and of `Snapshots`, `UploadsTypeCorrect`, `DataflowTypeCorrect` | `TypeOK`, or what it is named in the module | in `ArtifactsProofs`, `PlansArePaths` |
| `OrchestratorProofs` `InFlightHolds` | `InFlightIsCurrent` | `LocalDeps` |
| `SingleOwner` | `SettleIsExclusive` | `LocalDeps` |
| `DepsBeforeRun` | `RunsAfterDeps`, of jobs that were not overtaken | `LocalDeps` |
| `LeaseShapeHolds` | `LeaseShape`, of jobs that were not overtaken | `LocalDeps` |
| `VerdictIsLast` | `NoEarlyVerdict` | `LocalDeps` |
| `OutcomesStand` | `OutcomeIsFinal` | `LocalDeps` |
| `CancellationsStick` | `CancelSticks` | |
| `VerdictsHold` | `VerdictMatches` | `LocalDeps`, `Acyclic` |
| `DoomsJustified` | `DoomIsJustified` | `LocalDeps`, `Acyclic` |
| `LifecycleImplemented` | `ImplementsLifecycle`, the refinement of `Lifecycle` | `LocalDeps`, `Acyclic` |
| `FilesProofs` `PublishedIsWhole`, `PointerLagsByOne` | `SealedWhole`, `PointerLag` | |
| `PublishedNeverChanges` | `SealedImmutable` | |
| `WorkingFileIsPrefix` | `TempIsPrefix` | |
| `FinalizedIsWhole` | `SealedIsWhole` | |
| `OnePerKey` | `OneUploadPerKey` | |
| `EventStreamProofs` `NothingSkipped` | `NoSkippedEvent` | `IdsOnce` |
| `EndedIsDrained` | `SseDrains` | `IdsOnce`, `PageHoldsAll` |
| `RadianceProofs` `RowsSayWhatHappened` | `RowsAgree` | |
| `ServedFilesStay` | `ServedImmutable` | |
| `HubProofs` `HonestAnswers` | `AnswersHonest` | |
| `RunningIsOwned` | `RunningHasOwner` | |
| `RoutedRuns` | `RunsRouted` | |
| `DeclaredOptions` | `OptionsDeclared` | `SchemasSpeak` |
| `CatalogProofs` `NothingOrphaned` | `NoOrphans` | |
| `ManifestsCurrent` | `ManifestCurrent` | |
| `HonestStamps` | `StampsHonest` | |
| `ExactCounts` | `RefcountExact` | |
| `ArtifactsProofs` `RowsAreOutputs` | `RowsMatchOutputs` | `PlansArePaths` |
| `ConversionsDeliver` | `ConversionDelivers` | `PlansArePaths` |
| `PipelinesProofs` `StagesInvariant` | `StagesInv`, which the next two rest on | |
| `AgreeingRecipesAreSound` | `UniformSound` | |
| `RepeatedRecipeRunsNothing` | `RerunHits` | |
| `DependenciesAreComplete` | `DepsComplete` | |
| `TheCheckersAgree` | `CheckersAgree` | `PlainIds` |
| `PluginsDoNotInterfere` | `PluginsAreIsolated` | `PlainIds` |

The hypotheses. The counterexamples named are the configurations above that are not
runs:

- `LocalDeps` says that dependencies stay within a job, as every builder of a job makes
  them. `MCCrossJob` shows what a cascade does to a task with a dependency elsewhere.
  Nothing else is assumed of a deployment: processes run any number of attempts,
  leases lapse anywhere, jobs are resumed, and crashes, errors, lost and repeated
  messages, cancellations, phases that fail and retention are all allowed. What resumes,
  slow commits and shared worker ids do take away is not assumed away but part of the
  properties, which speak of the jobs that are not in `overtaken`; `CancelSticks` speaks
  of all.
- `Acyclic` says that every set of tasks has one that depends on none of the others,
  which holds because every builder of a job names, as dependencies of a node, ids of
  nodes that it has already made: tasks on a cycle could each be failed because of
  the other.
- `IdsOnce`: retention is off or there is one job. Otherwise `MCIdReuse`.
- `PageHoldsAll`: one page of an SSE poll holds the events. Otherwise `MCSsePage`.
- `SchemasSpeak`: a published schema lists its properties and is found under the
  name of its backend. Otherwise `MCHubOptions`.
- `PlansArePaths`: a plan that a request can be made of is a sequence of conversions
  that ends in an accepted format. This is what the planner computes, by a fold inside
  a recursive function, so that it needs induction over data: TLC evaluates it for the
  instance of the run, and compares the planner with a reference for every subset of
  six conversions (`PlannerAssumption` of `MCArtifacts`).
- `PlainIds`: no plugin's id is a dotted extension of another's. Otherwise the
  configuration of `dataflow` with `Dotted = TRUE`.
- `SettingsAssumption` (an assumption of `Stages`): requests of the features endpoint,
  of the recipes and of feed-forward mapping carry settings of different schemas
  (`FeaturesSpec` has no `kind`, and `PipelineSpec` is discriminated by it), and a
  resolved provider is a name.
- `DataflowAssumption` (an assumption of `Dataflow`): what the pydantic models admit.
  Identifiers are not empty, a port's role occurs once, a wire that is not a list is one
  reference, the step reference `inputs` is reserved, roles of a declared processor are
  local names, and `list_manifests` keeps one manifest for an id.
- `SealedWhole` and `PointerLag` speak of deployments in which one worker seals at
  a time, `NoOrphans` of PostgreSQL, `ManifestCurrent` and `StampsHonest` of SQLite;
  the configuration of the run has both kinds.

`TypeOK` of `Orchestrator` is strengthened to `Typed`: what an attempt is about to
write is a status of the row it will write to, marks are of tasks of its job, and a
resume resets tasks of its job.

The argument. `RunsAfterDeps`, `SettleIsExclusive` and `OutcomeIsFinal` are not
inductive: a blind write is only harmless because of what its writer read. The inductive
invariant `InFlightIsCurrent` therefore says, for every job that was not overtaken,
every process in flight and every place it can be, that what it read still holds: the dependencies of a
task at its lease gate are still satisfied (or its row is gone), the row of an
attempt at its terminal commit is still its own, the tasks of a job at its roll-up
are still all terminal, and every task that a doom or a cascade is about to fell is
`Condemned`: not running, not succeeded, and with a dependency that has fallen or
falls with it, so that it can never start. It also says that a job and its tasks
come and go together and that no job is terminal before its tasks, which is what
lets retention delete them. It is checked by TLC in `orchestrator`. What holds of overtaken jobs too, that rows
come and go with their job and that an attempt past its ownership check holds the
lease until it lapses, is `Placed`, and it is proved first. With `LocalDeps` a step
at one job neither reads nor writes what `Current` says of another, which is why a
resume or a lapse costs the invariant one job and not all.

The proof separates the two halves. Every action is shown to be a `TaskStep` of
each task and a `JobStep` of each job, and to leave its own process current
(`Moves` and `Kept`: lemmas `SafeRequests`, `SafeRun`, `SafeAfter`, `SafeFaults`,
`SafeJanitor`); and whatever a process read survives any such steps of the others
(`AttemptStays`, `SweepStays`, `CondemnedStays`, `ReadyStays`), which is proved
once and not once per pair of actions. `OutcomesStand` then follows from
`TaskStep`.

`VerdictMatches` needs more: a roll-up writes a status that was
computed from rows which a cascade may still rewrite, between failed and cancelled.
`VerdictInv` says why that does not change the verdict: whenever some task of a job is
failed, or about to be, one of them failed by itself with its dependencies satisfied
(`Root`), and such a task is `Condemned` by nobody. `Acyclic` is what makes a doomed
set of tasks have such a root. `DoomsJustified` and `LifecycleImplemented` follow from
the steps that `VerdictInv` allows (`OutcomeStep`); `CancellationsStick` from a lemma
on the one step that makes a task succeed, which has just read the status of its job.

The other modules:

- `Snapshots`. `TypeInv` bounds the sequence numbers. While one worker seals, `Alone`
  says what each place in `seal` has achieved: the temporary directory holds exactly the files copied so far, so that what is renamed
has all that the execution wrote, and nothing is listed
  beyond the pointer but the one being published. `SealedImmutable` needs neither:
  only `Publish` touches a published directory, and only where there is none.
- `Uploads`. `UploadInv` carries through the `await`s what a request still knows: the
  offset it was given fits the content, and what it hashed and moved is the content of
  its upload and is stored. The working file is a prefix because `append` compares the
  offset with the file and not with the row; the row may be stale.
- `EventStream`. `StreamInv`: ids are contiguous, an emission inserts the id after the
  ones there are, and every cursor is an id in use, so that nothing can appear below a
  cursor. `DrainInv` relates the terminal status a stream has seen to the events that
  were there when its job ended.
- `Radiance`. `RadianceInv`: exactly the running jobs have an execution, and each
  place of an execution fixes what the rows of its job say, so that the hooks of a
  crash, a cancellation or a second execution find what they overwrite.
- `Hub`. `HubInv`: a registry holds plugins under selectors they fit, the rows a task
  was routed by and the plugin that ran it fit its selector, and a precise selector
  fits one plugin, which declares its id; a row says succeeded of a request only if its
provisioner delivered.
- `Catalog`. `Base` types the sessions and keeps names unique and datasets born once.
  On it rest four invariants: `Guarded` (PostgreSQL: who has written below a row is
  safe from its deletion), `OneWriter` (SQLite: the one writer holds the hash that its
  commit leaves), `Stamping` (a session's hash is that of what it read) and `Counting`
  (a session's counts are exact against the table it will commit to; ids below `nextId`
  keep the images of two batches apart).
- `Artifacts`. `ArtifactsInv`: the table is the union of what the succeeded jobs
  report; every stored descriptor is coherent and is left alone when it is completed
  again, which is what a cache hit does; and of a worker at the end of its plan, what the last answer says and what was filled
in where it says nothing (`Progress`), so that an answer that keeps to the plan passes
the checks at the end, and a row names another format or source only if the answer
does.

- `Stages`. `StagesInv`: `Shape` says of each row which request made it, so that the
  four rows of a recipe stand together and every other writer is of a reconstruction that
no recipe belongs to (`Foreign`). `Held` says, of a recipe whose reconstruction kept to
one setting and was left `Undisturbed` by input artifacts, how far its store has got: it holds nothing but files the recipe asks for,
  all of them once the stage has succeeded, and a running stage has loaded all that it
  needs. A failed attempt leaves some of the files and a second recipe writes the same
  ones, which is why both keep it; a row answered by the cache has the key, hence the
  request, of a row that satisfied it. `RerunHits` needs of this only `Shape`: four
  rows with equal settings and inputs stand in recipes alike and have equal keys, and a
  submission answers a node from the cache when a succeeded row has its key.
- `Dataflow`. `DataflowInv` adds to the types that the active manifests passed the hub
  and the steps the schemas; a registry of such manifests is `Vetted`, and the rest is
  about operators, for every registry and every pipeline. `DepsComplete`: what the strict
  checker found for a port (`WiredOk`, `InferredOk`) is among what the second pass
  collects (`PortDeps`), and two candidates of one type have two references.
  `CheckersAgree`: the local names of a manifest and their canonical forms correspond one
to one (`StepMatch`, `AllMatched`), whichever of the two checkers has accepted first, so that the supplies before a step, the wires and the
  ports do, and each condition of one checker is one of the other; names of other
  plugins do not meet these, by `PlainIds`; and of a vetted registry nothing but a
  pipeline can raise (`OnlyPipelinesRaise`). `PluginsAreIsolated`: a plugin adds to the
  processors of a request that does not name it nothing but optional inputs and
  attributes under its own prefix (`Widened`, `Alike`), which no check of such a
  request reads; and a bare name has as many targets as there are active plugins that
  declare it, so that a larger set of plugins can only take a meaning away or give one.

Only model-checked: liveness (`TasksEnd`, `JobEnds`, `WsCloses`, `FieldSettles`), which is out of the prover's reach, and, as an evaluation, what the
planner of `Conversion` computes (`PlansArePaths`).

## Not modelled

- The numerical work of backends and handlers: a result is a value that names what
  it was made from. Readers and writers of binary formats have no state.
- The S3 cache, source drivers and the container runtime: external commands and
  objects; what their callers rely on is a choice in the modules that call them.
- Quotas and API keys: checks whose counters no code writes.
- Pagination and listing: one query per page, without state between pages.
- The inline queue, which runs a task inside the caller, and the raw Redis queue,
  which an external worker consumes.
- Schemas, the MCP server, the CLI, the plugin server and the compatibility aliases:
  declarations and thin front ends.

## Plan

1. Composition of `Stages` with the leases of `Orchestrator`, so that two executions
   of one handler write the shared store at once.
2. The S3 cache with eviction, and pagination against a moving table.
