# A verification project for Cyrene Reactor

Reactor deploys models and serves inference. This directory holds TLA+ modules
that model its state machines, TLC configurations that check them on small
instances, and theorems that TLAPS proves for every value of the constants.
`PROJECT.json` lists components, runs, mutants, the map from definitions to
source lines, the disagreements found, the hazards and the theorems.

Paths below: `product/` is `src/product/src/cyrene_reactor_product/`, `runtime/`
is `src/runtime/core/src/cy_exec/`.

## 1. Inventory

Two programs carry the logic. The **Product** is a FastAPI application over one
SQLite database. It keeps the durable records and drives execution hosts, a
maintenance daemon and an activity broker, all of them other processes. The
**runtime worker** is a process with threads: it queues inference requests, loads
models through a Plugin adapter and streams answers.

| component | state it keeps | operations | what is hard | correct when |
|---|---|---|---|---|
| Deployment lifecycle (`product/service.py`, `store.py`) | tables `deployments`, `endpoints`, `deployment_execution_evidence`, `deployment_events`, `idempotency` | create, stop, restart under the lock `_commands`; `get_deployment` without it | a command is many transactions and requests; crashes and lost answers between any two; a read that writes later; a second process (CLI) | STOPPED and RELEASED are true of the host, nothing held is lost, versions order the documents, keys create once |
| Deployment drafts (`product/api.py`, `store.py`) | table `deployment_drafts` | import, deploy | read, create and save are three transactions | a STARTED draft names the one deployment of its key |
| Model imports (`product/service.py`) | `model_imports`, `model_import_scopes`, `idempotency` | create, list, get, per Workspace | broker, database and host in turn; crash at any point | one import per key and scope, run once, seen only in its scope |
| Runtime diagnostics (`product/service.py`) | `deployment_diagnostics`, its cursor | GET harvests and pages; the Product appends | no lock over read cursor, fetch, append, advance | no line skipped silently, pages join |
| Package runtime owner (`product/package_runtime_owner.py`) | `package_runtime_owner_operations` | activate, reconcile, status | durable intent before an external effect; status writes without the lock | sent at most once, completed only when it happened |
| Engine admission (`product/package_runtime_owner.py`, `cli.py`) | the engines of a starting process | five reads of other processes | everything read may change between the reads | an engine answered for itself, under one authority |
| Task scheduler (`runtime/core/task_scheduler.py`) | priority queue, stop event, futures | submit, worker loop, drain, shutdown | check-then-put, cancel against run, two drains | a task runs once, none is lost |
| gRPC servicers and worker process (`runtime/grpc_servicer.py`, `grpc_servicer_async.py`, `main.py`) | open calls, the thread pool and its queue, the bridge of the asynchronous server, the model registry, the signal | StreamPredict, Control, reload of the registry, signal, exit | calls wait for pool threads that wait for workers; clients leave at any point; an error and the end mark cross threads separately; the exit joins the pool | an OK is a whole answer, calls are answered, the process exits |
| Inference server (`runtime/core/server.py`, `memory_manager.py`, `capability_seam.py`) | resident engines, per-model locks, stream queues | stream, load, unload, shutdown | first-use loading by two requests, unload during use, shutdown during load | a loaded model is owned, streams end whole or with their error, shutdown returns |
| Configuration hot reload (`runtime/config/hot_reload.py`) | hash, debounce time, lock | observer or polling thread, `reload_now` | the file changes between hash and load; the debounce is reset without the lock | callbacks never go back, `reload_now` is fresh |
| Stream buffer (`runtime/utils/stream_buffer.py`), alert manager (`src/runtime/pro`), telemetry (`runtime/core/telemetry.py`) | deque, condition, counters; rules; counters | push, pop, close; check; count | nothing else depends on them | not modelled, see section 8 |
| Exchange handoff, Workspace authentication and projection, HTTP routes, health page, logging, TLS, configuration models, host placement, release tools | none, or declarations | requests, formatting, checks of strings | | not modelled, see section 8 |

How they interact:

* HTTP routes call `ReactorService` in a thread pool. Commands serialise on
  `_commands`; reads do not. The CLI's `deployment stop` builds a second
  `ReactorService` on the same database, with a lock of its own.
* The service calls the serving port (`remote_engine.py`), one HTTP request per
  call, each with a timeout. Its effect and its answer can fail separately.
* In managed mode the service reports tasks to the activity broker before a
  transition is stored and after its end is (`runtime_activity.py`). A report is
  a request of its own, and its failure is an exception that ends the command.
* A starting process admits its package bindings (`EngineAdmission`) and then
  serves; owner operations (`PackageRuntimeOwner`) start and move those runtimes.
* In the worker, `InferenceServer` submits each request to `TaskScheduler`; the
  client thread and the worker thread meet in two queues.
* A StreamPredict call occupies a thread of one pool until its stream ends: the
  handlers' pool of the synchronous server, the event loop's executor of the
  asynchronous one, where a coroutine polls a third queue. Unloads by Control use
  the same pool. A signal stops admission, shuts the server down, and the
  interpreter joins the pool's threads.

## 2. Plan

Modules, in the order of importance, and what composes what:

1. `DeploymentLifecycle`, with `DeploymentDrafts` on top of it (done);
2. `TaskScheduler`, and `InferenceServer`, which EXTENDS it and implements it:
   `SchedulerSpec` is the abstract specification, and the server's own variables
   are hidden by the identity mapping (done);
3. `ModelImports`, `RuntimeDiagnostics`, `PackageRuntimeOwner`,
   `EngineAdmission` (done);
4. `ConfigWatcher` (done);
5. `WorkerService`, which EXTENDS `InferenceServer` and implements it: the
   servicers, the bridge and the process (done);
6. the abstract specifications `DeploymentContract` and `ActivateOnce`, with the
   refinement mappings in `DeploymentLifecycle` and `PackageRuntimeOwner` (done).

Left to model: `ModelRegistryWatcher.setup`, which replaces one `ConfigWatcher`
by another.

Every safety property of a passing run, invariant, action property or refinement,
is proved (section 6). What is left to the model checker alone is liveness, which
the prover cannot reach.

## 3. Modules and code

Every definition is mapped to its lines in `PROJECT.json`. Definitions whose
comment says "Mutant of" are changed forms of the next definition, used only to
see that a property would notice the change.

**DeploymentLifecycle.** Rows of the tables are functions over `Deployments`;
`cmd[p]` holds the locals of the command that holds `_commands` in process `p`,
`reader[d, r]` those of a `get_deployment` in flight. Each store transaction and
each request is one action: `Create` .. `ReadyEvent` is `_create_deployment` and
`_launch`, `Stop` .. `ReleasedEvent` is `_stop_deployment`, `Restart`, `Readmit`
and `PersistStarting` the restart, `ReadDeployment` .. `ReconcileSave` the
reconciliation of `get_deployment`. `exec` is the host: `EngineStart`,
`EngineStop` and `EngineInspect` give every combination of effect and answer.
`Crash` loses the locals, may change the configured bindings and reports the
tasks that `list_active_activity_tasks` returns.
`tasks` is the activity broker. `admit_and_persist`, `transition_and_persist` and
`complete_after_persist` are each two actions, the report (`Admit`, `Dispatch`,
`Cancel`, `Readmit`, `CompleteReady`, `CompleteFailed`, `CompleteStopped`, all
through `Report`) and the transaction (`Persist...`), in the order of the code.
A report that is refused or not answered ends the command, whether or not it
arrived: before the transaction nothing is stored, and after it the final event is
skipped and a finished task may stay at the broker until a process starts again.
Without a broker (`activity` is None) the same commands run with reports that
always succeed.
Abstractions: a starting process whose own report to the broker fails does not
start, which is a longer outage and not an action; diagnostics lines appended next to events are part of
`RuntimeDiagnostics` only; a replayed or conflicting key writes nothing and is a
disabled `Create` (only the server creates, inside its lock, so the replay branch
inside `create_intent` cannot be taken); a restart with a version that is not current writes nothing,
so the caller's version is taken as current; the confirmation of a release
covers starts that are still in flight at the host, as the readback of
`remote_engine.py` requires; of a composed stop only the outcome (confirmed or
not) is kept, a 404 on the readback being a stop that is not confirmed.

**DeploymentContract.** The abstract specification of a deployment: its two
documents, the version, and what the host holds. `Contract` in
`DeploymentLifecycle` maps the stored rows and the host to it; processes, locks,
commands, polls, events and crashes are hidden. A step of the contract moves one
deployment, every change of the public state takes a version, the host acquires
only for a deployment that is STARTING and has its endpoint on record, and
STOPPED is entered only when nothing is held.

**DeploymentDrafts.** EXTENDS the lifecycle; `ServerStep` couples a
`deploy_draft` call to the command it runs. The key of a draft is one of `Keys`,
because nothing keeps a client from sending the same text.

**ModelImports.** `call` is the one command inside `_commands`; the broker, the
binding's calls and what it published are external variables. Requests are
digests. One process runs commands, so the replay branch inside
`commit_model_import_intent` (a row that appeared after
`resolve_model_import_request`) cannot be taken and is not an action. `Raise` is a
call that fails: of the broker, whose report may have arrived all the same, of the
store or of the host. Refused
requests write nothing and are left out.

**RuntimeDiagnostics.** A table of records in sequence order, the stored cursor,
and per console the locals of its GET. The runtime's answer ends at the last
record returned; a page is `degraded` when lines of its range are lost. A legacy
binding is a fetch that fails. Records are taken to be well-formed: the service
skips an item that is not a dictionary and moves the cursor past it. A page keeps
at least one record, because a `DiagnosticRecord` is bounded (`domain.py`, 8192
characters at most) far below the page's budget of 1 MiB.

**PackageRuntimeOwner.** `op` is the table, `gate` and `runtime` the daemon's
side. `activate` runs under `_operation_lock`, `reconcile` on the event loop,
one at a time, `status` without a lock.

**ActivateOnce.** The abstract specification of the owner: one unfinished
operation at a time, on record before it is sent, sent at most once, finished
after the Gate. `Once` in `PackageRuntimeOwner` maps the rows and the daemon's
ghost counters to it; receipts, statuses, connections and crashes are hidden.

**EngineAdmission.** The reads of `package_runtime_engine` are one action each,
against a daemon whose catalog, installations and runtimes move. A loopback port
has one listener and every started runtime has a new generation; both are the
supervisor's and external.

**TaskScheduler.** Each task has a submitting thread. Tasks of one priority are
ordered by `time.time()`, which may stand still or go back, so a worker may take
any of the most urgent ones.

**InferenceServer.** EXTENDS `TaskScheduler`. `stream` is the client's generator,
`body` the worker's `_task`; adapters are named by the request whose load created
them. Chunks are abstracted to the two end marks (the sentinels); the placeholder path
check and the validation of prompts raise before any state changes and are left
out. The end of `_task` is in the order of the code: `Succeed` or, after any
failure, `RecordError` (the error holder), and only then `PutSentinels`, so that a
client may look between the two. The counters of `telemetry.py`, and embedding,
health and statistics calls, change nothing that is modelled.
`PluginFaults` names the Plugin's operations (factory, load, unload, infer) that
may fail in an instance.

**WorkerService.** EXTENDS `InferenceServer`; a request of the server is a
StreamPredict call and a controller a Control call. `jobs` and `running` are the
queue and the threads of the pool, `rpc` and `control` what the clients see,
`bridgeErr` and `bridgeEnd` the error holder and the sentinel of
`async_stream_predict`. `front` is chosen in `WorkerInit`. `StreamPredict`,
`BeginHandler`, `EndHandler` and `CloseHandler` are the synchronous handler;
`NoteError`, `PutEnd` and `AnswerAsync` the asynchronous bridge; `Generate` runs
the server's own `Predict` and `ClientStep` in the thread; `Signal`,
`ServerShutdown`, `LeaveMain` and `Exit` are `_serve_forever` and the end of the
interpreter.
Abstractions: `LoseClient` is a cancelled call as well as one that the grace
period aborts; a client of Control that leaves after its job began is served all
the same, so only leaving before is a choice (in `BeginUnload`); Control calls
that unload nothing (ping, list, refused ones) are `ControlAnswered`; Health reads
only. `run_async_server` ends at a KeyboardInterrupt without shutting the
`InferenceServer` down; its end is left out, and only the synchronous server, the
one `main.py` runs, has a `Signal`.

**ConfigWatcher.** Whether watchdog is used is chosen in `Init`. The content of
the file is a version number that does not recur, so a hash is the version it
was taken of. Two watcher threads stand for a thread that outlives `stop()`
because its join timed out.

## 4. Runs

| run | checks | instance | distinct states |
|---|---|---|---|
| `lifecycle` | the invariant, what is held is recoverable, RELEASED is true, `ActivityTracksTransitions` and `EndsAreReported` (the broker), `ImplementsContract`, the action and liveness properties | 1 composed deployment, 1 key, 2 readers, versions to 5, every call of the host and the broker may fail | 287,000 |
| `drafts` | `OneDeploymentPerKey`, `StartedDraftIsDeployed` | 2 deployments, 1 draft, 2 deploy calls, clients with and without the key | 440,000 |
| `lifecycle_cli` | `ReleasedIsTrue` with a second process (violated) | server and CLI, 1 deployment | |
| `imports` | keys, one call, scopes | 2 imports, 2 Workspaces and the legacy scope, 1 key, 2 bodies | 133,000 |
| `diagnostics` | `NothingSkipped`, `PagesJoin` | 2 consoles, 2 lines, 1 Product line, 1 fault, page of 2, harvest of 1 | 1,051,000 |
| `owner` | `ActivatesOnce` (the refinement), `CompletedIsTrue`, `EvidenceIsKept`, types | 2 requests, 2 installations, 2 connections, 1 status call | 207,000 |
| `admission` | `EngineAnsweredForItself`, `OneAuthority` | 2 bindings, 2 installations, 2 ports, generations to 3 | 582,000 |
| `scheduler` | `RunsOnce`, `NoTaskLost`, `QueuedIsResolved` | 3 tasks of 2 priorities, 2 workers, queue of 2 | 22,000 |
| `server` | `LoadedIsOwned`, `EndsAreComplete`, refinement of the scheduler | 2 requests for 1 model, 2 workers, 1 control thread, shutdown, all Plugin faults | 1,014,000 |
| `worker` | `OkIsComplete`, `WaitingIsServed`, `UsesServer` (the refinement), `CallsAreAnswered`, `StartedStreamsEnd`, `ShutdownReturns`, `ExitsUnlessStranded`, types | 2 streams and 1 unload of 1 model, 1 worker, 1 pool thread, both servicers, 1 client that may leave, failing loads and unloads, signal | 278,000 |
| `server_drained` | `AcceptedStreamsEnd` (violated) | 1 request, 1 worker, shutdown | |
| `watcher` | `ReloadNowIsFresh`, `NeverBackwards`, `QuietChangesAreLoaded` | 1 caller, 2 watcher threads, 3 writes, version 2 refused, both modes | 66,000 |

Why the bounds are enough for the interesting cases:

* `lifecycle`: versions to 5 let a deployment become READY, DEGRADED and READY
  again, or be stopped and restarted while a poll of its first life is still in
  flight; two readers let one poll overtake another. A composed deployment has
  every branch of a plain one and the identity checks besides.
* `drafts`: two deployments are what a key must not make; `MaxVersion = 1` keeps
  stops and restarts to `lifecycle`, since they do not touch keys or drafts.
* `imports`: two imports are what a key must not make, three scopes are two that
  can be confused and the legacy one.
* `diagnostics`: two lines with a harvest of one need two harvests, which two
  consoles interleave; one fault suffices for a crash between append and cursor.
* `scheduler`: a queue of two with three tasks fills; two workers drain together.
* `server`: two requests race for the load of one model while a third thread
  unloads it; more models do not interact, because locks are per model.
* `worker`: one pool thread makes calls queue behind a stream that itself waits
  for a worker, and one worker makes the other stream wait; the unload contends
  for the model's lock with both and with the shutdown. Loads fail here because
  an error then crosses the bridge, and unloads because the shutdown must get past
  them; the other faults are left to `server`, which has no liveness.
  `ExitsUnlessStranded` excuses a process that does not exit only by a request that
  is `Stranded` from some point on: its handler waits, and its task was drained or
  is queued with no worker left.
* `watcher`: three writes are the file that was hashed, the one that was loaded
  and a later one. One caller is enough for liveness; the safety properties are
  proved for any number of threads.

`CHECK_DEADLOCK FALSE` is used where threads end by themselves: the scheduler,
the server and the worker process after a shutdown, where a worker may also stay blocked in the
drain's `get` when another worker was faster.

Symmetry is used only in runs without liveness, over sets that no operator
chooses from.

## 5. Fairness

* Commands and reads of the lifecycle: weak fairness of the next step of each.
  Every store call returns and every request has a timeout (`remote_engine.py`),
  so a started command goes on. Crashes, losses and new commands are not fair.
  `LossIsNoticed` assumes a client that polls again, and that crashes and failing
  broker calls cease: commands that fail at the broker one after the other could
  keep the polls from the lock for ever.
* Scheduler workers: weak fairness. Threads are scheduled and the functions they
  call return (Plugin calls have deadlines).
* Worker process (`WorkerFairness`): weak fairness of each stream's job, each
  unload's job, each scheduler thread, the pool, the shutdown and the exit.
  Threads are scheduled, the coroutine polls, and calls of the Plugin end at
  their deadline. Clients and signals owe nothing: no call need come, none need
  be cancelled, and no signal need arrive. Every Control call of the instance
  comes once; a controller that calls for ever could starve the shutdown of a
  model's lock, which `threading.Lock` does not exclude.
* Watcher: the observer delivers its events, the poll and the callers' threads
  are scheduled, callbacks return, and the debounce time ends. Writes and
  restarts are not fair. `QuietChangesAreLoaded` is about a change that is
  noticed outside the debounce time; without that the claim is refuted
  (section 7).

## 6. Proofs

TLAPS proves these for every value of the constants that satisfies the named
ASSUMEs (which TLC evaluates on each run). All are of the form: an inductive
invariant holds initially, each action keeps each conjunct, and the property
follows.

* `DeploymentLifecycleProofs`, for any number of processes: type correctness;
  `OneDeploymentPerKey`, from `KeyInv` (the rows of the idempotency table are
  exactly the keys of the stored deployments, because `create_intent` writes both
  in one transaction, and `KeysArePending`, that between a create's look at the table
  and that transaction no other command takes its key); and, for the drafts
  on top of it, `StartedDraftIsDeployed`, from `DraftsInv` (a call that got a
  deployment got the one of its draft's key, and keys make one deployment, so two
  overlapping calls cannot have got different ones).
* `DeploymentSafetyProofs`, for one process (`SingleProcess`; with a second one
  the properties fail, see section 7): `IndInv` and from it
  `StoppedMeansReleased`, `ReleasedIsTrue`, `HeldIsRecoverable`, `PairAgrees`,
  and the action properties `NoRevival` and `VersionsOrderStates`. The
  properties alone are not inductive: a stop's last save is right only because
  the command's copy is the stored document (`LocalsAreStored`), the position of
  the command determines the states (`CommandStates`), the reference was stored
  before the start (`CommandFacts`), and a poll whose version is still current
  still holds the stored pair (`PollsAreCurrent`). On top of `IndInv`, the
  refinement `ImplementsContract` follows from the lemma `StepMoves` (a step changes
  the documents and the host of at most one deployment, and in one of a few ways)
  and `LaunchFacts`: what the launch knows of its endpoint when the host acquires,
  and that a launch that fails without a reference has left nothing on the host.
  `ActivityTracksTransitions` and `EndsAreReported` need `ReportFacts`: a command
  about to store a transition has told the broker, and one past its completion has
  no task left. Together they say what the broker calls achieve although they may
  fail: no transition without a task, ever; and a task without a transition only
  while its command runs or after a broker call that failed.
* `WorkerServiceProofs`, for the scheduler, the server and the worker process,
  each through the refinement of the one below:
  * `SchedulerInv` (who owns a task determines its future and how often it ran),
    hence `RunsOnce` and `NoTaskLost`;
  * every step of the server is a step of the scheduler or leaves it alone
    (`UsesScheduler`), so `RunsOnce` carries over; `ServerInv` (the lock of a model
    is held by exactly the call inside its critical section, and what that call
    checked stays true), hence `LoadedIsOwned`; and `EndsAreComplete` (a generator
    that ended found the sentinel of a finished task and no error, because the task
    records its error before it puts the sentinels);
  * every step of the worker process is a step of the server or leaves it alone
    (`UsesServer`), so `LoadedIsOwned` and `EndsAreComplete` carry over;
    `ServiceInv` (the jobs and threads of the pool, who serves a waiting call, and
    that the bridge's end mark follows the generator's end or its error), hence
    `WorkerTypeOK`, `WaitingIsServed`, and with `EndsAreComplete` `OkIsComplete`.
* `PackageRuntimeOwnerProofs`: `OwnerInv` (one operation is unfinished; what the
  phase of a row says of its receipt, of the sends and of the Gate; what `activate`
  and `reconcile` have made sure of at each position, although `status` writes
  between their steps), hence `TypeOK`, `CompletedIsTrue`, the action property
  `EvidenceIsKept` and the refinement `ActivatesOnce`. `OwnerAssumption` asks for
  at least one request and one installation: a call has a key and names an
  installation.
* `ModelImportsProofs`: `ImportsInv` (the key rows are exactly the keys of the
  stored imports, and what the command inside the lock knows), hence
  `OneImportPerKey`, `EngineCalledOnce`, `AnswersStayInScope`.
* `RuntimeDiagnosticsProofs`: `DiagnosticsInv` (everything up to the cursor a
  harvest has read is accounted for, and its page covers what it will advance
  over), hence `NothingSkipped`, `PagesJoin`.
* `EngineAdmissionProofs`: `AdmissionInv` (a receipt of the current generation
  is the current receipt, so an equal second receipt means that the runtime did
  not change in between), hence `EngineAnsweredForItself`, `OneAuthority`.
* `ConfigWatcherProofs`: `WatcherInv` (the file whose hash is kept was loaded or
  will be by the holder of the lock), hence `ReloadNowIsFresh`,
  `NeverBackwards`.

`SchedulerInv`, `ServerInv`, `ServiceInv`, `WatcherInv`, `ImportsInv`,
`DiagnosticsInv`, `OwnerInv`, `KeyInv`, `DraftsInv`, `LaunchFacts`, `ReportFacts`,
`StoppedMeansReleased` and `PairAgrees` are proved and therefore not checked again
by a run.

Only model-checked: liveness, because fairness and ENABLED are outside the prover.
These are `CommandsReturn`, `LossIsNoticed`, `QueuedIsResolved`,
`CallsAreAnswered`, `StartedStreamsEnd`, `ShutdownReturns`, `ExitsUnlessStranded`
and `QuietChangesAreLoaded`.

## 7. Where code and documents disagree

Two disagreements are runs and findings of `PROJECT.json`:

* `lifecycle_cli`: the CLI's stop is outside the server's lock
  (`product/cli.py:112`). In the behaviour TLC prints it overlaps the server's first
  launch: the release is confirmed while the host holds nothing yet, the server's
  start request arrives, and the stop appends RELEASED while the host holds the
  model.
* `server_drained`: a stream whose task is drained at shutdown waits for progress
  that never comes (`runtime/core/server.py:236`), while
  `docs/architecture-and-lifecycle.md:33` has every stream finish.

The others can be reproduced with the configuration named; TLC prints the
behaviour. The properties are in the modules, next to those that hold.

| configuration (module `MC...`) | property | what happens |
|---|---|---|
| `ModelImports_answers.cfg` | `AnswersAreValidated` | a replayed key is answered 201 with an import still VALIDATING or FAILED (`product/service.py:326`), while `contracts/product/v1/openapi.yaml:466` says "Validated ModelImport" |
| `RuntimeDiagnostics_harvest.cfg` | `HarvestedOnce` | two overlapping polls, or a crash before the cursor is stored, store a line twice (`product/service.py:1050`), while `product/tests/test_deployment_diagnostics.py:217` says "polling again does not duplicate it" |
| `PackageRuntimeOwner_receipt.cfg` | `OfferedReceiptIsSaved` | a status call during an activation makes its error branch drop the typed receipt (`product/package_runtime_owner.py:182`; compare `store.py:232`) |
| `TaskScheduler_dangling.cfg` | `NoDanglingFutures` | a submit that passed its check before the shutdown queues after the drain (`runtime/core/task_scheduler.py:75`; compare line 113) |
| `InferenceServer_shutdown.cfg` | `StoppedIsReleased` | a load that ends after shutdown listed the models stays loaded (`runtime/core/server.py:367`; compare `docs/architecture-and-lifecycle.md:36`) |
| `InferenceServer_cleanup.cfg` | `FailedLoadReleases` | the cleanup of a failed load does not reach the Plugin (`runtime/capability_seam.py:393`; compare `docs/architecture-and-lifecycle.md:48`) |
| `WorkerService_exit.cfg` | `ProcessExits` | a request that was accepted while the scheduler stopped keeps its pool thread, and the interpreter waits for that thread (`runtime/core/server.py:236`, `runtime/main.py:159`), while `runtime/main.py:153` says that Ctrl+C ends the process |
| `ConfigWatcher_unpolled.cfg`, `ConfigWatcher_debounced.cfg` | `ChangesAreLoaded` | polling mode stores the hash before it compares and loads nothing (`hot_reload.py:235`); a change within the debounce time is dropped for good (`hot_reload.py:181`) |
| `ConfigWatcher_reloadnow.cfg` | `ReloadNowTellsSuccess` | `reload_now()` answers True after a refused configuration (`hot_reload.py:311`) |

`RuntimeDiagnostics_liveness.cfg` checks a further property that holds,
`OutputIsShown`: a console that keeps polling sees every line that is not lost.

## 8. Not modelled

* Stream buffer: a bounded queue under one lock; no other part of the repository
  constructs it, so there is nothing it could be composed with.
* Alert manager: one critical section per check, and no other part calls it.
* `ModelRegistryWatcher`: it wraps one `ConfigWatcher`; a second `setup` while the
  first is running is left.
* Exchange handoff: one request to another product after a read, no state.
* Workspace authentication and projection, errors, logging, TLS, paths,
  configuration models, contracts, release tools, host placement: functions of
  strings, files and certificates, or declarations.
* The health page and the Health calls: read-only answers. The one-shot
  `--prompt` mode of `main.py` runs one stream and returns.
* HTTP routes: status codes and problem documents; the handlers that change
  state are the actions of the modules above.
* Telemetry (`runtime/core/telemetry.py`): counters that only the health and metrics
  answers show; no decision reads them.
* Time: timeouts may happen whenever they can; the 1900 seconds for which an
  import may hold `_commands` are not measured.
* Text: a chunk equal to the sentinel text, or a diagnostics level outside the
  contract, are questions about data that the models abstract from.

## 9. Running

    tlc -workers 2 -config DeploymentLifecycle.cfg MCDeploymentLifecycle
    tlapm DeploymentSafetyProofs.tla
