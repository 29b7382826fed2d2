--------------------------- MODULE InferenceServer ---------------------------
(***************************************************************************)
(* The serving worker: InferenceServer (core/server.py) over TaskScheduler,*)
(* ModelResidencyRegistry (core/memory_manager.py) and the adapters of the *)
(* direct Plugin (capability_seam.py).                                     *)
(*                                                                         *)
(* A request is a task of the scheduler: the client's thread consumes the  *)
(* stream, a worker runs _task.  The load of a request creates an adapter  *)
(* of its own, so adapters are named by the request that created them.     *)
(* Control threads unload models while requests run, and the main thread   *)
(* shuts the server down.  The Plugin process is external.                 *)
(***************************************************************************)
EXTENDS TaskScheduler

CONSTANTS Models,
          ModelOf,       \* the model a request names
          Controllers,   \* threads that serve the Control RPC unload_model
          Main,          \* the thread that calls shutdown
          PluginFaults   \* the operations that may fail at the Plugin

PluginOps == {"factory", "load", "unload", "infer"}

ASSUME ServerAssumption ==
    /\ Models # {}
    /\ ModelOf \in [Tasks -> Models]
    /\ Main \notin Controllers
    /\ (Controllers \cup {Main}) \cap (Tasks \cup {NoTask}) = {}
    /\ PluginFaults \subseteq PluginOps

VARIABLES
    stream,       \* per request: where the generator stream_predict stands
    wasLoaded,    \* per request: model_loaded, read before the submission
    body,         \* per request: where _task stands
    engine,       \* per request: the adapter ensure_model returned
    errors,       \* requests whose error_holder is not empty
    progressEnd,  \* requests whose progress sentinel was put
    streamEnd,    \* requests whose response sentinel was put
    resident,     \* ModelResidencyRegistry._engines
    modelLock,    \* _model_lock: the thread that holds the lock of a model
    loaded,       \* adapters whose _is_loaded is set
    held,         \* external: adapters whose model the Plugin holds
    unloader,     \* per unloading thread: where unload_model stands
    shutting,     \* _is_shutting_down
    shutPc,       \* where shutdown stands
    todo          \* the models shutdown has still to unload

requestVars == <<stream, wasLoaded, body, engine, errors, progressEnd, streamEnd>>
modelVars   == <<resident, modelLock, loaded, held>>
controlVars == <<unloader, shutting, shutPc, todo>>
vars        == <<schedulerVars, requestVars, modelVars, controlVars>>

Unloaders == Controllers \cup {Main}

StreamPcs == {"idle", "submit", "progress", "response", "ended", "failed", "refused", "closed"}
BodyPcs   == {"idle", "ensure", "lock", "load", "cleanup", "register", "infer", "inferring",
              "success", "failure", "ending", "done"}

\* The state of the scheduler, the streams, the task bodies and the residency
\* registry has its shape; an engine is only known by the request that loaded it.
TypeOK ==
    /\ SchedulerTypeOK
    /\ stream \in [Tasks -> StreamPcs]
    /\ wasLoaded \in [Tasks -> BOOLEAN]
    /\ body \in [Tasks -> BodyPcs]
    /\ engine \in [Tasks -> Tasks \cup {NoTask}]
    /\ errors \subseteq Tasks
    /\ progressEnd \subseteq Tasks
    /\ streamEnd \subseteq Tasks
    /\ resident \in [Models -> Tasks \cup {NoTask}]
    /\ modelLock \in [Models -> Tasks \cup Unloaders \cup {NoTask}]
    /\ loaded \subseteq Tasks
    /\ held \subseteq Tasks
    /\ unloader \in [Unloaders -> [pc : {"idle", "lock", "unload", "unregister"}, m : Models]]
    /\ shutting \in BOOLEAN
    /\ shutPc \in {"up", "scheduler", "join", "unload", "stopped"}
    /\ todo \subseteq Models

Init ==
    /\ SchedulerInit
    /\ stream = [t \in Tasks |-> "idle"]
    /\ wasLoaded = [t \in Tasks |-> FALSE]
    /\ body = [t \in Tasks |-> "idle"]
    /\ engine = [t \in Tasks |-> NoTask]
    /\ errors = {}
    /\ progressEnd = {}
    /\ streamEnd = {}
    /\ resident = [m \in Models |-> NoTask]
    /\ modelLock = [m \in Models |-> NoTask]
    /\ loaded = {}
    /\ held = {}
    /\ unloader = [u \in Unloaders |-> [pc |-> "idle", m |-> CHOOSE m \in Models : TRUE]]
    /\ shutting = FALSE
    /\ shutPc = "up"
    /\ todo = {}

-----------------------------------------------------------------------------
(* The adapter of a direct Plugin (capability_seam.py).  Any call may fail   *)
(* before or after it took effect at the Plugin.                             *)

\* _invoke raises a ServingPortFailure: transport, deadline, typed failure, or an
\* answer that is not the expected one.
InvokeFails(op) == op \in PluginFaults

\* The engine factory refuses: no binding, or another provider than the bound one.
FactoryRefuses == "factory" \in PluginFaults

\* load_model: _is_loaded is set by a confirmed load only.
AdapterLoad(a, ok) ==
    \/ /\ ok
       /\ held' = held \cup {a}
       /\ loaded' = loaded \cup {a}
    \/ /\ ~ok /\ InvokeFails("load")
       /\ held' \in {held, held \cup {a}}
       /\ UNCHANGED loaded

\* unload_model: nothing is sent for an adapter that is not loaded, and an
\* unload that is not confirmed leaves it loaded.
AdapterUnload(a, ok) ==
    \/ /\ ok /\ a \notin loaded
       /\ UNCHANGED <<held, loaded>>
    \/ /\ ok /\ a \in loaded
       /\ held' = held \ {a}
       /\ loaded' = loaded \ {a}
    \/ /\ ~ok /\ a \in loaded /\ InvokeFails("unload")
       /\ held' \in {held, held \ {a}}
       /\ UNCHANGED loaded

-----------------------------------------------------------------------------
(* stream_predict: the client's thread *)

\* The server accepts work, and whether the model is loaded now.
Predict(t) ==
    /\ stream[t] = "idle"
    /\ stream' = [stream EXCEPT ![t] = IF shutting THEN "refused" ELSE "submit"]
    /\ wasLoaded' = [wasLoaded EXCEPT ![t] = resident[ModelOf[t]] # NoTask]
    /\ UNCHANGED <<body, engine, errors, progressEnd, streamEnd>>
    /\ UNCHANGED <<schedulerVars, modelVars, controlVars>>

\* The submission.  SchedulerBusy and the error of a stopped scheduler end the
\* stream with an error; the future that submit returns is not kept.
SubmitRequest(t) ==
    /\ stream[t] = "submit"
    /\ Submit(t) \/ Put(t) \/ PutTimeout(t)
    /\ stream' = [stream EXCEPT ![t] =
            CASE caller'[t] = "put" -> "submit"
              [] caller'[t] = "accepted" -> IF wasLoaded[t] THEN "response" ELSE "progress"
              [] OTHER -> "refused"]
    /\ UNCHANGED <<wasLoaded, body, engine, errors, progressEnd, streamEnd>>
    /\ UNCHANGED <<modelVars, controlVars>>

\* The loop over the progress queue, which polls until the sentinel or an error.
Progress(t) ==
    /\ stream[t] = "progress"
    /\ t \in progressEnd \cup errors
    /\ stream' = [stream EXCEPT ![t] = "response"]
    /\ UNCHANGED <<wasLoaded, body, engine, errors, progressEnd, streamEnd>>
    /\ UNCHANGED <<schedulerVars, modelVars, controlVars>>

\* The loop over the response queue, which blocks until the sentinel.
Respond(t) ==
    /\ stream[t] = "response"
    /\ t \in streamEnd
    /\ stream' = [stream EXCEPT ![t] = IF t \in errors THEN "failed" ELSE "ended"]
    /\ UNCHANGED <<wasLoaded, body, engine, errors, progressEnd, streamEnd>>
    /\ UNCHANGED <<schedulerVars, modelVars, controlVars>>

\* The client goes away and the generator is closed; _task is not told.
CloseStream(t) ==
    /\ stream[t] \in {"progress", "response"}
    /\ stream' = [stream EXCEPT ![t] = "closed"]
    /\ UNCHANGED <<wasLoaded, body, engine, errors, progressEnd, streamEnd>>
    /\ UNCHANGED <<schedulerVars, modelVars, controlVars>>

-----------------------------------------------------------------------------
(* _task and ensure_model: a worker thread *)

\* A worker starts _task.
StartTask(w) ==
    LET t == worker[w].task
    IN  /\ Run(w)
        /\ body' = [body EXCEPT ![t] = "ensure"]
        /\ UNCHANGED <<stream, wasLoaded, engine, errors, progressEnd, streamEnd>>
        /\ UNCHANGED <<modelVars, controlVars>>

\* ensure_model returns the adapter a; the progress messages end.
GotEngine(t, a) ==
    /\ engine' = [engine EXCEPT ![t] = a]
    /\ body' = [body EXCEPT ![t] = "infer"]
    /\ progressEnd' = IF wasLoaded[t] THEN progressEnd ELSE progressEnd \cup {t}
    /\ UNCHANGED <<stream, wasLoaded, errors, streamEnd>>

BodyGoto(t, pc) ==
    /\ body' = [body EXCEPT ![t] = pc]
    /\ UNCHANGED <<stream, wasLoaded, engine, errors, progressEnd, streamEnd>>

Ensure(t) ==
    LET a == resident[ModelOf[t]]
    IN  /\ body[t] = "ensure"
        /\ \/ shutting /\ BodyGoto(t, "failure")
           \/ ~shutting /\ a # NoTask /\ GotEngine(t, a)
           \/ ~shutting /\ a = NoTask /\ BodyGoto(t, "lock")
        /\ UNCHANGED <<schedulerVars, modelVars, controlVars>>

TakeLock(m, x)  == modelLock[m] = NoTask /\ modelLock' = [modelLock EXCEPT ![m] = x]
ReleaseLock(m)  == modelLock' = [modelLock EXCEPT ![m] = NoTask]

\* Mutant of EnsureLocked: the registry is not read again under the lock.
EnsureLockedUnchecked(t) ==
    /\ body[t] = "lock"
    /\ TakeLock(ModelOf[t], t)
    /\ BodyGoto(t, "load")
    /\ UNCHANGED <<resident, loaded, held, schedulerVars, controlVars>>

\* Under the lock of the model the registry is read again.
EnsureLocked(t) ==
    LET m == ModelOf[t]
    IN  /\ body[t] = "lock"
        /\ \/ /\ resident[m] # NoTask
              /\ modelLock[m] = NoTask /\ UNCHANGED modelLock
              /\ GotEngine(t, resident[m])
           \/ /\ resident[m] = NoTask
              /\ TakeLock(m, t)
              /\ BodyGoto(t, "load")
        /\ UNCHANGED <<resident, loaded, held, schedulerVars, controlVars>>

\* The engine factory, which may refuse the provider, and the load.
LoadModel(t) ==
    /\ body[t] = "load"
    /\ \/ /\ FactoryRefuses
          /\ ReleaseLock(ModelOf[t])
          /\ BodyGoto(t, "failure")
          /\ UNCHANGED <<loaded, held>>
       \/ \E ok \in BOOLEAN :
            /\ AdapterLoad(t, ok)
            /\ BodyGoto(t, IF ok THEN "register" ELSE "cleanup")
            /\ UNCHANGED modelLock
    /\ UNCHANGED <<resident, schedulerVars, controlVars>>

\* Mutant of CleanupLoad: the lock is not released on this path.
CleanupKeepsLock(t) ==
    /\ body[t] = "cleanup"
    /\ \E ok \in BOOLEAN : AdapterUnload(t, ok)
    /\ BodyGoto(t, "failure")
    /\ UNCHANGED <<resident, modelLock, schedulerVars, controlVars>>

\* The cleanup of a failed load; its own failure is only logged.
CleanupLoad(t) ==
    /\ body[t] = "cleanup"
    /\ \E ok \in BOOLEAN : AdapterUnload(t, ok)
    /\ ReleaseLock(ModelOf[t])
    /\ BodyGoto(t, "failure")
    /\ UNCHANGED <<resident, schedulerVars, controlVars>>

\* Mutant of RegisterModel: the lock is not released on this path.
RegisterKeepsLock(t) ==
    /\ body[t] = "register"
    /\ resident' = [resident EXCEPT ![ModelOf[t]] = t]
    /\ GotEngine(t, t)
    /\ UNCHANGED <<modelLock, loaded, held, schedulerVars, controlVars>>

RegisterModel(t) ==
    /\ body[t] = "register"
    /\ resident' = [resident EXCEPT ![ModelOf[t]] = t]
    /\ ReleaseLock(ModelOf[t])
    /\ GotEngine(t, t)
    /\ UNCHANGED <<loaded, held, schedulerVars, controlVars>>

\* infer refuses an adapter that is no longer loaded.
Infer(t) ==
    /\ body[t] = "infer"
    /\ BodyGoto(t, IF engine[t] \in loaded THEN "inferring" ELSE "failure")
    /\ UNCHANGED <<schedulerVars, modelVars, controlVars>>

\* The Plugin answers with the text, or the call fails.
InferReturns(t) ==
    /\ body[t] = "inferring"
    /\ \/ engine[t] \in held /\ BodyGoto(t, "success")
       \/ (InvokeFails("infer") \/ engine[t] \notin held) /\ BodyGoto(t, "failure")
    /\ UNCHANGED <<schedulerVars, modelVars, controlVars>>

\* _task after a complete answer: the response sentinel.
Succeed(t) ==
    /\ body[t] = "success"
    /\ streamEnd' = streamEnd \cup {t}
    /\ body' = [body EXCEPT ![t] = "done"]
    /\ UNCHANGED <<stream, wasLoaded, engine, errors, progressEnd>>
    /\ UNCHANGED <<schedulerVars, modelVars, controlVars>>

\* The two parts of the handler in _task: error_holder.append ..
RecordError(t) == errors' = errors \cup {t} /\ UNCHANGED <<progressEnd, streamEnd>>

\* .. and the sentinels.
PutSentinels(t) ==
    /\ progressEnd' = IF wasLoaded[t] THEN progressEnd ELSE progressEnd \cup {t}
    /\ streamEnd' = streamEnd \cup {t}
    /\ UNCHANGED errors

\* Mutant of Fail: the sentinels are put before the error is recorded.
FailEndsFirst(t) ==
    /\ \/ body[t] = "failure" /\ PutSentinels(t) /\ body' = [body EXCEPT ![t] = "ending"]
       \/ body[t] = "ending" /\ RecordError(t) /\ body' = [body EXCEPT ![t] = "done"]
    /\ UNCHANGED <<stream, wasLoaded, engine, schedulerVars, modelVars, controlVars>>

\* Mutant of Fail: a failed request goes back to the queue.
FailRequeues(t) ==
    /\ \/ body[t] = "failure" /\ RecordError(t) /\ body' = [body EXCEPT ![t] = "ending"]
          /\ UNCHANGED queue
       \/ body[t] = "ending" /\ PutSentinels(t) /\ body' = [body EXCEPT ![t] = "done"]
          /\ queue' = queue \cup {t}
    /\ UNCHANGED <<stream, wasLoaded, engine, modelVars, controlVars>>
    /\ UNCHANGED <<stop, caller, future, worker, runs>>

\* _task after an exception.  The consumer, which polls the error and waits for
\* the sentinels, may run between the two.
Fail(t) ==
    /\ \/ body[t] = "failure" /\ RecordError(t) /\ body' = [body EXCEPT ![t] = "ending"]
       \/ body[t] = "ending" /\ PutSentinels(t) /\ body' = [body EXCEPT ![t] = "done"]
    /\ UNCHANGED <<stream, wasLoaded, engine, schedulerVars, modelVars, controlVars>>

TaskStep(t) ==
    \/ Ensure(t) \/ EnsureLocked(t) \/ LoadModel(t) \/ CleanupLoad(t) \/ RegisterModel(t)
    \/ Infer(t) \/ InferReturns(t) \/ Succeed(t) \/ Fail(t)

\* The worker loop around _task.
LoopStep(w) ==
    /\ \/ CheckStop(w) \/ Get(w) \/ GetTimeout(w) \/ Drain(w) \/ DrainGet(w)
       \/ worker[w].pc = "run" /\ body[worker[w].task] = "done" /\ Finish(w)
    /\ UNCHANGED <<requestVars, modelVars, controlVars>>

-----------------------------------------------------------------------------
(* unload_model: a control thread, or the main thread in shutdown *)

UnloaderGoto(u, pc) == unloader' = [unloader EXCEPT ![u].pc = pc]

Unload(u, m) ==
    /\ unloader[u].pc = "idle"
    /\ unloader' = [unloader EXCEPT ![u] = [pc |-> "lock", m |-> m]]

\* The lock of the model, and the registry under it.
UnloadLocked(u) ==
    LET m == unloader[u].m
    IN  /\ unloader[u].pc = "lock"
        /\ \/ /\ resident[m] = NoTask
              /\ modelLock[m] = NoTask /\ UNCHANGED modelLock
              /\ UnloaderGoto(u, "idle")
           \/ /\ resident[m] # NoTask
              /\ TakeLock(m, u)
              /\ UnloaderGoto(u, "unload")
        /\ UNCHANGED <<resident, loaded, held, shutting, shutPc, todo>>
        /\ UNCHANGED <<schedulerVars, requestVars>>

\* engine.unload_model; an error leaves the model registered.
UnloadEngine(u) ==
    LET m == unloader[u].m
    IN  /\ unloader[u].pc = "unload"
        /\ \/ /\ AdapterUnload(resident[m], TRUE)
              /\ UnloaderGoto(u, "unregister")
              /\ UNCHANGED modelLock
           \/ /\ AdapterUnload(resident[m], FALSE)
              /\ UnloaderGoto(u, "idle")
              /\ ReleaseLock(m)
        /\ UNCHANGED <<resident, shutting, shutPc, todo, schedulerVars, requestVars>>

Unregister(u) ==
    LET m == unloader[u].m
    IN  /\ unloader[u].pc = "unregister"
        /\ resident' = [resident EXCEPT ![m] = NoTask]
        /\ ReleaseLock(m)
        /\ UnloaderGoto(u, "idle")
        /\ UNCHANGED <<loaded, held, shutting, shutPc, todo, schedulerVars, requestVars>>

UnloadStep(u) == UnloadLocked(u) \/ UnloadEngine(u) \/ Unregister(u)

\* Control RPC unload_model
ControlUnload(u, m) ==
    /\ Unload(u, m)
    /\ UNCHANGED <<shutting, shutPc, todo, schedulerVars, requestVars, modelVars>>

-----------------------------------------------------------------------------
(* shutdown: the main thread *)

BeginShutdown ==
    /\ shutPc = "up"
    /\ shutting' = TRUE
    /\ shutPc' = "scheduler"
    /\ UNCHANGED <<unloader, todo, schedulerVars, requestVars, modelVars>>

StopScheduler ==
    /\ shutPc = "scheduler"
    /\ Shutdown
    /\ shutPc' = "join"
    /\ UNCHANGED <<unloader, shutting, todo, requestVars, modelVars>>

\* Each join ends after a second whether or not the worker did; then the loaded
\* models are listed once.
ListModels ==
    /\ shutPc = "join"
    /\ todo' = {m \in Models : resident[m] # NoTask}
    /\ shutPc' = "unload"
    /\ UNCHANGED <<unloader, shutting, schedulerVars, requestVars, modelVars>>

UnloadNext ==
    /\ shutPc = "unload"
    /\ \/ \E m \in todo : Unload(Main, m) /\ todo' = todo \ {m} /\ UNCHANGED shutPc
       \/ /\ todo = {} /\ unloader[Main].pc = "idle"
          /\ shutPc' = "stopped"
          /\ UNCHANGED <<unloader, todo>>
    /\ UNCHANGED <<shutting, schedulerVars, requestVars, modelVars>>

ShutdownStep == StopScheduler \/ ListModels \/ UnloadNext

-----------------------------------------------------------------------------

ClientStep(t) == SubmitRequest(t) \/ Progress(t) \/ Respond(t)

ServeStep(w) ==
    \/ StartTask(w)
    \/ LoopStep(w)
    \/ worker[w].pc = "run" /\ TaskStep(worker[w].task)

Next ==
    \/ \E t \in Tasks : Predict(t) \/ ClientStep(t) \/ CloseStream(t)
    \/ \E w \in Workers : ServeStep(w)
    \/ \E u \in Unloaders : UnloadStep(u)
    \/ \E u \in Controllers, m \in Models : ControlUnload(u, m)
    \/ BeginShutdown
    \/ ShutdownStep

Spec == Init /\ [][Next]_vars

\* Threads are scheduled and calls of the Plugin end at their deadline.
Fairness ==
    /\ \A t \in Tasks : WF_vars(ClientStep(t))
    /\ \A w \in Workers : WF_vars(ServeStep(w))
    /\ \A u \in Unloaders : WF_vars(UnloadStep(u))
    /\ WF_vars(ShutdownStep)

FairSpec == Spec /\ Fairness

-----------------------------------------------------------------------------
(* Properties *)

\* A loaded adapter is never out of reach: it is the registered one of its
\* model, or its loader is about to register it under the model's lock.  So no
\* model is loaded twice and no confirmed load is forgotten, however requests,
\* unloads and failed unloads interleave.
LoadedIsOwned ==
    \A a \in loaded :
        resident[ModelOf[a]] = a \/ (body[a] = "register" /\ modelLock[ModelOf[a]] = a)

\* The server uses the scheduler as it is: whatever requests, unloads and the
\* shutdown do, the scheduler sees only its own operations (SchedulerSpec), so
\* what is shown of TaskScheduler holds inside the server.
UsesScheduler == SchedulerSpec

\* A stream that ends without an exception is complete: its task is over, put the
\* response sentinel and recorded no error, neither before nor after the consumer
\* looked, whatever failed, was unloaded or shut down meanwhile.
EndsAreComplete ==
    \A t \in Tasks : /\ t \in streamEnd => body[t] = "done"
                     /\ stream[t] = "ended" => t \in streamEnd \ errors

\* The stream of a request that a worker started comes to its end: both
\* sentinels are put on every path of _task.
StartedStreamsEnd ==
    \A t \in Tasks :
        body[t] # "idle" ~> stream[t] \in {"ended", "failed", "closed"}

\* shutdown returns, although loads and unloads hold the locks it needs.
ShutdownReturns == shutting ~> shutPc = "stopped"

\* Every accepted request is answered ("performs streaming inference, catches
\* stream errors"), also when the server drains.
AcceptedStreamsEnd ==
    \A t \in Tasks :
        caller[t] = "accepted" ~> stream[t] \in {"ended", "failed", "closed"}

\* When shutdown has returned the Plugin holds nothing ("workers joined &
\* models unloaded"), provided that its calls do not fail.
StoppedIsReleased == shutPc = "stopped" => held = {}

\* A failed load leaves nothing at the Plugin once its cleanup ran ("On load
\* failure, immediately invokes engine.unload_model() so the selected Plugin
\* can release its runtime resources").
FailedLoadReleases == \A a \in held : a \in loaded \/ body[a] = "cleanup"

-----------------------------------------------------------------------------
(* The inductive invariant behind LoadedIsOwned *)

Loading == {"load", "cleanup", "register"}

\* The lock of a model is held by the task that loads it or the thread that
\* unloads it, and by nobody else.
LocksAreHeld ==
    /\ \A t \in Tasks : body[t] \in Loading <=> modelLock[ModelOf[t]] = t
    /\ \A u \in Unloaders :
         unloader[u].pc \in {"unload", "unregister"} <=> modelLock[unloader[u].m] = u
    /\ \A m \in Models :
         /\ \A t \in Tasks : modelLock[m] = t => ModelOf[t] = m
         /\ \A u \in Unloaders : modelLock[m] = u => unloader[u].m = m

\* What the holder of the lock knows about the registry and the adapters.
LockedFacts ==
    /\ \A m \in Models : resident[m] # NoTask => ModelOf[resident[m]] = m
    /\ \A t \in Tasks :
         /\ body[t] \in Loading => resident[ModelOf[t]] = NoTask
         /\ body[t] \in {"idle", "ensure", "lock", "load", "cleanup"} => t \notin loaded
    /\ \A u \in Unloaders :
         /\ unloader[u].pc \in {"unload", "unregister"} => resident[unloader[u].m] # NoTask
         /\ unloader[u].pc = "unregister" => resident[unloader[u].m] \notin loaded

\* A request whose function was not called has not begun, and none is cancelled.
BodiesAreTasks ==
    \A t \in Tasks : /\ runs[t] = 0 => body[t] = "idle"
                     /\ future[t] # "cancelled"

\* The inductive invariant of the server: the per-model locks are held by exactly
\* the calls inside their critical sections, what such a call has checked stays
\* true until it leaves, and with it LoadedIsOwned.
ServerInv ==
    /\ TypeOK
    /\ SchedulerInv
    /\ BodiesAreTasks
    /\ LocksAreHeld
    /\ LockedFacts
    /\ LoadedIsOwned
=============================================================================
