---------------------------- MODULE WorkerService ----------------------------
(***************************************************************************)
(* The serving process around InferenceServer: the RPCs of grpc_servicer.py*)
(* and grpc_servicer_async.py, the thread bridge of async_stream_predict   *)
(* and async_unload_model (core/server.py), and the life of the process    *)
(* (main.py).                                                              *)
(*                                                                         *)
(* A request of InferenceServer is a StreamPredict call and a controller   *)
(* is a Control call that unloads a model.  Their blocking part is a job   *)
(* of one thread pool: the handlers' pool of the synchronous server, the   *)
(* event loop's default executor of the asynchronous one.  The gRPC        *)
(* library, clients and the interpreter's exit are external.               *)
(***************************************************************************)
EXTENDS InferenceServer, Sequences, SequencesExt

CONSTANTS Fronts,    \* the servicers to consider, of "sync" and "async"
          PoolSize,  \* threads of the pool
          Impatient  \* the StreamPredict calls whose client may leave

ASSUME WorkerAssumption ==
    /\ Fronts \subseteq {"sync", "async"} /\ Fronts # {}
    /\ PoolSize \in Nat \ {0}
    /\ Impatient \subseteq Tasks

VARIABLES
    front,      \* the servicer the process runs
    registry,   \* _config.model_registry: the models it knows
    rpc,        \* per StreamPredict call: what its client sees
    control,    \* per Control call: what its client sees
    jobs,       \* the jobs that wait for a thread, first come first served
    running,    \* the jobs that have a thread
    bridgeErr,  \* async: calls whose error_holder is not empty
    bridgeEnd,  \* async: calls whose sentinel _sync_generate has put
    process     \* where _serve_forever (main) or run_async_server stands

rpcVars     == <<rpc, control, jobs, running, bridgeErr, bridgeEnd>>
processVars == <<front, registry, process>>
workerVars  == <<vars, rpcVars, processVars>>

Jobs     == Tasks \cup Controllers
RpcState == {"idle", "queued", "open", "ok", "rejected", "error", "gone"}
Waiting  == {"queued", "open"}
ProcPcs  == {"serving", "stopping", "exiting", "exited"}

\* The calls, the pool and the process have their shape, and the pool never has
\* more jobs in execution than threads.
WorkerTypeOK ==
    /\ front \in Fronts
    /\ registry \subseteq Models
    /\ rpc \in [Tasks -> RpcState]
    /\ control \in [Controllers -> RpcState]
    /\ jobs \in Seq(Jobs)
    /\ running \subseteq Jobs /\ IsFiniteSet(running) /\ Cardinality(running) <= PoolSize
    /\ bridgeErr \subseteq Tasks /\ bridgeEnd \subseteq Tasks
    /\ process \in ProcPcs

WorkerInit ==
    /\ Init
    /\ front \in Fronts
    /\ registry = Models
    /\ rpc = [t \in Tasks |-> "idle"]
    /\ control = [u \in Controllers |-> "idle"]
    /\ jobs = <<>>
    /\ running = {}
    /\ bridgeErr = {} /\ bridgeEnd = {}
    /\ process = "serving"

RpcGoto(t, s)     == rpc' = [rpc EXCEPT ![t] = s]
ControlGoto(u, s) == control' = [control EXCEPT ![u] = s]
ThreadFree(j)     == running' = running \ {j}

-----------------------------------------------------------------------------
(* Calls and their jobs *)

\* A StreamPredict call arrives.  The synchronous server hands it to its pool at
\* once; the coroutine of the asynchronous one looks the model up first.
StreamPredict(t) ==
    /\ rpc[t] = "idle" /\ process = "serving"
    /\ \/ /\ front = "sync"
          /\ RpcGoto(t, "queued")
          /\ jobs' = Append(jobs, t)
       \/ /\ front = "async" /\ ModelOf[t] \in registry
          /\ RpcGoto(t, "open")
          /\ jobs' = Append(jobs, t)
       \/ /\ front = "async"
          /\ RpcGoto(t, "rejected")
          /\ UNCHANGED jobs
    /\ UNCHANGED <<control, running, bridgeErr, bridgeEnd, vars, processVars>>

\* Control with the command unload_model: unload_model in the handler's thread,
\* or async_unload_model in the executor.
Control(u) ==
    /\ control[u] = "idle" /\ process = "serving"
    /\ ControlGoto(u, "queued")
    /\ jobs' = Append(jobs, u)
    /\ UNCHANGED <<rpc, running, bridgeErr, bridgeEnd, vars, processVars>>

\* A call that unloads nothing: no token, no model_id, or another command.  The
\* synchronous server needs a thread of the pool for it as well.
ControlAnswered(u) ==
    /\ \/ front = "async" /\ control[u] = "idle" /\ process = "serving" /\ UNCHANGED running
       \/ front = "sync" /\ u \in running /\ unloader[u].pc = "idle" /\ ThreadFree(u)
    /\ ControlGoto(u, "rejected")
    /\ UNCHANGED <<rpc, jobs, bridgeErr, bridgeEnd, vars, processVars>>

\* Control with the command reload_registry; a file that cannot be loaded changes
\* nothing.  Only the asynchronous servicer has it.
ReloadRegistry ==
    /\ front = "async" /\ process = "serving"
    /\ registry' \in SUBSET Models
    /\ UNCHANGED <<front, process, vars, rpcVars>>

\* Mutant of TakeJob: the pool has no bound.
TakeJobUnbounded ==
    /\ jobs # <<>>
    /\ running' = running \cup {Head(jobs)}
    /\ jobs' = Tail(jobs)
    /\ UNCHANGED <<rpc, control, bridgeErr, bridgeEnd, vars, processVars>>

\* Mutant of TakeJob: a job that finds no free thread is discarded.
TakeJobOrDrop ==
    /\ jobs # <<>>
    /\ running' = IF Cardinality(running) < PoolSize THEN running \cup {Head(jobs)} ELSE running
    /\ jobs' = Tail(jobs)
    /\ UNCHANGED <<rpc, control, bridgeErr, bridgeEnd, vars, processVars>>

\* A thread takes the oldest job.
TakeJob ==
    /\ jobs # <<>> /\ Cardinality(running) < PoolSize
    /\ running' = running \cup {Head(jobs)}
    /\ jobs' = Tail(jobs)
    /\ UNCHANGED <<rpc, control, bridgeErr, bridgeEnd, vars, processVars>>

-----------------------------------------------------------------------------
(* The job of a stream *)

\* Mutant of BeginHandler: the handler of a refused call does not return.
BeginHandlerHangs(t) ==
    /\ front = "sync" /\ t \in running
    /\ \/ rpc[t] = "queued" /\ ModelOf[t] \in registry /\ RpcGoto(t, "open")
       \/ rpc[t] = "queued" /\ RpcGoto(t, "rejected")
    /\ UNCHANGED running
    /\ UNCHANGED <<control, jobs, bridgeErr, bridgeEnd, vars, processVars>>

\* The synchronous handler: its token, first request, prompt and model are
\* checked; a call whose client left has no first request.
BeginHandler(t) ==
    /\ front = "sync" /\ t \in running
    /\ \/ /\ rpc[t] = "queued" /\ ModelOf[t] \in registry
          /\ RpcGoto(t, "open") /\ UNCHANGED running
       \/ /\ rpc[t] = "queued"
          /\ RpcGoto(t, "rejected") /\ ThreadFree(t)
       \/ /\ rpc[t] = "gone" /\ stream[t] = "idle"
          /\ UNCHANGED rpc /\ ThreadFree(t)
    /\ UNCHANGED <<control, jobs, bridgeErr, bridgeEnd, vars, processVars>>

\* The thread runs the generator stream_predict.
Generate(t) ==
    /\ t \in running
    /\ front = "sync" /\ stream[t] = "idle" => rpc[t] = "open"
    /\ Predict(t) \/ ClientStep(t)
    /\ UNCHANGED <<rpcVars, processVars>>

Ended(t)  == stream[t] = "ended"
Raised(t) == stream[t] \in {"failed", "refused"}

\* The last response with end_of_stream, or the abort with a status.
Outcome(failed) == IF failed THEN "error" ELSE "ok"

\* The generator has ended or raised: the handler answers and returns.
EndHandler(t) ==
    /\ front = "sync" /\ t \in running
    /\ Ended(t) \/ Raised(t)
    /\ IF rpc[t] = "gone" THEN UNCHANGED rpc ELSE RpcGoto(t, Outcome(Raised(t)))
    /\ ThreadFree(t)
    /\ UNCHANGED <<control, jobs, bridgeErr, bridgeEnd, vars, processVars>>

\* Mutant of CloseHandler: the queued task is withdrawn behind the scheduler's back.
CloseHandlerWithdraws(t) ==
    /\ front = "sync" /\ t \in running /\ rpc[t] = "gone"
    /\ stream[t] \in {"progress", "response"}
    /\ stream' = [stream EXCEPT ![t] = "closed"]
    /\ queue' = queue \ {t}
    /\ UNCHANGED <<stop, caller, future, worker, runs, wasLoaded, body, engine, errors>>
    /\ UNCHANGED <<progressEnd, streamEnd, modelVars, controlVars>>
    /\ ThreadFree(t)
    /\ UNCHANGED <<rpc, control, jobs, bridgeErr, bridgeEnd, processVars>>

\* Mutant of CloseHandler: the thread is not given back.
CloseHandlerHangs(t) ==
    /\ front = "sync" /\ t \in running /\ rpc[t] = "gone"
    /\ CloseStream(t)
    /\ UNCHANGED <<rpcVars, processVars>>

\* A chunk finds its client gone: gRPC closes the generator.
CloseHandler(t) ==
    /\ front = "sync" /\ t \in running /\ rpc[t] = "gone"
    /\ CloseStream(t)
    /\ ThreadFree(t)
    /\ UNCHANGED <<rpc, control, jobs, bridgeErr, bridgeEnd, processVars>>

\* _sync_generate: the error is kept ..
NoteError(t) ==
    /\ front = "async" /\ t \in running
    /\ Raised(t) /\ t \notin bridgeErr
    /\ bridgeErr' = bridgeErr \cup {t}
    /\ UNCHANGED <<rpc, control, jobs, running, bridgeEnd, vars, processVars>>

\* Mutant of PutEnd: the sentinel is put before the error is kept.
PutEndFirst(t) ==
    /\ front = "async" /\ t \in running
    /\ Ended(t) \/ Raised(t)
    /\ t \notin bridgeEnd
    /\ bridgeEnd' = bridgeEnd \cup {t}
    /\ IF Ended(t) THEN ThreadFree(t) ELSE UNCHANGED running
    /\ UNCHANGED <<rpc, control, jobs, bridgeErr, vars, processVars>>

\* .. and then the sentinel is put, also when the client has left.
PutEnd(t) ==
    /\ front = "async" /\ t \in running
    /\ Ended(t) \/ t \in bridgeErr
    /\ bridgeEnd' = bridgeEnd \cup {t}
    /\ ThreadFree(t)
    /\ UNCHANGED <<rpc, control, jobs, bridgeErr, vars, processVars>>

\* The coroutine's poll finds the sentinel and looks for an error.
AnswerAsync(t) ==
    /\ front = "async" /\ rpc[t] = "open"
    /\ t \in bridgeEnd
    /\ RpcGoto(t, Outcome(t \in bridgeErr))
    /\ UNCHANGED <<control, jobs, running, bridgeErr, bridgeEnd, vars, processVars>>

\* The client cancels, or the server aborts the call after the grace period.
\* Neither reaches a thread that waits, nor the coroutine's executor job.
LoseClient(t) ==
    /\ t \in Impatient
    /\ rpc[t] \in Waiting
    /\ RpcGoto(t, "gone")
    /\ UNCHANGED <<control, jobs, running, bridgeErr, bridgeEnd, vars, processVars>>

-----------------------------------------------------------------------------
(* The job of an unload *)

\* The thread calls unload_model.  A call whose client left before its job began
\* is dropped with it; one whose client leaves later is served all the same.
BeginUnload(u) ==
    /\ u \in running /\ unloader[u].pc = "idle"
    /\ \/ /\ \E m \in Models : ControlUnload(u, m)
          /\ UNCHANGED <<control, running>>
       \/ /\ ControlGoto(u, "gone")
          /\ ThreadFree(u)
          /\ UNCHANGED vars
    /\ UNCHANGED <<rpc, jobs, bridgeErr, bridgeEnd, processVars>>

\* unload_model to its end; it raises when the Plugin does not confirm the unload.
UnloadJob(u) ==
    LET returns == unloader'[u].pc = "idle"
        raises  == returns /\ unloader[u].pc = "unload"
    IN  /\ u \in running
        /\ UnloadStep(u)
        /\ control' = IF returns
                      THEN [control EXCEPT ![u] = Outcome(raises)]
                      ELSE control
        /\ IF returns THEN ThreadFree(u) ELSE UNCHANGED running
        /\ UNCHANGED <<rpc, jobs, bridgeErr, bridgeEnd, processVars>>

-----------------------------------------------------------------------------
(* The process (main.py), which runs the synchronous server *)

ProcessGoto(s) == process' = s /\ UNCHANGED <<front, registry, vars, rpcVars>>

\* SIGINT or SIGTERM: grpc_server.stop(grace=5) admits no further call, and its
\* end is not awaited.
Signal == front = "sync" /\ process = "serving" /\ ProcessGoto("stopping")

ServerShutdown ==
    /\ process = "stopping"
    /\ BeginShutdown \/ ShutdownStep \/ UnloadStep(Main)
    /\ UNCHANGED <<rpcVars, processVars>>

\* main() returns ..
LeaveMain == process = "stopping" /\ shutPc = "stopped" /\ ProcessGoto("exiting")

\* .. and the interpreter joins the threads of the pool, which empty their queue.
Exit == process = "exiting" /\ running = {} /\ jobs = <<>> /\ ProcessGoto("exited")

-----------------------------------------------------------------------------

StreamJob(t) ==
    \/ BeginHandler(t) \/ Generate(t) \/ EndHandler(t)
    \/ NoteError(t) \/ PutEnd(t) \/ AnswerAsync(t)

UnloadCall(u) == BeginUnload(u) \/ UnloadJob(u)

\* The scheduler's threads are daemons and end with the process.
SchedulerThread(w) ==
    process # "exited" /\ ServeStep(w) /\ UNCHANGED <<rpcVars, processVars>>

WorkerNext ==
    \/ \E t \in Tasks : StreamPredict(t) \/ StreamJob(t) \/ CloseHandler(t) \/ LoseClient(t)
    \/ \E u \in Controllers : Control(u) \/ ControlAnswered(u) \/ UnloadCall(u)
    \/ \E w \in Workers : SchedulerThread(w)
    \/ TakeJob
    \/ ReloadRegistry
    \/ Signal \/ ServerShutdown \/ LeaveMain \/ Exit

WorkerSpec == WorkerInit /\ [][WorkerNext]_workerVars

\* Threads are scheduled, the event loop polls, and calls of the Plugin end at
\* their deadline.  Clients and signals owe nothing.
WorkerFairness ==
    /\ \A t \in Tasks : WF_workerVars(StreamJob(t))
    /\ \A u \in Controllers : WF_workerVars(UnloadCall(u))
    /\ \A w \in Workers : WF_workerVars(SchedulerThread(w))
    /\ WF_workerVars(TakeJob)
    /\ WF_workerVars(ServerShutdown)
    /\ WF_workerVars(LeaveMain)
    /\ WF_workerVars(Exit)

WorkerFairSpec == WorkerSpec /\ WorkerFairness

-----------------------------------------------------------------------------
(* Properties *)

\* The process uses the inference server as it is: calls, cancellations, the
\* thread pool and the shutdown reach it through its own operations only, so
\* what is shown of InferenceServer holds inside the process.
UsesServer == Spec

\* A client that got the response with end_of_stream and status OK got the whole
\* answer: the worker finished its task and no error was recorded, through two
\* queues, the bridge of the asynchronous server and the handler's thread.
OkIsComplete ==
    \A t \in Tasks :
        rpc[t] = "ok" => /\ stream[t] = "ended"
                         /\ t \notin errors
                         /\ body[t] = "done"

\* A call that still waits has a job that waits, a job that runs, or a sentinel
\* its coroutine will find: no cancellation, refusal or error of another call
\* takes it away.
WaitingIsServed ==
    /\ \A t \in Tasks : rpc[t] \in Waiting => t \in running \cup ToSet(jobs) \cup bridgeEnd
    /\ \A u \in Controllers : control[u] = "queued" => u \in running \cup ToSet(jobs)

\* The sentinel of the bridge follows the end of the generator or its error, and OK
\* is said of a generator that has ended.
AnswersAreTrue ==
    \A t \in Tasks : /\ t \in bridgeEnd => Ended(t) \/ t \in bridgeErr
                     /\ rpc[t] = "ok" => Ended(t)

\* The inductive invariant of the serving process: the pool, who serves a waiting
\* call, and what the bridge and the answers say of the generators.
ServiceInv == WorkerTypeOK /\ WaitingIsServed /\ AnswersAreTrue

Unanswered ==
    \/ \E t \in Tasks : rpc[t] \in Waiting
    \/ \E u \in Controllers : control[u] = "queued"

\* The calls are answered while the process serves, although streams hold the
\* pool's threads until the scheduler's workers have served them and unloads wait
\* behind them: again and again there is a moment at which no call waits (every
\* call of the model comes once, so each of them is answered).
CallsAreAnswered == []<>(~Unanswered \/ process # "serving")

\* A handler's thread that waits for a request which the scheduler will never run:
\* it was drained, or it came to the queue when the last worker had left.
Stranded(t) ==
    /\ t \in running /\ stream[t] \in {"progress", "response"}
    /\ \/ future[t] = "dropped"
       \/ t \in queue /\ \A w \in Workers : worker[w].pc = "exited"

\* After a signal the process ends, unless a request is stranded for good: nothing
\* else (cancelled clients, failed unloads, full pools, loads under way) keeps it.
ExitsUnlessStranded ==
    <>(process = "stopping") => \/ <>(process = "exited")
                                \/ <>[](\E t \in Tasks : Stranded(t))

\* After a signal the process ends ("Ctrl+C" to leave).
ProcessExits == process = "stopping" ~> process = "exited"
=============================================================================
