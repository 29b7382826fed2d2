------------------------- MODULE WorkerServiceProofs -------------------------
(***************************************************************************)
(* The worker from the inside out, for any number of requests, workers,    *)
(* models, control threads and pool threads, whatever calls of the Plugin  *)
(* fail: TaskScheduler, InferenceServer on top of it, and the serving      *)
(* process of WorkerService around both.  Each layer uses the one below    *)
(* through its own operations only, so what is proved of a layer holds     *)
(* inside the next.                                                        *)
(***************************************************************************)
EXTENDS WorkerService, FiniteSetTheorems, TLAPS

-----------------------------------------------------------------------------
(* TaskScheduler.  RunsOnce and NoTaskLost are not inductive by themselves:  *)
(* TaskOwnership adds that a task is in one place only (its submitter, the   *)
(* queue, or one worker) and which states its future may have there.         *)

\* A scheduler whose workers have just started.
LEMMA SchedulerInitInv == SchedulerInit => SchedulerInv
<1> SUFFICES ASSUME SchedulerInit PROVE SchedulerInv
  OBVIOUS
<1>1. IsFiniteSet({}) /\ Cardinality({}) = 0
  BY FS_EmptySet
<1>2. SchedulerTypeOK
  <2>1. queue \subseteq Tasks /\ IsFiniteSet(queue) /\ Cardinality(queue) <= QueueSize
    BY <1>1, SchedulerAssumption DEF SchedulerInit
  <2>2. worker \in [Workers -> [pc : WorkerPcs, task : Tasks \cup {NoTask}]]
    BY DEF SchedulerInit, WorkerPcs
  <2>3. /\ stop \in BOOLEAN /\ caller \in [Tasks -> CallerPcs]
        /\ future \in [Tasks -> FutureState] /\ runs \in [Tasks -> Nat]
    BY DEF SchedulerInit, CallerPcs, FutureState
  <2> QED
    BY <2>1, <2>2, <2>3 DEF SchedulerTypeOK
<1>3. TaskOwnership
  BY SchedulerAssumption DEF SchedulerInit, TaskOwnership
<1>4. RunsOnce /\ NoTaskLost
  BY DEF SchedulerInit, RunsOnce, NoTaskLost
<1> QED
  BY <1>2, <1>3, <1>4 DEF SchedulerInv

\* The queue stays finite and within its capacity.
LEMMA QueueBound ==
  ASSUME SchedulerTypeOK, NEW t \in Tasks
  PROVE  /\ IsFiniteSet(queue \ {t}) /\ Cardinality(queue \ {t}) <= QueueSize
         /\ Cardinality(queue) < QueueSize =>
              IsFiniteSet(queue \cup {t}) /\ Cardinality(queue \cup {t}) <= QueueSize
<1>1. IsFiniteSet(queue) /\ Cardinality(queue) \in Nat /\ Cardinality(queue) <= QueueSize
  BY FS_CardinalityType DEF SchedulerTypeOK
<1>2. /\ IsFiniteSet(queue \ {t})
      /\ Cardinality(queue \ {t}) = IF t \in queue THEN Cardinality(queue) - 1 ELSE Cardinality(queue)
  BY <1>1, FS_RemoveElement
<1>3. /\ IsFiniteSet(queue \cup {t})
      /\ Cardinality(queue \cup {t}) = IF t \in queue THEN Cardinality(queue) ELSE Cardinality(queue) + 1
  BY <1>1, FS_AddElement
<1> QED
  BY <1>1, <1>2, <1>3, SchedulerAssumption

\* submit, the callers' side.
LEMMA SubmitInv ==
  ASSUME SchedulerInv, NEW t \in Tasks, SubmitStep(t)
  PROVE  SchedulerInv'
<1> USE DEF SchedulerInv
<1>1. CASE Submit(t)
  BY <1>1 DEF Submit, SchedulerTypeOK, TaskOwnership, RunsOnce, NoTaskLost, CallerPcs
<1>2. CASE Put(t)
  <2>1. SchedulerTypeOK'
    BY <1>2, QueueBound DEF Put, SchedulerTypeOK, CallerPcs
  <2>0. \A w \in Workers : worker[w].task # t
    BY <1>2, SchedulerAssumption DEF Put, SchedulerTypeOK, TaskOwnership, WorkerPcs
  <2>2. TaskOwnership'
    BY <1>2, <2>0 DEF Put, SchedulerTypeOK, TaskOwnership
  <2>3. RunsOnce' /\ NoTaskLost'
    BY <1>2 DEF Put, SchedulerTypeOK, RunsOnce, NoTaskLost
  <2> QED
    BY <2>1, <2>2, <2>3
<1>3. CASE PutTimeout(t)
  BY <1>3 DEF PutTimeout, SchedulerTypeOK, TaskOwnership, RunsOnce, NoTaskLost, CallerPcs
<1>4. CASE Cancel(t)
  <2>1. SchedulerTypeOK'
    BY <1>4 DEF Cancel, SchedulerTypeOK, FutureState
  <2>2. TaskOwnership'
    BY <1>4 DEF Cancel, SchedulerTypeOK, TaskOwnership
  <2>3. RunsOnce' /\ NoTaskLost'
    BY <1>4 DEF Cancel, SchedulerTypeOK, TaskOwnership, RunsOnce, NoTaskLost
  <2> QED
    BY <2>1, <2>2, <2>3
<1> QED
  BY <1>1, <1>2, <1>3, <1>4 DEF SubmitStep

\* The steps of _worker_loop.
LEMMA WorkerInv ==
  ASSUME SchedulerInv, NEW w \in Workers, WorkerStep(w)
  PROVE  SchedulerInv'
<1> USE DEF SchedulerInv, Goto
<1>1. CASE CheckStop(w)
  <2>1. SchedulerTypeOK'
    BY <1>1 DEF CheckStop, SchedulerTypeOK, WorkerPcs
  <2>2. TaskOwnership'
    BY <1>1, SchedulerAssumption DEF CheckStop, SchedulerTypeOK, TaskOwnership
  <2>3. RunsOnce' /\ NoTaskLost'
    BY <1>1 DEF CheckStop, SchedulerTypeOK, RunsOnce, NoTaskLost
  <2> QED
    BY <2>1, <2>2, <2>3
<1>2. CASE Get(w)
  <2> PICK t \in queue : /\ queue' = queue \ {t}
                         /\ worker' = [worker EXCEPT ![w] = [pc |-> "got", task |-> t]]
    BY <1>2 DEF Get
  <2> UNCHANGED <<stop, caller, future, runs>> /\ worker[w].pc = "get"
    BY <1>2 DEF Get
  <2>0. t \in Tasks /\ t # NoTask
    BY SchedulerAssumption DEF SchedulerTypeOK
  <2>1. SchedulerTypeOK'
    BY <2>0, QueueBound DEF SchedulerTypeOK, WorkerPcs
  <2>2. TaskOwnership'
    BY <2>0 DEF SchedulerTypeOK, TaskOwnership
  <2>3. RunsOnce' /\ NoTaskLost'
    BY <2>0 DEF SchedulerTypeOK, TaskOwnership, RunsOnce, NoTaskLost
  <2> QED
    BY <2>1, <2>2, <2>3
<1>3. CASE GetTimeout(w)
  <2>1. SchedulerTypeOK'
    BY <1>3 DEF GetTimeout, SchedulerTypeOK, WorkerPcs
  <2>2. TaskOwnership'
    BY <1>3, SchedulerAssumption DEF GetTimeout, SchedulerTypeOK, TaskOwnership
  <2>3. RunsOnce' /\ NoTaskLost'
    BY <1>3 DEF GetTimeout, SchedulerTypeOK, RunsOnce, NoTaskLost
  <2> QED
    BY <2>1, <2>2, <2>3
<1>4. CASE Run(w)
  <2>0. worker[w].pc = "got" /\ worker[w].task \in Tasks
    BY <1>4, SchedulerAssumption DEF Run, SchedulerTypeOK, TaskOwnership
  <2>1. SchedulerTypeOK'
    BY <1>4, <2>0 DEF Run, SchedulerTypeOK, FutureState, WorkerPcs
  <2>2. TaskOwnership'
    BY <1>4, <2>0, SchedulerAssumption, SMTT(60) DEF Run, SchedulerTypeOK, TaskOwnership
  <2>3. RunsOnce' /\ NoTaskLost'
    BY <1>4, <2>0, SMTT(60) DEF Run, SchedulerTypeOK, TaskOwnership, RunsOnce, NoTaskLost
  <2> QED
    BY <2>1, <2>2, <2>3
<1>5. CASE Finish(w)
  <2>0. worker[w].pc = "run" /\ worker[w].task \in Tasks
    BY <1>5, SchedulerAssumption DEF Finish, SchedulerTypeOK, TaskOwnership
  <2>1. SchedulerTypeOK'
    BY <1>5, <2>0 DEF Finish, SchedulerTypeOK, FutureState, WorkerPcs
  <2>2. TaskOwnership'
    BY <1>5, <2>0, SchedulerAssumption DEF Finish, SchedulerTypeOK, TaskOwnership
  <2>3. RunsOnce' /\ NoTaskLost'
    BY <1>5, <2>0 DEF Finish, SchedulerTypeOK, TaskOwnership, RunsOnce, NoTaskLost
  <2> QED
    BY <2>1, <2>2, <2>3
<1>6. CASE Drain(w)
  <2>1. SchedulerTypeOK'
    BY <1>6 DEF Drain, SchedulerTypeOK, WorkerPcs
  <2>2. TaskOwnership'
    BY <1>6, SchedulerAssumption DEF Drain, SchedulerTypeOK, TaskOwnership
  <2>3. RunsOnce' /\ NoTaskLost'
    BY <1>6 DEF Drain, SchedulerTypeOK, RunsOnce, NoTaskLost
  <2> QED
    BY <2>1, <2>2, <2>3
<1>7. CASE DrainGet(w)
  <2> PICK t \in queue :
         /\ queue' = queue \ {t}
         /\ future' = [future EXCEPT ![t] = IF @ = "cancelled" THEN @ ELSE "dropped"]
    BY <1>7 DEF DrainGet
  <2> /\ UNCHANGED <<stop, caller, runs>> /\ worker[w].pc = "drainGet"
      /\ worker' = [worker EXCEPT ![w] = [pc |-> "drain", task |-> NoTask]]
    BY <1>7 DEF DrainGet
  <2>0. t \in Tasks
    BY DEF SchedulerTypeOK
  <2>1. SchedulerTypeOK'
    BY <2>0, QueueBound DEF SchedulerTypeOK, FutureState, WorkerPcs
  <2>2. TaskOwnership'
    BY <2>0, SchedulerAssumption DEF SchedulerTypeOK, TaskOwnership
  <2>3. RunsOnce' /\ NoTaskLost'
    BY <2>0 DEF SchedulerTypeOK, TaskOwnership, RunsOnce, NoTaskLost
  <2> QED
    BY <2>1, <2>2, <2>3
<1> QED
  BY <1>1, <1>2, <1>3, <1>4, <1>5, <1>6, <1>7 DEF WorkerStep

\* The scheduler's invariant is inductive.
LEMMA SchedulerNextInv ==
  ASSUME SchedulerInv, [SchedulerNext]_schedulerVars
  PROVE  SchedulerInv'
<1>1. CASE \E t \in Tasks : SubmitStep(t)
  BY <1>1, SubmitInv
<1>2. CASE \E w \in Workers : WorkerStep(w)
  BY <1>2, WorkerInv
<1>3. CASE Shutdown
  BY <1>3 DEF Shutdown, SchedulerInv, SchedulerTypeOK, TaskOwnership, RunsOnce, NoTaskLost
<1>4. CASE UNCHANGED schedulerVars
  BY <1>4 DEF schedulerVars, SchedulerInv, SchedulerTypeOK, TaskOwnership, RunsOnce, NoTaskLost
<1> QED
  BY <1>1, <1>2, <1>3, <1>4 DEF SchedulerNext

\* The inductive invariant holds in every state of the scheduler.
THEOREM SchedulerInvariant == SchedulerSpec => []SchedulerInv
  BY SchedulerInitInv, SchedulerNextInv, PTL DEF SchedulerSpec

\* For any number of submitters and workers, submit's tasks run at most once,
\* and never for a caller that was refused or cancelled in time.
THEOREM TasksRunOnce == SchedulerSpec => []RunsOnce
<1>1. SchedulerInv => RunsOnce
  BY DEF SchedulerInv
<1> QED
  BY <1>1, SchedulerInvariant, PTL

\* For any number of submitters and workers, _worker_loop loses no accepted task.
THEOREM TasksAreKept == SchedulerSpec => []NoTaskLost
<1>1. SchedulerInv => NoTaskLost
  BY DEF SchedulerInv
<1> QED
  BY <1>1, SchedulerInvariant, PTL

-----------------------------------------------------------------------------
(* InferenceServer: it runs the scheduler unchanged, and never loses or      *)
(* doubles a confirmed load.                                                 *)

\* Every step of the server is a step of the scheduler or leaves it alone.
LEMMA StepRefines == ASSUME [Next]_vars PROVE [SchedulerNext]_schedulerVars
<1>1. CASE \E t \in Tasks : Predict(t) \/ ClientStep(t) \/ CloseStream(t)
  <2> PICK t \in Tasks : Predict(t) \/ ClientStep(t) \/ CloseStream(t)
    BY <1>1
  <2>1. CASE SubmitRequest(t)
    BY <2>1 DEF SubmitRequest, SchedulerNext, SubmitStep
  <2>2. CASE Predict(t) \/ Progress(t) \/ Respond(t) \/ CloseStream(t)
    BY <2>2 DEF Predict, Progress, Respond, CloseStream
  <2> QED
    BY <2>1, <2>2 DEF ClientStep
<1>2. CASE \E w \in Workers : ServeStep(w)
  <2> PICK w \in Workers : ServeStep(w)
    BY <1>2
  <2>1. CASE StartTask(w)
    BY <2>1 DEF StartTask, SchedulerNext, WorkerStep
  <2>2. CASE LoopStep(w)
    BY <2>2 DEF LoopStep, SchedulerNext, WorkerStep
  <2>3. CASE TaskStep(worker[w].task)
    BY <2>3 DEF TaskStep, Ensure, EnsureLocked, LoadModel, CleanupLoad, RegisterModel, Infer,
                InferReturns, Succeed, Fail
  <2> QED
    BY <2>1, <2>2, <2>3 DEF ServeStep
<1>3. CASE \E u \in Unloaders : UnloadStep(u)
  BY <1>3 DEF UnloadStep, UnloadLocked, UnloadEngine, Unregister
<1>4. CASE \E u \in Controllers, m \in Models : ControlUnload(u, m)
  BY <1>4 DEF ControlUnload
<1>5. CASE BeginShutdown
  BY <1>5 DEF BeginShutdown
<1>6. CASE ShutdownStep
  BY <1>6 DEF ShutdownStep, StopScheduler, ListModels, UnloadNext, SchedulerNext
<1>7. CASE UNCHANGED vars
  BY <1>7 DEF vars
<1> QED
  BY <1>1, <1>2, <1>3, <1>4, <1>5, <1>6, <1>7 DEF Next

\* Whatever stream_predict, unload_model and shutdown do, the TaskScheduler
\* sees only its own operations.
THEOREM SchedulerIsUsed == Spec => UsesScheduler
<1>1. Init => SchedulerInit
  BY DEF Init
<1> QED
  BY <1>1, StepRefines, PTL DEF Spec, SchedulerSpec, UsesScheduler

\* A request is executed at most once, and never after its refusal.
THEOREM RequestsRunOnce == Spec => []RunsOnce
  BY SchedulerIsUsed, TasksRunOnce, PTL DEF UsesScheduler

-----------------------------------------------------------------------------
(* ServerInv is inductive *)

\* A server that has accepted nothing.
LEMMA ServerInitInv == Init => ServerInv
<1> SUFFICES ASSUME Init PROVE ServerInv
  OBVIOUS
<1>1. SchedulerInv
  BY SchedulerInitInv DEF Init
<1>2. (CHOOSE m \in Models : TRUE) \in Models
  BY ServerAssumption
<1>3. TypeOK
  BY <1>1, <1>2 DEF Init, TypeOK, SchedulerInv, StreamPcs, BodyPcs, Unloaders
<1>4. LocksAreHeld
  BY <1>2, ServerAssumption, SchedulerAssumption DEF Init, LocksAreHeld, Loading, Unloaders
<1>5. BodiesAreTasks /\ LockedFacts /\ LoadedIsOwned
  BY DEF Init, SchedulerInit, BodiesAreTasks, LockedFacts, LoadedIsOwned, Loading
<1> QED
  BY <1>1, <1>3, <1>4, <1>5 DEF ServerInv

\* Thread names, requests and NoTask are different things.
LEMMA Distinct ==
  /\ NoTask \notin Tasks /\ NoTask \notin Unloaders
  /\ \A u \in Unloaders : u \notin Tasks
  /\ \A t \in Tasks : ModelOf[t] \in Models
  BY ServerAssumption, SchedulerAssumption DEF Unloaders

\* Steps that leave the bodies, the locks, the registry and the adapters alone.
LEMMA ModelPartKept ==
  ASSUME ServerInv, SchedulerInv', TypeOK', UNCHANGED <<body, modelVars, unloader>>,
         BodiesAreTasks'
  PROVE  ServerInv'
  BY DEF ServerInv, LocksAreHeld, LockedFacts, LoadedIsOwned, modelVars

\* The streams of the callers leave the engines alone.
LEMMA ClientInv ==
  ASSUME ServerInv, SchedulerInv', NEW t \in Tasks, Predict(t) \/ ClientStep(t) \/ CloseStream(t)
  PROVE  ServerInv'
<1>1. SchedulerTypeOK /\ SchedulerTypeOK'
  BY DEF ServerInv, SchedulerInv
<1>2. CASE SubmitRequest(t)
  <2>1. TypeOK'
    BY <1>1, <1>2 DEF SubmitRequest, ServerInv, TypeOK, StreamPcs, modelVars, controlVars
  <2>2. UNCHANGED <<body, modelVars, unloader, runs, future>>
    BY <1>2 DEF SubmitRequest, controlVars, Submit, Put, PutTimeout
  <2> QED
    BY <2>1, <2>2, ModelPartKept DEF BodiesAreTasks, ServerInv
<1>3. CASE Predict(t) \/ Progress(t) \/ Respond(t) \/ CloseStream(t)
  <2>1. TypeOK'
    BY <1>1, <1>3 DEF Predict, Progress, Respond, CloseStream, ServerInv, TypeOK, StreamPcs,
                      modelVars, controlVars
  <2>2. UNCHANGED <<body, modelVars, unloader, runs, future>>
    BY <1>3 DEF Predict, Progress, Respond, CloseStream, controlVars, schedulerVars
  <2> QED
    BY <2>1, <2>2, ModelPartKept DEF BodiesAreTasks, ServerInv
<1> QED
  BY <1>2, <1>3 DEF ClientStep

\* The worker loop between two task bodies.
LEMMA LoopInv ==
  ASSUME ServerInv, SchedulerInv', NEW w \in Workers, LoopStep(w)
  PROVE  ServerInv'
<1>1. UNCHANGED <<requestVars, modelVars, controlVars>>
  BY DEF LoopStep
<1>2. TypeOK'
  BY <1>1 DEF ServerInv, TypeOK, SchedulerInv, requestVars, modelVars, controlVars
<1>3. UNCHANGED runs /\ \A t \in Tasks : future'[t] # "cancelled"
  BY DEF LoopStep, CheckStop, Get, GetTimeout, Drain, DrainGet, Finish, ServerInv, BodiesAreTasks,
         SchedulerInv, SchedulerTypeOK
<1> QED
  BY <1>1, <1>2, <1>3, ModelPartKept DEF BodiesAreTasks, ServerInv, requestVars, controlVars

\* A worker enters _task.
LEMMA StartInv ==
  ASSUME ServerInv, SchedulerInv', NEW w \in Workers, StartTask(w)
  PROVE  ServerInv'
<1> DEFINE t == worker[w].task
<1>1. t \in Tasks /\ runs[t] = 0 /\ body[t] = "idle"
  BY DEF StartTask, Run, ServerInv, SchedulerInv, SchedulerTypeOK, TaskOwnership, BodiesAreTasks
<1>2. body' = [body EXCEPT ![t] = "ensure"] /\ UNCHANGED <<modelVars, controlVars>>
  BY DEF StartTask
<1>3. TypeOK'
  BY <1>1, <1>2 DEF StartTask, ServerInv, SchedulerInv, TypeOK, BodyPcs, modelVars, controlVars
<1>4. BodiesAreTasks'
  BY <1>1, <1>2 DEF StartTask, Run, ServerInv, SchedulerInv, SchedulerTypeOK, TypeOK, BodiesAreTasks
<1>5. LocksAreHeld' /\ LockedFacts' /\ LoadedIsOwned'
  BY <1>1, <1>2 DEF ServerInv, TypeOK, LocksAreHeld, LockedFacts, LoadedIsOwned, Loading,
                    modelVars, controlVars
<1> QED
  BY <1>3, <1>4, <1>5 DEF ServerInv

\* The parts of ServerInv that a step of _task can disturb.
LEMMA TaskInv ==
  ASSUME ServerInv, SchedulerInv', NEW w \in Workers, worker[w].pc = "run",
         TaskStep(worker[w].task)
  PROVE  ServerInv'
<1> DEFINE t == worker[w].task
           m == ModelOf[t]
<1>0. t \in Tasks /\ m \in Models /\ runs[t] # 0
  BY Distinct DEF ServerInv, SchedulerInv, SchedulerTypeOK, TaskOwnership, TaskStep, BodiesAreTasks,
     Ensure, EnsureLocked, LoadModel, CleanupLoad, RegisterModel, Infer, InferReturns, Succeed,
     Fail
<1>1. UNCHANGED <<schedulerVars, controlVars>>
  BY DEF TaskStep, Ensure, EnsureLocked, LoadModel, CleanupLoad, RegisterModel, Infer,
         InferReturns, Succeed, Fail
<1>2. \A x \in Tasks : x # t => body'[x] = body[x]
  BY <1>0 DEF TaskStep, Ensure, EnsureLocked, LoadModel, CleanupLoad, RegisterModel, Infer,
         InferReturns, Succeed, Fail, BodyGoto, GotEngine, ServerInv, TypeOK
<1>3. BodiesAreTasks'
  BY <1>0, <1>1, <1>2 DEF ServerInv, BodiesAreTasks, schedulerVars
<1> USE Distinct
<1>4. CASE Ensure(t) \/ Infer(t) \/ InferReturns(t) \/ Succeed(t) \/ Fail(t)
  <2>1. /\ UNCHANGED modelVars
        /\ body[t] \in {"ensure", "infer", "inferring", "success", "failure", "ending"}
        /\ body'[t] \in {"lock", "infer", "inferring", "success", "failure", "ending", "done"}
        /\ body[t] # "ensure" => body'[t] # "lock"
    BY <1>0, <1>4 DEF Ensure, Infer, InferReturns, Succeed, Fail, BodyGoto, GotEngine, ServerInv,
            TypeOK
  <2>2. TypeOK'
    <3>1. CASE Ensure(t)
      BY <1>0, <1>1, <3>1 DEF Ensure, BodyGoto, GotEngine, ServerInv, SchedulerInv, TypeOK, BodyPcs,
            modelVars, controlVars
    <3>2. CASE Infer(t) \/ InferReturns(t)
      BY <1>0, <1>1, <3>2 DEF Infer, InferReturns, BodyGoto, ServerInv, SchedulerInv, TypeOK,
            BodyPcs, modelVars, controlVars
    <3>3. CASE Succeed(t) \/ Fail(t)
      BY <1>0, <1>1, <3>3 DEF Succeed, Fail, RecordError, PutSentinels, ServerInv, SchedulerInv,
            TypeOK, BodyPcs, modelVars, controlVars
    <3> QED
      BY <1>4, <3>1, <3>2, <3>3
  <2>3. LocksAreHeld' /\ LockedFacts' /\ LoadedIsOwned'
    BY <1>0, <1>1, <1>2, <2>1 DEF ServerInv, TypeOK, LocksAreHeld, LockedFacts, LoadedIsOwned,
            Loading, modelVars, controlVars
  <2> QED
    BY <1>3, <2>2, <2>3 DEF ServerInv
<1>5. CASE EnsureLocked(t)
  <2>1. TypeOK'
    BY <1>0, <1>1, <1>5 DEF EnsureLocked, TakeLock, BodyGoto, GotEngine, ServerInv, SchedulerInv,
            TypeOK, BodyPcs, controlVars
  <2>2. LocksAreHeld'
    BY <1>0, <1>1, <1>2, <1>5 DEF EnsureLocked, TakeLock, BodyGoto, GotEngine, ServerInv, TypeOK,
            LocksAreHeld, Loading, controlVars
  <2>3. LockedFacts' /\ LoadedIsOwned'
    BY <1>0, <1>1, <1>2, <1>5 DEF EnsureLocked, TakeLock, BodyGoto, GotEngine, ServerInv, TypeOK,
            LockedFacts, LoadedIsOwned, Loading, controlVars
  <2> QED
    BY <1>3, <2>1, <2>2, <2>3 DEF ServerInv
<1>6. CASE LoadModel(t)
  <2>1. TypeOK'
    BY <1>0, <1>1, <1>6 DEF LoadModel, ReleaseLock, AdapterLoad, BodyGoto, ServerInv, SchedulerInv,
            TypeOK, BodyPcs, controlVars
  <2>2. LocksAreHeld'
    BY <1>0, <1>1, <1>2, <1>6 DEF LoadModel, ReleaseLock, BodyGoto, ServerInv, TypeOK,
            LocksAreHeld, Loading, controlVars
  <2>3. LockedFacts' /\ LoadedIsOwned'
    BY <1>0, <1>1, <1>2, <1>6 DEF LoadModel, ReleaseLock, AdapterLoad, BodyGoto, ServerInv, TypeOK,
            LocksAreHeld, LockedFacts, LoadedIsOwned, Loading, controlVars
  <2> QED
    BY <1>3, <2>1, <2>2, <2>3 DEF ServerInv
<1>7. CASE CleanupLoad(t)
  <2>0. UNCHANGED <<held, loaded, resident>>
    BY <1>0, <1>7 DEF CleanupLoad, AdapterUnload, ServerInv, LockedFacts
  <2>1. TypeOK'
    BY <1>0, <1>1, <1>7, <2>0 DEF CleanupLoad, ReleaseLock, BodyGoto, ServerInv, SchedulerInv,
            TypeOK, BodyPcs, controlVars
  <2>2. LocksAreHeld'
    BY <1>0, <1>1, <1>2, <1>7 DEF CleanupLoad, ReleaseLock, BodyGoto, ServerInv, TypeOK,
            LocksAreHeld, Loading, controlVars
  <2>3. LockedFacts' /\ LoadedIsOwned'
    BY <1>0, <1>1, <1>2, <1>7, <2>0 DEF CleanupLoad, ReleaseLock, BodyGoto, ServerInv, TypeOK,
            LocksAreHeld, LockedFacts, LoadedIsOwned, Loading, controlVars
  <2> QED
    BY <1>3, <2>1, <2>2, <2>3 DEF ServerInv
<1>8. CASE RegisterModel(t)
  <2>1. TypeOK'
    BY <1>0, <1>1, <1>8 DEF RegisterModel, ReleaseLock, GotEngine, ServerInv, SchedulerInv,
            TypeOK, BodyPcs, controlVars
  <2>2. LocksAreHeld'
    BY <1>0, <1>1, <1>2, <1>8 DEF RegisterModel, ReleaseLock, GotEngine, ServerInv, TypeOK,
            LocksAreHeld, Loading, controlVars
  <2>3. LockedFacts' /\ LoadedIsOwned'
    BY <1>0, <1>1, <1>2, <1>8 DEF RegisterModel, ReleaseLock, GotEngine, ServerInv, TypeOK,
            LocksAreHeld, LockedFacts, LoadedIsOwned, Loading, controlVars
  <2> QED
    BY <1>3, <2>1, <2>2, <2>3 DEF ServerInv
<1> QED
  BY <1>4, <1>5, <1>6, <1>7, <1>8 DEF TaskStep

\* Controllers and shutdown unload models.
LEMMA UnloadInv ==
  ASSUME ServerInv, SchedulerInv', NEW u \in Unloaders, UnloadStep(u)
  PROVE  ServerInv'
<1> DEFINE m == unloader[u].m
<1> USE Distinct
<1>1. m \in Models /\ UNCHANGED <<schedulerVars, requestVars, shutting, shutPc, todo>>
  BY DEF UnloadStep, UnloadLocked, UnloadEngine, Unregister, ServerInv, TypeOK
<1>2. BodiesAreTasks'
  BY <1>1 DEF ServerInv, BodiesAreTasks, schedulerVars, requestVars
<1>3. CASE UnloadLocked(u)
  <2>1. TypeOK'
    BY <1>1, <1>3 DEF UnloadLocked, TakeLock, UnloaderGoto, ServerInv, SchedulerInv, TypeOK, requestVars
  <2>2. LocksAreHeld'
    BY <1>1, <1>3 DEF UnloadLocked, TakeLock, UnloaderGoto, ServerInv, TypeOK, LocksAreHeld,
            Loading, requestVars
  <2>3. LockedFacts' /\ LoadedIsOwned'
    BY <1>1, <1>3 DEF UnloadLocked, TakeLock, UnloaderGoto, ServerInv, TypeOK, LocksAreHeld,
            LockedFacts, LoadedIsOwned, Loading, requestVars
  <2> QED
    BY <1>2, <2>1, <2>2, <2>3 DEF ServerInv
<1>4. CASE UnloadEngine(u)
  <2>1. TypeOK'
    BY <1>1, <1>4 DEF UnloadEngine, AdapterUnload, ReleaseLock, UnloaderGoto, ServerInv,
            SchedulerInv, TypeOK, requestVars
  <2>2. LocksAreHeld'
    <3>1. unloader[u].pc = "unload" /\ modelLock[m] = u
      BY <1>4 DEF UnloadEngine, ServerInv, LocksAreHeld
    <3>2. CASE UnloaderGoto(u, "unregister") /\ UNCHANGED modelLock
      BY <1>1, <3>1, <3>2 DEF UnloaderGoto, ServerInv, TypeOK, LocksAreHeld, Loading, requestVars
    <3>3. CASE UnloaderGoto(u, "idle") /\ ReleaseLock(m)
      BY <1>1, <3>1, <3>3 DEF UnloaderGoto, ReleaseLock, ServerInv, TypeOK, LocksAreHeld, Loading,
              requestVars
    <3> QED
      BY <1>4, <3>2, <3>3 DEF UnloadEngine
  <2>3. LockedFacts'
    BY <1>1, <1>4 DEF UnloadEngine, AdapterUnload, ReleaseLock, UnloaderGoto, ServerInv, TypeOK,
            LocksAreHeld, LockedFacts, Loading, requestVars
  <2>4. LoadedIsOwned'
    BY <1>1, <1>4 DEF UnloadEngine, AdapterUnload, ReleaseLock, UnloaderGoto, ServerInv, TypeOK,
            LocksAreHeld, LockedFacts, LoadedIsOwned, Loading, requestVars
  <2> QED
    BY <1>2, <2>1, <2>2, <2>3, <2>4 DEF ServerInv
<1>5. CASE Unregister(u)
  <2>1. TypeOK'
    BY <1>1, <1>5 DEF Unregister, ReleaseLock, UnloaderGoto, ServerInv, SchedulerInv, TypeOK, requestVars
  <2>2. LocksAreHeld'
    BY <1>1, <1>5 DEF Unregister, ReleaseLock, UnloaderGoto, ServerInv, TypeOK, LocksAreHeld,
            Loading, requestVars
  <2>3. LockedFacts' /\ LoadedIsOwned'
    BY <1>1, <1>5 DEF Unregister, ReleaseLock, UnloaderGoto, ServerInv, TypeOK, LocksAreHeld,
            LockedFacts, LoadedIsOwned, Loading, requestVars
  <2> QED
    BY <1>2, <2>1, <2>2, <2>3 DEF ServerInv
<1> QED
  BY <1>3, <1>4, <1>5 DEF UnloadStep

\* A call of unload_model begins, or shutdown goes on: no lock changes hands.
LEMMA ControlInv ==
  ASSUME ServerInv, SchedulerInv',
         \/ \E u \in Controllers, m \in Models : ControlUnload(u, m)
         \/ BeginShutdown
         \/ ShutdownStep
  PROVE  ServerInv'
<1> USE Distinct
<1>1. UNCHANGED <<requestVars, modelVars, runs, future>>
  BY DEF ControlUnload, BeginShutdown, ShutdownStep, StopScheduler, Shutdown, ListModels, UnloadNext,
         schedulerVars
<1>2. BodiesAreTasks'
  BY <1>1 DEF ServerInv, BodiesAreTasks, requestVars
<1>3. CASE UNCHANGED unloader
  <2>1. TypeOK'
    BY <1>1, <1>3 DEF ControlUnload, Unload, BeginShutdown, ShutdownStep, StopScheduler, ListModels,
         UnloadNext, ServerInv, SchedulerInv, TypeOK, requestVars, modelVars
  <2> QED
    BY <1>1, <1>2, <1>3, <2>1, ModelPartKept DEF requestVars
<1>4. CASE \E u \in Unloaders, m \in Models : Unload(u, m) /\ UNCHANGED <<shutting, shutPc>>
                                              /\ todo' \subseteq todo
  <2> PICK u \in Unloaders, m \in Models : Unload(u, m) /\ UNCHANGED <<shutting, shutPc>>
                                           /\ todo' \subseteq todo
    BY <1>4
  <2>1. TypeOK'
    BY <1>1 DEF Unload, ServerInv, SchedulerInv, TypeOK, requestVars, modelVars
  <2>2. LocksAreHeld'
    BY <1>1 DEF Unload, ServerInv, TypeOK, LocksAreHeld, requestVars, modelVars
  <2>3. LockedFacts' /\ LoadedIsOwned'
    BY <1>1 DEF Unload, ServerInv, TypeOK, LockedFacts, LoadedIsOwned, requestVars, modelVars
  <2> QED
    BY <1>2, <2>1, <2>2, <2>3 DEF ServerInv
<1> QED
  BY <1>3, <1>4 DEF ControlUnload, BeginShutdown, ShutdownStep, StopScheduler, ListModels, UnloadNext,
       ServerInv, TypeOK, Unloaders

\* The server's invariant is inductive.
LEMMA ServerNextInv == ASSUME ServerInv, [Next]_vars PROVE ServerInv'
<1>1. SchedulerInv'
  BY StepRefines, SchedulerNextInv DEF ServerInv
<1>2. CASE UNCHANGED vars
  BY <1>1, <1>2, ModelPartKept DEF vars, schedulerVars, requestVars, modelVars, controlVars, ServerInv,
       TypeOK, SchedulerInv, BodiesAreTasks
<1>3. CASE Next
  BY <1>1, <1>3, ClientInv, LoopInv, StartInv, TaskInv, UnloadInv, ControlInv DEF Next, ServeStep
<1> QED
  BY <1>2, <1>3

\* ServerInv holds in every state of the server.
THEOREM ServerInvariant == Spec => []ServerInv
  BY ServerInitInv, ServerNextInv, PTL DEF Spec

\* For any number of requests, workers, models and control threads: a load that
\* the Plugin confirmed stays registered, or is being registered, until its
\* unload is confirmed; so ensure_model never loads a model twice.
THEOREM LoadsAreOwned == Spec => []LoadedIsOwned
<1>1. ServerInv => LoadedIsOwned
  BY DEF ServerInv
<1> QED
  BY <1>1, ServerInvariant, PTL

-----------------------------------------------------------------------------
(* What a step of the server does to its requests, and what follows for the  *)
(* ends of streams.                                                          *)

Started(t) == body[t] \notin {"idle", "done"}

Starts(t) ==
    /\ body[t] = "idle" /\ body' = [body EXCEPT ![t] = "ensure"]
    /\ UNCHANGED <<stream, errors, streamEnd>>

\* An error is recorded only by a task that goes on to put its sentinels.
Moves(t) ==
    /\ Started(t)
    /\ \E pc \in BodyPcs \ {"idle", "done"} : body' = [body EXCEPT ![t] = pc]
    /\ errors' \subseteq errors \cup {t}
    /\ UNCHANGED <<stream, streamEnd>>

Ends(t) ==
    /\ Started(t)
    /\ body' = [body EXCEPT ![t] = "done"]
    /\ streamEnd' = streamEnd \cup {t}
    /\ UNCHANGED <<stream, errors>>

Reads ==
    /\ UNCHANGED <<body, errors, streamEnd>>
    /\ \A t \in Tasks :
         \/ stream'[t] = stream[t]
         \/ stream[t] # "ended" /\ (stream'[t] = "ended" => t \in streamEnd \ errors)

\* Every step starts, moves or ends one request, or leaves them all alone.
LEMMA RequestStep ==
  ASSUME ServerInv, [Next]_vars
  PROVE  Reads \/ \E t \in Tasks : Starts(t) \/ Moves(t) \/ Ends(t)
<1> USE DEF ServerInv
<1>1. CASE \E t \in Tasks : Predict(t) \/ ClientStep(t) \/ CloseStream(t)
  <2> PICK t \in Tasks : Predict(t) \/ ClientStep(t) \/ CloseStream(t)
    BY <1>1
  <2>1. CASE Predict(t)
    BY <2>1 DEF Predict, Reads, TypeOK
  <2>2. CASE SubmitRequest(t)
    BY <2>2 DEF SubmitRequest, Reads, TypeOK
  <2>3. CASE Progress(t)
    BY <2>3 DEF Progress, Reads, TypeOK
  <2>4. CASE Respond(t)
    BY <2>4 DEF Respond, Reads, TypeOK
  <2>5. CASE CloseStream(t)
    BY <2>5 DEF CloseStream, Reads, TypeOK
  <2> QED
    BY <2>1, <2>2, <2>3, <2>4, <2>5 DEF ClientStep
<1>2. CASE \E w \in Workers : ServeStep(w)
  <2> PICK w \in Workers : ServeStep(w)
    BY <1>2
  <2>1. CASE StartTask(w)
    <3>1. /\ worker[w].task \in Tasks /\ body[worker[w].task] = "idle"
      BY <2>1 DEF StartTask, Run, SchedulerInv, SchedulerTypeOK, TaskOwnership, BodiesAreTasks
    <3> QED
      BY <2>1, <3>1 DEF StartTask, Starts
  <2>2. CASE LoopStep(w)
    BY <2>2 DEF LoopStep, Reads, requestVars
  <2>3. CASE worker[w].pc = "run" /\ TaskStep(worker[w].task)
    <3> DEFINE t == worker[w].task
    <3>0. t \in Tasks
      BY <2>3, SchedulerAssumption DEF SchedulerInv, SchedulerTypeOK, TaskOwnership
    <3>1. CASE Ensure(t)
      BY <3>0, <3>1 DEF Ensure, BodyGoto, GotEngine, Moves, Started, BodyPcs
    <3>2. CASE EnsureLocked(t)
      BY <3>0, <3>2 DEF EnsureLocked, BodyGoto, GotEngine, Moves, Started, BodyPcs
    <3>3. CASE LoadModel(t)
      BY <3>0, <3>3 DEF LoadModel, BodyGoto, Moves, Started, BodyPcs
    <3>4. CASE CleanupLoad(t)
      BY <3>0, <3>4 DEF CleanupLoad, BodyGoto, Moves, Started, BodyPcs
    <3>5. CASE RegisterModel(t)
      BY <3>0, <3>5 DEF RegisterModel, GotEngine, Moves, Started, BodyPcs
    <3>6. CASE Infer(t)
      BY <3>0, <3>6 DEF Infer, BodyGoto, Moves, Started, BodyPcs
    <3>7. CASE InferReturns(t)
      BY <3>0, <3>7 DEF InferReturns, BodyGoto, Moves, Started, BodyPcs
    <3>8. CASE Succeed(t)
      BY <3>0, <3>8 DEF Succeed, Ends, Started
    <3>9. CASE Fail(t)
      BY <3>0, <3>9 DEF Fail, RecordError, PutSentinels, Moves, Ends, Started, BodyPcs
    <3> QED
      BY <2>3, <3>0, <3>1, <3>2, <3>3, <3>4, <3>5, <3>6, <3>7, <3>8, <3>9 DEF TaskStep
  <2> QED
    BY <2>1, <2>2, <2>3 DEF ServeStep
<1>3. CASE \E u \in Unloaders : UnloadStep(u)
  BY <1>3 DEF UnloadStep, UnloadLocked, UnloadEngine, Unregister, Reads, requestVars
<1>4. CASE \/ \E u \in Controllers, m \in Models : ControlUnload(u, m)
           \/ BeginShutdown \/ ShutdownStep
  BY <1>4 DEF ControlUnload, BeginShutdown, ShutdownStep, StopScheduler, ListModels, UnloadNext,
              Reads, requestVars
<1>5. CASE UNCHANGED vars
  BY <1>5 DEF vars, requestVars, Reads
<1> QED
  BY <1>1, <1>2, <1>3, <1>4, <1>5 DEF Next

\* A stream ends without an error only after its task has finished without one: _task
\* records its error before it puts the sentinels, so a consumer that finds the
\* sentinel cannot have missed an error.
THEOREM StreamsEndComplete == Spec => []EndsAreComplete
<1>1. Init => EndsAreComplete
  BY DEF Init, EndsAreComplete
<1>2. ServerInv /\ EndsAreComplete /\ [Next]_vars => EndsAreComplete'
  <2> SUFFICES ASSUME ServerInv, EndsAreComplete, [Next]_vars PROVE EndsAreComplete'
    OBVIOUS
  <2>0. body \in [Tasks -> BodyPcs]
    BY DEF ServerInv, TypeOK
  <2>1. CASE Reads
    BY <2>1 DEF Reads, EndsAreComplete
  <2>2. ASSUME NEW t \in Tasks, Starts(t) \/ Moves(t) \/ Ends(t) PROVE EndsAreComplete'
    BY <2>0, <2>2 DEF Starts, Moves, Ends, Started, EndsAreComplete
  <2> QED
    BY <2>1, <2>2, RequestStep
<1> QED
  BY <1>1, <1>2, ServerInvariant, PTL DEF Spec

-----------------------------------------------------------------------------
(* WorkerService: calls, the pool, the bridge and the life of the process.   *)

\* Every step of the process is an operation of the server or leaves it alone.
LEMMA WorkerStepRefines == ASSUME [WorkerNext]_workerVars PROVE [Next]_vars
<1>1. ASSUME NEW t \in Tasks,
             StreamPredict(t) \/ StreamJob(t) \/ CloseHandler(t) \/ LoseClient(t)
      PROVE  [Next]_vars
  <2>1. CASE Generate(t)
    BY <2>1 DEF Generate, Next
  <2>2. CASE CloseHandler(t)
    BY <2>2 DEF CloseHandler, Next
  <2> QED
    BY <1>1, <2>1, <2>2 DEF StreamPredict, StreamJob, BeginHandler, EndHandler, NoteError, PutEnd,
       AnswerAsync, LoseClient
<1>2. ASSUME NEW u \in Controllers, Control(u) \/ ControlAnswered(u) \/ UnloadCall(u)
      PROVE  [Next]_vars
  <2>1. CASE BeginUnload(u)
    BY <2>1 DEF BeginUnload, Next
  <2>2. CASE UnloadJob(u)
    BY <2>2 DEF UnloadJob, Next, Unloaders
  <2> QED
    BY <1>2, <2>1, <2>2 DEF Control, ControlAnswered, UnloadCall
<1>3. ASSUME NEW w \in Workers, SchedulerThread(w) PROVE [Next]_vars
  BY <1>3 DEF SchedulerThread, Next
<1>4. CASE ServerShutdown
  BY <1>4 DEF ServerShutdown, Next, Unloaders
<1>5. CASE TakeJob \/ ReloadRegistry \/ Signal \/ LeaveMain \/ Exit \/ UNCHANGED workerVars
  BY <1>5 DEF TakeJob, ReloadRegistry, Signal, LeaveMain, Exit, ProcessGoto, workerVars
<1> QED
  BY <1>1, <1>2, <1>3, <1>4, <1>5 DEF WorkerNext

\* Handlers, cancellations, the pool, the bridge and the signal reach the
\* InferenceServer through its own operations only: WorkerService implements it.
THEOREM ServerIsUsed == WorkerSpec => UsesServer
<1>1. WorkerInit => Init
  BY DEF WorkerInit
<1> QED
  BY <1>1, WorkerStepRefines, PTL DEF WorkerSpec, Spec, UsesServer

\* So a confirmed load is owned inside the serving process as well.
THEOREM WorkerLoadsAreOwned == WorkerSpec => []LoadedIsOwned
  BY ServerIsUsed, LoadsAreOwned, PTL DEF UsesServer

\* A generator that has ended stays ended.
LEMMA EndedIsKept ==
  ASSUME ServerInv, [Next]_vars, NEW t \in Tasks, Ended(t)
  PROVE  Ended(t)'
  BY RequestStep DEF Ended, Reads, Starts, Moves, Ends

\* The queue of the pool as a set.
LEMMA JobQueue ==
  ASSUME jobs \in Seq(Jobs), NEW j \in Jobs
  PROVE  /\ Append(jobs, j) \in Seq(Jobs)
         /\ ToSet(Append(jobs, j)) = ToSet(jobs) \cup {j}
         /\ jobs # <<>> => /\ Head(jobs) \in Jobs /\ Tail(jobs) \in Seq(Jobs)
                           /\ ToSet(jobs) = {Head(jobs)} \cup ToSet(Tail(jobs))
<1>1. Append(jobs, j) \in Seq(Jobs) /\ (jobs # <<>> => Head(jobs) \in Jobs /\ Tail(jobs) \in Seq(Jobs))
  OBVIOUS
<1>2. ToSet(Append(jobs, j)) = ToSet(jobs) \cup {j}
  <2> DEFINE s == Append(jobs, j)
             n == Len(jobs)
  <2>1. /\ n \in Nat /\ DOMAIN jobs = 1 .. n /\ DOMAIN s = 1 .. (n + 1)
        /\ \A i \in 1 .. n : s[i] = jobs[i]
        /\ s[n + 1] = j
    OBVIOUS
  <2>2. 1 .. (n + 1) = (1 .. n) \cup {n + 1}
    BY <2>1
  <2>3. ToSet(jobs) = {jobs[i] : i \in 1 .. n} /\ ToSet(s) = {s[i] : i \in (1 .. n) \cup {n + 1}}
    BY <2>1, <2>2 DEF ToSet
  <2> HIDE DEF s, n
  <2> QED
    BY <2>1, <2>3 DEF s
<1>3. ASSUME jobs # <<>> PROVE ToSet(jobs) = {Head(jobs)} \cup ToSet(Tail(jobs))
  <2> DEFINE s == Tail(jobs)
             n == Len(jobs)
  <2>1. /\ n \in Nat \ {0} /\ DOMAIN jobs = 1 .. n /\ DOMAIN s = 1 .. (n - 1)
        /\ \A i \in 1 .. (n - 1) : s[i] = jobs[i + 1]
        /\ jobs[1] = Head(jobs)
    BY <1>3
  <2>2. /\ \A i \in 1 .. n : i = 1 \/ (i - 1 \in 1 .. (n - 1) /\ (i - 1) + 1 = i)
        /\ \A i \in 1 .. (n - 1) : i + 1 \in 1 .. n
        /\ 1 \in 1 .. n
    BY <2>1
  <2>3. ToSet(jobs) = {jobs[i] : i \in 1 .. n} /\ ToSet(s) = {s[i] : i \in 1 .. (n - 1)}
    BY <2>1 DEF ToSet
  <2>4. ASSUME NEW x \in ToSet(jobs) PROVE x = Head(jobs) \/ x \in ToSet(s)
    <3>1. PICK i \in 1 .. n : x = jobs[i]
      BY <2>3, <2>4
    <3>2. CASE i # 1
      <4>1. i - 1 \in 1 .. (n - 1) /\ (i - 1) + 1 = i
        BY <2>2, <3>2
      <4>2. s[i - 1] = x
        BY <2>1, <3>1, <4>1
      <4> QED
        BY <2>3, <4>1, <4>2
    <3> QED
      BY <2>1, <3>1, <3>2
  <2>5. Head(jobs) \in ToSet(jobs) /\ ToSet(s) \subseteq ToSet(jobs)
    <3> HIDE DEF s, n
    <3> QED
      BY <2>1, <2>2, <2>3
  <2> QED
    BY <2>4, <2>5
<1> QED
  BY <1>1, <1>2, <1>3

\* A thread is given back, or nothing happens to the pool's threads.
LEMMA PoolShrinks ==
  ASSUME WorkerTypeOK, running' \subseteq running
  PROVE  /\ running' \subseteq Jobs /\ IsFiniteSet(running')
         /\ Cardinality(running') <= PoolSize
<1>1. /\ IsFiniteSet(running') /\ Cardinality(running') <= Cardinality(running)
      /\ Cardinality(running') \in Nat /\ Cardinality(running) \in Nat
  BY FS_Subset, FS_CardinalityType DEF WorkerTypeOK
<1> QED
  BY <1>1, WorkerAssumption DEF WorkerTypeOK

\* Each operation of the process keeps the inductive invariant.
LEMMA StreamCallStep ==
  ASSUME ServerInv, ServiceInv, NEW t \in Tasks,
         StreamPredict(t) \/ StreamJob(t) \/ CloseHandler(t) \/ LoseClient(t)
  PROVE  ServiceInv'
<1> USE DEF ServiceInv
<1>0. /\ t \in Jobs /\ t \notin Controllers
      /\ \A x \in Tasks : x \notin Controllers
  BY ServerAssumption DEF Jobs
<1>j. jobs \in Seq(Jobs) /\ Jobs # {}
  BY <1>0 DEF WorkerTypeOK
<1>1. CASE StreamPredict(t)
  <2>1. jobs' \in Seq(Jobs) /\ ToSet(jobs) \subseteq ToSet(jobs')
        /\ (rpc'[t] \in Waiting => t \in ToSet(jobs'))
    BY <1>0, <1>1, <1>j, JobQueue DEF StreamPredict, RpcGoto, WorkerTypeOK, Waiting
  <2>2. WorkerTypeOK'
    BY <1>1, <2>1 DEF StreamPredict, RpcGoto, WorkerTypeOK, RpcState, processVars
  <2>3. WaitingIsServed'
    BY <1>1, <2>1 DEF StreamPredict, RpcGoto, WorkerTypeOK, WaitingIsServed
  <2>4. AnswersAreTrue'
    BY <1>1 DEF StreamPredict, RpcGoto, WorkerTypeOK, AnswersAreTrue, Ended, vars, requestVars
  <2> QED
    BY <2>2, <2>3, <2>4
<1>2. CASE BeginHandler(t)
  <2>1. running' \subseteq running
    BY <1>2 DEF BeginHandler, ThreadFree
  <2>2. WorkerTypeOK'
    BY <1>2, <2>1, PoolShrinks DEF BeginHandler, RpcGoto, WorkerTypeOK, RpcState, processVars
  <2>3. WaitingIsServed'
    BY <1>0, <1>2 DEF BeginHandler, RpcGoto, ThreadFree, WorkerTypeOK, WaitingIsServed, Waiting
  <2>4. AnswersAreTrue'
    BY <1>2 DEF BeginHandler, RpcGoto, WorkerTypeOK, AnswersAreTrue, Ended, vars, requestVars
  <2> QED
    BY <2>2, <2>3, <2>4
<1>3. CASE Generate(t)
  <2>1. [Next]_vars
    BY <1>3 DEF Generate, Next
  <2>2. UNCHANGED <<rpcVars, processVars>>
    BY <1>3 DEF Generate
  <2>3. WorkerTypeOK' /\ WaitingIsServed'
    BY <2>2 DEF rpcVars, processVars, WorkerTypeOK, WaitingIsServed
  <2>4. AnswersAreTrue'
    BY <2>1, <2>2, EndedIsKept DEF rpcVars, AnswersAreTrue
  <2> QED
    BY <2>3, <2>4
<1>4. CASE EndHandler(t)
  <2>1. running' \subseteq running
    BY <1>4 DEF EndHandler, ThreadFree
  <2>2. WorkerTypeOK'
    BY <1>4, <2>1, PoolShrinks
       DEF EndHandler, RpcGoto, Outcome, WorkerTypeOK, RpcState, processVars
  <2>3. WaitingIsServed'
    BY <1>0, <1>4
       DEF EndHandler, RpcGoto, Outcome, ThreadFree, WorkerTypeOK, WaitingIsServed, Waiting
  <2>4. AnswersAreTrue'
    BY <1>4 DEF EndHandler, RpcGoto, Outcome, WorkerTypeOK, AnswersAreTrue, Ended, vars, requestVars
  <2> QED
    BY <2>2, <2>3, <2>4
<1>5. CASE NoteError(t)
  <2>1. WorkerTypeOK' /\ WaitingIsServed'
    BY <1>5 DEF NoteError, WorkerTypeOK, WaitingIsServed, processVars
  <2>2. AnswersAreTrue'
    BY <1>5 DEF NoteError, AnswersAreTrue, Ended, vars, requestVars
  <2> QED
    BY <2>1, <2>2
<1>6. CASE PutEnd(t)
  <2>1. running' \subseteq running
    BY <1>6 DEF PutEnd, ThreadFree
  <2>2. WorkerTypeOK'
    BY <1>6, <2>1, PoolShrinks DEF PutEnd, WorkerTypeOK, processVars
  <2>3. WaitingIsServed'
    BY <1>0, <1>6 DEF PutEnd, ThreadFree, WaitingIsServed
  <2>4. AnswersAreTrue'
    BY <1>6 DEF PutEnd, AnswersAreTrue, Ended, vars, requestVars
  <2> QED
    BY <2>2, <2>3, <2>4
<1>7. CASE AnswerAsync(t)
  <2>1. WorkerTypeOK'
    BY <1>7 DEF AnswerAsync, RpcGoto, Outcome, WorkerTypeOK, RpcState, processVars
  <2>2. WaitingIsServed'
    BY <1>7 DEF AnswerAsync, RpcGoto, Outcome, WorkerTypeOK, WaitingIsServed, Waiting
  <2>3. AnswersAreTrue'
    BY <1>7 DEF AnswerAsync, RpcGoto, Outcome, WorkerTypeOK, AnswersAreTrue, Ended, vars, requestVars
  <2> QED
    BY <2>1, <2>2, <2>3
<1>8. CASE CloseHandler(t)
  <2>1. [Next]_vars /\ running' \subseteq running
    BY <1>8 DEF CloseHandler, ThreadFree, Next
  <2>2. WorkerTypeOK'
    BY <1>8, <2>1, PoolShrinks DEF CloseHandler, WorkerTypeOK, processVars
  <2>3. WaitingIsServed'
    BY <1>0, <1>8 DEF CloseHandler, ThreadFree, WaitingIsServed, Waiting
  <2>4. AnswersAreTrue'
    BY <1>8, <2>1, EndedIsKept DEF CloseHandler, AnswersAreTrue
  <2> QED
    BY <2>2, <2>3, <2>4
<1>9. CASE LoseClient(t)
  <2>1. WorkerTypeOK'
    BY <1>9 DEF LoseClient, RpcGoto, WorkerTypeOK, RpcState, processVars
  <2>2. WaitingIsServed'
    BY <1>9 DEF LoseClient, RpcGoto, WorkerTypeOK, WaitingIsServed, Waiting
  <2>3. AnswersAreTrue'
    BY <1>9 DEF LoseClient, RpcGoto, WorkerTypeOK, AnswersAreTrue, Ended, vars, requestVars
  <2> QED
    BY <2>1, <2>2, <2>3
<1> QED
  BY <1>1, <1>2, <1>3, <1>4, <1>5, <1>6, <1>7, <1>8, <1>9 DEF StreamJob

LEMMA ControlCallStep ==
  ASSUME ServerInv, ServiceInv, NEW u \in Controllers,
         Control(u) \/ ControlAnswered(u) \/ UnloadCall(u)
  PROVE  ServiceInv'
<1> USE DEF ServiceInv
<1>0. /\ u \in Jobs /\ u \notin Tasks
      /\ \A x \in Tasks : x \notin Controllers
  BY ServerAssumption DEF Jobs
<1>1. CASE Control(u)
  <2>1. jobs' \in Seq(Jobs) /\ ToSet(jobs') = ToSet(jobs) \cup {u}
    BY <1>0, <1>1, JobQueue DEF Control, WorkerTypeOK
  <2>2. WorkerTypeOK'
    BY <1>1, <2>1 DEF Control, ControlGoto, WorkerTypeOK, RpcState, processVars
  <2>3. WaitingIsServed'
    BY <1>1, <2>1 DEF Control, ControlGoto, WorkerTypeOK, WaitingIsServed
  <2>4. AnswersAreTrue'
    BY <1>1 DEF Control, AnswersAreTrue, Ended, vars, requestVars
  <2> QED
    BY <2>2, <2>3, <2>4
<1>2. CASE ControlAnswered(u)
  <2>1. running' \subseteq running
    BY <1>2 DEF ControlAnswered, ThreadFree
  <2>2. WorkerTypeOK'
    BY <1>2, <2>1, PoolShrinks DEF ControlAnswered, ControlGoto, WorkerTypeOK, RpcState, processVars
  <2>3. WaitingIsServed'
    BY <1>0, <1>2 DEF ControlAnswered, ControlGoto, ThreadFree, WorkerTypeOK, WaitingIsServed
  <2>4. AnswersAreTrue'
    BY <1>2 DEF ControlAnswered, AnswersAreTrue, Ended, vars, requestVars
  <2> QED
    BY <2>2, <2>3, <2>4
<1>3. CASE BeginUnload(u)
  <2>1. [Next]_vars /\ running' \subseteq running
    BY <1>3 DEF BeginUnload, ThreadFree, Next
  <2>2. WorkerTypeOK'
    BY <1>3, <2>1, PoolShrinks DEF BeginUnload, ControlGoto, WorkerTypeOK, RpcState, processVars
  <2>3. WaitingIsServed'
    BY <1>0, <1>3 DEF BeginUnload, ControlGoto, ThreadFree, WorkerTypeOK, WaitingIsServed
  <2>4. AnswersAreTrue'
    BY <1>3, <2>1, EndedIsKept DEF BeginUnload, AnswersAreTrue
  <2> QED
    BY <2>2, <2>3, <2>4
<1>4. CASE UnloadJob(u)
  <2>1. [Next]_vars /\ running' \subseteq running
    BY <1>4 DEF UnloadJob, ThreadFree, Next, Unloaders
  <2>2. WorkerTypeOK'
    BY <1>4, <2>1, PoolShrinks DEF UnloadJob, Outcome, WorkerTypeOK, RpcState, processVars
  <2>3. WaitingIsServed'
    BY <1>0, <1>4 DEF UnloadJob, Outcome, ThreadFree, WorkerTypeOK, WaitingIsServed
  <2>4. AnswersAreTrue'
    BY <1>4, <2>1, EndedIsKept DEF UnloadJob, AnswersAreTrue
  <2> QED
    BY <2>2, <2>3, <2>4
<1> QED
  BY <1>1, <1>2, <1>3, <1>4 DEF UnloadCall

\* The pool's queue is first come first served: the oldest job gets the free thread.
LEMMA TakeJobStep == ASSUME ServiceInv, TakeJob PROVE ServiceInv'
<1> USE DEF ServiceInv
<1>1. /\ Head(jobs) \in Jobs /\ jobs' \in Seq(Jobs)
      /\ ToSet(jobs) = {Head(jobs)} \cup ToSet(jobs')
  <2>1. jobs \in Seq(Jobs) /\ jobs # <<>>
    BY DEF TakeJob, WorkerTypeOK
  <2>2. \E j : j \in Jobs
    BY <2>1
  <2> QED
    BY <2>1, <2>2, JobQueue DEF TakeJob
<1>2. IsFiniteSet(running') /\ Cardinality(running') <= PoolSize
  <2>1. /\ IsFiniteSet(running) /\ Cardinality(running) \in Nat
        /\ Cardinality(running) < PoolSize /\ PoolSize \in Nat
    BY FS_CardinalityType, WorkerAssumption DEF TakeJob, WorkerTypeOK
  <2>2. /\ IsFiniteSet(running')
        /\ Cardinality(running') \in {Cardinality(running), Cardinality(running) + 1}
    BY <2>1, FS_AddElement DEF TakeJob
  <2> QED
    BY <2>1, <2>2
<1>3. WorkerTypeOK'
  BY <1>1, <1>2 DEF TakeJob, WorkerTypeOK, processVars
<1>4. WaitingIsServed'
  BY <1>1 DEF TakeJob, WaitingIsServed
<1>5. AnswersAreTrue'
  BY DEF TakeJob, AnswersAreTrue, Ended, vars, requestVars
<1> QED
  BY <1>3, <1>4, <1>5

\* ServiceInv is inductive: one step per operation of the process.
LEMMA ServiceStep == ASSUME ServerInv, ServiceInv, [WorkerNext]_workerVars PROVE ServiceInv'
<1>1. CASE UNCHANGED <<rpcVars, front, registry>> /\ process' \in ProcPcs
  <2>1. WorkerTypeOK' /\ WaitingIsServed'
    BY <1>1 DEF ServiceInv, WorkerTypeOK, WaitingIsServed, rpcVars
  <2>2. AnswersAreTrue'
    BY <1>1, WorkerStepRefines, EndedIsKept DEF ServiceInv, AnswersAreTrue, rpcVars
  <2> QED
    BY <2>1, <2>2 DEF ServiceInv
<1>2. CASE ReloadRegistry
  <2>1. WorkerTypeOK' /\ WaitingIsServed'
    BY <1>2 DEF ReloadRegistry, ServiceInv, WorkerTypeOK, WaitingIsServed, rpcVars
  <2>2. AnswersAreTrue'
    BY <1>2 DEF ReloadRegistry, ServiceInv, AnswersAreTrue, Ended, rpcVars, vars, requestVars
  <2> QED
    BY <2>1, <2>2 DEF ServiceInv
<1>3. process \in ProcPcs
  BY DEF ServiceInv, WorkerTypeOK
<1>4. CASE Signal \/ ServerShutdown \/ LeaveMain \/ Exit \/ UNCHANGED workerVars
  BY <1>1, <1>3, <1>4
     DEF Signal, ServerShutdown, LeaveMain, Exit, ProcessGoto, workerVars, processVars, ProcPcs
<1>5. CASE \E w \in Workers : SchedulerThread(w)
  BY <1>1, <1>3, <1>5 DEF SchedulerThread, processVars
<1> QED
  BY <1>2, <1>4, <1>5, StreamCallStep, ControlCallStep, TakeJobStep DEF WorkerNext

LEMMA ServiceInvariant == WorkerSpec => []ServiceInv
<1>1. WorkerInit => ServiceInv
  <2> SUFFICES ASSUME WorkerInit PROVE ServiceInv
    OBVIOUS
  <2>1. WorkerTypeOK
    <3>1. IsFiniteSet({}) /\ Cardinality({}) = 0
      BY FS_EmptySet
    <3>2. 0 <= PoolSize
      BY WorkerAssumption
    <3> QED
      BY <3>1, <3>2 DEF WorkerInit, WorkerTypeOK, RpcState, ProcPcs
  <2>2. WaitingIsServed /\ AnswersAreTrue
    BY DEF WorkerInit, WaitingIsServed, AnswersAreTrue, Waiting
  <2> QED
    BY <2>1, <2>2 DEF ServiceInv
<1>2. WorkerSpec => []ServerInv
  BY ServerIsUsed, ServerInvariant, PTL DEF UsesServer
<1> QED
  BY <1>1, <1>2, ServiceStep, PTL DEF WorkerSpec

\* The calls, the pool and the process keep their shape, and the pool never runs
\* more jobs than it has threads, for any number of calls and threads.
THEOREM WorkerTypeCorrect == WorkerSpec => []WorkerTypeOK
<1>1. ServiceInv => WorkerTypeOK
  BY DEF ServiceInv
<1> QED
  BY <1>1, ServiceInvariant, PTL

\* No call that waits is lost: TakeJob moves it from the queue to a thread, and a
\* thread is given back only with an answer, a sentinel or a client that has left.
THEOREM WaitingCallsAreServed == WorkerSpec => []WaitingIsServed
<1>1. ServiceInv => WaitingIsServed
  BY DEF ServiceInv
<1> QED
  BY <1>1, ServiceInvariant, PTL

\* OK is the whole answer: what the bridge and the handler report of the generator,
\* and what the generator knows of its task, put together.
THEOREM OkAnswersAreComplete == WorkerSpec => []OkIsComplete
<1>1. ServiceInv /\ EndsAreComplete => OkIsComplete
  BY DEF ServiceInv, AnswersAreTrue, Ended, EndsAreComplete, OkIsComplete
<1>2. WorkerSpec => []EndsAreComplete
  BY ServerIsUsed, StreamsEndComplete, PTL DEF UsesServer
<1> QED
  BY <1>1, <1>2, ServiceInvariant, PTL
=============================================================================
