---------------------------- MODULE TaskScheduler ----------------------------
(***************************************************************************)
(* The in-worker request queue (core/task_scheduler.py): submitters, a     *)
(* bounded priority queue, worker threads and a shutdown that may come at  *)
(* any time.                                                               *)
(*                                                                         *)
(* Each task has its own submitting thread.  A step is one operation on    *)
(* the shared queue, the stop event or a future.  Tasks of one priority    *)
(* are ordered by the wall clock, which may stand still or go back, so a   *)
(* worker takes any of the most urgent ones.                               *)
(***************************************************************************)
EXTENDS Naturals, FiniteSets

CONSTANTS Tasks,      \* the calls of submit
          Workers,    \* worker threads
          QueueSize,  \* capacity of the queue
          Priority,   \* priority of each task; the least is served first
          NoTask      \* a worker holds no task

ASSUME SchedulerAssumption ==
    /\ QueueSize \in Nat \ {0}
    /\ Priority \in [Tasks -> Nat]
    /\ NoTask \notin Tasks

VARIABLES
    stop,    \* the event _stop
    queue,   \* the tasks in _queue
    caller,  \* where submit stands for a task
    future,  \* state of the task's future
    worker,  \* per worker: its position in _worker_loop and the task it took
    runs     \* history: how often the function of a task was called

schedulerVars == <<stop, queue, caller, future, worker, runs>>

CallerPcs   == {"idle", "put", "accepted", "busy", "refused"}
FutureState == {"pending", "cancelled", "running", "finished", "dropped"}
WorkerPcs   == {"check", "get", "got", "run", "drain", "drainGet", "exited"}

\* The scheduler's state has its shape, and the PriorityQueue never holds more
\* than the max_queue_size it was made with, whoever puts and gets.
SchedulerTypeOK ==
    /\ stop \in BOOLEAN
    /\ queue \subseteq Tasks /\ IsFiniteSet(queue) /\ Cardinality(queue) <= QueueSize
    /\ caller \in [Tasks -> CallerPcs]
    /\ future \in [Tasks -> FutureState]
    /\ worker \in [Workers -> [pc : WorkerPcs, task : Tasks \cup {NoTask}]]
    /\ runs \in [Tasks -> Nat]

SchedulerInit ==
    /\ stop = FALSE
    /\ queue = {}
    /\ caller = [t \in Tasks |-> "idle"]
    /\ future = [t \in Tasks |-> "pending"]
    /\ worker = [w \in Workers |-> [pc |-> "check", task |-> NoTask]]
    /\ runs = [t \in Tasks |-> 0]

-----------------------------------------------------------------------------
(* submit *)

\* A stopped scheduler refuses; otherwise the future is made and put begins.
Submit(t) ==
    /\ caller[t] = "idle"
    /\ caller' = [caller EXCEPT ![t] = IF stop THEN "refused" ELSE "put"]
    /\ UNCHANGED <<stop, queue, future, worker, runs>>

Put(t) ==
    /\ caller[t] = "put"
    /\ Cardinality(queue) < QueueSize
    /\ queue' = queue \cup {t}
    /\ caller' = [caller EXCEPT ![t] = "accepted"]
    /\ UNCHANGED <<stop, future, worker, runs>>

\* The queue stayed full for the whole timeout: SchedulerBusy.
PutTimeout(t) ==
    /\ caller[t] = "put"
    /\ Cardinality(queue) = QueueSize
    /\ caller' = [caller EXCEPT ![t] = "busy"]
    /\ UNCHANGED <<stop, queue, future, worker, runs>>

\* Future.cancel by whoever holds the future; too late once it runs.
Cancel(t) ==
    /\ caller[t] = "accepted"
    /\ future[t] = "pending"
    /\ future' = [future EXCEPT ![t] = "cancelled"]
    /\ UNCHANGED <<stop, queue, caller, worker, runs>>

-----------------------------------------------------------------------------
(* _worker_loop *)

Goto(w, pc) == worker' = [worker EXCEPT ![w] = [pc |-> pc, task |-> NoTask]]

CheckStop(w) ==
    /\ worker[w].pc = "check"
    /\ Goto(w, IF stop THEN "drain" ELSE "get")
    /\ UNCHANGED <<stop, queue, caller, future, runs>>

\* PriorityQueue.get: one of the most urgent tasks.
MostUrgent(t) == t \in queue /\ \A u \in queue : Priority[t] <= Priority[u]

\* Mutant of Get: the event is looked at again after the task was taken.
GetThenCheck(w) ==
    /\ worker[w].pc = "get"
    /\ \E t \in queue :
         /\ MostUrgent(t)
         /\ queue' = queue \ {t}
         /\ worker' = [worker EXCEPT ![w] = IF stop THEN [pc |-> "check", task |-> NoTask]
                                            ELSE [pc |-> "got", task |-> t]]
    /\ UNCHANGED <<stop, caller, future, runs>>

Get(w) ==
    /\ worker[w].pc = "get"
    /\ \E t \in queue :
         /\ MostUrgent(t)
         /\ queue' = queue \ {t}
         /\ worker' = [worker EXCEPT ![w] = [pc |-> "got", task |-> t]]
    /\ UNCHANGED <<stop, caller, future, runs>>

\* queue.Empty after the timeout.
GetTimeout(w) ==
    /\ worker[w].pc = "get"
    /\ queue = {}
    /\ Goto(w, "check")
    /\ UNCHANGED <<stop, queue, caller, future, runs>>

\* Mutant of Run: the answer of set_running_or_notify_cancel is ignored.
RunRegardless(w) ==
    LET t == worker[w].task
    IN  /\ worker[w].pc = "got"
        /\ worker' = [worker EXCEPT ![w].pc = "run"]
        /\ runs' = [runs EXCEPT ![t] = @ + 1]
        /\ UNCHANGED <<stop, queue, caller, future>>

\* set_running_or_notify_cancel, and the call of the function unless the
\* future was cancelled.
Run(w) ==
    LET t == worker[w].task
    IN  /\ worker[w].pc = "got"
        /\ \/ /\ future[t] = "cancelled"
              /\ Goto(w, "check")
              /\ UNCHANGED <<future, runs>>
           \/ /\ future[t] # "cancelled"
              /\ worker' = [worker EXCEPT ![w].pc = "run"]
              /\ future' = [future EXCEPT ![t] = "running"]
              /\ runs' = [runs EXCEPT ![t] = @ + 1]
        /\ UNCHANGED <<stop, queue, caller>>

\* The function returns or raises; set_result or set_exception.
Finish(w) ==
    /\ worker[w].pc = "run"
    /\ future' = [future EXCEPT ![worker[w].task] = "finished"]
    /\ Goto(w, "check")
    /\ UNCHANGED <<stop, queue, caller, runs>>

\* Mutant of Drain: the loop ends without draining.
DrainSkipped(w) ==
    /\ worker[w].pc = "drain"
    /\ Goto(w, "exited")
    /\ UNCHANGED <<stop, queue, caller, future, runs>>

\* `while not self._queue.empty()`
Drain(w) ==
    /\ worker[w].pc = "drain"
    /\ Goto(w, IF queue = {} THEN "exited" ELSE "drainGet")
    /\ UNCHANGED <<stop, queue, caller, future, runs>>

\* A get without timeout: it blocks when another worker was faster.
DrainGet(w) ==
    /\ worker[w].pc = "drainGet"
    /\ \E t \in queue :
         /\ MostUrgent(t)
         /\ queue' = queue \ {t}
         /\ future' = [future EXCEPT ![t] = IF @ = "cancelled" THEN @ ELSE "dropped"]
    /\ Goto(w, "drain")
    /\ UNCHANGED <<stop, caller, runs>>

\* shutdown; joining the workers takes at most a second each and changes nothing.
Shutdown ==
    /\ ~stop
    /\ stop' = TRUE
    /\ UNCHANGED <<queue, caller, future, worker, runs>>

-----------------------------------------------------------------------------

WorkerStep(w) ==
    \/ CheckStop(w) \/ Get(w) \/ GetTimeout(w) \/ Run(w) \/ Finish(w)
    \/ Drain(w) \/ DrainGet(w)

SubmitStep(t) == Submit(t) \/ Put(t) \/ PutTimeout(t) \/ Cancel(t)

SchedulerNext ==
    \/ \E t \in Tasks : SubmitStep(t)
    \/ \E w \in Workers : WorkerStep(w)
    \/ Shutdown

SchedulerSpec == SchedulerInit /\ [][SchedulerNext]_schedulerVars

\* Worker threads are scheduled, and the functions they call return.
SchedulerFairSpec ==
    SchedulerSpec /\ \A w \in Workers : WF_schedulerVars(WorkerStep(w))

-----------------------------------------------------------------------------
(* Properties *)

\* The function of a task is called at most once, and never for a caller that
\* was refused, got SchedulerBusy, cancelled in time, or was told that the
\* scheduler stopped before execution.
RunsOnce ==
    \A t \in Tasks :
        /\ runs[t] <= 1
        /\ runs[t] = 1 => caller[t] = "accepted" /\ future[t] \in {"running", "finished"}

\* An accepted task whose future is pending is in the queue or in the hands of
\* a worker that has not left the loop: none is lost between get and drain.
NoTaskLost ==
    \A t \in Tasks :
        caller[t] = "accepted" /\ future[t] = "pending" =>
            t \in queue \/ \E w \in Workers : worker[w].pc = "got" /\ worker[w].task = t

Resolved(t) == future[t] \in {"cancelled", "finished", "dropped"}

\* A task that was in the queue before the stop has its future resolved,
\* executed or drained, however the workers interleave with the shutdown.
QueuedIsResolved ==
    \A t \in Tasks : (t \in queue /\ ~stop) ~> Resolved(t)

\* When the last worker has left, no future dangles ("Drain remaining tasks
\* with cancellation to avoid dangling futures").
NoDanglingFutures ==
    (\A w \in Workers : worker[w].pc = "exited") =>
        \A t \in Tasks : caller[t] = "accepted" => Resolved(t)

\* Inductive: who owns a task, and what its future then says.
TaskOwnership ==
    /\ \A t \in queue : caller[t] = "accepted"
    /\ \A t \in queue : future[t] \in {"pending", "cancelled"} /\ runs[t] = 0
    /\ \A t \in Tasks : caller[t] # "accepted" => future[t] = "pending" /\ runs[t] = 0
    /\ \A t \in Tasks : future[t] = "pending" => runs[t] = 0
    /\ \A w \in Workers :
         /\ worker[w].pc \in {"got", "run"} <=> worker[w].task # NoTask
         /\ worker[w].task \notin queue
         /\ worker[w].pc = "got" => /\ caller[worker[w].task] = "accepted"
                                    /\ future[worker[w].task] \in {"pending", "cancelled"}
                                    /\ runs[worker[w].task] = 0
         /\ worker[w].pc = "run" => future[worker[w].task] = "running"
    /\ \A v, w \in Workers :
         worker[v].task = worker[w].task /\ worker[v].task # NoTask => v = w
    /\ \A t \in Tasks : future[t] \in {"cancelled", "dropped"} => runs[t] = 0

\* The inductive invariant: a task is in the queue or in the hands of one worker,
\* a future that was cancelled never ran, and with it RunsOnce and NoTaskLost.
SchedulerInv == SchedulerTypeOK /\ TaskOwnership /\ RunsOnce /\ NoTaskLost
=============================================================================
