------------------------- MODULE DeploymentLifecycle -------------------------
(***************************************************************************)
(* The lifecycle of Reactor Deployments: ReactorService (service.py) over  *)
(* ReactorStore (store.py), driving an external execution host through the *)
(* serving ports (remote_engine.py, engine.py).                            *)
(*                                                                         *)
(* Every store call is one SQLite transaction, every engine call and every *)
(* report to the activity broker one request that may fail, so a command   *)
(* is a sequence of steps between which the process may crash, an unlocked *)
(* get_deployment may read, and another process (the CLI's `deployment     *)
(* stop`, which builds a ReactorService of its own over the same database) *)
(* may act.  The RLock `_commands` serialises the commands of one process  *)
(* only.                                                                   *)
(***************************************************************************)
EXTENDS Naturals, FiniteSets

CONSTANTS Deployments,  \* identities uuid4() may return
          Keys,         \* Idempotency-Key values clients send
          Composed,     \* the deployments that serve BASE_PLUS_LORA
          Processes,    \* operating-system processes that open the database
          Server,       \* the one of them that serves the HTTP API
          Readers,      \* concurrent get_deployment calls per deployment
          MaxVersion    \* bound: no command or read starts at this version

ASSUME ConstantsAssumption ==
    /\ Deployments # {}
    /\ Composed \subseteq Deployments
    /\ Server \in Processes
    /\ MaxVersion \in Nat \ {0}

VARIABLES
    dep,        \* table deployments: the Deployment document
    endpoint,   \* table endpoints: the Endpoint document of each deployment
    evidence,   \* table deployment_execution_evidence: an execution_ref is stored
    idem,       \* table idempotency, scope create-deployment: rows <<key, deployment>>
    lastPhase,  \* table deployment_events: the phase of the latest event
    origin,     \* history: the keys the create command of a deployment carried
    tasks,      \* external: state of the task deployment:<id> at the activity broker
    exec,       \* external: whether the execution host holds resources
    binding,    \* the port _engine() returns in this configuration
    cmd,        \* per process: the command that holds _commands and its locals
    reader      \* per deployment and reader: locals of an unlocked get_deployment

vars == <<dep, endpoint, evidence, idem, lastPhase, origin, tasks, exec,
          binding, cmd, reader>>

Phases == {"NONE", "QUEUED", "LOADING", "PROBING", "READY", "STOPPING",
           "RELEASED", "FAILED"}

Deployment ==
    [desired  : {"ACTIVE", "STOPPED"},
     observed : {"ABSENT", "STARTING", "READY", "DEGRADED", "FAILED",
                 "STOPPING", "STOPPED"},
     version  : Nat,
     linked   : BOOLEAN,     \* endpoint_id is set
     failure  : BOOLEAN]     \* failure is set

Endpoint ==
    [state   : {"ABSENT", "PROVISIONING", "READY", "UNHEALTHY", "RETIRED"},
     version : Nat]

NoDeployment == [desired |-> "STOPPED", observed |-> "ABSENT", version |-> 0,
                 linked |-> FALSE, failure |-> FALSE]
NoEndpoint   == [state |-> "ABSENT", version |-> 0]

Bindings == {"remote", "unconfigured", "missing"}

\* The steps of a command, by the state of its deployment: not stored yet,
\* STARTING, about to be stopped, STOPPING, STOPPED.  The others come after a
\* launch has ended.
CreatePcs   == {"admit", "persistIntent"}
LaunchPcs   == {"queued", "dispatch", "loading", "prepare", "start", "probe", "verify",
                "cleanup", "persistReady", "persistFailed"}
CancelPcs   == {"cancel", "persistStopping"}
StopPcs     == {"stopping", "release", "persistStopped"}
ReleasedPcs == {"completeStopped", "releasedEvent", "readmit", "persistStarting"}
CmdPcs      == {"idle", "completeReady", "readyEvent", "completeFailed", "failedEvent"}
                   \cup CreatePcs \cup LaunchPcs \cup CancelPcs \cup StopPcs \cup ReleasedPcs

\* The steps at which the activity broker is called.
BrokerPcs == {"admit", "dispatch", "cancel", "readmit", "completeReady", "completeFailed",
              "completeStopped"}

Command == [pc : CmdPcs, d : Deployments, dep : Deployment, ep : Endpoint,
            keys : SUBSET Keys,  \* the Idempotency-Key of a create, until it is stored
            restart : BOOLEAN,   \* the stop is the first half of a restart
            ref : BOOLEAN]       \* the failure carries execution_ref and URL

\* A command that has just taken _commands.
Holding(pc, d, doc, restart) ==
    [pc |-> pc, d |-> d, dep |-> doc, ep |-> NoEndpoint, keys |-> {},
     restart |-> restart, ref |-> FALSE]

Idle == Holding("idle", CHOOSE d \in Deployments : TRUE, NoDeployment, FALSE)

ReaderPcs == {"idle", "endpoint", "inspect", "lock", "save"}
Poll      == [pc : ReaderPcs, dep : Deployment, ep : Endpoint, ready : BOOLEAN]
NotPolling == [pc |-> "idle", dep |-> NoDeployment, ep |-> NoEndpoint, ready |-> FALSE]

Polls == Deployments \X Readers

\* The documents, the rows beside them and the locals of the calls keep the shapes
\* that domain.py and the tables of store.py give them; the broker tracks a
\* deployment only under the task states that runtime_activity.py maps to.
TypeOK ==
    /\ dep \in [Deployments -> Deployment]
    /\ endpoint \in [Deployments -> Endpoint]
    /\ evidence \in [Deployments -> BOOLEAN]
    /\ idem \subseteq Keys \X Deployments
    /\ lastPhase \in [Deployments -> Phases]
    /\ origin \in [Deployments -> SUBSET Keys]
    /\ tasks \in [Deployments -> {"NONE", "ACCEPTED", "DISPATCHING", "CANCELING"}]
    /\ exec \in [Deployments -> {"none", "held"}]
    /\ binding \in [Deployments -> Bindings]
    /\ cmd \in [Processes -> Command]
    /\ reader \in [Polls -> Poll]

Init ==
    /\ dep = [d \in Deployments |-> NoDeployment]
    /\ endpoint = [d \in Deployments |-> NoEndpoint]
    /\ evidence = [d \in Deployments |-> FALSE]
    /\ idem = {}
    /\ lastPhase = [d \in Deployments |-> "NONE"]
    /\ origin = [d \in Deployments |-> {}]
    /\ tasks = [d \in Deployments |-> "NONE"]
    /\ exec = [d \in Deployments |-> "none"]
    /\ binding \in [Deployments -> Bindings]
    /\ cmd = [p \in Processes |-> Idle]
    /\ reader = [x \in Polls |-> NotPolling]

-----------------------------------------------------------------------------
(* The documents the commands write (model_copy of the one they hold). *)

Link(doc)     == [doc EXCEPT !.linked = TRUE]
Failed(doc)   == [doc EXCEPT !.observed = "FAILED", !.failure = TRUE, !.version = @ + 1]
Ready(doc)    == [doc EXCEPT !.observed = "READY", !.linked = TRUE, !.failure = FALSE,
                             !.version = @ + 1]
Stopping(doc) == [doc EXCEPT !.desired = "STOPPED", !.observed = "STOPPING",
                             !.version = @ + 1]
Stopped(doc)  == [doc EXCEPT !.observed = "STOPPED", !.version = @ + 1]

\* Mutant of Starting: the version is not advanced.
StartingSameVersion(doc) == [doc EXCEPT !.desired = "ACTIVE", !.observed = "STARTING",
                                        !.failure = FALSE]
Starting(doc) == [doc EXCEPT !.desired = "ACTIVE", !.observed = "STARTING",
                             !.failure = FALSE, !.version = @ + 1]

\* What a reconciliation makes of the pair.
Observed(doc, ready) ==
    [doc EXCEPT !.observed = IF ready THEN "READY" ELSE "DEGRADED",
                !.failure = ~ready, !.version = @ + 1]

\* Mutant of ObservedEndpoint: only the version moves.
ObservedEndpointStale(ep, ready) == [ep EXCEPT !.version = @ + 1]
ObservedEndpoint(ep, ready) ==
    [state |-> IF ready THEN "READY" ELSE "UNHEALTHY", version |-> ep.version + 1]

NewDeployment == [desired |-> "ACTIVE", observed |-> "STARTING", version |-> 1,
                  linked |-> FALSE, failure |-> FALSE]

-----------------------------------------------------------------------------
(* Helpers shared by the commands. *)

\* _commands of process p is free.  A reader that holds it is in "save".
LockFree(p) ==
    /\ cmd[p].pc = "idle"
    /\ p = Server => \A x \in Polls : reader[x].pc # "save"

\* Process p is at step pc of its command.
At(p, pc) == cmd[p].pc = pc

Goto(p, pc) == cmd' = [cmd EXCEPT ![p].pc = pc]

\* Mutant of Return: an exception leaves _commands held.
ReturnKeepsLock(p) == UNCHANGED cmd

\* The command returns or raises: `with self._commands` releases the lock.
Return(p) == cmd' = [cmd EXCEPT ![p] = Idle]

\* save_pair, with the Deployment document the command goes on with.
SavePair(p, doc, ep, pc) ==
    /\ dep' = [dep EXCEPT ![cmd[p].d] = doc]
    /\ endpoint' = [endpoint EXCEPT ![cmd[p].d] = ep]
    /\ cmd' = [cmd EXCEPT ![p].dep = doc, ![p].pc = pc]

\* save_deployment
SaveDeployment(p, doc, pc) ==
    /\ dep' = [dep EXCEPT ![cmd[p].d] = doc]
    /\ cmd' = [cmd EXCEPT ![p].dep = doc, ![p].pc = pc]
    /\ UNCHANGED endpoint

\* The Endpoint a launch writes: the previous version plus one, or version 1.
NextEndpoint(p, state) ==
    [state   |-> state,
     version |-> IF cmd[p].dep.linked THEN endpoint[cmd[p].d].version + 1 ELSE 1]

AppendEvent(p, phase) == lastPhase' = [lastPhase EXCEPT ![cmd[p].d] = phase]

\* A deployment whose execution can be released: a stop finds the evidence and
\* the endpoint it needs to address the host.
Recoverable(d) == /\ evidence[d]
                  /\ dep[d].linked
                  /\ endpoint[d].state # "ABSENT"

-----------------------------------------------------------------------------
(* The calls of the activity broker that admit_and_persist,                  *)
(* transition_and_persist and complete_after_persist make before or after    *)
(* the transaction they wrap.                                                *)

\* Mutant of Told: a completion never reaches the broker.
ToldButNeverCompleted(p, state) ==
    tasks' = [tasks EXCEPT ![cmd[p].d] = IF state = "NONE" THEN @ ELSE state]

\* The broker has taken the state of the command's task; "NONE" completes it.
Told(p, state) == tasks' = [tasks EXCEPT ![cmd[p].d] = state]

\* Mutant of Report: a command goes on although the broker has failed.
ReportFailsOpen(p, pc, state, next) ==
    /\ At(p, pc)
    /\ Told(p, state) \/ UNCHANGED tasks
    /\ Goto(p, next)
    /\ UNCHANGED <<dep, endpoint, evidence, idem, lastPhase, origin, exec, binding, reader>>

\* The broker answers and the command goes on, or it refuses or does not answer:
\* the exception ends the command, whether the report has arrived or not.
Report(p, pc, state, next) ==
    /\ At(p, pc)
    /\ \/ Told(p, state) /\ Goto(p, next)
       \/ (Told(p, state) \/ UNCHANGED tasks) /\ Return(p)
    /\ UNCHANGED <<dep, endpoint, evidence, idem, lastPhase, origin, exec, binding, reader>>

Admit(p)           == Report(p, "admit", "ACCEPTED", "persistIntent")
Dispatch(p)        == Report(p, "dispatch", "DISPATCHING", "loading")
CompleteReady(p)   == Report(p, "completeReady", "NONE", "readyEvent")
CompleteFailed(p)  == Report(p, "completeFailed", "NONE", "failedEvent")
Cancel(p)          == Report(p, "cancel", "CANCELING", "persistStopping")
CompleteStopped(p) == Report(p, "completeStopped", "NONE", "releasedEvent")
Readmit(p)         == Report(p, "readmit", "ACCEPTED", "persistStarting")

-----------------------------------------------------------------------------
(* create_deployment *)

\* Mutant of RememberKey: create_intent commits the deployment alone.
ForgetKey(d, ks) == UNCHANGED idem

\* The idempotency row create_intent commits together with the deployment.
RememberKey(d, ks) == idem' = idem \cup (ks \X {d})

\* ks holds the Idempotency-Key, or nothing when the header is absent.  A key
\* with a row is a replay or a conflict, and neither writes.
Create(p, d, ks) ==
    /\ LockFree(p)
    /\ dep[d] = NoDeployment
    /\ \A k \in ks : \A e \in Deployments : <<k, e>> \notin idem
    /\ binding[d] # "missing"
    /\ cmd' = [cmd EXCEPT ![p] = [Holding("admit", d, NewDeployment, FALSE) EXCEPT !.keys = ks]]
    /\ UNCHANGED <<dep, endpoint, evidence, idem, lastPhase, origin, tasks, exec,
                   binding, reader>>

\* create_intent.  The row it looks for again cannot have appeared: only the
\* server creates deployments, one command at a time.
PersistIntent(p) ==
    LET d == cmd[p].d
    IN  /\ At(p, "persistIntent")
        /\ dep' = [dep EXCEPT ![d] = NewDeployment]
        /\ RememberKey(d, cmd[p].keys)
        /\ origin' = [origin EXCEPT ![d] = cmd[p].keys]
        /\ cmd' = [cmd EXCEPT ![p].pc = "queued", ![p].keys = {}]
        /\ UNCHANGED <<endpoint, evidence, lastPhase, tasks, exec, binding, reader>>

Queue(p) ==
    /\ At(p, "queued")
    /\ AppendEvent(p, "QUEUED")
    /\ Goto(p, "dispatch")
    /\ UNCHANGED <<dep, endpoint, evidence, idem, origin, tasks, exec, binding, reader>>

-----------------------------------------------------------------------------
(* _launch *)

Load(p) ==
    /\ At(p, "loading")
    /\ AppendEvent(p, "LOADING")
    /\ Goto(p, "prepare")
    /\ UNCHANGED <<dep, endpoint, evidence, idem, origin, tasks, exec, binding, reader>>

\* Mutant of Prepare: the handle is not stored before the start.
PrepareUnsaved(p) ==
    /\ At(p, "prepare")
    /\ Goto(p, "start")
    /\ UNCHANGED <<dep, endpoint, evidence, idem, lastPhase, origin, tasks, exec,
                   binding, reader>>

\* The remote port returns a stable handle, which is stored before anything
\* runs; the unconfigured port returns None; a binding that is no longer
\* configured makes _engine() raise out of the command.
Prepare(p) ==
    /\ At(p, "prepare")
    /\ \/ /\ binding[cmd[p].d] = "remote"
          /\ SavePair(p, Link(cmd[p].dep), NextEndpoint(p, "PROVISIONING"), "start")
          /\ evidence' = [evidence EXCEPT ![cmd[p].d] = TRUE]
       \/ /\ binding[cmd[p].d] = "unconfigured"
          /\ Goto(p, "start")
          /\ UNCHANGED <<dep, endpoint, evidence>>
       \/ /\ binding[cmd[p].d] = "missing"
          /\ Return(p)
          /\ UNCHANGED <<dep, endpoint, evidence>>
    /\ UNCHANGED <<idem, lastPhase, origin, tasks, exec, binding, reader>>

\* engine.start.  The request may take effect at the host whether or not its
\* answer arrives; "rejected" never left (no node, invalid model, no port).
EngineStart(d, outcome) ==
    \/ outcome = "rejected" /\ UNCHANGED exec
    \/ /\ binding[d] = "remote" /\ outcome \in {"failed", "handle"}
       /\ exec' = [exec EXCEPT ![d] = "held"]
    \/ binding[d] = "remote" /\ outcome = "failed" /\ UNCHANGED exec

\* A failure after the request carries the reference.  A handle for another
\* version of a composed model goes to _fail_composed_identity (the remote port
\* refuses such a handle by itself).
Start(p) ==
    LET d == cmd[p].d
        Fail(ref) == cmd' = [cmd EXCEPT ![p].pc = "persistFailed", ![p].ref = ref]
    IN  /\ At(p, "start")
        /\ \/ EngineStart(d, "rejected") /\ Fail(FALSE)
           \/ EngineStart(d, "failed") /\ Fail(TRUE)
           \/ EngineStart(d, "handle") /\ Goto(p, "probe")
           \/ d \in Composed /\ EngineStart(d, "handle") /\ Goto(p, "cleanup")
        /\ UNCHANGED <<dep, endpoint, evidence, idem, lastPhase, origin, tasks,
                       binding, reader>>

Probe(p) ==
    /\ At(p, "probe")
    /\ AppendEvent(p, "PROBING")
    /\ Goto(p, "verify")
    /\ UNCHANGED <<dep, endpoint, evidence, idem, origin, tasks, exec, binding, reader>>

\* verify_served_model
Verify(p) ==
    /\ At(p, "verify")
    /\ \/ exec[cmd[p].d] = "held" /\ Goto(p, "persistReady")
       \/ Goto(p, "cleanup")
    /\ UNCHANGED <<dep, endpoint, evidence, idem, lastPhase, origin, tasks,
                   exec, binding, reader>>

\* engine.stop, which returns only when the host confirms the release and may
\* fail before or after its effect.
EngineStop(d, confirmed) ==
    \/ binding[d] = "remote" /\ exec' = [exec EXCEPT ![d] = "none"]
    \/ ~confirmed /\ UNCHANGED exec

\* The engine stop of a failed launch, confirmed or not.  Only a composed
\* readback may raise a ValueError, which no handler catches, and the command
\* ends with the deployment STARTING.
Cleanup(p) ==
    /\ At(p, "cleanup")
    /\ \/ /\ \E confirmed \in BOOLEAN : EngineStop(cmd[p].d, confirmed)
          /\ cmd' = [cmd EXCEPT ![p].pc = "persistFailed", ![p].ref = TRUE]
       \/ cmd[p].d \in Composed /\ UNCHANGED exec /\ Return(p)
    /\ UNCHANGED <<dep, endpoint, evidence, idem, lastPhase, origin, tasks,
                   binding, reader>>

\* persist_failure: with a reference the endpoint is kept, UNHEALTHY, for stop.
PersistFailure(p) ==
    /\ At(p, "persistFailed")
    /\ \/ /\ cmd[p].ref
          /\ SavePair(p, Link(Failed(cmd[p].dep)), NextEndpoint(p, "UNHEALTHY"), "completeFailed")
          /\ evidence' = [evidence EXCEPT ![cmd[p].d] = TRUE]
       \/ /\ ~cmd[p].ref
          /\ SaveDeployment(p, Failed(cmd[p].dep), "completeFailed")
          /\ UNCHANGED evidence
    /\ UNCHANGED <<idem, lastPhase, origin, tasks, exec, binding, reader>>

FailedEvent(p) ==
    /\ At(p, "failedEvent")
    /\ AppendEvent(p, "FAILED")
    /\ Return(p)
    /\ UNCHANGED <<dep, endpoint, evidence, idem, origin, tasks, exec, binding, reader>>

PersistReady(p) ==
    /\ At(p, "persistReady")
    /\ SavePair(p, Ready(cmd[p].dep), NextEndpoint(p, "READY"), "completeReady")
    /\ evidence' = [evidence EXCEPT ![cmd[p].d] = TRUE]
    /\ UNCHANGED <<idem, lastPhase, origin, tasks, exec, binding, reader>>

ReadyEvent(p) ==
    /\ At(p, "readyEvent")
    /\ AppendEvent(p, "READY")
    /\ Return(p)
    /\ UNCHANGED <<dep, endpoint, evidence, idem, origin, tasks, exec, binding, reader>>

-----------------------------------------------------------------------------
(* stop_deployment, and the stop that opens a restart *)

Stop(p, d, restart) ==
    /\ LockFree(p)
    /\ dep[d].observed \notin {"ABSENT", "STOPPED"}
    /\ dep[d].version < MaxVersion
    /\ cmd' = [cmd EXCEPT ![p] = Holding("cancel", d, dep[d], restart)]
    /\ UNCHANGED <<dep, endpoint, evidence, idem, lastPhase, origin, tasks, exec,
                   binding, reader>>

PersistStopping(p) ==
    /\ At(p, "persistStopping")
    /\ SaveDeployment(p, Stopping(cmd[p].dep), "stopping")
    /\ UNCHANGED <<evidence, idem, lastPhase, origin, tasks, exec, binding, reader>>

StoppingEvent(p) ==
    /\ At(p, "stopping")
    /\ AppendEvent(p, "STOPPING")
    /\ Goto(p, "release")
    /\ UNCHANGED <<dep, endpoint, evidence, idem, origin, tasks, exec, binding, reader>>

\* Mutant of Release: the stop goes on although nothing was confirmed.
ReleaseUnconfirmed(p) ==
    /\ At(p, "release")
    /\ cmd' = [cmd EXCEPT ![p].pc = "persistStopped", ![p].ep = endpoint[cmd[p].d]]
    /\ UNCHANGED <<dep, endpoint, evidence, idem, lastPhase, origin, tasks, exec,
                   binding, reader>>

\* The stop, when there is evidence and an endpoint to address.  Any failure
\* raises and leaves the deployment STOPPING, whatever the host has done.
Release(p) ==
    LET d == cmd[p].d
        ep == IF cmd[p].dep.linked THEN endpoint[d] ELSE NoEndpoint
        addressed == evidence[d] /\ ep # NoEndpoint
        Confirmed == cmd' = [cmd EXCEPT ![p].pc = "persistStopped", ![p].ep = ep]
    IN  /\ At(p, "release")
        /\ \/ ~addressed /\ Confirmed /\ UNCHANGED exec
           \/ addressed /\ EngineStop(d, TRUE) /\ Confirmed
           \/ addressed /\ EngineStop(d, FALSE) /\ Return(p)
        /\ UNCHANGED <<dep, endpoint, evidence, idem, lastPhase, origin, tasks,
                       binding, reader>>

PersistStopped(p) ==
    /\ At(p, "persistStopped")
    /\ \/ /\ cmd[p].ep # NoEndpoint
          /\ SavePair(p, Stopped(cmd[p].dep),
                      [state |-> "RETIRED", version |-> cmd[p].ep.version + 1], "completeStopped")
       \/ /\ cmd[p].ep = NoEndpoint
          /\ SaveDeployment(p, Stopped(cmd[p].dep), "completeStopped")
    /\ UNCHANGED <<evidence, idem, lastPhase, origin, tasks, exec, binding, reader>>

ReleasedEvent(p) ==
    /\ At(p, "releasedEvent")
    /\ AppendEvent(p, "RELEASED")
    /\ IF cmd[p].restart THEN Goto(p, "readmit") ELSE Return(p)
    /\ UNCHANGED <<dep, endpoint, evidence, idem, origin, tasks, exec, binding, reader>>

-----------------------------------------------------------------------------
(* restart_deployment.  A caller whose resource_version is not the current  *)
(* one gets REACTOR_VERSION_CONFLICT and nothing changes.                   *)

Restart(p, d) ==
    /\ LockFree(p)
    /\ dep[d].observed = "STOPPED"
    /\ dep[d].version < MaxVersion
    /\ cmd' = [cmd EXCEPT ![p] = Holding("readmit", d, dep[d], FALSE)]
    /\ UNCHANGED <<dep, endpoint, evidence, idem, lastPhase, origin, tasks, exec,
                   binding, reader>>

PersistStarting(p) ==
    /\ At(p, "persistStarting")
    /\ SaveDeployment(p, Starting(cmd[p].dep), "queued")
    /\ UNCHANGED <<evidence, idem, lastPhase, origin, tasks, exec, binding, reader>>

-----------------------------------------------------------------------------
(* get_deployment: unlocked reads and an unlocked inspection, then a write   *)
(* under the lock only if the version has not moved.                         *)

\* Mutant of Reconcilable: a READY deployment is trusted.
OnlyDegraded(doc) == doc.observed = "DEGRADED" /\ doc.linked

\* The states get_deployment checks against the live execution.
Reconcilable(doc) == doc.observed \in {"READY", "DEGRADED"} /\ doc.linked

ReadDeployment(d, r) ==
    /\ reader[<<d, r>>].pc = "idle"
    /\ Reconcilable(dep[d])
    /\ dep[d].version < MaxVersion
    /\ reader' = [reader EXCEPT ![<<d, r>>].pc = "endpoint", ![<<d, r>>].dep = dep[d]]
    /\ UNCHANGED <<dep, endpoint, evidence, idem, lastPhase, origin, tasks, exec,
                   binding, cmd>>

\* The endpoint and the execution_ref; without a reference, or without the
\* binding, the call is over.
ReadEndpoint(d, r) ==
    /\ reader[<<d, r>>].pc = "endpoint"
    /\ reader' = IF evidence[d] /\ binding[d] # "missing"
                 THEN [reader EXCEPT ![<<d, r>>].pc = "inspect", ![<<d, r>>].ep = endpoint[d]]
                 ELSE [reader EXCEPT ![<<d, r>>] = NotPolling]
    /\ UNCHANGED <<dep, endpoint, evidence, idem, lastPhase, origin, tasks, exec,
                   binding, cmd>>

\* engine.inspect may fail although the execution runs, but it confirms
\* readiness only of a running one.
EngineInspect(d, ready) == ready => exec[d] = "held" /\ binding[d] = "remote"

\* A pair that already shows what was observed is not written again.
Inspect(d, r) ==
    /\ reader[<<d, r>>].pc = "inspect"
    /\ \E ready \in BOOLEAN :
         LET poll == reader[<<d, r>>]
             changed == \/ poll.dep.observed # Observed(poll.dep, ready).observed
                        \/ poll.ep.state # ObservedEndpoint(poll.ep, ready).state
         IN  /\ EngineInspect(d, ready)
             /\ reader' = IF changed
                          THEN [reader EXCEPT ![<<d, r>>].pc = "lock",
                                              ![<<d, r>>].ready = ready]
                          ELSE [reader EXCEPT ![<<d, r>>] = NotPolling]
    /\ UNCHANGED <<dep, endpoint, evidence, idem, lastPhase, origin, tasks, exec,
                   binding, cmd>>

\* Mutant of ReconcileCheck: the version is not read again under the lock.
ReconcileUnchecked(d, r) ==
    /\ reader[<<d, r>>].pc = "lock"
    /\ LockFree(Server)
    /\ reader' = [reader EXCEPT ![<<d, r>>].pc = "save"]
    /\ UNCHANGED <<dep, endpoint, evidence, idem, lastPhase, origin, tasks, exec,
                   binding, cmd>>

\* Take _commands and compare the version read before the inspection.
ReconcileCheck(d, r) ==
    /\ reader[<<d, r>>].pc = "lock"
    /\ LockFree(Server)
    /\ reader' = IF dep[d].version = reader[<<d, r>>].dep.version
                 THEN [reader EXCEPT ![<<d, r>>].pc = "save"]
                 ELSE [reader EXCEPT ![<<d, r>>] = NotPolling]
    /\ UNCHANGED <<dep, endpoint, evidence, idem, lastPhase, origin, tasks, exec,
                   binding, cmd>>

ReconcileSave(d, r) ==
    LET poll == reader[<<d, r>>]
    IN  /\ poll.pc = "save"
        /\ dep' = [dep EXCEPT ![d] = Observed(poll.dep, poll.ready)]
        /\ endpoint' = [endpoint EXCEPT ![d] = ObservedEndpoint(poll.ep, poll.ready)]
        /\ reader' = [reader EXCEPT ![<<d, r>>] = NotPolling]
        /\ UNCHANGED <<evidence, idem, lastPhase, origin, tasks, exec, binding, cmd>>

-----------------------------------------------------------------------------
(* The environment *)

\* The execution host loses an execution by itself.
ExecutionLost(d) ==
    /\ exec[d] = "held"
    /\ exec' = [exec EXCEPT ![d] = "none"]
    /\ UNCHANGED <<dep, endpoint, evidence, idem, lastPhase, origin, tasks,
                   binding, cmd, reader>>

\* list_active_activity_tasks: the tasks a starting process reports.
ActiveTask(doc) ==
    CASE doc.observed = "STOPPING" -> "CANCELING"
      [] doc.observed = "STARTING" -> "DISPATCHING"
      [] OTHER -> "NONE"

\* Process p dies at any point and is started again, reporting the active tasks
\* as every new ReactorService does; the server may come back with another
\* configuration of its bindings.
Crash(p) ==
    /\ cmd' = [cmd EXCEPT ![p] = Idle]
    /\ tasks' = [d \in Deployments |-> ActiveTask(dep[d])]
    /\ \/ /\ p # Server
          /\ UNCHANGED <<binding, reader>>
       \/ /\ p = Server
          /\ binding' \in [Deployments -> Bindings]
          /\ reader' = [x \in Polls |-> NotPolling]
    /\ UNCHANGED <<dep, endpoint, evidence, idem, lastPhase, origin, exec>>

-----------------------------------------------------------------------------

\* The next step of the command that holds the lock of process p.
CommandStep(p) ==
    \/ Admit(p) \/ PersistIntent(p) \/ Queue(p) \/ Dispatch(p) \/ Load(p)
    \/ Prepare(p) \/ Start(p) \/ Probe(p) \/ Verify(p) \/ Cleanup(p)
    \/ PersistFailure(p) \/ CompleteFailed(p) \/ FailedEvent(p)
    \/ PersistReady(p) \/ CompleteReady(p) \/ ReadyEvent(p)
    \/ Cancel(p) \/ PersistStopping(p) \/ StoppingEvent(p) \/ Release(p)
    \/ PersistStopped(p) \/ CompleteStopped(p) \/ ReleasedEvent(p)
    \/ Readmit(p) \/ PersistStarting(p)

\* The HTTP API offers every command; the CLI only `deployment stop`.
Begin(p) ==
    \E d \in Deployments :
        \/ p = Server /\ Create(p, d, {})
        \/ p = Server /\ \E k \in Keys : Create(p, d, {k})
        \/ Stop(p, d, FALSE)
        \/ p = Server /\ Stop(p, d, TRUE)
        \/ p = Server /\ Restart(p, d)

ReadStep(d, r) ==
    \/ ReadDeployment(d, r) \/ ReadEndpoint(d, r) \/ Inspect(d, r)
    \/ ReconcileCheck(d, r) \/ ReconcileSave(d, r)

Next ==
    \/ \E p \in Processes : Begin(p) \/ CommandStep(p) \/ Crash(p)
    \/ \E d \in Deployments, r \in Readers : ReadStep(d, r)
    \/ \E d \in Deployments : ExecutionLost(d)

Spec == Init /\ [][Next]_vars

\* Store calls return, engine and broker calls return or raise (every request has a timeout), so a
\* command runs on and a client's polls are served.
Fairness ==
    /\ \A p \in Processes : WF_vars(CommandStep(p))
    /\ \A d \in Deployments, r \in Readers : WF_vars(ReadStep(d, r))

FairSpec == Spec /\ Fairness

-----------------------------------------------------------------------------
(* Properties *)

\* A deployment is STOPPED only when the host holds nothing for it: whatever
\* crashed, failed or was retried before, persist_stopped is reached only
\* through a confirmed release (or when nothing could have been started).
StoppedMeansReleased ==
    \A d \in Deployments : dep[d].observed = "STOPPED" => exec[d] = "none"

\* Whatever the host holds can be released: the execution_ref and the endpoint
\* that a stop needs were stored before the start request left (_launch's
\* save_pair between prepare and start), and no later write loses them.
HeldIsRecoverable ==
    \A d \in Deployments : exec[d] = "held" => Recoverable(d)

\* The event RELEASED ("Deployment stopped and resources released") is the
\* latest event only while nothing is held.
ReleasedIsTrue ==
    \A d \in Deployments : lastPhase[d] = "RELEASED" => exec[d] = "none"

\* The two documents of save_pair agree: a READY endpoint belongs to a READY
\* deployment (or to one being stopped), a stopped one is retired, and the
\* failure document is there exactly when the state calls for it.
PairAgrees ==
    \A d \in Deployments :
        /\ dep[d].linked <=> endpoint[d].state # "ABSENT"
        /\ dep[d].observed = "READY" => endpoint[d].state = "READY" /\ ~dep[d].failure
        /\ dep[d].observed = "DEGRADED" => endpoint[d].state = "UNHEALTHY" /\ dep[d].failure
        /\ dep[d].observed = "FAILED" => dep[d].failure
        /\ dep[d].observed = "STOPPED" => endpoint[d].state \in {"ABSENT", "RETIRED"}
        /\ endpoint[d].state = "READY" => dep[d].observed \in {"READY", "STOPPING"}

\* No untracked work: the broker is told before the store, and a command whose
\* report fails stores nothing, so that the broker has an active task for every
\* deployment in transition whichever calls it refused, lost or never answered.
ActivityTracksTransitions ==
    \A d \in Deployments :
        /\ dep[d].observed = "STARTING" => tasks[d] # "NONE"
        /\ dep[d].observed = "STOPPING" => tasks[d] = "CANCELING"

\* EndsAreReported: when a command ends in any other way than by a broker call that
\* failed, its process dying in the middle of such a call included, the broker has a
\* task for its deployment exactly if the deployment is left in transition.
EndsAreReportedStep ==
    \A p \in Processes :
        LET d == cmd[p].d
        IN  /\ cmd[p].pc # "idle" /\ cmd'[p].pc = "idle"
            /\ cmd[p].pc \notin BrokerPcs \/ Crash(p)
            => (tasks'[d] # "NONE" <=> dep'[d].observed \in {"STARTING", "STOPPING"})

\* A task outlives its command only with the transition, or after a failed report.
EndsAreReported == [][EndsAreReportedStep]_vars

\* However often a create command is retried, also across crashes, one
\* Idempotency-Key makes at most one deployment (create_intent).
OneDeploymentPerKey ==
    \A d, e \in Deployments : origin[d] \cap origin[e] # {} => d = e

\* NoRevival: a deployment that was told to stop becomes ACTIVE again only by a restart of
\* the STOPPED deployment; no late reconciliation or launch revives it.
NoRevivalStep ==
    \A d \in Deployments :
        dep[d].desired = "STOPPED" /\ dep'[d].desired = "ACTIVE" =>
            /\ dep[d].observed \in {"STOPPED", "ABSENT"}
            /\ dep'[d].observed = "STARTING"

\* No late reconciliation or launch revives a deployment told to stop.
NoRevival == [][NoRevivalStep]_vars

\* VersionsOrderStates: resource_version orders the documents.  It never goes back, an unchanged
\* deployment version means unchanged states, and every change of the endpoint
\* document has a version of its own.  restart_deployment and get_deployment
\* both rely on it.
VersionStep ==
    \A d \in Deployments :
        /\ dep[d].version <= dep'[d].version
        /\ dep'[d].version = dep[d].version =>
               dep'[d].observed = dep[d].observed /\ dep'[d].desired = dep[d].desired
        /\ endpoint[d].version <= endpoint'[d].version
        /\ endpoint'[d] # endpoint[d] => endpoint[d].version < endpoint'[d].version

\* resource_version orders the documents that save_pair and save_deployment write.
VersionsOrderStates == [][VersionStep]_vars

-----------------------------------------------------------------------------
(* The abstract specification that the lifecycle implements. *)

Contract == INSTANCE DeploymentContract WITH
                state   <- [d \in Deployments |-> dep[d].observed],
                version <- [d \in Deployments |-> dep[d].version],
                url     <- [d \in Deployments |-> endpoint[d].state],
                held    <- {d \in Deployments : exec[d] = "held"}

\* Commands, polls, crashes and changes of the configuration together implement
\* the contract of the public documents: every step of theirs is one step of the
\* contract, or none that a client or the host could see.
ImplementsContract == Contract!ContractSpec

-----------------------------------------------------------------------------
(* The inductive invariant behind the safety properties above, for a single  *)
(* process.                                                                  *)

SingleProcess == Processes = {Server}

\* The locals of the command in progress are what the store holds, once it holds
\* the deployment.
LocalsAreStored ==
    \A p \in Processes :
        /\ cmd[p].pc \notin CreatePcs \cup {"idle"} => cmd[p].dep = dep[cmd[p].d]
        /\ cmd[p].pc \in CreatePcs => cmd[p].dep = NewDeployment

\* Where a command stands determines the states of its deployment.
CommandStates ==
    \A p \in Processes :
        LET d == cmd[p].d
        IN  /\ cmd[p].pc \in CreatePcs => dep[d] = NoDeployment
            /\ cmd[p].pc \in LaunchPcs =>
                   dep[d].observed = "STARTING" /\ dep[d].desired = "ACTIVE"
            /\ cmd[p].pc \in {"completeReady", "readyEvent"} => dep[d].observed = "READY"
            /\ cmd[p].pc \in {"completeFailed", "failedEvent"} => dep[d].observed = "FAILED"
            /\ cmd[p].pc \in CancelPcs => dep[d].observed \notin {"ABSENT", "STOPPED"}
            /\ cmd[p].pc \in StopPcs =>
                   dep[d].observed = "STOPPING" /\ dep[d].desired = "STOPPED"
            /\ cmd[p].pc \in ReleasedPcs =>
                   dep[d].observed = "STOPPED" /\ dep[d].desired = "STOPPED"

\* What a command has made sure of before it touches the execution host.
CommandFacts ==
    \A p \in Processes :
        LET d == cmd[p].d
        IN  /\ cmd[p].pc \in {"queued", "dispatch", "loading", "prepare", "start",
                              "persistStopped"} => exec[d] = "none"
            /\ cmd[p].pc = "start" /\ binding[d] = "remote" => Recoverable(d)
            /\ cmd[p].pc \in {"probe", "verify", "cleanup", "persistReady"} => Recoverable(d)
            /\ cmd[p].pc = "persistFailed" /\ cmd[p].ref => Recoverable(d)
            /\ cmd[p].pc \in LaunchPcs \ {"queued", "dispatch", "loading"} =>
                   lastPhase[d] # "RELEASED"
            /\ cmd[p].pc = "persistStopped" => cmd[p].ep = endpoint[d]

\* The states in which an execution may be held.
HeldStates ==
    \A d \in Deployments :
        exec[d] = "held" => /\ Recoverable(d)
                            /\ dep[d].observed \notin {"ABSENT", "STOPPED"}
                            /\ lastPhase[d] # "RELEASED"

\* PairAgrees, with the endpoint states of the remaining deployment states.
PairStates ==
    /\ PairAgrees
    /\ \A d \in Deployments :
        /\ dep[d].observed = "ABSENT" => dep[d] = NoDeployment
        /\ endpoint[d].state = "ABSENT" => endpoint[d] = NoEndpoint
        /\ dep[d].observed = "STARTING" => endpoint[d].state \in {"ABSENT", "PROVISIONING", "RETIRED"}
        /\ dep[d].observed \in {"STARTING", "READY", "DEGRADED", "FAILED"} => dep[d].desired = "ACTIVE"
        /\ dep[d].observed \in {"STOPPING", "STOPPED"} => dep[d].desired = "STOPPED"

\* A snapshot whose version is still current is still the stored pair; a poll
\* that is about to write holds the lock.
PollsAreCurrent ==
    \A x \in Polls :
        LET d == x[1]
            poll == reader[x]
        IN  poll.pc # "idle" =>
                /\ Reconcilable(poll.dep)
                /\ poll.dep.version <= dep[d].version
                /\ poll.dep.version = dep[d].version =>
                       /\ poll.dep = dep[d]
                       /\ poll.pc # "endpoint" => poll.ep = endpoint[d]
                /\ poll.pc = "save" => /\ poll.dep.version = dep[d].version
                                       /\ cmd[Server].pc = "idle"
                                       /\ \A y \in Polls : reader[y].pc = "save" => y = x

\* The inductive invariant: what a command inside _commands, the engine and a
\* poll between its read and its save know of the stored documents, whatever
\* crashed or was lost before.
IndInv ==
    /\ TypeOK
    /\ LocalsAreStored
    /\ CommandStates
    /\ CommandFacts
    /\ HeldStates
    /\ PairStates
    /\ PollsAreCurrent

\* What a launch knows of its endpoint when the host is asked for something, and of
\* the host when it fails without a reference: for one process, inductive with IndInv.
LaunchFacts ==
    \A p \in Processes :
        LET d == cmd[p].d
        IN  /\ cmd[p].pc = "start" /\ binding[d] = "remote" => endpoint[d].state = "PROVISIONING"
            /\ cmd[p].pc \in {"probe", "verify", "cleanup", "persistReady"} =>
                   endpoint[d].state = "PROVISIONING"
            /\ cmd[p].pc = "persistFailed" /\ ~cmd[p].ref => exec[d] = "none"

\* The rows of the idempotency table are the keys of the create commands, and a
\* deployment that does not exist has none.
KeysAreStored ==
    \A d \in Deployments : /\ \A k \in Keys : <<k, d>> \in idem <=> k \in origin[d]
                           /\ dep[d] = NoDeployment => origin[d] = {}

\* A create between its look at the table and create_intent: its key still has no
\* row, because no other process creates.
KeysArePending ==
    \A p \in Processes :
        cmd[p].pc \in CreatePcs => /\ p = Server
                                  /\ origin[cmd[p].d] = {}
                                  /\ \A k \in cmd[p].keys, e \in Deployments : k \notin origin[e]

\* The inductive invariant behind OneDeploymentPerKey, for any number of processes:
\* create_intent stores the key with the deployment, so that a retry finds it.
KeyInv == KeysAreStored /\ KeysArePending /\ OneDeploymentPerKey

\* What a command has told the broker before it stores a transition, and after its end
\* is reported: with ActivityTracksTransitions, inductive for one process.
ReportFacts ==
    \A p \in Processes :
        LET d == cmd[p].d
        IN  /\ cmd[p].pc \in {"persistIntent", "persistStarting"} => tasks[d] # "NONE"
            /\ cmd[p].pc = "persistStopping" => tasks[d] = "CANCELING"
            /\ cmd[p].pc \in {"readyEvent", "failedEvent", "releasedEvent"} => tasks[d] = "NONE"

-----------------------------------------------------------------------------
(* Liveness *)

\* Every command eventually returns and frees _commands.
CommandsReturn ==
    \A p \in Processes : cmd[p].pc # "idle" ~> cmd[p].pc = "idle"

\* The process dies in, or an exception leaves, the broker call process p is at.
ReportFails(p) == cmd[p].pc \in BrokerPcs /\ cmd'[p].pc = "idle"

\* A READY deployment whose execution is gone is not shown as READY for ever:
\* some poll of the running server reconciles it, as long as its binding is
\* configured (MaxVersion leaves room for the write).  Commands that fail at the
\* broker one after the other could keep the polls from the lock for ever.
LossIsNoticed ==
    \A d \in Deployments :
        <>[][\A p \in Processes : ~Crash(p) /\ ~ReportFails(p)]_vars =>
            ((dep[d].observed = "READY" /\ exec[d] = "none" /\ dep[d].version < MaxVersion)
                ~> (dep[d].observed # "READY" \/ exec[d] = "held" \/ binding[d] = "missing"))
=============================================================================
