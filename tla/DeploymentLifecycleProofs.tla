---------------------- MODULE DeploymentLifecycleProofs ----------------------
(* Proofs about DeploymentLifecycle, for every value of its constants: types,  *)
(* keys and, with DeploymentDrafts, drafts; for any number of processes.       *)
EXTENDS DeploymentDrafts, TLAPS

\* The idle records are well typed.
LEMMA NullTypes ==
    /\ NoDeployment \in Deployment
    /\ NoEndpoint \in Endpoint
    /\ Idle \in Command
    /\ NotPolling \in Poll
<1>1. (CHOOSE d \in Deployments : TRUE) \in Deployments
  BY ConstantsAssumption
<1>. QED
  BY <1>1 DEF NoDeployment, NoEndpoint, Idle, Holding, NotPolling, Deployment, Endpoint,
              Command, Poll, CmdPcs, ReaderPcs

\* The documents the commands and the reconciliation write, field by field.
LEMMA Documents ==
    ASSUME NEW doc \in Deployment
    PROVE  /\ Link(doc) \in Deployment
           /\ Link(doc).desired = doc.desired
           /\ Link(doc).observed = doc.observed
           /\ Link(doc).version = doc.version
           /\ Link(doc).linked
           /\ Link(doc).failure = doc.failure
           /\ Failed(doc) \in Deployment
           /\ Failed(doc).desired = doc.desired
           /\ Failed(doc).observed = "FAILED"
           /\ Failed(doc).version = doc.version + 1
           /\ Failed(doc).linked = doc.linked
           /\ Failed(doc).failure
           /\ Ready(doc) \in Deployment
           /\ Ready(doc).desired = doc.desired
           /\ Ready(doc).observed = "READY"
           /\ Ready(doc).version = doc.version + 1
           /\ Ready(doc).linked
           /\ ~Ready(doc).failure
           /\ Stopping(doc) \in Deployment
           /\ Stopping(doc).desired = "STOPPED"
           /\ Stopping(doc).observed = "STOPPING"
           /\ Stopping(doc).version = doc.version + 1
           /\ Stopping(doc).linked = doc.linked
           /\ Stopped(doc) \in Deployment
           /\ Stopped(doc).desired = doc.desired
           /\ Stopped(doc).observed = "STOPPED"
           /\ Stopped(doc).version = doc.version + 1
           /\ Stopped(doc).linked = doc.linked
           /\ Starting(doc) \in Deployment
           /\ Starting(doc).desired = "ACTIVE"
           /\ Starting(doc).observed = "STARTING"
           /\ Starting(doc).version = doc.version + 1
           /\ Starting(doc).linked = doc.linked
           /\ NewDeployment \in Deployment
<1>1. doc.version + 1 \in Nat
  BY DEF Deployment
<1>. QED
  BY <1>1 DEF Deployment, Link, Failed, Ready, Stopping, Stopped, Starting, NewDeployment

\* What a reconciliation writes has the type of the documents.
LEMMA ObservedPair ==
    ASSUME NEW doc \in Deployment, NEW ep \in Endpoint, NEW ready \in BOOLEAN
    PROVE  /\ Observed(doc, ready) \in Deployment
           /\ Observed(doc, ready).desired = doc.desired
           /\ Observed(doc, ready).observed = IF ready THEN "READY" ELSE "DEGRADED"
           /\ Observed(doc, ready).version = doc.version + 1
           /\ Observed(doc, ready).linked = doc.linked
           /\ Observed(doc, ready).failure = ~ready
           /\ ObservedEndpoint(ep, ready) \in Endpoint
           /\ ObservedEndpoint(ep, ready).state = IF ready THEN "READY" ELSE "UNHEALTHY"
           /\ ObservedEndpoint(ep, ready).version = ep.version + 1
<1>1. doc.version + 1 \in Nat /\ ep.version + 1 \in Nat
  BY DEF Deployment, Endpoint
<1>2. CASE ready
  BY <1>1, <1>2 DEF Deployment, Endpoint, Observed, ObservedEndpoint
<1>3. CASE ~ready
  BY <1>1, <1>3 DEF Deployment, Endpoint, Observed, ObservedEndpoint
<1>. QED
  BY <1>2, <1>3

\* A command that takes the lock.
LEMMA HoldingType ==
    ASSUME NEW pc \in CmdPcs, NEW d \in Deployments, NEW doc \in Deployment,
           NEW restart \in BOOLEAN
    PROVE  Holding(pc, d, doc, restart) \in Command
BY DEF Holding, Command, NoEndpoint, Endpoint

\* Initial states are well typed.
LEMMA InitType == Init => TypeOK
BY NullTypes DEF Init, TypeOK, Phases

\* The Endpoint document of a launch is well typed.
LEMMA NextEndpointType ==
    ASSUME TypeOK, NEW p \in Processes,
           NEW state \in {"ABSENT", "PROVISIONING", "READY", "UNHEALTHY", "RETIRED"}
    PROVE  NextEndpoint(p, state) \in Endpoint
<1>1. cmd[p].d \in Deployments
  BY DEF TypeOK, Command
<1>2. endpoint[cmd[p].d].version \in Nat
  BY <1>1 DEF TypeOK, Endpoint
<1>. QED
  BY <1>2 DEF NextEndpoint, Endpoint

\* What the helpers of the commands assign is well typed.
LEMMA HelperTypes ==
    ASSUME TypeOK, NEW p \in Processes, NEW pc \in CmdPcs,
           NEW doc \in Deployment, NEW ep \in Endpoint
    PROVE  /\ Goto(p, pc) => cmd' \in [Processes -> Command]
           /\ Return(p) => cmd' \in [Processes -> Command]
           /\ SavePair(p, doc, ep, pc) => /\ dep' \in [Deployments -> Deployment]
                                          /\ endpoint' \in [Deployments -> Endpoint]
                                          /\ cmd' \in [Processes -> Command]
           /\ SaveDeployment(p, doc, pc) => /\ dep' \in [Deployments -> Deployment]
                                            /\ endpoint' \in [Deployments -> Endpoint]
                                            /\ cmd' \in [Processes -> Command]
<1>1. cmd[p] \in Command /\ cmd[p].d \in Deployments
  BY DEF TypeOK, Command
<1>2. [cmd[p] EXCEPT !.pc = pc] \in Command
  BY <1>1 DEF Command
<1>3. [[cmd[p] EXCEPT !.dep = doc] EXCEPT !.pc = pc] \in Command
  BY <1>1 DEF Command
<1>4. Goto(p, pc) => cmd' \in [Processes -> Command]
  BY <1>2 DEF TypeOK, Goto
<1>5. Return(p) => cmd' \in [Processes -> Command]
  BY NullTypes DEF TypeOK, Return
<1>6. cmd' = [cmd EXCEPT ![p].dep = doc, ![p].pc = pc] => cmd' \in [Processes -> Command]
  BY <1>3 DEF TypeOK
<1>. QED
  BY <1>1, <1>4, <1>5, <1>6 DEF TypeOK, SavePair, SaveDeployment

\* The steps that the broker's calls lead to are steps of a command.
LEMMA CommandPcs ==
    /\ {"admit", "persistIntent", "queued", "dispatch", "loading", "prepare", "start", "probe",
        "verify", "cleanup", "persistReady", "persistFailed", "completeReady", "readyEvent",
        "completeFailed", "failedEvent", "cancel", "persistStopping", "stopping", "release",
        "persistStopped", "completeStopped", "releasedEvent", "readmit", "persistStarting"}
           \subseteq CmdPcs
BY DEF CmdPcs, CreatePcs, LaunchPcs, CancelPcs, StopPcs, ReleasedPcs

\* The calls of the broker keep the types.
LEMMA ReportType ==
    ASSUME TypeOK, NEW p \in Processes, NEW pc, NEW next \in CmdPcs,
           NEW state \in {"NONE", "ACCEPTED", "DISPATCHING", "CANCELING"},
           Report(p, pc, state, next)
    PROVE  TypeOK'
<1>1. cmd[p].d \in Deployments /\ NoDeployment \in Deployment /\ NoEndpoint \in Endpoint
  BY NullTypes DEF TypeOK, Command
<1>2. cmd' \in [Processes -> Command]
  BY <1>1, HelperTypes DEF Report
<1>3. tasks' \in [Deployments -> {"NONE", "ACCEPTED", "DISPATCHING", "CANCELING"}]
  BY <1>1 DEF Report, Told, TypeOK
<1>. QED
  BY <1>2, <1>3 DEF Report, TypeOK

\* The steps of a command that a call of the broker makes.
ReportStep(p) ==
    \/ Admit(p) \/ Dispatch(p) \/ CompleteReady(p) \/ CompleteFailed(p)
    \/ Cancel(p) \/ CompleteStopped(p) \/ Readmit(p)

\* They write nothing but the broker's task and the command's position.
LEMMA ReportWrites ==
    ASSUME NEW p \in Processes, ReportStep(p)
    PROVE  UNCHANGED <<dep, endpoint, evidence, idem, lastPhase, origin, exec, binding, reader>>
BY DEF ReportStep, Admit, Dispatch, CompleteReady, CompleteFailed, Cancel, CompleteStopped,
       Readmit, Report

\* The steps of a command keep the types.
LEMMA CommandStepType ==
    ASSUME TypeOK, NEW p \in Processes, CommandStep(p)
    PROVE  TypeOK'
<1> DEFINE c == cmd[p]
<1> USE NullTypes DEF TypeOK
<1>0. /\ c \in Command
      /\ c.d \in Deployments /\ c.dep \in Deployment /\ c.ep \in Endpoint
  BY DEF Command
<1>00. /\ Link(c.dep) \in Deployment /\ Link(Failed(c.dep)) \in Deployment
       /\ Failed(c.dep) \in Deployment /\ Ready(c.dep) \in Deployment
       /\ Stopped(c.dep) \in Deployment /\ Starting(c.dep) \in Deployment
       /\ Stopping(c.dep) \in Deployment
  BY <1>0, Documents
<1>1. CASE Queue(p)
  BY <1>1, <1>0, CommandPcs DEF Queue, AppendEvent, Goto, Command, Phases
<1>2. CASE Load(p)
  BY <1>2, <1>0, CommandPcs DEF Load, AppendEvent, Goto, Command, Phases
<1>3. CASE Prepare(p)
  <2>1. NextEndpoint(p, "PROVISIONING") \in Endpoint
    BY NextEndpointType
  <2>2. "start" \in CmdPcs
    BY CommandPcs
  <2>. QED
    BY <1>3, <1>0, <1>00, <2>1, <2>2, HelperTypes DEF Prepare
<1>4. CASE Start(p)
  BY <1>4, <1>0, CommandPcs, SMTT(30) DEF Start, EngineStart, Goto, Command
<1>5. CASE Probe(p)
  BY <1>5, <1>0, CommandPcs DEF Probe, AppendEvent, Goto, Command, Phases
<1>6. CASE Verify(p)
  BY <1>6, <1>0, CommandPcs, SMTT(30) DEF Verify, Goto, Command
<1>7. CASE Cleanup(p)
  <2>1. [[c EXCEPT !.pc = "persistFailed"] EXCEPT !.ref = TRUE] \in Command
    BY <1>0, CommandPcs DEF Command
  <2>2. cmd' \in [Processes -> Command]
    BY <1>7, <2>1 DEF Cleanup, EngineStop, Return
  <2>. QED
    BY <1>7, <1>0, <2>2 DEF Cleanup, EngineStop
<1>8. CASE PersistFailure(p)
  <2>1. NextEndpoint(p, "UNHEALTHY") \in Endpoint
    BY NextEndpointType
  <2>2. "completeFailed" \in CmdPcs
    BY CommandPcs
  <2>. QED
    BY <1>8, <1>0, <1>00, <2>1, <2>2, HelperTypes DEF PersistFailure
<1>9. CASE FailedEvent(p)
  BY <1>9, <1>0 DEF FailedEvent, AppendEvent, Return, Phases
<1>10. CASE PersistReady(p)
  <2>1. NextEndpoint(p, "READY") \in Endpoint
    BY NextEndpointType
  <2>. QED
    BY <1>10, <1>0, <1>00, <2>1, CommandPcs DEF PersistReady, SavePair, Command
<1>11. CASE ReadyEvent(p)
  BY <1>11, <1>0 DEF ReadyEvent, AppendEvent, Return, Phases
<1>12. CASE StoppingEvent(p)
  BY <1>12, <1>0, CommandPcs DEF StoppingEvent, AppendEvent, Goto, Command, Phases
<1>13. CASE Release(p)
  <2>1. (IF c.dep.linked THEN endpoint[c.d] ELSE NoEndpoint) \in Endpoint
    BY <1>0
  <2>2. [[c EXCEPT !.pc = "persistStopped"]
             EXCEPT !.ep = IF c.dep.linked THEN endpoint[c.d] ELSE NoEndpoint] \in Command
    BY <1>0, <2>1, CommandPcs DEF Command
  <2>3. cmd' \in [Processes -> Command]
    BY <1>13, <2>2 DEF Release, Return
  <2>4. exec' \in [Deployments -> {"none", "held"}]
    BY <1>13, <1>0 DEF Release, EngineStop
  <2>. QED
    BY <1>13, <2>3, <2>4 DEF Release
<1>14. CASE PersistStopped(p)
  <2>1. [state |-> "RETIRED", version |-> c.ep.version + 1] \in Endpoint
    BY <1>0 DEF Endpoint
  <2>2. "completeStopped" \in CmdPcs
    BY CommandPcs
  <2>. QED
    BY <1>14, <1>0, <1>00, <2>1, <2>2, HelperTypes DEF PersistStopped
<1>15. CASE ReleasedEvent(p)
  <2>1. "readmit" \in CmdPcs
    BY CommandPcs
  <2>. QED
    BY <1>15, <1>0, <2>1, HelperTypes DEF ReleasedEvent, AppendEvent, Phases
<1>16. CASE PersistStarting(p)
  BY <1>16, <1>0, <1>00, CommandPcs
  DEF PersistStarting, SaveDeployment, Command
<1>17. CASE PersistStopping(p)
  BY <1>17, <1>0, <1>00, CommandPcs
  DEF PersistStopping, SaveDeployment, Command
<1>18. CASE PersistIntent(p)
  <2>1. c.keys \in SUBSET Keys
    BY <1>0 DEF Command
  <2>2. idem' \subseteq Keys \X Deployments /\ origin' \in [Deployments -> SUBSET Keys]
    BY <1>18, <1>0, <2>1 DEF PersistIntent, RememberKey
  <2>3. [[c EXCEPT !.pc = "queued"] EXCEPT !.keys = {}] \in Command
    BY <1>0, CommandPcs DEF Command
  <2>4. NewDeployment \in Deployment
    BY <1>0, Documents
  <2>. QED
    BY <1>18, <1>0, <2>2, <2>3, <2>4 DEF PersistIntent
<1>19. CASE ReportStep(p)
  BY <1>19, CommandPcs, ReportType
  DEF ReportStep, Admit, Dispatch, CompleteReady, CompleteFailed, Cancel, CompleteStopped, Readmit
<1>. QED
  BY <1>1, <1>2, <1>3, <1>4, <1>5, <1>6, <1>7, <1>8, <1>9, <1>10, <1>11, <1>12,
     <1>13, <1>14, <1>15, <1>16, <1>17, <1>18, <1>19 DEF CommandStep, ReportStep

\* The commands that begin, the polls and the environment keep the types.
LEMMA OtherStepType ==
    ASSUME TypeOK, Next, ~\E p \in Processes : CommandStep(p)
    PROVE  TypeOK'
<1> USE NullTypes DEF TypeOK
<1>1. ASSUME NEW p \in Processes, Begin(p) PROVE TypeOK'
  <2>1. ASSUME NEW d \in Deployments, NEW ks \in SUBSET Keys, Create(p, d, ks) PROVE TypeOK'
    <3>1. Holding("admit", d, NewDeployment, FALSE) \in Command
      BY HoldingType, Documents, CommandPcs
    <3>2. [Holding("admit", d, NewDeployment, FALSE) EXCEPT !.keys = ks] \in Command
      BY <3>1 DEF Command
    <3>. QED
      BY <2>1, <3>2 DEF Create
  <2>2. ASSUME NEW d \in Deployments, NEW restart \in BOOLEAN, Stop(p, d, restart) PROVE TypeOK'
    <3>1. Holding("cancel", d, dep[d], restart) \in Command
      BY HoldingType, CommandPcs
    <3>. QED
      BY <2>2, <3>1 DEF Stop
  <2>3. ASSUME NEW d \in Deployments, Restart(p, d) PROVE TypeOK'
    <3>1. Holding("readmit", d, dep[d], FALSE) \in Command
      BY HoldingType, CommandPcs
    <3>. QED
      BY <2>3, <3>1 DEF Restart
  <2>. QED
    BY <1>1, <2>1, <2>2, <2>3 DEF Begin
<1>2. ASSUME NEW p \in Processes, Crash(p) PROVE TypeOK'
  BY <1>2 DEF Crash, ActiveTask
<1>3. ASSUME NEW d \in Deployments, NEW r \in Readers, ReadStep(d, r) PROVE TypeOK'
  <2>0. <<d, r>> \in Polls /\ reader[<<d, r>>] \in Poll
    BY DEF Polls
  <2>1. CASE ReadDeployment(d, r)
    BY <2>0, <2>1 DEF ReadDeployment, Poll, ReaderPcs
  <2>2. CASE ReadEndpoint(d, r)
    BY <2>0, <2>2 DEF ReadEndpoint, Poll, ReaderPcs
  <2>3. CASE Inspect(d, r)
    <3>1. ASSUME NEW ready \in BOOLEAN
          PROVE  [[reader[<<d, r>>] EXCEPT !.pc = "lock"] EXCEPT !.ready = ready] \in Poll
      BY <2>0 DEF Poll, ReaderPcs
    <3>2. PICK ready \in BOOLEAN :
            \/ reader' = [reader EXCEPT ![<<d, r>>].pc = "lock", ![<<d, r>>].ready = ready]
            \/ reader' = [reader EXCEPT ![<<d, r>>] = NotPolling]
      BY <2>3 DEF Inspect
    <3>3. reader' \in [Polls -> Poll]
      BY <2>0, <3>1, <3>2
    <3>. QED
      BY <2>3, <3>3 DEF Inspect
  <2>4. CASE ReconcileCheck(d, r)
    BY <2>0, <2>4 DEF ReconcileCheck, Poll, ReaderPcs
  <2>5. CASE ReconcileSave(d, r)
    <3> DEFINE poll == reader[<<d, r>>]
    <3>1. poll.dep \in Deployment /\ poll.ep \in Endpoint /\ poll.ready \in BOOLEAN
      BY <2>0 DEF Poll
    <3>2. Observed(poll.dep, poll.ready) \in Deployment
          /\ ObservedEndpoint(poll.ep, poll.ready) \in Endpoint
      BY <3>1, ObservedPair
    <3>. QED
      BY <2>0, <2>5, <3>2 DEF ReconcileSave
  <2>. QED
    BY <1>3, <2>1, <2>2, <2>3, <2>4, <2>5 DEF ReadStep
<1>4. ASSUME NEW d \in Deployments, ExecutionLost(d) PROVE TypeOK'
  BY <1>4 DEF ExecutionLost
<1>. QED
  BY <1>1, <1>2, <1>3, <1>4 DEF Next

\* Every step keeps the types.
LEMMA NextType == TypeOK /\ [Next]_vars => TypeOK'
<1>1. TypeOK /\ Next => TypeOK'
  BY CommandStepType, OtherStepType
<1>2. TypeOK /\ UNCHANGED vars => TypeOK'
  BY DEF TypeOK, vars
<1>. QED
  BY <1>1, <1>2

\* Type correctness: the stored documents, the broker's tasks and the locals of
\* commands and polls stay in their domains, for any number of processes.
THEOREM TypeCorrect == Spec => []TypeOK
BY InitType, NextType, PTL DEF Spec

-----------------------------------------------------------------------------
(* Idempotency keys *)

\* A step that stores no new deployment: the keys stay as they are, and what is
\* written is a deployment.
Overwrites ==
    /\ UNCHANGED <<idem, origin>>
    /\ \A d \in Deployments : dep'[d] = dep[d] \/ dep'[d] # NoDeployment

\* No document that a command or a reconciliation writes is the absent one.
LEMMA WrittenDocuments ==
    ASSUME NEW doc \in Deployment, NEW ready \in BOOLEAN
    PROVE  /\ Link(doc) # NoDeployment /\ Link(Failed(doc)) # NoDeployment
           /\ Failed(doc) # NoDeployment /\ Ready(doc) # NoDeployment
           /\ Stopping(doc) # NoDeployment /\ Stopped(doc) # NoDeployment
           /\ Starting(doc) # NoDeployment
           /\ Observed(doc, ready) # NoDeployment
<1>1. /\ Link(doc).linked /\ Failed(doc) \in Deployment /\ Ready(doc).linked
      /\ Failed(doc).version = doc.version + 1 /\ Stopping(doc).version = doc.version + 1
      /\ Stopped(doc).version = doc.version + 1 /\ Starting(doc).version = doc.version + 1
  BY Documents
<1>2. Link(Failed(doc)).linked
  BY <1>1, Documents
<1>3. Observed(doc, ready).version = doc.version + 1
  BY DEF Observed, Deployment
<1>4. doc.version \in Nat /\ doc.version + 1 # 0
  BY DEF Deployment
<1>5. NoDeployment.version = 0 /\ ~NoDeployment.linked
  BY DEF NoDeployment
<1> QED
  BY <1>1, <1>2, <1>3, <1>4, <1>5

\* Only create_intent stores a new deployment or a key.
LEMMA KeyStepCases ==
    ASSUME TypeOK, [Next]_vars
    PROVE  Overwrites \/ \E p \in Processes : PersistIntent(p)
<1>1. ASSUME NEW p \in Processes, CommandStep(p), ~PersistIntent(p) PROVE Overwrites
  <2> DEFINE doc == cmd[p].dep
  <2>1. doc \in Deployment /\ cmd[p].d \in Deployments
    BY DEF TypeOK, Command
  <2>2. /\ Link(doc) # NoDeployment /\ Link(Failed(doc)) # NoDeployment
        /\ Failed(doc) # NoDeployment /\ Ready(doc) # NoDeployment
        /\ Stopped(doc) # NoDeployment /\ Starting(doc) # NoDeployment
        /\ Stopping(doc) # NoDeployment
    BY <2>1, WrittenDocuments
  <2>3. CASE ReportStep(p)
    BY <2>3, ReportWrites DEF Overwrites
  <2>4. CASE \/ Prepare(p) \/ PersistFailure(p) \/ PersistReady(p) \/ PersistStopping(p)
             \/ PersistStopped(p) \/ PersistStarting(p)
    <3>1. UNCHANGED <<idem, origin>>
      BY <2>4 DEF Prepare, PersistFailure, PersistReady, PersistStopping, PersistStopped, PersistStarting
    <3>2. \/ UNCHANGED dep
          \/ \E x \in {Link(doc), Link(Failed(doc)), Failed(doc), Ready(doc), Stopping(doc),
                       Stopped(doc), Starting(doc)} :
               dep' = [dep EXCEPT ![cmd[p].d] = x]
      BY <2>4 DEF Prepare, PersistFailure, PersistReady, PersistStopping, PersistStopped,
                  PersistStarting, SavePair, SaveDeployment
    <3> HIDE DEF doc
    <3> QED
      BY <2>1, <2>2, <3>1, <3>2 DEF Overwrites, TypeOK
  <2>5. CASE \/ Queue(p) \/ Load(p) \/ Start(p) \/ Probe(p) \/ Verify(p) \/ Cleanup(p)
             \/ FailedEvent(p) \/ ReadyEvent(p) \/ StoppingEvent(p) \/ Release(p)
             \/ ReleasedEvent(p)
    <3>1. UNCHANGED <<dep, idem, origin>>
      BY <2>5 DEF Queue, Load, Start, Probe, Verify, Cleanup, FailedEvent,
         ReadyEvent, StoppingEvent, Release, ReleasedEvent
    <3> QED
      BY <3>1 DEF Overwrites
  <2> QED
    BY <1>1, <2>3, <2>4, <2>5 DEF CommandStep, ReportStep
<1>2. ASSUME NEW p \in Processes, Begin(p) PROVE Overwrites
  BY <1>2 DEF Begin, Create, Stop, Restart, Overwrites
<1>3. ASSUME NEW p \in Processes, Crash(p) PROVE Overwrites
  BY <1>3 DEF Crash, Overwrites
<1>4. ASSUME NEW d \in Deployments, NEW r \in Readers, ReadStep(d, r) PROVE Overwrites
  <2>1. CASE ReconcileSave(d, r)
    <3> DEFINE poll == reader[<<d, r>>]
    <3>1. poll.dep \in Deployment /\ poll.ready \in BOOLEAN
      BY DEF TypeOK, Polls, Poll
    <3>2. Observed(poll.dep, poll.ready) # NoDeployment
      BY <3>1, WrittenDocuments
    <3> QED
      BY <2>1, <3>2 DEF ReconcileSave, Overwrites, TypeOK
  <2> QED
    BY <1>4, <2>1 DEF ReadStep, ReadDeployment, ReadEndpoint, Inspect, ReconcileCheck, Overwrites
<1>5. ASSUME NEW d \in Deployments, ExecutionLost(d) PROVE Overwrites
  BY <1>5 DEF ExecutionLost, Overwrites
<1>6. CASE UNCHANGED vars
  BY <1>6 DEF vars, Overwrites
<1> QED
  BY <1>1, <1>2, <1>3, <1>4, <1>5, <1>6 DEF Next

\* A step of a command changes the locals of its process only.  A command keeps its
\* deployment, and before create_intent, which is the only way on, its keys.
LEMMA CommandLocals ==
    ASSUME TypeOK, NEW p \in Processes, CommandStep(p)
    PROVE  /\ \A q \in Processes : q # p => cmd'[q] = cmd[q]
           /\ cmd'[p].pc \in CreatePcs => /\ cmd[p].pc \in CreatePcs
                                         /\ cmd'[p].keys = cmd[p].keys
           /\ cmd'[p].pc # "idle" => cmd'[p].d = cmd[p].d
           /\ cmd[p].pc \in CreatePcs => cmd'[p].pc \in CreatePcs \cup {"idle"} \/ PersistIntent(p)
<1>0. cmd \in [Processes -> Command] /\ cmd[p] \in Command
  BY DEF TypeOK
<1>1. ASSUME NEW pc, Goto(p, pc)
      PROVE  /\ \A q \in Processes : q # p => cmd'[q] = cmd[q]
             /\ cmd'[p].pc = pc /\ cmd'[p].d = cmd[p].d /\ cmd'[p].keys = cmd[p].keys
  BY <1>0, <1>1 DEF Goto, Command
<1>2. ASSUME Return(p)
      PROVE  (\A q \in Processes : q # p => cmd'[q] = cmd[q]) /\ cmd'[p].pc = "idle"
  BY <1>0, <1>2 DEF Return, Idle, Holding
<1>3. ASSUME NEW doc, NEW pc, SaveDeployment(p, doc, pc) \/ \E ep : SavePair(p, doc, ep, pc)
      PROVE  /\ \A q \in Processes : q # p => cmd'[q] = cmd[q]
             /\ cmd'[p].pc = pc /\ cmd'[p].d = cmd[p].d
  BY <1>0, <1>3 DEF SavePair, SaveDeployment, Command
<1>4. CASE Admit(p)
  BY <1>1, <1>2, <1>4 DEF Admit, Report, At, CreatePcs
<1>5. CASE ReportStep(p) /\ ~Admit(p)
  BY <1>1, <1>2, <1>5
  DEF ReportStep, Dispatch, CompleteReady, CompleteFailed, Cancel, CompleteStopped, Readmit,
      Report, At, CreatePcs
<1>6. CASE PersistIntent(p)
  BY <1>0, <1>6 DEF PersistIntent, CreatePcs, Command
<1>7. CASE \/ Queue(p) \/ Load(p) \/ Probe(p) \/ Verify(p) \/ FailedEvent(p) \/ ReadyEvent(p)
           \/ StoppingEvent(p) \/ ReleasedEvent(p)
  BY <1>1, <1>2, <1>7
  DEF Queue, Load, Probe, Verify, FailedEvent, ReadyEvent, StoppingEvent, ReleasedEvent, At, CreatePcs
<1>8. CASE \/ PersistFailure(p) \/ PersistReady(p) \/ PersistStopping(p) \/ PersistStopped(p)
           \/ PersistStarting(p)
  <2>1. PICK pc \in {"completeFailed", "completeReady", "stopping", "completeStopped", "queued"} :
          \E doc : SaveDeployment(p, doc, pc) \/ \E ep : SavePair(p, doc, ep, pc)
    BY <1>8 DEF PersistFailure, PersistReady, PersistStopping, PersistStopped, PersistStarting
  <2>2. cmd[p].pc \notin CreatePcs
    BY <1>8 DEF PersistFailure, PersistReady, PersistStopping, PersistStopped, PersistStarting, At,
                CreatePcs
  <2>. QED
    BY <1>3, <2>1, <2>2 DEF CreatePcs
<1>9. CASE Prepare(p)
  <2>1. \/ \E doc, ep : SavePair(p, doc, ep, "start")
        \/ Goto(p, "start") \/ Return(p)
    BY <1>9 DEF Prepare
  <2>2. cmd[p].pc \notin CreatePcs
    BY <1>9 DEF Prepare, At, CreatePcs
  <2>3. ASSUME NEW doc, NEW ep, SavePair(p, doc, ep, "start")
        PROVE  /\ \A q \in Processes : q # p => cmd'[q] = cmd[q]
               /\ cmd'[p].pc = "start" /\ cmd'[p].d = cmd[p].d
    BY <1>3, <2>3
  <2>. QED
    BY <1>1, <1>2, <2>1, <2>2, <2>3 DEF CreatePcs
<1>10. CASE Start(p)
  <2>1. \/ cmd' = [cmd EXCEPT ![p].pc = "persistFailed", ![p].ref = FALSE]
        \/ cmd' = [cmd EXCEPT ![p].pc = "persistFailed", ![p].ref = TRUE]
        \/ Goto(p, "probe") \/ Goto(p, "cleanup")
    BY <1>10 DEF Start
  <2>2. cmd[p].pc \notin CreatePcs
    BY <1>10 DEF Start, At, CreatePcs
  <2>. QED
    BY <1>0, <1>1, <2>1, <2>2 DEF Command, CreatePcs
<1>11. CASE Cleanup(p)
  <2>1. cmd' = [cmd EXCEPT ![p].pc = "persistFailed", ![p].ref = TRUE] \/ Return(p)
    BY <1>11 DEF Cleanup
  <2>2. cmd[p].pc \notin CreatePcs
    BY <1>11 DEF Cleanup, At, CreatePcs
  <2>. QED
    BY <1>0, <1>2, <2>1, <2>2 DEF Command, CreatePcs
<1>12. CASE Release(p)
  <2>1. \/ \E ep : cmd' = [cmd EXCEPT ![p].pc = "persistStopped", ![p].ep = ep]
        \/ Return(p)
    BY <1>12 DEF Release
  <2>2. cmd[p].pc \notin CreatePcs
    BY <1>12 DEF Release, At, CreatePcs
  <2>. QED
    BY <1>0, <1>2, <2>1, <2>2 DEF Command, CreatePcs
<1>. QED
  BY <1>4, <1>5, <1>6, <1>7, <1>8, <1>9, <1>10, <1>11, <1>12 DEF CommandStep, ReportStep

\* A command that is about to be stored has just begun at the server, or was about to
\* be stored before.
LEMMA PendingStep ==
    ASSUME TypeOK, [Next]_vars, NEW p \in Processes, cmd'[p].pc \in CreatePcs
    PROVE  \/ /\ cmd[p].pc \in CreatePcs
              /\ cmd'[p].d = cmd[p].d /\ cmd'[p].keys = cmd[p].keys
           \/ p = Server /\ \E d \in Deployments, ks \in SUBSET Keys : Create(p, d, ks)
<1> DEFINE Before == /\ cmd[p].pc \in CreatePcs
                     /\ cmd'[p].d = cmd[p].d /\ cmd'[p].keys = cmd[p].keys
           Begun == p = Server /\ \E d \in Deployments, ks \in SUBSET Keys : Create(p, d, ks)
<1>0. cmd \in [Processes -> Command]
  BY DEF TypeOK
<1>1. ASSUME NEW q \in Processes, CommandStep(q) PROVE Before
  BY <1>1, CommandLocals DEF CreatePcs
<1>2. ASSUME NEW q \in Processes, Begin(q) PROVE Before \/ Begun
  <2>1. CASE q = Server /\ \E d \in Deployments, ks \in SUBSET Keys : Create(q, d, ks)
    BY <1>0, <2>1 DEF Create
  <2>2. ASSUME NEW d \in Deployments, NEW restart \in BOOLEAN, Stop(q, d, restart) PROVE Before
    BY <1>0, <2>2 DEF Stop, Holding, CreatePcs
  <2>3. ASSUME NEW d \in Deployments, Restart(q, d) PROVE Before
    BY <1>0, <2>3 DEF Restart, Holding, CreatePcs
  <2>4. {} \in SUBSET Keys /\ \A k \in Keys : {k} \in SUBSET Keys
    OBVIOUS
  <2>. QED
    BY <1>2, <2>1, <2>2, <2>3, <2>4 DEF Begin
<1>3. ASSUME NEW q \in Processes, Crash(q) PROVE Before
  BY <1>0, <1>3 DEF Crash, Idle, Holding, CreatePcs
<1>4. ASSUME UNCHANGED cmd PROVE Before
  BY <1>4
<1>. QED
  BY <1>1, <1>2, <1>3, <1>4
  DEF Next, vars, ReadStep, ReadDeployment, ReadEndpoint, Inspect, ReconcileCheck, ReconcileSave,
      ExecutionLost

\* KeyInv is inductive, and a deployment keeps the keys it has.
LEMMA KeyStep ==
    ASSUME TypeOK, KeyInv, [Next]_vars
    PROVE  KeyInv' /\ \A d \in Deployments : origin[d] \subseteq origin'[d]
<1>1. CASE Overwrites
  <2>1. KeysAreStored' /\ OneDeploymentPerKey'
    BY <1>1 DEF Overwrites, KeyInv, KeysAreStored, OneDeploymentPerKey
  <2>2. ASSUME NEW p \in Processes, cmd'[p].pc \in CreatePcs
        PROVE  /\ p = Server /\ origin[cmd'[p].d] = {}
               /\ \A k \in cmd'[p].keys, e \in Deployments : k \notin origin[e]
    <3>1. CASE \E d \in Deployments, ks \in SUBSET Keys : p = Server /\ Create(p, d, ks)
      <4>1. PICK d \in Deployments, ks \in SUBSET Keys : p = Server /\ Create(p, d, ks)
        BY <3>1
      <4>2. cmd'[p].d = d /\ cmd'[p].keys = ks
        BY <4>1 DEF Create, Holding, TypeOK
      <4>3. dep[d] = NoDeployment /\ \A k \in ks : \A e \in Deployments : <<k, e>> \notin idem
        BY <4>1 DEF Create
      <4>. QED
        BY <4>1, <4>2, <4>3 DEF KeyInv, KeysAreStored
    <3>. QED
      BY <2>2, <3>1, PendingStep DEF KeyInv, KeysArePending
  <2>3. KeysArePending'
    BY <1>1, <2>2 DEF KeysArePending, Overwrites
  <2>. QED
    BY <1>1, <2>1, <2>3 DEF KeyInv, Overwrites
<1>2. ASSUME NEW p \in Processes, PersistIntent(p)
      PROVE  KeyInv' /\ \A e \in Deployments : origin[e] \subseteq origin'[e]
  <2> DEFINE d == cmd[p].d
             ks == cmd[p].keys
  <2>1. /\ d \in Deployments /\ ks \in SUBSET Keys
        /\ cmd[p].pc \in CreatePcs /\ cmd'[p].pc = "queued"
    BY <1>2 DEF PersistIntent, TypeOK, Command, At, CreatePcs
  <2>2. /\ origin' = [origin EXCEPT ![d] = ks] /\ origin \in [Deployments -> SUBSET Keys]
        /\ idem' = idem \cup (ks \X {d})
        /\ dep' = [dep EXCEPT ![d] = NewDeployment] /\ dep \in [Deployments -> Deployment]
        /\ NewDeployment # NoDeployment
    BY <1>2, <2>1 DEF PersistIntent, RememberKey, TypeOK, NewDeployment, NoDeployment
  <2>3. p = Server /\ origin[d] = {} /\ \A k \in ks, e \in Deployments : k \notin origin[e]
    BY <2>1 DEF KeyInv, KeysArePending
  <2> HIDE DEF d, ks
  <2>4. OneDeploymentPerKey'
    BY <2>1, <2>2, <2>3 DEF OneDeploymentPerKey, KeyInv
  <2>5. KeysAreStored'
    BY <2>1, <2>2, <2>3 DEF KeysAreStored, KeyInv
  <2>6. ASSUME NEW q \in Processes, cmd'[q].pc \in CreatePcs PROVE FALSE
    <3>1. q # p /\ cmd[p].pc # "idle"
      BY <2>1, <2>6 DEF CreatePcs
    <3>2. q = Server
      BY <2>6, PendingStep DEF KeyInv, KeysArePending
    <3>. QED
      BY <2>3, <3>1, <3>2
  <2>7. KeysArePending'
    BY <2>6 DEF KeysArePending
  <2>. QED
    BY <2>1, <2>2, <2>3, <2>4, <2>5, <2>7 DEF KeyInv
<1> QED
  BY <1>1, <1>2, KeyStepCases

\* However often create_deployment is retried under one Idempotency-Key, across
\* crashes and by any number of processes, it makes at most one deployment.
THEOREM KeysMakeOneDeployment == Spec => []OneDeploymentPerKey
<1>1. Init => KeyInv
  BY DEF Init, KeyInv, KeysAreStored, KeysArePending, OneDeploymentPerKey, Idle, Holding, CreatePcs
<1>2. TypeOK /\ KeyInv /\ [Next]_vars => KeyInv'
  BY KeyStep
<1>3. KeyInv => OneDeploymentPerKey
  BY DEF KeyInv
<1> QED
  BY <1>1, <1>2, <1>3, TypeCorrect, PTL DEF Spec

-----------------------------------------------------------------------------
(* Drafts *)

\* Every step with drafts is a step of the lifecycle or leaves it alone.
LEMMA DraftStepRefines == ASSUME DraftsInv, [DraftsNext]_allVars PROVE [Next]_vars
<1>0. Server \in Processes
  BY ConstantsAssumption
<1>1. ASSUME NEW c \in Callers, CreateFromDraft(c) PROVE Next
  <2>1. call[c].t \in Keys
    BY <1>1, DraftsAssumption DEF CreateFromDraft, DraftsInv, CallsKnowTheirKey
  <2> QED
    BY <1>0, <1>1, <2>1 DEF CreateFromDraft, Next, Begin
<1>2. CASE ServerStep \/ Restarted \/ Begin(Server) \/ \E d \in Deployments : ExecutionLost(d)
  BY <1>0, <1>2 DEF ServerStep, Restarted, Next
<1> QED
  BY <1>1, <1>2 DEF DraftsNext, allVars, ImportDraft, ReadDraft, ReplayFromDraft, RefuseDraft, SaveDraft

\* DraftsInv is inductive: a call learns its deployment from the row of its key,
\* written by itself or found there, and rows are never removed.
LEMMA DraftStep == ASSUME DraftsInv, [DraftsNext]_allVars PROVE DraftsInv'
<1>1. TypeOK' /\ KeyInv' /\ \A d \in Deployments : origin[d] \subseteq origin'[d]
  BY DraftStepRefines, NextType, KeyStep DEF DraftsInv
<1>2. /\ draft \in [Drafts -> Draft] /\ call \in [Callers -> DeployCall]
      /\ NoCall \in DeployCall
  BY DEF DraftsInv, DraftsTypeOK, DeployCall, NoCall, NoDraft, Draft
<1>21. ASSUME NEW c \in Callers
       PROVE  /\ call[c].pc # "idle" => call[c].t \in Drafts
              /\ call[c].pc = "launch" =>
                     /\ cmd[Server].pc # "idle" /\ call[c].d = cmd[Server].d
                     /\ \/ cmd[Server].pc \in CreatePcs /\ call[c].t \in cmd[Server].keys
                        \/ call[c].t \in origin[call[c].d]
              /\ call[c].pc = "save" => call[c].d \in Deployments /\ call[c].t \in origin[call[c].d]
  BY DEF DraftsInv, CallsKnowTheirKey
<1>22. ASSUME NEW t \in Drafts, draft[t].state = "STARTED"
       PROVE  draft[t].ref \in Deployments /\ t \in origin[draft[t].ref]
  BY <1>22 DEF DraftsInv, CallsKnowTheirKey
<1>3. ASSUME UNCHANGED draftVars,
             UNCHANGED cmd \/ \A c \in Callers : call[c].pc # "launch"
      PROVE  DraftsTypeOK' /\ CallsKnowTheirKey'
  <2>1. DraftsTypeOK'
    BY <1>2, <1>3 DEF draftVars, DraftsTypeOK
  <2>2. ASSUME NEW c \in Callers, call[c].pc = "launch" PROVE call[c].d \in Deployments
    BY <2>2, <1>21, ConstantsAssumption DEF DraftsInv, TypeOK, Command
  <2>. QED
    BY <1>1, <1>3, <1>21, <1>22, <2>1, <2>2 DEF draftVars, CallsKnowTheirKey
<1>4. ASSUME NEW t \in Drafts, NEW k \in ImportKeys, ImportDraft(t, k)
      PROVE  DraftsTypeOK' /\ CallsKnowTheirKey'
  <2>1. draft' = [draft EXCEPT ![t].state = "DRAFT"] /\ UNCHANGED <<origin, cmd, call>>
    BY <1>4 DEF ImportDraft, CreateDraft, vars
  <2>2. DraftsTypeOK'
    BY <1>2, <2>1 DEF DraftsTypeOK, Draft
  <2>3. CallsKnowTheirKey'
    BY <1>2, <1>21, <1>22, <2>1 DEF CallsKnowTheirKey
  <2> QED
    BY <2>2, <2>3
<1>5. ASSUME NEW c \in Callers, NEW t \in Drafts, ReadDraft(c, t)
      PROVE  DraftsTypeOK' /\ CallsKnowTheirKey'
  <2>1. /\ call' = [call EXCEPT ![c] = [pc |-> "create", t |-> t, doc |-> draft[t], d |-> None]]
        /\ UNCHANGED <<origin, cmd, draft>>
    BY <1>5 DEF ReadDraft, vars
  <2>2. DraftsTypeOK'
    BY <1>2, <2>1 DEF DraftsTypeOK, DeployCall
  <2>3. CallsKnowTheirKey'
    BY <1>2, <1>21, <1>22, <2>1 DEF CallsKnowTheirKey
  <2> QED
    BY <2>2, <2>3
<1>6. ASSUME NEW c \in Callers, CreateFromDraft(c) PROVE DraftsTypeOK' /\ CallsKnowTheirKey'
  <2>1. PICK d \in Deployments : /\ Create(Server, d, {call[c].t})
                                 /\ call' = [call EXCEPT ![c].pc = "launch", ![c].d = d]
    BY <1>6 DEF CreateFromDraft
  <2>2. /\ cmd[Server].pc = "idle" /\ UNCHANGED <<origin, draft>>
        /\ cmd'[Server].pc = "admit" /\ cmd'[Server].d = d /\ cmd'[Server].keys = {call[c].t}
    BY <1>6, <2>1, ConstantsAssumption
       DEF CreateFromDraft, Create, LockFree, Holding, DraftsInv, TypeOK
  <2>3. /\ [[call[c] EXCEPT !.pc = "launch"] EXCEPT !.d = d] \in DeployCall
        /\ call'[c].pc = "launch" /\ call'[c].d = d /\ call'[c].t = call[c].t
        /\ \A b \in Callers : b # c => call'[b] = call[b]
    BY <1>2, <2>1 DEF DeployCall
  <2>4. call' \in [Callers -> DeployCall]
    BY <1>2, <2>1, <2>3
  <2>5. call[c].t \in Drafts /\ \A b \in Callers : call[b].pc # "launch"
    BY <1>6, <1>21, <2>2 DEF CreateFromDraft
  <2>6. DraftsTypeOK'
    BY <1>2, <2>2, <2>4 DEF DraftsTypeOK
  <2>7. CallsKnowTheirKey'
    BY <1>21, <1>22, <2>2, <2>3, <2>5 DEF CallsKnowTheirKey, CreatePcs
  <2> QED
    BY <2>6, <2>7
<1>7. ASSUME NEW c \in Callers, ReplayFromDraft(c) PROVE DraftsTypeOK' /\ CallsKnowTheirKey'
  <2>1. PICK d \in Deployments : /\ <<call[c].t, d>> \in idem
                                 /\ call' = [call EXCEPT ![c].pc = "save", ![c].d = d]
    BY <1>7 DEF ReplayFromDraft
  <2>2. UNCHANGED <<draft, origin, cmd>> /\ call[c].t \in Drafts
    BY <1>7, <1>21 DEF ReplayFromDraft, vars
  <2>3. call[c].t \in origin[d]
    BY <2>1, <2>2, DraftsAssumption DEF DraftsInv, KeyInv, KeysAreStored
  <2>4. /\ [[call[c] EXCEPT !.pc = "save"] EXCEPT !.d = d] \in DeployCall
        /\ call'[c].pc = "save" /\ call'[c].d = d /\ call'[c].t = call[c].t
        /\ \A b \in Callers : b # c => call'[b] = call[b]
    BY <1>2, <2>1 DEF DeployCall
  <2>5. call' \in [Callers -> DeployCall]
    BY <1>2, <2>1, <2>4
  <2>6. DraftsTypeOK'
    BY <1>2, <2>2, <2>5 DEF DraftsTypeOK
  <2>7. CallsKnowTheirKey'
    BY <1>21, <1>22, <2>2, <2>3, <2>4 DEF CallsKnowTheirKey
  <2> QED
    BY <2>6, <2>7
<1>8. ASSUME NEW c \in Callers, call' = [call EXCEPT ![c] = NoCall], UNCHANGED <<origin, cmd, draft>>
      PROVE  DraftsTypeOK' /\ CallsKnowTheirKey'
  <2>1. DraftsTypeOK'
    BY <1>2, <1>8 DEF DraftsTypeOK
  <2>2. CallsKnowTheirKey'
    BY <1>2, <1>8, <1>21, <1>22 DEF CallsKnowTheirKey, NoCall
  <2> QED
    BY <2>1, <2>2
<1>81. ASSUME NEW c \in Callers, RefuseDraft(c) PROVE DraftsTypeOK' /\ CallsKnowTheirKey'
  BY <1>8, <1>81 DEF RefuseDraft, vars
<1>9. ASSUME NEW c \in Callers, SaveDraft(c) PROVE DraftsTypeOK' /\ CallsKnowTheirKey'
  <2> DEFINE doc == [call[c].doc EXCEPT !.state = "STARTED", !.ref = call[c].d]
  <2>1. /\ call[c].t \in Drafts /\ call[c].d \in Deployments
        /\ call[c].t \in origin[call[c].d] /\ call[c].doc \in Draft
    BY <1>2, <1>9, <1>21 DEF SaveDraft, DeployCall
  <2>2. doc \in Draft /\ doc.ref = call[c].d
    BY <2>1 DEF Draft
  <2>3. /\ draft' = [draft EXCEPT ![call[c].t] = doc] /\ call' = [call EXCEPT ![c] = NoCall]
        /\ UNCHANGED <<origin, cmd>>
    BY <1>9 DEF SaveDraft, vars
  <2>4. DraftsTypeOK'
    BY <1>2, <2>1, <2>2, <2>3 DEF DraftsTypeOK
  <2> HIDE DEF doc
  <2>5. CallsKnowTheirKey'
    BY <1>2, <1>21, <1>22, <2>1, <2>2, <2>3 DEF CallsKnowTheirKey, NoCall
  <2> QED
    BY <2>4, <2>5
<1>10. ASSUME ServerStep PROVE DraftsTypeOK' /\ CallsKnowTheirKey'
  <2>1. ASSUME NEW c \in Callers
        PROVE  \/ call'[c] = call[c] /\ (call[c].pc = "launch" => cmd'[Server].pc # "idle")
               \/ call'[c] = NoCall
               \/ /\ call[c].pc = "launch" /\ cmd[Server].pc = "readyEvent"
                  /\ call'[c] = [call[c] EXCEPT !.pc = "save"]
    BY <1>10 DEF ServerStep
  <2>2. UNCHANGED draft /\ call' \in [Callers -> DeployCall]
    BY <1>2, <1>10, <2>1 DEF ServerStep, DeployCall
  <2>3. DraftsTypeOK'
    BY <1>2, <2>2 DEF DraftsTypeOK
  <2>4. /\ Server \in Processes /\ cmd[Server].d \in Deployments /\ CommandStep(Server)
        /\ origin \in [Deployments -> SUBSET Keys]
    BY <1>10, ConstantsAssumption DEF ServerStep, DraftsInv, TypeOK, Command
  <2>5. /\ cmd'[Server].pc \in CreatePcs => /\ cmd[Server].pc \in CreatePcs
                                            /\ cmd'[Server].keys = cmd[Server].keys
        /\ cmd'[Server].pc # "idle" => cmd'[Server].d = cmd[Server].d
        /\ cmd[Server].pc \in CreatePcs =>
               cmd'[Server].pc \in CreatePcs \cup {"idle"} \/ PersistIntent(Server)
    BY <2>4, CommandLocals DEF DraftsInv
  <2>6. PersistIntent(Server) => cmd[Server].keys \subseteq origin'[cmd[Server].d]
    BY <2>4 DEF PersistIntent
  <2>7. ASSUME NEW c \in Callers
        PROVE  /\ call'[c].pc # "idle" => call'[c].t \in Drafts
               /\ call'[c].pc = "launch" =>
                      /\ cmd'[Server].pc # "idle" /\ call'[c].d = cmd'[Server].d
                      /\ \/ cmd'[Server].pc \in CreatePcs /\ call'[c].t \in cmd'[Server].keys
                         \/ call'[c].t \in origin'[call'[c].d]
               /\ call'[c].pc = "save" =>
                      call'[c].d \in Deployments /\ call'[c].t \in origin'[call'[c].d]
    <3>1. CASE call'[c] = call[c] /\ (call[c].pc = "launch" => cmd'[Server].pc # "idle")
      BY <1>1, <1>21, <2>4, <2>5, <2>6, <3>1
    <3>2. CASE /\ call'[c] = [call[c] EXCEPT !.pc = "save"] /\ call[c].pc = "launch"
               /\ cmd[Server].pc = "readyEvent"
      <4>1. call'[c].t = call[c].t /\ call'[c].d = call[c].d /\ call'[c].pc = "save"
        BY <1>2, <3>2 DEF DeployCall
      <4>2. call[c].t \in Drafts /\ call[c].d \in Deployments /\ call[c].t \in origin[call[c].d]
        BY <1>21, <2>4, <3>2 DEF CreatePcs
      <4> QED
        BY <1>1, <4>1, <4>2
    <3>3. CASE call'[c] = NoCall
      BY <3>3 DEF NoCall
    <3> QED
      BY <2>1, <3>1, <3>2, <3>3
  <2>8. CallsKnowTheirKey'
    BY <1>1, <1>22, <2>2, <2>7 DEF CallsKnowTheirKey
  <2> QED
    BY <2>3, <2>8
<1>11. ASSUME Restarted PROVE DraftsTypeOK' /\ CallsKnowTheirKey'
  <2>1. /\ call' = [c \in Callers |-> NoCall] /\ UNCHANGED <<origin, draft>>
    BY <1>11 DEF Restarted, Crash
  <2> QED
    BY <1>2, <1>22, <2>1 DEF DraftsTypeOK, CallsKnowTheirKey, NoCall
<1>12. ASSUME Begin(Server) \/ \E d \in Deployments : ExecutionLost(d)
       PROVE  UNCHANGED cmd \/ \A c \in Callers : call[c].pc # "launch"
  <2>1. CASE Begin(Server)
    BY <1>21, <2>1 DEF Begin, Create, Stop, Restart, LockFree
  <2> QED
    BY <1>12, <2>1 DEF ExecutionLost
<1>13. ASSUME UNCHANGED allVars PROVE DraftsTypeOK' /\ CallsKnowTheirKey'
  BY <1>3, <1>13 DEF allVars, vars, draftVars
<1>14. DraftsTypeOK' /\ CallsKnowTheirKey'
  BY <1>3, <1>4, <1>5, <1>6, <1>7, <1>81, <1>9, <1>10, <1>11, <1>12, <1>13 DEF DraftsNext
<1> QED
  BY <1>1, <1>14 DEF DraftsInv

\* However often and by however many calls a draft is deployed, before and after a
\* crash, a STARTED draft names the one deployment that its key made.
THEOREM DraftsAreDeployedOnce == DraftsSpec => []StartedDraftIsDeployed
<1>1. DraftsInit => DraftsInv
  <2> SUFFICES ASSUME DraftsInit PROVE DraftsInv
    OBVIOUS
  <2>1. TypeOK /\ KeyInv
    BY InitType DEF DraftsInit, Init, KeyInv, KeysAreStored, KeysArePending, OneDeploymentPerKey,
                    Idle, Holding, CreatePcs
  <2>2. DraftsTypeOK /\ CallsKnowTheirKey
    BY DEF DraftsInit, DraftsTypeOK, CallsKnowTheirKey, NoDraft, NoCall, Draft, DeployCall
  <2> QED
    BY <2>1, <2>2 DEF DraftsInv
<1>2. DraftsInv => StartedDraftIsDeployed
  BY DEF DraftsInv, KeyInv, OneDeploymentPerKey, CallsKnowTheirKey, StartedDraftIsDeployed
<1>3. DraftsInv /\ [DraftsNext]_allVars => DraftsInv'
  BY DraftStep
<1> QED
  BY <1>1, <1>2, <1>3, PTL DEF DraftsSpec
=============================================================================
