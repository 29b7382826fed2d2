----------------------- MODULE DeploymentSafetyProofs -----------------------
(* IndInv is an inductive invariant of DeploymentLifecycle when a single    *)
(* process opens the database; the safety properties follow from it.        *)
EXTENDS DeploymentLifecycleProofs

\* Initial states satisfy the invariant.
LEMMA InitInv == Init => IndInv
<1> SUFFICES ASSUME Init PROVE IndInv
  OBVIOUS
<1>1. TypeOK
  BY InitType
<1>2. \A p \in Processes : cmd[p] = Idle /\ cmd[p].pc = "idle"
  BY DEF Init, Idle, Holding
<1>3. \A x \in Polls : reader[x].pc = "idle"
  BY DEF Init, NotPolling
<1>4. LocalsAreStored /\ CommandStates /\ CommandFacts
  BY <1>2 DEF LocalsAreStored, CommandStates, CommandFacts, CreatePcs, LaunchPcs, CancelPcs,
        StopPcs, ReleasedPcs
<1>5. HeldStates /\ PairStates
  BY DEF Init, HeldStates, PairStates, PairAgrees, NoDeployment, NoEndpoint
<1>6. PollsAreCurrent
  BY <1>3 DEF PollsAreCurrent
<1>. QED
  BY <1>1, <1>4, <1>5, <1>6 DEF IndInv

\* A poll stays current when the documents it read stay, get a newer version,
\* or belong to a deployment that is STARTING, which no poll has read.
LEMMA PollsKept ==
    ASSUME TypeOK, TypeOK', PollsAreCurrent, UNCHANGED reader,
           \A x \in Polls : reader[x].pc # "save",
           \A d \in Deployments :
               \/ dep'[d] = dep[d] /\ endpoint'[d] = endpoint[d]
               \/ dep'[d].version = dep[d].version + 1
               \/ dep'[d].version = dep[d].version /\ dep[d].observed = "STARTING"
    PROVE  PollsAreCurrent'
<1> SUFFICES ASSUME NEW x \in Polls, reader[x].pc # "idle"
             PROVE  LET d == x[1]
                        poll == reader[x]
                    IN  /\ Reconcilable(poll.dep)
                        /\ poll.dep.version <= dep'[d].version
                        /\ poll.dep.version = dep'[d].version =>
                               /\ poll.dep = dep'[d]
                               /\ poll.pc # "endpoint" => poll.ep = endpoint'[d]
  BY DEF PollsAreCurrent, Reconcilable
<1> DEFINE d == x[1]
           poll == reader[x]
<1>1. d \in Deployments
  BY DEF Polls
<1>2. poll.dep.version \in Nat /\ dep[d].version \in Nat /\ dep'[d].version \in Nat
  BY <1>1 DEF TypeOK, Poll, Deployment
<1>3. /\ Reconcilable(poll.dep)
      /\ poll.dep.version <= dep[d].version
      /\ poll.dep.version = dep[d].version =>
             /\ poll.dep = dep[d]
             /\ poll.pc # "endpoint" => poll.ep = endpoint[d]
  BY DEF PollsAreCurrent
<1>4. dep[d].observed = "STARTING" => poll.dep.version < dep[d].version
  BY <1>2, <1>3 DEF Reconcilable
<1>. QED
  BY <1>1, <1>2, <1>3, <1>4

\* The calls of the broker preserve the invariant: they change the position of the
\* command alone, and not the state of its deployment.
LEMMA ReportStepInv ==
    ASSUME SingleProcess, IndInv, ReportStep(Server)
    PROVE  IndInv'
<1> DEFINE c == cmd[Server]
           e == cmd[Server].d
<1>0. Server \in Processes /\ \A q \in Processes : q = Server
  BY DEF SingleProcess
<1>1. TypeOK /\ TypeOK'
  BY <1>0, CommandStepType DEF IndInv, ReportStep, CommandStep
<1>2. c \in Command /\ cmd \in [Processes -> Command]
  BY <1>0, <1>1 DEF TypeOK
<1>3. UNCHANGED <<dep, endpoint, evidence, lastPhase, exec, binding, reader>>
  BY <1>0, ReportWrites
<1>4. /\ c.pc # "idle"
      /\ \/ Return(Server)
         \/ c.pc = "admit" /\ Goto(Server, "persistIntent")
         \/ c.pc = "dispatch" /\ Goto(Server, "loading")
         \/ c.pc = "completeReady" /\ Goto(Server, "readyEvent")
         \/ c.pc = "completeFailed" /\ Goto(Server, "failedEvent")
         \/ c.pc = "cancel" /\ Goto(Server, "persistStopping")
         \/ c.pc = "completeStopped" /\ Goto(Server, "releasedEvent")
         \/ c.pc = "readmit" /\ Goto(Server, "persistStarting")
  BY DEF ReportStep, Admit, Dispatch, CompleteReady, CompleteFailed, Cancel, CompleteStopped,
         Readmit, Report, At
<1>5. ASSUME Return(Server) PROVE LocalsAreStored' /\ CommandStates' /\ CommandFacts'
  <2>1. cmd'[Server].pc = "idle"
    BY <1>0, <1>2, <1>5 DEF Return, Idle, Holding
  <2>. QED
    BY <2>1, <1>0 DEF LocalsAreStored, CommandStates, CommandFacts, CreatePcs, LaunchPcs,
                      CancelPcs, StopPcs, ReleasedPcs
<1>6. ASSUME NEW pc, Goto(Server, pc)
      PROVE  cmd'[Server].pc = pc /\ cmd'[Server].d = e /\ cmd'[Server].dep = c.dep
  BY <1>0, <1>2, <1>6 DEF Goto, Command
<1>7. LocalsAreStored' /\ CommandStates' /\ CommandFacts'
  <2>1. CASE c.pc = "admit" /\ Goto(Server, "persistIntent")
    BY <2>1, <1>0, <1>3, <1>6 
    DEF IndInv, LocalsAreStored, CommandStates, CommandFacts, CreatePcs, LaunchPcs, CancelPcs,
        StopPcs, ReleasedPcs
  <2>2. CASE c.pc = "dispatch" /\ Goto(Server, "loading")
    BY <2>2, <1>0, <1>3, <1>6
    DEF IndInv, LocalsAreStored, CommandStates, CommandFacts, CreatePcs, LaunchPcs, CancelPcs,
        StopPcs, ReleasedPcs
  <2>3. CASE \/ c.pc = "completeReady" /\ Goto(Server, "readyEvent")
             \/ c.pc = "completeFailed" /\ Goto(Server, "failedEvent")
    BY <2>3, <1>0, <1>3, <1>6
    DEF IndInv, LocalsAreStored, CommandStates, CommandFacts, CreatePcs, LaunchPcs, CancelPcs,
        StopPcs, ReleasedPcs
  <2>4. CASE c.pc = "cancel" /\ Goto(Server, "persistStopping")
    BY <2>4, <1>0, <1>3, <1>6
    DEF IndInv, LocalsAreStored, CommandStates, CommandFacts, CreatePcs, LaunchPcs, CancelPcs,
        StopPcs, ReleasedPcs
  <2>5. CASE \/ c.pc = "completeStopped" /\ Goto(Server, "releasedEvent")
             \/ c.pc = "readmit" /\ Goto(Server, "persistStarting")
    BY <2>5, <1>0, <1>3, <1>6
    DEF IndInv, LocalsAreStored, CommandStates, CommandFacts, CreatePcs, LaunchPcs, CancelPcs,
        StopPcs, ReleasedPcs
  <2>. QED
    BY <1>4, <1>5, <2>1, <2>2, <2>3, <2>4, <2>5
<1>8. HeldStates' /\ PairStates'
  BY <1>3 DEF IndInv, HeldStates, Recoverable, PairStates, PairAgrees
<1>9. \A x \in Polls : reader[x].pc # "save"
  BY <1>4 DEF IndInv, PollsAreCurrent
<1>10. PollsAreCurrent'
  BY <1>1, <1>3, <1>9, PollsKept DEF IndInv
<1>. QED
  BY <1>1, <1>7, <1>8, <1>10 DEF IndInv

\* create_intent preserves the invariant: nothing knows of the deployment yet.
LEMMA IntentInv ==
    ASSUME SingleProcess, IndInv, PersistIntent(Server)
    PROVE  IndInv'
<1> DEFINE d == cmd[Server].d
<1>0. Server \in Processes /\ \A q \in Processes : q = Server
  BY DEF SingleProcess
<1>1. TypeOK /\ TypeOK'
  BY <1>0, CommandStepType DEF IndInv, CommandStep
<1>2. d \in Deployments /\ cmd[Server] \in Command
  BY <1>0, <1>1 DEF TypeOK, Command
<1>3. /\ cmd[Server].pc = "persistIntent"
      /\ dep[d] = NoDeployment /\ cmd[Server].dep = NewDeployment
      /\ dep' = [dep EXCEPT ![d] = NewDeployment]
      /\ cmd' = [cmd EXCEPT ![Server].pc = "queued", ![Server].keys = {}]
      /\ UNCHANGED <<endpoint, evidence, lastPhase, exec, binding, reader>>
  BY <1>0 DEF PersistIntent, At, IndInv, LocalsAreStored, CommandStates, CreatePcs
<1>4. /\ dep'[d] = NewDeployment /\ \A x \in Deployments : x # d => dep'[x] = dep[x]
      /\ cmd'[Server].pc = "queued" /\ cmd'[Server].d = d /\ cmd'[Server].dep = NewDeployment
  BY <1>0, <1>1, <1>2, <1>3 DEF TypeOK, Command
<1>5. /\ dep'[d].observed = "STARTING" /\ dep'[d].desired = "ACTIVE"
      /\ dep'[d].version = 1 /\ ~dep'[d].linked
  BY <1>4 DEF NewDeployment
<1>6. dep[d].observed = "ABSENT" /\ dep[d].version = 0 /\ ~dep[d].linked
  BY <1>3 DEF NoDeployment
<1>7. exec[d] = "none"
  BY <1>1, <1>2, <1>6 DEF IndInv, HeldStates, TypeOK
<1>8. LocalsAreStored' /\ CommandStates' /\ CommandFacts'
  BY <1>0, <1>3, <1>4, <1>5, <1>7, ZenonT(30)
  DEF LocalsAreStored, CommandStates, CommandFacts, CreatePcs, LaunchPcs, CancelPcs, StopPcs,
      ReleasedPcs
<1>9. HeldStates'
  BY <1>3, <1>4, <1>7 DEF IndInv, HeldStates, Recoverable
<1>10. PairStates'
  BY <1>3, <1>4, <1>5, <1>6 DEF IndInv, PairStates, PairAgrees
<1>11. \A x \in Polls : reader[x].pc # "save"
  BY <1>3 DEF IndInv, PollsAreCurrent
<1>12. PollsAreCurrent'
  BY <1>1, <1>3, <1>4, <1>5, <1>6, <1>11, PollsKept DEF IndInv
<1>. QED
  BY <1>1, <1>8, <1>9, <1>10, <1>12 DEF IndInv

\* The other steps of the command that holds _commands preserve the invariant: the
\* document they go on from is the stored one.
LEMMA StoredStepInv ==
    ASSUME SingleProcess, IndInv, CommandStep(Server), ~ReportStep(Server), ~PersistIntent(Server)
    PROVE  IndInv'
<1> DEFINE p == Server
           c == cmd[Server]
           e == cmd[Server].d
<1>0. Server \in Processes /\ \A q \in Processes : q = Server
  BY DEF SingleProcess
<1>1. TypeOK /\ TypeOK'
  BY <1>0, CommandStepType DEF IndInv
<1>2. /\ c \in Command /\ e \in Deployments /\ c.dep \in Deployment /\ c.ep \in Endpoint
      /\ endpoint[e] \in Endpoint /\ dep[e] \in Deployment
  BY <1>0, <1>1 DEF TypeOK, Command
<1>3. c.pc # "idle" /\ c.dep = dep[e]
  BY <1>0
  DEF CommandStep, ReportStep, Queue, Load, Prepare, Start, Probe, Verify, Cleanup,
      PersistFailure, FailedEvent, PersistReady, ReadyEvent, PersistStopping, StoppingEvent,
      Release, PersistStopped, ReleasedEvent, PersistStarting, At, IndInv, LocalsAreStored,
      CreatePcs
<1>4. \A x \in Polls : reader[x].pc # "save"
  BY <1>3 DEF IndInv, PollsAreCurrent
<1>5. ASSUME UNCHANGED <<dep, endpoint, reader>> PROVE PairStates' /\ PollsAreCurrent'
  <2>1. PairStates'
    BY <1>5 DEF IndInv, PairStates, PairAgrees
  <2>. QED
    BY <2>1, <1>1, <1>4, <1>5, PollsKept DEF IndInv
<1>6. ASSUME cmd' = [cmd EXCEPT ![Server] = Idle]
      PROVE  LocalsAreStored' /\ CommandStates' /\ CommandFacts'
  <2>1. cmd'[Server].pc = "idle"
    BY <1>0, <1>1, <1>6 DEF TypeOK, Idle, Holding
  <2>. QED
    BY <2>1, <1>0 DEF LocalsAreStored, CommandStates, CommandFacts, CreatePcs, LaunchPcs, CancelPcs,
        StopPcs, ReleasedPcs
<1>7. ASSUME NEW pc, cmd' = [cmd EXCEPT ![Server].pc = pc]
      PROVE  /\ cmd'[Server].pc = pc
             /\ cmd'[Server].d = e
             /\ cmd'[Server].dep = c.dep
             /\ cmd'[Server].ref = c.ref
  BY <1>0, <1>1, <1>2, <1>7 DEF TypeOK, Command
<1>8. ASSUME NEW doc, NEW pc, cmd' = [cmd EXCEPT ![Server].dep = doc, ![Server].pc = pc]
      PROVE  /\ cmd'[Server].pc = pc
             /\ cmd'[Server].d = e
             /\ cmd'[Server].dep = doc
             /\ cmd'[Server].ref = c.ref
  BY <1>0, <1>1, <1>2, <1>8 DEF TypeOK, Command
<1>11. CASE Queue(p)
  <2>1. /\ c.pc = "queued" /\ UNCHANGED <<dep, endpoint, evidence, exec, binding, reader>>
        /\ lastPhase' = [lastPhase EXCEPT ![e] = "QUEUED"]
        /\ cmd' = [cmd EXCEPT ![Server].pc = "dispatch"]
    BY <1>11 DEF Queue, At, AppendEvent, Goto
  <2>2. cmd'[Server].pc = "dispatch" /\ cmd'[Server].d = e /\ cmd'[Server].dep = c.dep
    BY <2>1, <1>7
  <2>3. LocalsAreStored' /\ CommandStates' /\ CommandFacts'
    BY <2>1, <2>2, <1>0, <1>3
    DEF IndInv, LocalsAreStored, CommandStates, CommandFacts, CreatePcs, LaunchPcs, CancelPcs,
        StopPcs, ReleasedPcs
  <2>4. HeldStates'
    BY <2>1, <1>1, <1>2 DEF IndInv, HeldStates, Recoverable, TypeOK
  <2>. QED
    BY <1>1, <1>5, <2>1, <2>3, <2>4 DEF IndInv
<1>12. CASE Load(p)
  <2>1. /\ c.pc = "loading" /\ UNCHANGED <<dep, endpoint, evidence, exec, binding, reader>>
        /\ lastPhase' = [lastPhase EXCEPT ![e] = "LOADING"]
        /\ cmd' = [cmd EXCEPT ![Server].pc = "prepare"]
    BY <1>12 DEF Load, At, AppendEvent, Goto
  <2>2. cmd'[Server].pc = "prepare" /\ cmd'[Server].d = e /\ cmd'[Server].dep = c.dep
    BY <2>1, <1>7
  <2>3. LocalsAreStored' /\ CommandStates' /\ CommandFacts'
    BY <2>1, <2>2, <1>0, <1>1, <1>2, <1>3
    DEF IndInv, LocalsAreStored, CommandStates, CommandFacts, CreatePcs, LaunchPcs, CancelPcs,
        StopPcs, ReleasedPcs, TypeOK
  <2>4. HeldStates'
    BY <2>1, <1>1, <1>2 DEF IndInv, HeldStates, Recoverable, TypeOK
  <2>. QED
    BY <1>1, <1>5, <2>1, <2>3, <2>4 DEF IndInv
<1>13. CASE Prepare(p)
  <2>1. /\ c.pc = "prepare" /\ UNCHANGED <<exec, lastPhase, binding, reader>>
        /\ dep[e].observed = "STARTING" /\ dep[e].desired = "ACTIVE"
        /\ exec[e] = "none" /\ lastPhase[e] # "RELEASED"
    BY <1>13, <1>0 DEF Prepare, At, IndInv, CommandStates, CommandFacts, LaunchPcs
  <2>2. CASE /\ binding[e] = "remote"
             /\ SavePair(p, Link(c.dep), NextEndpoint(p, "PROVISIONING"), "start")
             /\ evidence' = [evidence EXCEPT ![e] = TRUE]
    <3>1. /\ dep' = [dep EXCEPT ![e] = Link(dep[e])]
          /\ endpoint' = [endpoint EXCEPT ![e] = NextEndpoint(p, "PROVISIONING")]
          /\ cmd' = [cmd EXCEPT ![Server].dep = Link(dep[e]), ![Server].pc = "start"]
      BY <2>2, <1>3 DEF SavePair
    <3>2. cmd'[Server].pc = "start" /\ cmd'[Server].d = e /\ cmd'[Server].dep = Link(dep[e])
      BY <3>1, <1>8
    <3>3. /\ dep'[e] = Link(dep[e])
          /\ endpoint'[e].state = "PROVISIONING"
          /\ evidence'[e]
          /\ \A d \in Deployments : d # e => dep'[d] = dep[d] /\ endpoint'[d] = endpoint[d]
                                             /\ evidence'[d] = evidence[d]
      BY <2>2, <3>1, <1>1, <1>2 DEF TypeOK, NextEndpoint
    <3>4. /\ dep'[e].observed = "STARTING" /\ dep'[e].desired = "ACTIVE" /\ dep'[e].linked
          /\ dep'[e].version = dep[e].version
      BY <3>3, <2>1, <1>2, Documents
    <3>5. LocalsAreStored' /\ CommandStates' /\ CommandFacts'
      BY <3>2, <3>3, <3>4, <2>1, <1>0
      DEF LocalsAreStored, CommandStates, CommandFacts, Recoverable, CreatePcs, LaunchPcs, CancelPcs,
        StopPcs, ReleasedPcs
    <3>6. HeldStates'
      BY <3>3, <2>1 DEF IndInv, HeldStates, Recoverable
    <3>7. PairStates'
      BY <3>3, <3>4 DEF IndInv, PairStates, PairAgrees
    <3>8. PollsAreCurrent'
      BY <3>3, <3>4, <2>1, <1>1, <1>4, PollsKept DEF IndInv
    <3>. QED
      BY <1>1, <3>5, <3>6, <3>7, <3>8 DEF IndInv
  <2>3. CASE /\ binding[e] = "unconfigured"
             /\ Goto(p, "start") /\ UNCHANGED <<dep, endpoint, evidence>>
    <3>1. cmd'[Server].pc = "start" /\ cmd'[Server].d = e /\ cmd'[Server].dep = c.dep
      BY <2>3, <1>7 DEF Goto
    <3>2. LocalsAreStored' /\ CommandStates' /\ CommandFacts'
      BY <3>1, <2>3, <2>1, <1>0, <1>3
      DEF IndInv, LocalsAreStored, CommandStates, CommandFacts, CreatePcs, LaunchPcs, CancelPcs,
        StopPcs, ReleasedPcs
    <3>3. HeldStates'
      BY <2>1, <2>3 DEF IndInv, HeldStates, Recoverable
    <3>. QED
      BY <1>1, <1>5, <2>1, <2>3, <3>2, <3>3 DEF IndInv
  <2>4. CASE Return(p) /\ UNCHANGED <<dep, endpoint, evidence>>
    <3>1. HeldStates'
      BY <2>1, <2>4 DEF IndInv, HeldStates, Recoverable
    <3>. QED
      BY <1>1, <1>5, <1>6, <2>1, <2>4, <3>1 DEF IndInv, Return
  <2>. QED
    BY <1>13, <2>2, <2>3, <2>4 DEF Prepare
<1>14. CASE Start(p)
  <2>1. /\ c.pc = "start" /\ UNCHANGED <<dep, endpoint, evidence, lastPhase, binding, reader>>
        /\ dep[e].observed = "STARTING" /\ dep[e].desired = "ACTIVE"
        /\ exec[e] = "none" /\ lastPhase[e] # "RELEASED"
        /\ binding[e] = "remote" => Recoverable(e)
    BY <1>14, <1>0 DEF Start, EngineStart, At, IndInv, CommandStates, CommandFacts, LaunchPcs
  <2>2. \/ /\ cmd' = [cmd EXCEPT ![Server].pc = "persistFailed", ![Server].ref = FALSE]
           /\ UNCHANGED exec
        \/ /\ binding[e] = "remote"
           /\ exec' = exec \/ exec' = [exec EXCEPT ![e] = "held"]
           /\ \/ cmd' = [cmd EXCEPT ![Server].pc = "persistFailed", ![Server].ref = TRUE]
              \/ cmd' = [cmd EXCEPT ![Server].pc = "probe"]
              \/ cmd' = [cmd EXCEPT ![Server].pc = "cleanup"]
    BY <1>14 DEF Start, EngineStart, Goto
  <2>3. cmd'[Server].d = e /\ cmd'[Server].dep = c.dep
        /\ cmd'[Server].pc \in {"persistFailed", "probe", "cleanup"}
    BY <2>2, <1>0, <1>1, <1>2 DEF TypeOK, Command
  <2>4. cmd'[Server].pc # "persistFailed" \/ cmd'[Server].ref => Recoverable(e)
    BY <2>1, <2>2, <1>0, <1>1, <1>2 DEF TypeOK, Command
  <2>5. exec'[e] = "held" => Recoverable(e)
    BY <2>1, <2>2, <1>1, <1>2
  <2>6. \A d \in Deployments : d # e => exec'[d] = exec[d]
    BY <2>2, <1>1, <1>2 DEF TypeOK
  <2>7. LocalsAreStored' /\ CommandStates' /\ CommandFacts'
    BY <2>1, <2>3, <2>4, <1>0, <1>3
    DEF IndInv, LocalsAreStored, CommandStates, CommandFacts, Recoverable, CreatePcs, LaunchPcs, CancelPcs,
        StopPcs, ReleasedPcs
  <2>8. HeldStates'
    BY <2>1, <2>5, <2>6 DEF IndInv, HeldStates, Recoverable
  <2>. QED
    BY <1>1, <1>5, <2>1, <2>7, <2>8 DEF IndInv
<1>15. CASE Probe(p)
  <2>1. /\ c.pc = "probe" /\ UNCHANGED <<dep, endpoint, evidence, exec, binding, reader>>
        /\ lastPhase' = [lastPhase EXCEPT ![e] = "PROBING"]
        /\ cmd' = [cmd EXCEPT ![Server].pc = "verify"]
    BY <1>15 DEF Probe, At, AppendEvent, Goto
  <2>2. cmd'[Server].pc = "verify" /\ cmd'[Server].d = e /\ cmd'[Server].dep = c.dep
    BY <2>1, <1>7
  <2>3. LocalsAreStored' /\ CommandStates' /\ CommandFacts'
    BY <2>1, <2>2, <1>0, <1>1, <1>2, <1>3
    DEF IndInv, LocalsAreStored, CommandStates, CommandFacts, Recoverable, CreatePcs, LaunchPcs, CancelPcs,
        StopPcs, ReleasedPcs, TypeOK
  <2>4. HeldStates'
    BY <2>1, <1>1, <1>2 DEF IndInv, HeldStates, Recoverable, TypeOK
  <2>. QED
    BY <1>1, <1>5, <2>1, <2>3, <2>4 DEF IndInv
<1>16. CASE Verify(p)
  <2>1. /\ c.pc = "verify"
        /\ UNCHANGED <<dep, endpoint, evidence, exec, lastPhase, binding, reader>>
        /\ \/ cmd' = [cmd EXCEPT ![Server].pc = "persistReady"]
           \/ cmd' = [cmd EXCEPT ![Server].pc = "cleanup"]
    BY <1>16 DEF Verify, At, Goto
  <2>2. cmd'[Server].pc \in {"persistReady", "cleanup"} /\ cmd'[Server].d = e
        /\ cmd'[Server].dep = c.dep
    BY <2>1, <1>7
  <2>3. LocalsAreStored' /\ CommandStates' /\ CommandFacts'
    BY <2>1, <2>2, <1>0, <1>3
    DEF IndInv, LocalsAreStored, CommandStates, CommandFacts, Recoverable, CreatePcs, LaunchPcs, CancelPcs,
        StopPcs, ReleasedPcs
  <2>4. HeldStates'
    BY <2>1 DEF IndInv, HeldStates, Recoverable
  <2>. QED
    BY <1>1, <1>5, <2>1, <2>3, <2>4 DEF IndInv
<1>17. CASE Cleanup(p)
  <2>1. /\ c.pc = "cleanup" /\ UNCHANGED <<dep, endpoint, evidence, lastPhase, binding, reader>>
        /\ exec' = exec \/ exec' = [exec EXCEPT ![e] = "none"]
        /\ \/ cmd' = [cmd EXCEPT ![Server].pc = "persistFailed", ![Server].ref = TRUE]
           \/ cmd' = [cmd EXCEPT ![Server] = Idle]
    BY <1>17 DEF Cleanup, EngineStop, At, Return
  <2>2. HeldStates'
    BY <2>1, <1>1, <1>2 DEF IndInv, HeldStates, Recoverable, TypeOK
  <2>3. CASE cmd' = [cmd EXCEPT ![Server].pc = "persistFailed", ![Server].ref = TRUE]
    <3>1. cmd'[Server].pc = "persistFailed" /\ cmd'[Server].d = e /\ cmd'[Server].dep = c.dep
      BY <2>3, <1>0, <1>1, <1>2 DEF TypeOK, Command
    <3>2. LocalsAreStored' /\ CommandStates' /\ CommandFacts'
      BY <2>1, <3>1, <1>0, <1>3
      DEF IndInv, LocalsAreStored, CommandStates, CommandFacts, Recoverable, CreatePcs, LaunchPcs, CancelPcs,
        StopPcs, ReleasedPcs
    <3>. QED
      BY <3>2, <1>1, <1>5, <2>1, <2>2 DEF IndInv
  <2>. QED
    BY <1>1, <1>5, <1>6, <2>1, <2>2, <2>3 DEF IndInv
<1>18. CASE PersistFailure(p)
  <2>1. /\ c.pc = "persistFailed" /\ UNCHANGED <<exec, lastPhase, binding, reader>>
        /\ dep[e].observed = "STARTING" /\ dep[e].desired = "ACTIVE"
        /\ lastPhase[e] # "RELEASED"
    BY <1>18, <1>0 DEF PersistFailure, At, IndInv, CommandStates, CommandFacts, LaunchPcs
  <2>2. \/ /\ dep' = [dep EXCEPT ![e] = Link(Failed(dep[e]))]
           /\ endpoint' = [endpoint EXCEPT ![e] = NextEndpoint(p, "UNHEALTHY")]
           /\ evidence' = [evidence EXCEPT ![e] = TRUE]
           /\ cmd' = [cmd EXCEPT ![Server].dep = Link(Failed(dep[e])), ![Server].pc = "completeFailed"]
        \/ /\ dep' = [dep EXCEPT ![e] = Failed(dep[e])]
           /\ UNCHANGED <<endpoint, evidence>>
           /\ cmd' = [cmd EXCEPT ![Server].dep = Failed(dep[e]), ![Server].pc = "completeFailed"]
    BY <1>18, <1>3 DEF PersistFailure, SavePair, SaveDeployment
  <2>3. /\ \A d \in Deployments : d # e => dep'[d] = dep[d] /\ endpoint'[d] = endpoint[d]
                                           /\ evidence'[d] = evidence[d]
        /\ \/ /\ dep'[e] = Link(Failed(dep[e])) /\ evidence'[e]
              /\ endpoint'[e].state = "UNHEALTHY"
           \/ dep'[e] = Failed(dep[e]) /\ endpoint'[e] = endpoint[e] /\ evidence'[e] = evidence[e]
    BY <2>2, <1>1, <1>2 DEF TypeOK, NextEndpoint
  <2>4. /\ dep'[e].observed = "FAILED" /\ dep'[e].desired = "ACTIVE" /\ dep'[e].failure
        /\ dep'[e].version = dep[e].version + 1
        /\ \/ dep'[e].linked /\ endpoint'[e].state = "UNHEALTHY"
           \/ dep'[e].linked = dep[e].linked /\ endpoint'[e] = endpoint[e]
    <3>1. Failed(dep[e]) \in Deployment
      BY <1>2, Documents
    <3>. QED
      BY <3>1, <2>1, <2>3, <1>2, Documents
  <2>5. cmd'[Server].pc = "completeFailed" /\ cmd'[Server].d = e /\ cmd'[Server].dep = dep'[e]
    BY <2>2, <1>8, <1>1, <1>2, ZenonT(60) DEF TypeOK
  <2>6. LocalsAreStored' /\ CommandStates' /\ CommandFacts'
    BY <2>4, <2>5, <1>0 DEF LocalsAreStored, CommandStates, CommandFacts, CreatePcs, LaunchPcs, CancelPcs,
        StopPcs, ReleasedPcs
  <2>7. HeldStates'
    BY <2>1, <2>3, <2>4 DEF IndInv, HeldStates, Recoverable
  <2>8. PairStates'
    BY <2>1, <2>3, <2>4 DEF IndInv, PairStates, PairAgrees
  <2>9. PollsAreCurrent'
    BY <2>1, <2>3, <2>4, <1>1, <1>4, PollsKept DEF IndInv
  <2>. QED
    BY <1>1, <2>6, <2>7, <2>8, <2>9 DEF IndInv
<1>19. CASE FailedEvent(p)
  <2>1. /\ UNCHANGED <<dep, endpoint, evidence, exec, binding, reader>>
        /\ lastPhase' = [lastPhase EXCEPT ![e] = "FAILED"]
        /\ cmd' = [cmd EXCEPT ![Server] = Idle]
    BY <1>19 DEF FailedEvent, AppendEvent, Return
  <2>2. HeldStates'
    BY <2>1, <1>1, <1>2 DEF IndInv, HeldStates, Recoverable, TypeOK
  <2>. QED
    BY <1>1, <1>5, <1>6, <2>1, <2>2 DEF IndInv
<1>20. CASE PersistReady(p)
  <2>1. /\ c.pc = "persistReady" /\ UNCHANGED <<exec, lastPhase, binding, reader>>
        /\ dep[e].observed = "STARTING" /\ dep[e].desired = "ACTIVE"
        /\ lastPhase[e] # "RELEASED"
    BY <1>20, <1>0 DEF PersistReady, At, IndInv, CommandStates, CommandFacts, LaunchPcs
  <2>2. /\ dep' = [dep EXCEPT ![e] = Ready(dep[e])]
        /\ endpoint' = [endpoint EXCEPT ![e] = NextEndpoint(p, "READY")]
        /\ evidence' = [evidence EXCEPT ![e] = TRUE]
        /\ cmd' = [cmd EXCEPT ![Server].dep = Ready(dep[e]), ![Server].pc = "completeReady"]
    BY <1>20, <1>3 DEF PersistReady, SavePair
  <2>3. /\ \A d \in Deployments : d # e => dep'[d] = dep[d] /\ endpoint'[d] = endpoint[d]
                                           /\ evidence'[d] = evidence[d]
        /\ dep'[e] = Ready(dep[e]) /\ evidence'[e] /\ endpoint'[e].state = "READY"
    BY <2>2, <1>1, <1>2 DEF TypeOK, NextEndpoint
  <2>4. /\ dep'[e].observed = "READY" /\ dep'[e].desired = "ACTIVE" /\ ~dep'[e].failure
        /\ dep'[e].version = dep[e].version + 1 /\ dep'[e].linked
    BY <2>1, <2>3, <1>2, Documents
  <2>5. cmd'[Server].pc = "completeReady" /\ cmd'[Server].d = e /\ cmd'[Server].dep = dep'[e]
    BY <2>2, <2>3, <1>8
  <2>6. LocalsAreStored' /\ CommandStates' /\ CommandFacts'
    BY <2>4, <2>5, <1>0 DEF LocalsAreStored, CommandStates, CommandFacts, CreatePcs, LaunchPcs, CancelPcs,
        StopPcs, ReleasedPcs
  <2>7. HeldStates'
    BY <2>1, <2>3, <2>4 DEF IndInv, HeldStates, Recoverable
  <2>8. PairStates'
    BY <2>3, <2>4 DEF IndInv, PairStates, PairAgrees
  <2>9. PollsAreCurrent'
    BY <2>1, <2>3, <2>4, <1>1, <1>4, PollsKept DEF IndInv
  <2>. QED
    BY <1>1, <2>6, <2>7, <2>8, <2>9 DEF IndInv
<1>21. CASE ReadyEvent(p)
  <2>1. /\ UNCHANGED <<dep, endpoint, evidence, exec, binding, reader>>
        /\ lastPhase' = [lastPhase EXCEPT ![e] = "READY"]
        /\ cmd' = [cmd EXCEPT ![Server] = Idle]
    BY <1>21 DEF ReadyEvent, AppendEvent, Return
  <2>2. HeldStates'
    BY <2>1, <1>1, <1>2 DEF IndInv, HeldStates, Recoverable, TypeOK
  <2>. QED
    BY <1>1, <1>5, <1>6, <2>1, <2>2 DEF IndInv
<1>22. CASE StoppingEvent(p)
  <2>1. /\ c.pc = "stopping" /\ UNCHANGED <<dep, endpoint, evidence, exec, binding, reader>>
        /\ lastPhase' = [lastPhase EXCEPT ![e] = "STOPPING"]
        /\ cmd' = [cmd EXCEPT ![Server].pc = "release"]
    BY <1>22 DEF StoppingEvent, At, AppendEvent, Goto
  <2>2. cmd'[Server].pc = "release" /\ cmd'[Server].d = e /\ cmd'[Server].dep = c.dep
    BY <2>1, <1>7
  <2>3. LocalsAreStored' /\ CommandStates' /\ CommandFacts'
    BY <2>1, <2>2, <1>0, <1>3
    DEF IndInv, LocalsAreStored, CommandStates, CommandFacts, CreatePcs, LaunchPcs, CancelPcs,
        StopPcs, ReleasedPcs
  <2>4. HeldStates'
    BY <2>1, <1>1, <1>2 DEF IndInv, HeldStates, Recoverable, TypeOK
  <2>. QED
    BY <1>1, <1>5, <2>1, <2>3, <2>4 DEF IndInv
<1>23. CASE Release(p)
  <2> DEFINE ep == IF c.dep.linked THEN endpoint[e] ELSE NoEndpoint
  <2>1. /\ c.pc = "release" /\ UNCHANGED <<dep, endpoint, evidence, lastPhase, binding, reader>>
        /\ dep[e].observed = "STOPPING" /\ dep[e].desired = "STOPPED"
        /\ exec' = exec \/ exec' = [exec EXCEPT ![e] = "none"]
    BY <1>23, <1>0 DEF Release, EngineStop, At, IndInv, CommandStates, StopPcs
  <2>2. HeldStates'
    BY <2>1, <1>1, <1>2 DEF IndInv, HeldStates, Recoverable, TypeOK
  <2>3. CASE cmd' = [cmd EXCEPT ![Server] = Idle]
    BY <1>1, <1>5, <1>6, <2>1, <2>2, <2>3 DEF IndInv
  <2>4. CASE cmd' = [cmd EXCEPT ![Server].pc = "persistStopped", ![Server].ep = ep]
             /\ exec'[e] = "none"
    <3>1. ep = endpoint[e]
      BY <1>2, <1>3 DEF IndInv, PairStates, PairAgrees
    <3>2. /\ cmd'[Server].pc = "persistStopped" /\ cmd'[Server].d = e
          /\ cmd'[Server].dep = c.dep /\ cmd'[Server].ep = endpoint[e]
      BY <2>4, <3>1, <1>0, <1>1, <1>2 DEF TypeOK, Command
    <3>3. LocalsAreStored' /\ CommandStates' /\ CommandFacts'
      <4>1. exec'[e] = "none"
        BY <2>4
      <4>2. LocalsAreStored' /\ CommandStates'
        BY <2>1, <3>2, <1>0, <1>3 DEF LocalsAreStored, CommandStates, CreatePcs, LaunchPcs, CancelPcs,
        StopPcs, ReleasedPcs
      <4>3. CommandFacts'
        BY <2>1, <3>2, <4>1, <1>0 DEF CommandFacts, LaunchPcs
      <4>. QED
        BY <4>2, <4>3
    <3>. QED
      BY <1>1, <1>5, <2>1, <2>2, <3>3 DEF IndInv
  <2>5. CASE /\ ~(evidence[e] /\ ep # NoEndpoint)
             /\ UNCHANGED exec
             /\ cmd' = [cmd EXCEPT ![Server].pc = "persistStopped", ![Server].ep = ep]
    <3>0. NoEndpoint.state = "ABSENT"
      BY DEF NoEndpoint
    <3>1. exec[e] # "held"
      <4> SUFFICES ASSUME exec[e] = "held" PROVE FALSE
        OBVIOUS
      <4>1. evidence[e] /\ dep[e].linked /\ endpoint[e].state # "ABSENT"
        BY <1>2 DEF IndInv, HeldStates, Recoverable
      <4>. QED
        BY <2>5, <3>0, <4>1, <1>3
    <3>2. exec'[e] = "none"
      BY <2>5, <3>1, <1>1, <1>2 DEF TypeOK
    <3>. QED
      BY <2>4, <2>5, <3>2
  <2>6. exec' = [exec EXCEPT ![e] = "none"] => exec'[e] = "none"
    BY <1>1, <1>2 DEF TypeOK
  <2>. QED
    BY <1>23, <2>3, <2>4, <2>5, <2>6 DEF Release, EngineStop, Return
<1>24. CASE PersistStopped(p)
  <2>1. /\ c.pc = "persistStopped" /\ UNCHANGED <<evidence, exec, lastPhase, binding, reader>>
        /\ dep[e].observed = "STOPPING" /\ dep[e].desired = "STOPPED"
        /\ exec[e] = "none" /\ c.ep = endpoint[e]
    BY <1>24, <1>0 DEF PersistStopped, At, IndInv, CommandStates, CommandFacts, StopPcs
  <2>2. /\ dep' = [dep EXCEPT ![e] = Stopped(dep[e])]
        /\ cmd' = [cmd EXCEPT ![Server].dep = Stopped(dep[e]), ![Server].pc = "completeStopped"]
        /\ \/ /\ endpoint[e] # NoEndpoint
              /\ endpoint' = [endpoint EXCEPT ![e] = [state   |-> "RETIRED",
                                                      version |-> endpoint[e].version + 1]]
           \/ endpoint[e] = NoEndpoint /\ UNCHANGED endpoint
    BY <1>24, <1>3, <2>1 DEF PersistStopped, SavePair, SaveDeployment
  <2>3. /\ \A d \in Deployments : d # e => dep'[d] = dep[d] /\ endpoint'[d] = endpoint[d]
        /\ dep'[e] = Stopped(dep[e])
        /\ \/ endpoint[e] # NoEndpoint /\ endpoint'[e].state = "RETIRED"
           \/ endpoint[e] = NoEndpoint /\ endpoint'[e] = NoEndpoint
    BY <2>2, <1>1, <1>2 DEF TypeOK
  <2>4. /\ dep'[e].observed = "STOPPED" /\ dep'[e].desired = "STOPPED"
        /\ dep'[e].version = dep[e].version + 1 /\ dep'[e].linked = dep[e].linked
    BY <2>1, <2>3, <1>2, Documents
  <2>5. cmd'[Server].pc = "completeStopped" /\ cmd'[Server].d = e /\ cmd'[Server].dep = dep'[e]
    BY <2>2, <2>3, <1>8, ZenonT(30)
  <2>6. LocalsAreStored' /\ CommandStates' /\ CommandFacts'
    BY <2>4, <2>5, <1>0 DEF LocalsAreStored, CommandStates, CommandFacts, CreatePcs, LaunchPcs, CancelPcs,
        StopPcs, ReleasedPcs
  <2>7. HeldStates'
    BY <2>1, <2>3 DEF IndInv, HeldStates, Recoverable
  <2>8. PairStates'
    <3>1. NoEndpoint.state = "ABSENT" /\ (endpoint[e].state = "ABSENT" => endpoint[e] = NoEndpoint)
          /\ (dep[e].linked <=> endpoint[e].state # "ABSENT")
      BY <1>2 DEF NoEndpoint, IndInv, PairStates, PairAgrees
    <3>2. /\ endpoint'[e].state \in {"ABSENT", "RETIRED"}
          /\ dep'[e].linked <=> endpoint'[e].state # "ABSENT"
          /\ endpoint'[e].state = "ABSENT" => endpoint'[e] = NoEndpoint
      BY <3>1, <2>3, <2>4
    <3>. QED
      BY <2>3, <2>4, <3>2 DEF IndInv, PairStates, PairAgrees
  <2>9. PollsAreCurrent'
    BY <2>1, <2>3, <2>4, <1>1, <1>4, PollsKept DEF IndInv
  <2>. QED
    BY <1>1, <2>6, <2>7, <2>8, <2>9 DEF IndInv
<1>25. CASE ReleasedEvent(p)
  <2>1. /\ c.pc = "releasedEvent" /\ UNCHANGED <<dep, endpoint, evidence, exec, binding, reader>>
        /\ lastPhase' = [lastPhase EXCEPT ![e] = "RELEASED"]
        /\ \/ cmd' = [cmd EXCEPT ![Server].pc = "readmit"]
           \/ cmd' = [cmd EXCEPT ![Server] = Idle]
        /\ dep[e].observed = "STOPPED" /\ dep[e].desired = "STOPPED"
    BY <1>25, <1>0 DEF ReleasedEvent, At, AppendEvent, Goto, Return, IndInv, CommandStates, ReleasedPcs
  <2>2. HeldStates'
    BY <2>1, <1>1, <1>2 DEF IndInv, HeldStates, Recoverable, TypeOK
  <2>3. CASE cmd' = [cmd EXCEPT ![Server].pc = "readmit"]
    <3>1. cmd'[Server].pc = "readmit" /\ cmd'[Server].d = e /\ cmd'[Server].dep = c.dep
      BY <2>3, <1>7
    <3>2. LocalsAreStored' /\ CommandStates' /\ CommandFacts'
      BY <3>1, <2>1, <1>0, <1>3
      DEF LocalsAreStored, CommandStates, CommandFacts, CreatePcs, LaunchPcs, CancelPcs,
        StopPcs, ReleasedPcs
    <3>. QED
      BY <1>1, <1>5, <2>1, <2>2, <3>2 DEF IndInv
  <2>. QED
    BY <1>1, <1>5, <1>6, <2>1, <2>2, <2>3 DEF IndInv
<1>26. CASE PersistStarting(p)
  <2>1. /\ c.pc = "persistStarting" /\ UNCHANGED <<endpoint, evidence, exec, lastPhase, binding, reader>>
        /\ dep[e].observed = "STOPPED" /\ dep[e].desired = "STOPPED"
        /\ dep' = [dep EXCEPT ![e] = Starting(dep[e])]
        /\ cmd' = [cmd EXCEPT ![Server].dep = Starting(dep[e]), ![Server].pc = "queued"]
    BY <1>26, <1>0, <1>3 DEF PersistStarting, SaveDeployment, At, IndInv, CommandStates, ReleasedPcs
  <2>2. /\ \A d \in Deployments : d # e => dep'[d] = dep[d]
        /\ dep'[e] = Starting(dep[e])
    BY <2>1, <1>1, <1>2 DEF TypeOK
  <2>3. /\ dep'[e].observed = "STARTING" /\ dep'[e].desired = "ACTIVE"
        /\ dep'[e].version = dep[e].version + 1 /\ dep'[e].linked = dep[e].linked
    BY <2>2, <1>2, Documents
  <2>4. cmd'[Server].pc = "queued" /\ cmd'[Server].d = e /\ cmd'[Server].dep = dep'[e]
    BY <2>1, <2>2, <1>0, <1>1, <1>2 DEF TypeOK, Command
  <2>5. exec[e] = "none"
    BY <2>1, <1>1, <1>2, SMTT(60) DEF IndInv, HeldStates, TypeOK
  <2>6. LocalsAreStored' /\ CommandStates' /\ CommandFacts'
    BY <2>1, <2>3, <2>4, <2>5, <1>0, ZenonT(60)
    DEF LocalsAreStored, CommandStates, CommandFacts, CreatePcs, LaunchPcs, CancelPcs,
        StopPcs, ReleasedPcs
  <2>7. HeldStates'
    BY <2>1, <2>2, <2>5 DEF IndInv, HeldStates, Recoverable
  <2>8. PairStates'
    BY <2>1, <2>2, <2>3 DEF IndInv, PairStates, PairAgrees
  <2>9. PollsAreCurrent'
    BY <2>1, <2>2, <2>3, <1>1, <1>4, PollsKept DEF IndInv
  <2>. QED
    BY <1>1, <2>6, <2>7, <2>8, <2>9 DEF IndInv
<1>27. CASE PersistStopping(p)
  <2>1. /\ c.pc = "persistStopping"
        /\ UNCHANGED <<endpoint, evidence, exec, lastPhase, binding, reader>>
        /\ dep[e].observed \notin {"ABSENT", "STOPPED"}
        /\ dep' = [dep EXCEPT ![e] = Stopping(dep[e])]
        /\ cmd' = [cmd EXCEPT ![Server].dep = Stopping(dep[e]), ![Server].pc = "stopping"]
    BY <1>27, <1>0, <1>3
    DEF PersistStopping, SaveDeployment, At, IndInv, CommandStates, CancelPcs
  <2>2. /\ \A d \in Deployments : d # e => dep'[d] = dep[d]
        /\ dep'[e] = Stopping(dep[e])
    BY <2>1, <1>1, <1>2 DEF TypeOK
  <2>3. /\ dep'[e].observed = "STOPPING" /\ dep'[e].desired = "STOPPED"
        /\ dep'[e].version = dep[e].version + 1 /\ dep'[e].linked = dep[e].linked
    BY <2>2, <1>2, Documents
  <2>4. cmd'[Server].pc = "stopping" /\ cmd'[Server].d = e /\ cmd'[Server].dep = dep'[e]
    BY <2>1, <2>2, <1>0, <1>1, <1>2 DEF TypeOK, Command
  <2>5. LocalsAreStored' /\ CommandStates' /\ CommandFacts'
    BY <2>3, <2>4, <1>0
    DEF LocalsAreStored, CommandStates, CommandFacts, CreatePcs, LaunchPcs, CancelPcs,
        StopPcs, ReleasedPcs
  <2>6. HeldStates'
    BY <2>1, <2>2, <2>3 DEF IndInv, HeldStates, Recoverable
  <2>7. PairStates'
    BY <2>1, <2>2, <2>3 DEF IndInv, PairStates, PairAgrees
  <2>8. PollsAreCurrent'
    BY <2>1, <2>2, <2>3, <1>1, <1>4, PollsKept DEF IndInv
  <2>. QED
    BY <1>1, <2>5, <2>6, <2>7, <2>8 DEF IndInv
<1>. QED
  BY <1>11, <1>12, <1>13, <1>14, <1>15, <1>16, <1>17, <1>18, <1>19, <1>20, <1>21, <1>22,
     <1>23, <1>24, <1>25, <1>26, <1>27 DEF CommandStep, ReportStep

\* Every step of the command that holds _commands preserves the invariant.
LEMMA CommandStepInv ==
    ASSUME SingleProcess, IndInv, CommandStep(Server)
    PROVE  IndInv'
BY ReportStepInv, IntentInv, StoredStepInv

\* Taking _commands: a command begins only when no poll is about to write.
LEMMA BeginInv ==
    ASSUME SingleProcess, IndInv, Begin(Server)
    PROVE  IndInv'
<1>0. Server \in Processes /\ \A q \in Processes : q = Server
  BY DEF SingleProcess
<1>1. TypeOK
  BY DEF IndInv
<1>2. TypeOK'
  <2>1. CASE \E q \in Processes : CommandStep(q)
    BY <1>1, <2>1, CommandStepType
  <2>. QED
    BY <1>0, <1>1, <2>1, OtherStepType DEF Next
<1>3. ASSUME UNCHANGED <<dep, endpoint, evidence, lastPhase, exec, binding, reader>>,
             \A x \in Polls : reader[x].pc # "save",
             LocalsAreStored' /\ CommandStates' /\ CommandFacts'
      PROVE  IndInv'
  <2>1. HeldStates' /\ PairStates'
    BY <1>3 DEF IndInv, HeldStates, Recoverable, PairStates, PairAgrees
  <2>2. PollsAreCurrent'
    BY <1>1, <1>2, <1>3, PollsKept DEF IndInv
  <2>. QED
    BY <1>2, <1>3, <2>1, <2>2 DEF IndInv
<1>4. ASSUME NEW d \in Deployments, NEW ks \in SUBSET Keys, Create(Server, d, ks) PROVE IndInv'
  <2>1. /\ dep[d] = NoDeployment /\ \A x \in Polls : reader[x].pc # "save"
        /\ cmd' = [cmd EXCEPT ![Server] = [Holding("admit", d, NewDeployment, FALSE)
                                              EXCEPT !.keys = ks]]
        /\ UNCHANGED <<dep, endpoint, evidence, lastPhase, exec, binding, reader>>
    BY <1>4 DEF Create, LockFree
  <2>2. /\ cmd'[Server].pc = "admit" /\ cmd'[Server].d = d
        /\ cmd'[Server].dep = NewDeployment
    BY <2>1, <1>0, <1>1 DEF TypeOK, Holding
  <2>3. LocalsAreStored' /\ CommandStates' /\ CommandFacts'
    BY <2>1, <2>2, <1>0
    DEF LocalsAreStored, CommandStates, CommandFacts, CreatePcs, LaunchPcs, CancelPcs,
        StopPcs, ReleasedPcs
  <2>. QED
    BY <1>3, <2>1, <2>3
<1>5. ASSUME NEW d \in Deployments, NEW restart \in BOOLEAN, Stop(Server, d, restart)
      PROVE  IndInv'
  <2>1. /\ dep[d].observed \notin {"ABSENT", "STOPPED"}
        /\ \A x \in Polls : reader[x].pc # "save"
        /\ cmd' = [cmd EXCEPT ![Server] = Holding("cancel", d, dep[d], restart)]
        /\ UNCHANGED <<dep, endpoint, evidence, lastPhase, exec, binding, reader>>
    BY <1>5 DEF Stop, LockFree
  <2>2. cmd'[Server].pc = "cancel" /\ cmd'[Server].d = d /\ cmd'[Server].dep = dep'[d]
    BY <2>1, <1>0, <1>1 DEF Holding, TypeOK
  <2>3. LocalsAreStored' /\ CommandStates' /\ CommandFacts'
    BY <2>1, <2>2, <1>0
    DEF LocalsAreStored, CommandStates, CommandFacts, CreatePcs, LaunchPcs, CancelPcs,
        StopPcs, ReleasedPcs
  <2>. QED
    BY <1>3, <2>1, <2>3
<1>6. ASSUME NEW d \in Deployments, Restart(Server, d) PROVE IndInv'
  <2>1. /\ dep[d].observed = "STOPPED"
        /\ \A x \in Polls : reader[x].pc # "save"
        /\ cmd' = [cmd EXCEPT ![Server] = Holding("readmit", d, dep[d], FALSE)]
        /\ UNCHANGED <<dep, endpoint, evidence, lastPhase, exec, binding, reader>>
    BY <1>6 DEF Restart, LockFree
  <2>2. cmd'[Server].pc = "readmit" /\ cmd'[Server].d = d /\ cmd'[Server].dep = dep'[d]
    BY <2>1, <1>0, <1>1 DEF Holding, TypeOK
  <2>3. dep[d].desired = "STOPPED"
    BY <2>1 DEF IndInv, PairStates
  <2>4. LocalsAreStored' /\ CommandStates' /\ CommandFacts'
    BY <2>1, <2>2, <2>3, <1>0
    DEF LocalsAreStored, CommandStates, CommandFacts, CreatePcs, LaunchPcs, CancelPcs,
        StopPcs, ReleasedPcs
  <2>. QED
    BY <1>3, <2>1, <2>4
<1>. QED
  BY <1>4, <1>5, <1>6 DEF Begin

\* A step of a poll that writes nothing: its own snapshot stays current, and it
\* holds the lock when it is about to write.
LEMMA PollStepInv ==
    ASSUME IndInv, TypeOK', NEW x \in Polls,
           UNCHANGED <<dep, endpoint, evidence, lastPhase, exec, binding, cmd>>,
           \A y \in Polls : y # x => reader'[y] = reader[y],
           reader'[x].pc # "idle" =>
               /\ Reconcilable(reader'[x].dep)
               /\ reader'[x].dep.version <= dep[x[1]].version
               /\ reader'[x].dep.version = dep[x[1]].version =>
                      /\ reader'[x].dep = dep[x[1]]
                      /\ reader'[x].pc # "endpoint" => reader'[x].ep = endpoint[x[1]],
           reader'[x].pc = "save" =>
               /\ reader'[x].dep.version = dep[x[1]].version
               /\ cmd[Server].pc = "idle"
               /\ \A y \in Polls : reader[y].pc # "save"
    PROVE  IndInv'
<1>1. LocalsAreStored' /\ CommandStates' /\ CommandFacts'
  BY DEF IndInv, LocalsAreStored, CommandStates, CommandFacts, Recoverable
<1>2. HeldStates' /\ PairStates'
  BY DEF IndInv, HeldStates, Recoverable, PairStates, PairAgrees
<1>3. PollsAreCurrent'
  BY DEF IndInv, PollsAreCurrent, Reconcilable
<1>. QED
  BY <1>1, <1>2, <1>3 DEF IndInv

\* The steps of get_deployment preserve the invariant.
LEMMA ReadStepInv ==
    ASSUME SingleProcess, IndInv, NEW d \in Deployments, NEW r \in Readers, ReadStep(d, r)
    PROVE  IndInv'
<1> DEFINE x == <<d, r>>
           poll == reader[<<d, r>>]
<1>0. /\ x \in Polls /\ x[1] = d /\ TypeOK
      /\ Server \in Processes /\ \A q \in Processes : q = Server
      /\ NotPolling.pc = "idle"
  BY DEF Polls, IndInv, SingleProcess, NotPolling
<1>1. TypeOK'
  <2>1. CASE \E q \in Processes : CommandStep(q)
    BY <1>0, <2>1, CommandStepType
  <2>. QED
    BY <1>0, <2>1, OtherStepType DEF Next
<1>2. /\ poll \in Poll /\ poll.dep \in Deployment /\ poll.ep \in Endpoint
      /\ poll.ready \in BOOLEAN /\ dep[d] \in Deployment /\ endpoint[d] \in Endpoint
  BY <1>0 DEF TypeOK, Poll
<1>3. poll.pc # "idle" =>
          /\ Reconcilable(poll.dep)
          /\ poll.dep.version <= dep[d].version
          /\ poll.dep.version = dep[d].version =>
                 /\ poll.dep = dep[d]
                 /\ poll.pc # "endpoint" => poll.ep = endpoint[d]
          /\ poll.pc = "save" => /\ poll.dep.version = dep[d].version
                                 /\ cmd[Server].pc = "idle"
                                 /\ \A y \in Polls : reader[y].pc = "save" => y = x
  BY <1>0 DEF IndInv, PollsAreCurrent
<1>4. ASSUME UNCHANGED <<dep, endpoint, evidence, lastPhase, exec, binding, cmd>>,
             reader' = [reader EXCEPT ![x] = NotPolling]
      PROVE  IndInv'
  <2>1. reader'[x].pc = "idle" /\ \A y \in Polls : y # x => reader'[y] = reader[y]
    BY <1>0, <1>4 DEF TypeOK
  <2>. QED
    BY <1>0, <1>1, <1>4, <2>1, PollStepInv
<1>5. CASE ReadDeployment(d, r)
  <2>1. /\ UNCHANGED <<dep, endpoint, evidence, lastPhase, exec, binding, cmd>>
        /\ reader' = [reader EXCEPT ![x].pc = "endpoint", ![x].dep = dep[d]]
        /\ Reconcilable(dep[d])
    BY <1>5 DEF ReadDeployment
  <2>2. /\ reader'[x].pc = "endpoint" /\ reader'[x].dep = dep[d]
        /\ \A y \in Polls : y # x => reader'[y] = reader[y]
    BY <2>1, <1>0, <1>2 DEF TypeOK, Poll
  <2>3. dep[d].version \in Nat
    BY <1>2 DEF Deployment
  <2>4. Reconcilable(reader'[x].dep) /\ reader'[x].dep.version <= dep[d].version
    BY <2>1, <2>2, <2>3
  <2>. QED
    BY <1>0, <1>1, <2>1, <2>2, <2>4, PollStepInv, ZenonT(30)
<1>6. CASE ReadEndpoint(d, r)
  <2>1. /\ UNCHANGED <<dep, endpoint, evidence, lastPhase, exec, binding, cmd>>
        /\ poll.pc = "endpoint"
        /\ \/ reader' = [reader EXCEPT ![x].pc = "inspect", ![x].ep = endpoint[d]]
           \/ reader' = [reader EXCEPT ![x] = NotPolling]
    BY <1>6 DEF ReadEndpoint
  <2>2. CASE reader' = [reader EXCEPT ![x].pc = "inspect", ![x].ep = endpoint[d]]
    <3>1. /\ reader'[x].pc = "inspect" /\ reader'[x].dep = poll.dep /\ reader'[x].ep = endpoint[d]
          /\ \A y \in Polls : y # x => reader'[y] = reader[y]
      BY <2>2, <1>0, <1>2 DEF TypeOK, Poll
    <3>. QED
      BY <1>0, <1>1, <1>3, <2>1, <3>1, PollStepInv
  <2>. QED
    BY <1>4, <2>1, <2>2
<1>7. CASE Inspect(d, r)
  <2>1. /\ UNCHANGED <<dep, endpoint, evidence, lastPhase, exec, binding, cmd>>
        /\ poll.pc = "inspect"
    BY <1>7 DEF Inspect
  <2>2. PICK ready \in BOOLEAN :
           \/ reader' = [reader EXCEPT ![x].pc = "lock", ![x].ready = ready]
           \/ reader' = [reader EXCEPT ![x] = NotPolling]
    BY <1>7 DEF Inspect
  <2>3. CASE reader' = [reader EXCEPT ![x].pc = "lock", ![x].ready = ready]
    <3>1. /\ reader'[x].pc = "lock" /\ reader'[x].dep = poll.dep /\ reader'[x].ep = poll.ep
          /\ \A y \in Polls : y # x => reader'[y] = reader[y]
      BY <2>3, <1>0, <1>2 DEF TypeOK, Poll
    <3>. QED
      BY <1>0, <1>1, <1>3, <2>1, <3>1, PollStepInv
  <2>. QED
    BY <1>4, <2>1, <2>2, <2>3
<1>8. CASE ReconcileCheck(d, r)
  <2>1. /\ UNCHANGED <<dep, endpoint, evidence, lastPhase, exec, binding, cmd>>
        /\ poll.pc = "lock" /\ cmd[Server].pc = "idle"
        /\ \A y \in Polls : reader[y].pc # "save"
        /\ \/ /\ dep[d].version = poll.dep.version
              /\ reader' = [reader EXCEPT ![x].pc = "save"]
           \/ reader' = [reader EXCEPT ![x] = NotPolling]
    BY <1>8 DEF ReconcileCheck, LockFree
  <2>2. CASE /\ dep[d].version = poll.dep.version
             /\ reader' = [reader EXCEPT ![x].pc = "save"]
    <3>1. /\ reader'[x].pc = "save" /\ reader'[x].dep = poll.dep /\ reader'[x].ep = poll.ep
          /\ \A y \in Polls : y # x => reader'[y] = reader[y]
      BY <2>2, <1>0, <1>2 DEF TypeOK, Poll
    <3>. QED
      BY <1>0, <1>1, <1>3, <2>1, <2>2, <3>1, PollStepInv
  <2>. QED
    BY <1>4, <2>1, <2>2
<1>9. CASE ReconcileSave(d, r)
  <2>1. /\ poll.pc = "save" /\ UNCHANGED <<evidence, lastPhase, exec, binding, cmd>>
        /\ dep' = [dep EXCEPT ![d] = Observed(poll.dep, poll.ready)]
        /\ endpoint' = [endpoint EXCEPT ![d] = ObservedEndpoint(poll.ep, poll.ready)]
        /\ reader' = [reader EXCEPT ![x] = NotPolling]
    BY <1>9 DEF ReconcileSave
  <2>2. /\ poll.dep = dep[d] /\ poll.ep = endpoint[d] /\ Reconcilable(dep[d])
        /\ cmd[Server].pc = "idle" /\ \A y \in Polls : reader[y].pc = "save" => y = x
    BY <2>1, <1>3
  <2>3. /\ dep'[d] = Observed(dep[d], poll.ready)
        /\ endpoint'[d] = ObservedEndpoint(endpoint[d], poll.ready)
        /\ \A f \in Deployments : f # d => dep'[f] = dep[f] /\ endpoint'[f] = endpoint[f]
        /\ reader'[x].pc = "idle" /\ \A y \in Polls : y # x => reader'[y] = reader[y]
    BY <2>1, <2>2, <1>0 DEF TypeOK
  <2>4. /\ dep'[d].desired = dep[d].desired
        /\ dep'[d].observed = IF poll.ready THEN "READY" ELSE "DEGRADED"
        /\ dep'[d].version = dep[d].version + 1
        /\ dep'[d].linked
        /\ dep'[d].failure = ~poll.ready
        /\ endpoint'[d].state = IF poll.ready THEN "READY" ELSE "UNHEALTHY"
    BY <2>2, <2>3, <1>2, ObservedPair DEF Reconcilable
  <2>5. LocalsAreStored' /\ CommandStates' /\ CommandFacts'
    BY <2>1, <2>2, <1>0 DEF LocalsAreStored, CommandStates, CommandFacts, CreatePcs, LaunchPcs, CancelPcs,
        StopPcs, ReleasedPcs
  <2>6. HeldStates'
    BY <2>1, <2>3, <2>4 DEF IndInv, HeldStates, Recoverable
  <2>7. PairStates'
    <3>1. dep[d].desired = "ACTIVE"
      BY <2>2 DEF IndInv, PairStates, Reconcilable
    <3>2. /\ endpoint'[d].state \in {"READY", "UNHEALTHY"}
          /\ dep'[d].observed \in {"READY", "DEGRADED"}
          /\ dep'[d].observed = "READY" <=> endpoint'[d].state = "READY"
          /\ dep'[d].observed = "READY" => ~dep'[d].failure
          /\ dep'[d].observed = "DEGRADED" => dep'[d].failure
      BY <2>4, <1>2
    <3>. QED
      BY <2>3, <2>4, <3>1, <3>2 DEF IndInv, PairStates, PairAgrees
  <2>8. PollsAreCurrent'
    <3> SUFFICES ASSUME NEW y \in Polls, y # x, reader[y].pc # "idle"
                 PROVE  /\ Reconcilable(reader[y].dep)
                        /\ reader[y].pc # "save"
                        /\ reader[y].dep.version <= dep'[y[1]].version
                        /\ reader[y].dep.version = dep'[y[1]].version =>
                               /\ reader[y].dep = dep'[y[1]]
                               /\ reader[y].pc # "endpoint" => reader[y].ep = endpoint'[y[1]]
      BY <2>3 DEF PollsAreCurrent, Reconcilable
    <3>1. y[1] \in Deployments
      BY DEF Polls
    <3>2. reader[y].dep.version \in Nat /\ dep[y[1]].version \in Nat
      BY <3>1, <1>0 DEF TypeOK, Poll, Deployment
    <3>3. /\ Reconcilable(reader[y].dep)
          /\ reader[y].dep.version <= dep[y[1]].version
          /\ reader[y].dep.version = dep[y[1]].version =>
                 /\ reader[y].dep = dep[y[1]]
                 /\ reader[y].pc # "endpoint" => reader[y].ep = endpoint[y[1]]
      BY DEF IndInv, PollsAreCurrent
    <3>. QED
      BY <2>2, <2>3, <2>4, <3>1, <3>2, <3>3
  <2>. QED
    BY <1>1, <2>5, <2>6, <2>7, <2>8 DEF IndInv
<1>. QED
  BY <1>5, <1>6, <1>7, <1>8, <1>9 DEF ReadStep

\* A crash loses the locals of commands and polls and nothing else.
LEMMA EnvironmentInv ==
    ASSUME SingleProcess, IndInv,
           Crash(Server) \/ \E d \in Deployments : ExecutionLost(d)
    PROVE  IndInv'
<1>0. TypeOK /\ Server \in Processes /\ \A q \in Processes : q = Server
  BY DEF IndInv, SingleProcess
<1>1. TypeOK'
  <2>1. CASE \E q \in Processes : CommandStep(q)
    BY <1>0, <2>1, CommandStepType
  <2>. QED
    BY <1>0, <2>1, OtherStepType DEF Next
<1>2. CASE Crash(Server)
  <2>1. /\ UNCHANGED <<dep, endpoint, evidence, lastPhase, exec>>
        /\ cmd'[Server].pc = "idle" /\ \A x \in Polls : reader'[x].pc = "idle"
    BY <1>0, <1>2 DEF Crash, TypeOK, Idle, Holding, NotPolling
  <2>2. LocalsAreStored' /\ CommandStates' /\ CommandFacts'
    BY <2>1, <1>0 DEF LocalsAreStored, CommandStates, CommandFacts, CreatePcs, LaunchPcs, CancelPcs,
        StopPcs, ReleasedPcs
  <2>3. HeldStates' /\ PairStates'
    BY <2>1 DEF IndInv, HeldStates, Recoverable, PairStates, PairAgrees
  <2>4. PollsAreCurrent'
    BY <2>1 DEF PollsAreCurrent
  <2>. QED
    BY <1>1, <2>2, <2>3, <2>4 DEF IndInv
<1>3. ASSUME NEW d \in Deployments, ExecutionLost(d) PROVE IndInv'
  <2>1. /\ UNCHANGED <<dep, endpoint, evidence, lastPhase, binding, cmd, reader>>
        /\ \A f \in Deployments : exec'[f] = "none" \/ exec'[f] = exec[f]
    BY <1>0, <1>3 DEF ExecutionLost, TypeOK
  <2>2. cmd[Server].d \in Deployments
    BY <1>0 DEF TypeOK, Command
  <2>3. LocalsAreStored' /\ CommandStates' /\ CommandFacts'
    BY <2>1, <2>2, <1>0
    DEF IndInv, LocalsAreStored, CommandStates, CommandFacts, Recoverable
  <2>4. HeldStates' /\ PairStates'
    BY <2>1 DEF IndInv, HeldStates, Recoverable, PairStates, PairAgrees
  <2>5. PollsAreCurrent'
    BY <2>1 DEF IndInv, PollsAreCurrent, Reconcilable
  <2>. QED
    BY <1>1, <2>3, <2>4, <2>5 DEF IndInv
<1>. QED
  BY <1>2, <1>3

\* Every step preserves the invariant.
LEMMA NextInv == ASSUME SingleProcess PROVE IndInv /\ [Next]_vars => IndInv'
<1> SUFFICES ASSUME IndInv, [Next]_vars PROVE IndInv'
  OBVIOUS
<1>1. CASE Next
  BY <1>1, CommandStepInv, BeginInv, ReadStepInv, EnvironmentInv DEF Next, SingleProcess
<1>2. CASE UNCHANGED vars
  <2>1. TypeOK' /\ LocalsAreStored' /\ CommandStates' /\ CommandFacts'
    BY <1>2 DEF IndInv, vars, TypeOK, LocalsAreStored, CommandStates, CommandFacts, Recoverable
  <2>2. HeldStates' /\ PairStates' /\ PollsAreCurrent'
    BY <1>2 DEF IndInv, vars, HeldStates, Recoverable, PairStates, PairAgrees,
                PollsAreCurrent, Reconcilable
  <2>. QED
    BY <2>1, <2>2 DEF IndInv
<1>. QED
  BY <1>1, <1>2

\* The inductive invariant: what a command or a poll has established before it
\* writes is still so when it writes, through crashes and concurrent polls.
THEOREM InvariantHolds == ASSUME SingleProcess PROVE Spec => []IndInv
<1>1. Init => IndInv
  BY InitInv
<1>2. IndInv /\ [Next]_vars => IndInv'
  BY NextInv
<1>. QED
  BY <1>1, <1>2, PTL DEF Spec

\* The host holds nothing for a STOPPED deployment: persist_stopped is reached
\* only through a confirmed release, in every history of one server process.
THEOREM StopReleases == ASSUME SingleProcess PROVE Spec => []StoppedMeansReleased
<1>1. IndInv => StoppedMeansReleased
  BY DEF IndInv, HeldStates, StoppedMeansReleased, TypeOK
<1>. QED
  BY <1>1, InvariantHolds, PTL

\* The event RELEASED is true when it is the latest one.
THEOREM ReleaseIsReported == ASSUME SingleProcess PROVE Spec => []ReleasedIsTrue
<1>1. IndInv => ReleasedIsTrue
  BY DEF IndInv, HeldStates, ReleasedIsTrue, TypeOK
<1>. QED
  BY <1>1, InvariantHolds, PTL

\* Nothing leaks: whatever the host holds, a stop can address.
THEOREM NothingLeaks == ASSUME SingleProcess PROVE Spec => []HeldIsRecoverable
<1>1. IndInv => HeldIsRecoverable
  BY DEF IndInv, HeldStates, HeldIsRecoverable
<1>. QED
  BY <1>1, InvariantHolds, PTL

\* The Deployment and the Endpoint that save_pair writes always agree.
THEOREM PairsAgree == ASSUME SingleProcess PROVE Spec => []PairAgrees
<1>1. IndInv => PairAgrees
  BY DEF IndInv, PairStates
<1>. QED
  BY <1>1, InvariantHolds, PTL

-----------------------------------------------------------------------------
(* What one step may do to the documents of a deployment. *)

\* Nothing, or a new Deployment, or a handle linked to a Deployment of the same
\* version, or the next version of the Deployment; the Endpoint stays or gets
\* its next version.
DocumentStep(d) ==
    /\ \/ dep'[d] = dep[d]
       \/ dep[d] = NoDeployment /\ dep'[d] = NewDeployment
       \/ dep'[d] = Link(dep[d])
       \/ /\ dep'[d].version = dep[d].version + 1
          /\ \/ dep'[d].desired = dep[d].desired
             \/ dep'[d].desired = "STOPPED"
             \/ dep[d].observed = "STOPPED" /\ dep'[d].observed = "STARTING"
    /\ \/ endpoint'[d] = endpoint[d]
       \/ endpoint'[d].version = endpoint[d].version + 1

\* The Endpoint of a launch has the version after the stored one.
LEMMA NextEndpointVersion ==
    ASSUME IndInv, NEW p \in Processes, cmd[p].pc \notin CreatePcs \cup {"idle"}, NEW state
    PROVE  NextEndpoint(p, state).version = endpoint[cmd[p].d].version + 1
<1> DEFINE d == cmd[p].d
<1>1. d \in Deployments /\ cmd[p].dep = dep[d] /\ dep[d] \in Deployment /\ endpoint[d] \in Endpoint
  BY DEF IndInv, LocalsAreStored, TypeOK, Command
<1>2. CASE dep[d].linked
  BY <1>1, <1>2 DEF NextEndpoint
<1>3. CASE ~dep[d].linked
  <2>1. endpoint[d] = NoEndpoint
    BY <1>1, <1>3 DEF IndInv, PairStates, PairAgrees
  <2>2. endpoint[d].version = 0
    BY <2>1 DEF NoEndpoint
  <2>. QED
    BY <1>1, <1>3, <2>2 DEF NextEndpoint
<1>. QED
  BY <1>2, <1>3

\* Every step writes documents in this way.
LEMMA StepDocuments ==
    ASSUME SingleProcess, IndInv, [Next]_vars, NEW d \in Deployments
    PROVE  DocumentStep(d)
<1>0. TypeOK /\ Server \in Processes /\ \A q \in Processes : q = Server
  BY DEF IndInv, SingleProcess
<1>00. dep[d] \in Deployment /\ endpoint[d] \in Endpoint
  BY <1>0 DEF TypeOK
<1>1. CASE UNCHANGED <<dep, endpoint>>
  BY <1>1 DEF DocumentStep
<1>2. ASSUME CommandStep(Server) PROVE DocumentStep(d)
  <2> DEFINE c == cmd[Server]
             e == cmd[Server].d
  <2>0. CASE ReportStep(Server) \/ PersistIntent(Server)
    <3>1. CASE ReportStep(Server)
      BY <1>0, <1>1, <3>1, ReportWrites
    <3>2. CASE PersistIntent(Server)
      <4>1. e \in Deployments /\ dep[e] = NoDeployment
        BY <1>0, <3>2 DEF PersistIntent, At, IndInv, CommandStates, CreatePcs, TypeOK, Command
      <4>. QED
        BY <1>0, <3>2, <4>1 DEF PersistIntent, DocumentStep, TypeOK
    <3>. QED
      BY <2>0, <3>1, <3>2
  <2> SUFFICES ASSUME ~ReportStep(Server), ~PersistIntent(Server) PROVE DocumentStep(d)
    BY <2>0
  <2>1. c.pc \notin CreatePcs \cup {"idle"} /\ c.dep = dep[e]
    <3>1. c.pc \notin CreatePcs \cup {"idle"}
      BY <1>2
      DEF CommandStep, ReportStep, Queue, Load, Prepare, Start, Probe, Verify, Cleanup,
          PersistFailure, FailedEvent, PersistReady, ReadyEvent, PersistStopping, StoppingEvent,
          Release, PersistStopped, ReleasedEvent, PersistStarting, At, CreatePcs
    <3>. QED
      BY <1>0, <3>1 DEF IndInv, LocalsAreStored
  <2>2. /\ e \in Deployments /\ dep[e] \in Deployment /\ endpoint[e] \in Endpoint
        /\ Failed(dep[e]) \in Deployment
    BY <1>0, Documents DEF TypeOK, Command
  <2>3. \A state : NextEndpoint(Server, state).version = endpoint[e].version + 1
    BY <1>0, <2>1, NextEndpointVersion
  <2>4. ASSUME NEW doc, NEW ep, NEW pc, SavePair(Server, doc, ep, pc)
        PROVE  /\ e = d => dep'[d] = doc /\ endpoint'[d] = ep
               /\ e # d => dep'[d] = dep[d] /\ endpoint'[d] = endpoint[d]
    BY <1>0, <2>2, <2>4 DEF SavePair, TypeOK
  <2>5. ASSUME NEW doc, NEW pc, SaveDeployment(Server, doc, pc)
        PROVE  /\ e = d => dep'[d] = doc
               /\ e # d => dep'[d] = dep[d]
               /\ endpoint'[d] = endpoint[d]
    BY <1>0, <2>2, <2>5 DEF SaveDeployment, TypeOK
  <2>6. CASE Prepare(Server)
    BY <1>1, <2>1, <2>3, <2>4, <2>6 DEF Prepare, DocumentStep
  <2>7. CASE PersistFailure(Server)
    <3>1. /\ Link(Failed(dep[e])).version = dep[e].version + 1
          /\ Link(Failed(dep[e])).desired = dep[e].desired
          /\ Failed(dep[e]).version = dep[e].version + 1
          /\ Failed(dep[e]).desired = dep[e].desired
      BY <2>2, Documents
    <3>. QED
      BY <2>1, <2>3, <2>4, <2>5, <2>7, <3>1 DEF PersistFailure, DocumentStep
  <2>8. CASE PersistReady(Server)
    <3>1. Ready(dep[e]).version = dep[e].version + 1 /\ Ready(dep[e]).desired = dep[e].desired
      BY <2>2, Documents
    <3>. QED
      BY <2>1, <2>3, <2>4, <2>8, <3>1 DEF PersistReady, DocumentStep
  <2>9. CASE PersistStopped(Server)
    <3>1. Stopped(dep[e]).version = dep[e].version + 1 /\ Stopped(dep[e]).desired = dep[e].desired
      BY <2>2, Documents
    <3>2. c.ep = endpoint[e]
      BY <1>0, <2>9 DEF PersistStopped, At, IndInv, CommandFacts
    <3>. QED
      BY <2>1, <2>4, <2>5, <2>9, <3>1, <3>2 DEF PersistStopped, DocumentStep
  <2>10. CASE PersistStarting(Server)
    <3>1. Starting(dep[e]).version = dep[e].version + 1 /\ Starting(dep[e]).observed = "STARTING"
      BY <2>2, Documents
    <3>2. dep[e].observed = "STOPPED"
      BY <1>0, <2>10 DEF PersistStarting, At, IndInv, CommandStates, ReleasedPcs
    <3>. QED
      BY <2>1, <2>5, <2>10, <3>1, <3>2 DEF PersistStarting, DocumentStep
  <2>11. CASE PersistStopping(Server)
    <3>1. Stopping(dep[e]).version = dep[e].version + 1 /\ Stopping(dep[e]).desired = "STOPPED"
      BY <2>2, Documents
    <3>. QED
      BY <2>1, <2>5, <2>11, <3>1 DEF PersistStopping, DocumentStep
  <2>. QED
    BY <1>1, <1>2, <2>6, <2>7, <2>8, <2>9, <2>10, <2>11
    DEF CommandStep, ReportStep, Queue, Load, Start, Probe, Verify, Cleanup, FailedEvent, ReadyEvent,
        StoppingEvent, Release, ReleasedEvent
<1>3. ASSUME Begin(Server) PROVE DocumentStep(d)
  BY <1>1, <1>3 DEF Begin, Create, Stop, Restart
<1>4. ASSUME NEW f \in Deployments, NEW r \in Readers, ReadStep(f, r) PROVE DocumentStep(d)
  <2> DEFINE poll == reader[<<f, r>>]
  <2>1. CASE ReconcileSave(f, r)
    <3>1. <<f, r>> \in Polls /\ poll \in Poll /\ <<f, r>>[1] = f
      BY <1>0 DEF Polls, TypeOK
    <3>2. poll.dep = dep[f] /\ poll.ep = endpoint[f] /\ poll.ready \in BOOLEAN
      BY <2>1, <3>1 DEF ReconcileSave, IndInv, PollsAreCurrent, Poll
    <3>3. /\ Observed(dep[d], poll.ready).version = dep[d].version + 1
          /\ Observed(dep[d], poll.ready).desired = dep[d].desired
          /\ ObservedEndpoint(endpoint[d], poll.ready).version = endpoint[d].version + 1
      BY <1>00, <3>2, ObservedPair
    <3>. QED
      BY <1>0, <2>1, <3>2, <3>3 DEF ReconcileSave, DocumentStep, TypeOK
  <2>. QED
    BY <1>1, <1>4, <2>1 DEF ReadStep, ReadDeployment, ReadEndpoint, Inspect, ReconcileCheck
<1>. QED
  BY <1>0, <1>1, <1>2, <1>3, <1>4 DEF Next, vars, Crash, ExecutionLost

\* No late reconciliation or launch makes a deployment ACTIVE again after a stop.
THEOREM StopIsNotUndone == ASSUME SingleProcess PROVE Spec => NoRevival
<1>1. IndInv /\ [Next]_vars => [NoRevivalStep]_vars
  <2> SUFFICES ASSUME IndInv, [Next]_vars, NEW d \in Deployments,
                      dep[d].desired = "STOPPED", dep'[d].desired = "ACTIVE"
               PROVE  dep[d].observed \in {"STOPPED", "ABSENT"} /\ dep'[d].observed = "STARTING"
    BY DEF NoRevivalStep
  <2>1. dep[d] \in Deployment /\ NoDeployment.observed = "ABSENT"
        /\ NewDeployment.observed = "STARTING"
    BY DEF IndInv, TypeOK, NoDeployment, NewDeployment
  <2>2. Link(dep[d]).desired = dep[d].desired
    BY <2>1, Documents
  <2>. QED
    BY <2>1, <2>2, StepDocuments DEF DocumentStep
<1>. QED
  BY <1>1, InvariantHolds, PTL DEF Spec, NoRevival

\* resource_version orders the states of a deployment and of its endpoint, so an
\* unchanged version means an unchanged state.
THEOREM VersionsAreOrdered == ASSUME SingleProcess PROVE Spec => VersionsOrderStates
<1>1. IndInv /\ [Next]_vars => [VersionStep]_vars
  <2> SUFFICES ASSUME IndInv, [Next]_vars, NEW d \in Deployments
               PROVE  /\ dep[d].version <= dep'[d].version
                      /\ dep'[d].version = dep[d].version =>
                             dep'[d].observed = dep[d].observed /\ dep'[d].desired = dep[d].desired
                      /\ endpoint[d].version <= endpoint'[d].version
                      /\ endpoint'[d] # endpoint[d] => endpoint[d].version < endpoint'[d].version
    BY DEF VersionStep
  <2>1. dep[d] \in Deployment /\ dep[d].version \in Nat /\ endpoint[d].version \in Nat
    BY DEF IndInv, TypeOK, Deployment, Endpoint
  <2>2. NoDeployment.version = 0 /\ NewDeployment.version = 1
    BY DEF NoDeployment, NewDeployment
  <2>3. /\ Link(dep[d]).version = dep[d].version
        /\ Link(dep[d]).observed = dep[d].observed
        /\ Link(dep[d]).desired = dep[d].desired
    BY <2>1, Documents
  <2>. QED
    BY <2>1, <2>2, <2>3, StepDocuments DEF DocumentStep
<1>. QED
  BY <1>1, InvariantHolds, PTL DEF Spec, VersionsOrderStates

-----------------------------------------------------------------------------
(* What one step does to the states of a deployment and its execution: the     *)
(* contract follows from it.                                                   *)

\* A launch knows its endpoint before the host is asked for anything.
LEMMA LaunchStep ==
    ASSUME SingleProcess, IndInv, LaunchFacts, [Next]_vars
    PROVE  LaunchFacts'
<1> DEFINE c == cmd[Server]
           e == cmd[Server].d
<1>0. TypeOK /\ Server \in Processes /\ Processes = {Server}
  BY DEF IndInv, SingleProcess
<1>1. c \in Command /\ e \in Deployments /\ cmd \in [Processes -> Command]
  BY <1>0 DEF TypeOK, Command
<1>2. ASSUME cmd'[Server].pc \notin {"start", "probe", "verify", "cleanup", "persistReady", "persistFailed"}
      PROVE  LaunchFacts'
  BY <1>0, <1>2 DEF LaunchFacts
<1>3. Idle.pc = "idle"
  BY DEF Idle, Holding
<1>4. ASSUME CommandStep(Server) PROVE LaunchFacts'
  <2>1. CASE Prepare(Server)
    <3>1. CASE binding[e] = "remote"
      <4>1. /\ cmd'[Server].pc = "start" /\ cmd'[Server].d = e
            /\ endpoint' = [endpoint EXCEPT ![e] = NextEndpoint(Server, "PROVISIONING")]
        BY <1>0, <1>1, <2>1, <3>1 DEF Prepare, SavePair, Command
      <4>2. endpoint'[e].state = "PROVISIONING"
        BY <1>0, <1>1, <4>1 DEF NextEndpoint, TypeOK
      <4> QED
        BY <1>0, <4>1, <4>2 DEF LaunchFacts
    <3>2. CASE binding[e] = "unconfigured"
      <4>1. cmd'[Server].pc = "start" /\ cmd'[Server].d = e /\ binding' = binding
        BY <1>0, <1>1, <2>1, <3>2 DEF Prepare, Goto, Command
      <4> QED
        BY <1>0, <3>2, <4>1 DEF LaunchFacts
    <3>3. CASE binding[e] = "missing"
      BY <1>0, <1>1, <1>2, <1>3, <2>1, <3>3 DEF Prepare, Return
    <3> QED
      BY <2>1, <3>1, <3>2, <3>3 DEF Prepare
  <2>2. CASE Start(Server)
    <3>1. exec[e] = "none" /\ endpoint' = endpoint
      BY <1>0, <2>2 DEF Start, At, IndInv, CommandFacts
    <3>2. CASE EngineStart(e, "rejected") /\ cmd' = [cmd EXCEPT ![Server].pc = "persistFailed", ![Server].ref = FALSE]
      <4>1. exec'[e] = "none" /\ cmd'[Server].pc = "persistFailed" /\ cmd'[Server].d = e
        BY <1>0, <1>1, <3>1, <3>2 DEF EngineStart, Command
      <4> QED
        BY <1>0, <4>1 DEF LaunchFacts
    <3>3. CASE EngineStart(e, "failed") /\ cmd' = [cmd EXCEPT ![Server].pc = "persistFailed", ![Server].ref = TRUE]
      <4>1. cmd'[Server].pc = "persistFailed" /\ cmd'[Server].ref
        BY <1>0, <1>1, <3>3 DEF Command
      <4> QED
        BY <1>0, <4>1 DEF LaunchFacts
    <3>4. CASE EngineStart(e, "handle") /\ (Goto(Server, "probe") \/ Goto(Server, "cleanup"))
      <4>1. cmd'[Server].pc \in {"probe", "cleanup"} /\ cmd'[Server].d = e
        BY <1>0, <1>1, <3>4 DEF Goto, Command
      <4>2. endpoint[e].state = "PROVISIONING"
        BY <1>0, <2>2, <3>4 DEF Start, At, EngineStart, LaunchFacts
      <4> QED
        BY <1>0, <3>1, <4>1, <4>2 DEF LaunchFacts
    <3> QED
      BY <2>2, <3>2, <3>3, <3>4 DEF Start
  <2>3. CASE Probe(Server)
    <3>1. cmd'[Server].pc = "verify" /\ cmd'[Server].d = e /\ endpoint' = endpoint
      BY <1>0, <1>1, <2>3 DEF Probe, Goto, Command
    <3> QED
      BY <1>0, <2>3, <3>1 DEF Probe, At, LaunchFacts
  <2>4. CASE Verify(Server)
    <3>1. cmd'[Server].pc \in {"persistReady", "cleanup"} /\ cmd'[Server].d = e /\ endpoint' = endpoint
      BY <1>0, <1>1, <2>4 DEF Verify, Goto, Command
    <3> QED
      BY <1>0, <2>4, <3>1 DEF Verify, At, LaunchFacts
  <2>5. CASE Cleanup(Server)
    <3>1. CASE cmd' = [cmd EXCEPT ![Server].pc = "persistFailed", ![Server].ref = TRUE]
      <4>1. cmd'[Server].pc = "persistFailed" /\ cmd'[Server].ref
        BY <1>0, <1>1, <3>1 DEF Command
      <4> QED
        BY <1>0, <4>1 DEF LaunchFacts
    <3>2. CASE Return(Server)
      BY <1>0, <1>1, <1>2, <1>3, <3>2 DEF Return
    <3> QED
      BY <2>5, <3>1, <3>2 DEF Cleanup
  <2>6. CASE \/ Queue(Server) \/ Load(Server) \/ PersistFailure(Server) \/ FailedEvent(Server)
             \/ PersistReady(Server) \/ ReadyEvent(Server) \/ StoppingEvent(Server)
             \/ Release(Server) \/ PersistStopped(Server) \/ ReleasedEvent(Server)
             \/ PersistStarting(Server) \/ PersistStopping(Server) \/ PersistIntent(Server)
             \/ ReportStep(Server)
    <3>1. CASE Queue(Server) \/ Load(Server) \/ StoppingEvent(Server)
      <4>1. cmd'[Server].pc \in {"dispatch", "prepare", "release"}
        BY <1>0, <1>1, <3>1 DEF Queue, Load, StoppingEvent, Goto, Command
      <4> QED
        BY <1>2, <4>1
    <3>2. CASE FailedEvent(Server) \/ ReadyEvent(Server)
      <4>1. cmd'[Server].pc = "idle"
        BY <1>0, <1>1, <1>3, <3>2 DEF FailedEvent, ReadyEvent, Return
      <4> QED
        BY <1>2, <4>1
    <3>3. CASE \/ PersistFailure(Server) \/ PersistReady(Server) \/ PersistStopped(Server)
               \/ PersistStarting(Server) \/ PersistStopping(Server)
      <4>1. \E doc, pc : /\ pc \in {"completeFailed", "completeReady", "completeStopped", "queued",
                                    "stopping"}
                         /\ cmd' = [cmd EXCEPT ![Server].dep = doc, ![Server].pc = pc]
        BY <3>3 DEF PersistFailure, PersistReady, PersistStopped, PersistStarting,
                    PersistStopping, SavePair, SaveDeployment
      <4>2. cmd'[Server].pc \in {"completeFailed", "completeReady", "completeStopped", "queued",
                                 "stopping"}
        BY <1>0, <1>1, <4>1 DEF Command
      <4> QED
        BY <1>2, <4>2
    <3>4. CASE Release(Server)
      <4>1. \/ Return(Server)
            \/ \E ep : cmd' = [cmd EXCEPT ![Server].pc = "persistStopped", ![Server].ep = ep]
        BY <3>4 DEF Release
      <4>2. cmd'[Server].pc \in {"idle", "persistStopped"}
        BY <1>0, <1>1, <1>3, <4>1 DEF Return, Command
      <4> QED
        BY <1>2, <4>2
    <3>5. CASE ReleasedEvent(Server)
      <4>1. cmd'[Server].pc \in {"idle", "readmit"}
        BY <1>0, <1>1, <1>3, <3>5 DEF ReleasedEvent, Goto, Return, Command
      <4> QED
        BY <1>2, <4>1
    <3>6. CASE PersistIntent(Server)
      <4>1. cmd'[Server].pc = "queued"
        BY <1>0, <1>1, <3>6 DEF PersistIntent, Command
      <4> QED
        BY <1>2, <4>1
    <3>7. CASE ReportStep(Server)
      <4>1. \/ Return(Server)
            \/ \E pc \in {"persistIntent", "loading", "readyEvent", "failedEvent",
                           "persistStopping", "releasedEvent", "persistStarting"} : Goto(Server, pc)
        BY <3>7 DEF ReportStep, Admit, Dispatch, CompleteReady, CompleteFailed, Cancel,
                    CompleteStopped, Readmit, Report
      <4>2. cmd'[Server].pc \in {"idle", "persistIntent", "loading", "readyEvent", "failedEvent",
                                 "persistStopping", "releasedEvent", "persistStarting"}
        BY <1>0, <1>1, <1>3, <4>1 DEF Return, Goto, Command
      <4> QED
        BY <1>2, <4>2
    <3> QED
      BY <2>6, <3>1, <3>2, <3>3, <3>4, <3>5, <3>6, <3>7
  <2> QED
    BY <1>4, <2>1, <2>2, <2>3, <2>4, <2>5, <2>6 DEF CommandStep, ReportStep
<1>5. ASSUME Begin(Server) PROVE LaunchFacts'
  <2>1. \A pc, d, doc, restart : Holding(pc, d, doc, restart).pc = pc
    BY DEF Holding
  <2>2. ASSUME NEW d \in Deployments, NEW ks, Create(Server, d, ks) PROVE LaunchFacts'
    <3>1. cmd'[Server].pc = "admit"
      BY <1>0, <1>1, <2>2 DEF Create, Holding
    <3> QED
      BY <1>2, <3>1
  <2>3. ASSUME NEW d \in Deployments, NEW restart, Stop(Server, d, restart) PROVE LaunchFacts'
    BY <1>0, <1>1, <1>2, <2>1, <2>3 DEF Stop
  <2>4. ASSUME NEW d \in Deployments, Restart(Server, d) PROVE LaunchFacts'
    BY <1>0, <1>1, <1>2, <2>1, <2>4 DEF Restart
  <2> QED
    BY <1>5, <2>2, <2>3, <2>4 DEF Begin
<1>6. ASSUME Crash(Server) PROVE LaunchFacts'
  BY <1>0, <1>1, <1>2, <1>3, <1>6 DEF Crash
<1>7. ASSUME NEW d \in Deployments, NEW r \in Readers, ReadStep(d, r) PROVE LaunchFacts'
  <2>1. UNCHANGED <<cmd, exec, binding>>
    BY <1>7 DEF ReadStep, ReadDeployment, ReadEndpoint, Inspect, ReconcileCheck, ReconcileSave
  <2>2. CASE ReconcileSave(d, r)
    <3>1. <<d, r>> \in Polls
      BY DEF Polls
    <3>2. cmd[Server].pc = "idle"
      BY <2>2, <3>1 DEF ReconcileSave, IndInv, PollsAreCurrent
    <3> QED
      BY <1>2, <2>1, <3>2
  <2>3. CASE ~ReconcileSave(d, r)
    <3>1. UNCHANGED endpoint
      BY <1>7, <2>3 DEF ReadStep, ReadDeployment, ReadEndpoint, Inspect, ReconcileCheck
    <3> QED
      BY <2>1, <3>1 DEF LaunchFacts
  <2> QED
    BY <2>2, <2>3
<1>8. ASSUME NEW d \in Deployments, ExecutionLost(d) PROVE LaunchFacts'
  BY <1>0, <1>8 DEF ExecutionLost, LaunchFacts, TypeOK
<1>9. CASE UNCHANGED vars
  BY <1>9 DEF vars, LaunchFacts
<1> QED
  BY <1>0, <1>4, <1>5, <1>6, <1>7, <1>8, <1>9 DEF Next

\* Nothing that the contract sees of d changes.
Kept(d) == dep'[d] = dep[d] /\ endpoint'[d] = endpoint[d] /\ exec'[d] = exec[d]

\* The next version of e has the states s and u.
Becomes(e, s, u) ==
    /\ dep'[e].observed = s /\ dep'[e].version = dep[e].version + 1
    /\ endpoint'[e].state = u
    /\ exec'[e] = exec[e]

\* The documents of e show the same.
SameDocuments(e) ==
    /\ dep'[e].observed = dep[e].observed /\ dep'[e].version = dep[e].version
    /\ endpoint'[e].state = endpoint[e].state

\* The steps a deployment may take, with their guards.
StateStep(e) ==
    LET s == dep[e].observed
        u == endpoint[e].state
    IN  \/ s \in {"ABSENT", "STOPPED"} /\ Becomes(e, "STARTING", u)
        \/ /\ s = "STARTING"
           /\ dep'[e].observed = s /\ dep'[e].version = dep[e].version
           /\ endpoint'[e].state = "PROVISIONING"
           /\ exec'[e] = exec[e]
        \/ /\ s = "STARTING" /\ u = "PROVISIONING" /\ exec'[e] = "held"
           /\ SameDocuments(e)
        \/ exec'[e] = "none" /\ SameDocuments(e)
        \/ s = "STARTING" /\ u = "PROVISIONING" /\ Becomes(e, "READY", "READY")
        \/ s = "STARTING" /\ Becomes(e, "FAILED", "UNHEALTHY")
        \/ s = "STARTING" /\ exec[e] = "none" /\ Becomes(e, "FAILED", u)
        \/ s \in {"READY", "DEGRADED"} /\ Becomes(e, "READY", "READY")
        \/ s \in {"READY", "DEGRADED"} /\ Becomes(e, "DEGRADED", "UNHEALTHY")
        \/ s \notin {"ABSENT", "STOPPED"} /\ Becomes(e, "STOPPING", u)
        \/ /\ s = "STOPPING" /\ exec[e] = "none"
           /\ Becomes(e, "STOPPED", IF u = "ABSENT" THEN "ABSENT" ELSE "RETIRED")

OneMoves == \E e \in Deployments : StateStep(e) /\ \A d \in Deployments \ {e} : Kept(d)

\* Documents and executions stay.
NoneMoves == UNCHANGED <<dep, endpoint, exec>>

\* A step of a command is a step of its deployment.
LEMMA CommandMoves ==
    ASSUME SingleProcess, IndInv, LaunchFacts, CommandStep(Server)
    PROVE  OneMoves \/ NoneMoves
<1> DEFINE c == cmd[Server]
           e == cmd[Server].d
<1>0. TypeOK /\ Server \in Processes
  BY DEF IndInv, SingleProcess
<1>1. ASSUME c.pc \notin CreatePcs \cup {"idle"} PROVE c.dep = dep[e]
  BY <1>0, <1>1 DEF IndInv, LocalsAreStored
<1>2. /\ e \in Deployments /\ dep[e] \in Deployment /\ endpoint[e] \in Endpoint
      /\ Failed(dep[e]) \in Deployment
  BY <1>0, Documents DEF TypeOK, Command
<1>3. /\ c.pc \in LaunchPcs => dep[e].observed = "STARTING"
      /\ c.pc \in StopPcs => dep[e].observed = "STOPPING"
      /\ c.pc \in CancelPcs => dep[e].observed \notin {"ABSENT", "STOPPED"}
      /\ c.pc \in ReleasedPcs => dep[e].observed = "STOPPED"
      /\ c.pc \in CreatePcs => dep[e] = NoDeployment
  BY <1>0 DEF IndInv, CommandStates
<1>4. ASSUME UNCHANGED <<dep, endpoint, exec>> PROVE NoneMoves
  BY <1>4 DEF NoneMoves
<1>5. ASSUME NEW doc, NEW ep, NEW pc, SavePair(Server, doc, ep, pc), UNCHANGED exec
      PROVE  /\ dep'[e] = doc /\ endpoint'[e] = ep /\ exec'[e] = exec[e]
             /\ \A d \in Deployments \ {e} : Kept(d)
  BY <1>0, <1>2, <1>5 DEF SavePair, Kept, TypeOK
<1>6. ASSUME NEW doc, NEW pc, SaveDeployment(Server, doc, pc), UNCHANGED exec
      PROVE  /\ dep'[e] = doc /\ endpoint'[e] = endpoint[e] /\ exec'[e] = exec[e]
             /\ \A d \in Deployments \ {e} : Kept(d)
  BY <1>0, <1>2, <1>6 DEF SaveDeployment, Kept, TypeOK
<1>7. \A state : NextEndpoint(Server, state).state = state
  BY DEF NextEndpoint
<1>8. CASE PersistIntent(Server)
  <2>1. dep[e] = NoDeployment
    BY <1>3, <1>8 DEF PersistIntent, At, CreatePcs
  <2>2. dep'[e] = NewDeployment /\ UNCHANGED <<endpoint, exec>> /\ \A d \in Deployments \ {e} : Kept(d)
    BY <1>0, <1>2, <1>8 DEF PersistIntent, Kept, TypeOK
  <2>3. StateStep(e)
    BY <2>1, <2>2 DEF StateStep, Becomes, NoDeployment, NewDeployment
  <2> QED
    BY <1>2, <2>2, <2>3 DEF OneMoves
<1>9. CASE Prepare(Server)
  <2>1. CASE binding[e] = "remote"
    <3>1. dep[e].observed = "STARTING"
      BY <1>3, <1>9 DEF Prepare, At, LaunchPcs
    <3>2. /\ dep'[e] = Link(dep[e]) /\ endpoint'[e] = NextEndpoint(Server, "PROVISIONING")
          /\ UNCHANGED exec
          /\ \A d \in Deployments \ {e} : Kept(d)
      BY <1>0, <1>1, <1>2, <1>9, <2>1 DEF Prepare, At, CreatePcs, SavePair, Kept, TypeOK
    <3>3. Link(dep[e]).observed = dep[e].observed /\ Link(dep[e]).version = dep[e].version
      BY <1>2, Documents
    <3>4. StateStep(e)
      BY <1>7, <3>1, <3>2, <3>3 DEF StateStep
    <3> QED
      BY <1>2, <3>2, <3>4 DEF OneMoves
  <2>2. CASE binding[e] # "remote"
    BY <1>4, <1>9, <2>2 DEF Prepare
  <2> QED
    BY <2>1, <2>2
<1>10. CASE Start(Server)
  <2>1. UNCHANGED <<dep, endpoint>> /\ dep[e].observed = "STARTING"
    BY <1>3, <1>10 DEF Start, At, LaunchPcs
  <2>2. UNCHANGED exec \/ (binding[e] = "remote" /\ exec' = [exec EXCEPT ![e] = "held"])
    BY <1>10 DEF Start, EngineStart
  <2>3. CASE UNCHANGED exec
    BY <1>4, <2>1, <2>3
  <2>4. CASE binding[e] = "remote" /\ exec' = [exec EXCEPT ![e] = "held"]
    <3>1. endpoint[e].state = "PROVISIONING"
      BY <1>0, <1>10, <2>4 DEF Start, At, LaunchFacts
    <3>2. exec'[e] = "held" /\ \A d \in Deployments \ {e} : Kept(d)
      BY <1>0, <1>2, <2>1, <2>4 DEF Kept, TypeOK
    <3>3. StateStep(e)
      BY <2>1, <3>1, <3>2 DEF StateStep, SameDocuments
    <3> QED
      BY <1>2, <3>2, <3>3 DEF OneMoves
  <2> QED
    BY <2>2, <2>3, <2>4
<1>11. CASE Cleanup(Server) \/ Release(Server)
  <2>1. UNCHANGED <<dep, endpoint>>
    BY <1>11 DEF Cleanup, Release
  <2>2. UNCHANGED exec \/ exec' = [exec EXCEPT ![e] = "none"]
    BY <1>11 DEF Cleanup, Release, EngineStop
  <2>3. CASE UNCHANGED exec
    BY <1>4, <2>1, <2>3
  <2>4. CASE exec' = [exec EXCEPT ![e] = "none"]
    <3>1. exec'[e] = "none" /\ \A d \in Deployments \ {e} : Kept(d)
      BY <1>0, <1>2, <2>1, <2>4 DEF Kept, TypeOK
    <3>2. StateStep(e)
      BY <2>1, <3>1 DEF StateStep, SameDocuments
    <3> QED
      BY <1>2, <3>1, <3>2 DEF OneMoves
  <2> QED
    BY <2>2, <2>3, <2>4
<1>12. CASE PersistFailure(Server)
  <2>1. dep[e].observed = "STARTING"
    BY <1>3, <1>12 DEF PersistFailure, At, LaunchPcs
  <2>2. /\ Link(Failed(dep[e])).observed = "FAILED"
        /\ Link(Failed(dep[e])).version = dep[e].version + 1
        /\ Failed(dep[e]).observed = "FAILED"
        /\ Failed(dep[e]).version = dep[e].version + 1
    BY <1>2, Documents
  <2>3. CASE c.ref
    <3>1. /\ dep'[e] = Link(Failed(dep[e])) /\ endpoint'[e] = NextEndpoint(Server, "UNHEALTHY")
          /\ exec'[e] = exec[e]
          /\ \A d \in Deployments \ {e} : Kept(d)
      BY <1>1, <1>5, <1>12, <2>3 DEF PersistFailure, At, CreatePcs
    <3>2. StateStep(e)
      BY <1>7, <2>1, <2>2, <3>1 DEF StateStep, Becomes
    <3> QED
      BY <1>2, <3>1, <3>2 DEF OneMoves
  <2>4. CASE ~c.ref
    <3>1. exec[e] = "none"
      BY <1>0, <1>12, <2>4 DEF PersistFailure, At, LaunchFacts
    <3>2. /\ dep'[e] = Failed(dep[e]) /\ endpoint'[e] = endpoint[e]
          /\ exec'[e] = exec[e]
          /\ \A d \in Deployments \ {e} : Kept(d)
      BY <1>1, <1>6, <1>12, <2>4 DEF PersistFailure, At, CreatePcs
    <3>3. StateStep(e)
      BY <2>1, <2>2, <3>1, <3>2 DEF StateStep, Becomes
    <3> QED
      BY <1>2, <3>2, <3>3 DEF OneMoves
  <2> QED
    BY <2>3, <2>4
<1>13. CASE PersistReady(Server)
  <2>1. dep[e].observed = "STARTING" /\ endpoint[e].state = "PROVISIONING"
    BY <1>0, <1>3, <1>13 DEF PersistReady, At, LaunchPcs, LaunchFacts
  <2>2. Ready(dep[e]).observed = "READY" /\ Ready(dep[e]).version = dep[e].version + 1
    BY <1>2, Documents
  <2>3. /\ dep'[e] = Ready(dep[e]) /\ endpoint'[e] = NextEndpoint(Server, "READY")
        /\ exec'[e] = exec[e]
        /\ \A d \in Deployments \ {e} : Kept(d)
    BY <1>1, <1>5, <1>13 DEF PersistReady, At, CreatePcs
  <2>4. StateStep(e)
    BY <1>7, <2>1, <2>2, <2>3 DEF StateStep, Becomes
  <2> QED
    BY <1>2, <2>3, <2>4 DEF OneMoves
<1>14. CASE PersistStopped(Server)
  <2>1. dep[e].observed = "STOPPING" /\ exec[e] = "none" /\ c.ep = endpoint[e]
    BY <1>0, <1>3, <1>14 DEF PersistStopped, At, StopPcs, IndInv, CommandFacts
  <2>2. Stopped(dep[e]).observed = "STOPPED" /\ Stopped(dep[e]).version = dep[e].version + 1
    BY <1>2, Documents
  <2>3. endpoint[e] = NoEndpoint <=> endpoint[e].state = "ABSENT"
    BY <1>2 DEF IndInv, PairStates, NoEndpoint
  <2>4. /\ dep'[e] = Stopped(dep[e])
        /\ endpoint'[e].state = IF endpoint[e].state = "ABSENT" THEN "ABSENT" ELSE "RETIRED"
        /\ exec'[e] = exec[e]
        /\ \A d \in Deployments \ {e} : Kept(d)
    <3>1. CASE c.ep # NoEndpoint
      BY <1>1, <1>5, <1>14, <2>1, <2>3, <3>1 DEF PersistStopped, At, CreatePcs
    <3>2. CASE c.ep = NoEndpoint
      BY <1>1, <1>6, <1>14, <2>1, <2>3, <3>2 DEF PersistStopped, At, CreatePcs
    <3> QED
      BY <3>1, <3>2
  <2>5. StateStep(e)
    BY <2>1, <2>2, <2>4 DEF StateStep, Becomes
  <2> QED
    BY <1>2, <2>4, <2>5 DEF OneMoves
<1>15. CASE PersistStarting(Server)
  <2>1. dep[e].observed = "STOPPED"
    BY <1>3, <1>15 DEF PersistStarting, At, ReleasedPcs
  <2>2. Starting(dep[e]).observed = "STARTING" /\ Starting(dep[e]).version = dep[e].version + 1
    BY <1>2, Documents
  <2>3. /\ dep'[e] = Starting(dep[e]) /\ endpoint'[e] = endpoint[e]
        /\ exec'[e] = exec[e]
        /\ \A d \in Deployments \ {e} : Kept(d)
    BY <1>1, <1>6, <1>15 DEF PersistStarting, At, CreatePcs
  <2>4. StateStep(e)
    BY <2>1, <2>2, <2>3 DEF StateStep, Becomes
  <2> QED
    BY <1>2, <2>3, <2>4 DEF OneMoves
<1>16. CASE PersistStopping(Server)
  <2>1. dep[e].observed \notin {"ABSENT", "STOPPED"}
    BY <1>3, <1>16 DEF PersistStopping, At, CancelPcs
  <2>2. Stopping(dep[e]).observed = "STOPPING" /\ Stopping(dep[e]).version = dep[e].version + 1
    BY <1>2, Documents
  <2>3. /\ dep'[e] = Stopping(dep[e]) /\ endpoint'[e] = endpoint[e] /\ exec'[e] = exec[e]
        /\ \A d \in Deployments \ {e} : Kept(d)
    BY <1>1, <1>6, <1>16 DEF PersistStopping, At, CreatePcs
  <2>4. StateStep(e)
    BY <2>1, <2>2, <2>3 DEF StateStep, Becomes
  <2> QED
    BY <1>2, <2>3, <2>4 DEF OneMoves
<1>17. CASE ReportStep(Server)
  BY <1>0, <1>4, <1>17, ReportWrites
<1> QED
  BY <1>4, <1>8, <1>9, <1>10, <1>11, <1>12, <1>13, <1>14, <1>15, <1>16, <1>17
  DEF CommandStep, ReportStep, Queue, Load, Probe, Verify, FailedEvent, ReadyEvent, StoppingEvent, ReleasedEvent

\* Every step moves one deployment along its lifecycle, or none.
LEMMA StepMoves ==
    ASSUME SingleProcess, IndInv, LaunchFacts, [Next]_vars
    PROVE  OneMoves \/ NoneMoves
<1>0. TypeOK /\ Server \in Processes /\ \A q \in Processes : q = Server
  BY DEF IndInv, SingleProcess
<1>1. ASSUME UNCHANGED <<dep, endpoint, exec>> PROVE NoneMoves
  BY <1>1 DEF NoneMoves
<1>4. ASSUME Begin(Server) PROVE NoneMoves
  BY <1>1, <1>4 DEF Begin, Create, Stop, Restart
<1>5. ASSUME Crash(Server) PROVE NoneMoves
  BY <1>5 DEF Crash, NoneMoves
<1>6. ASSUME NEW e \in Deployments, NEW r \in Readers, ReadStep(e, r) PROVE OneMoves \/ NoneMoves
  <2> DEFINE poll == reader[<<e, r>>]
  <2>1. CASE ReconcileSave(e, r)
    <3>1. <<e, r>> \in Polls /\ poll \in Poll /\ <<e, r>>[1] = e
      BY <1>0 DEF Polls, TypeOK
    <3>2. /\ poll.dep = dep[e] /\ poll.ep = endpoint[e] /\ poll.ready \in BOOLEAN
          /\ dep[e].observed \in {"READY", "DEGRADED"}
      BY <2>1, <3>1 DEF ReconcileSave, IndInv, PollsAreCurrent, Poll, Reconcilable
    <3>3. /\ Observed(dep[e], poll.ready).version = dep[e].version + 1
          /\ Observed(dep[e], poll.ready).observed = IF poll.ready THEN "READY" ELSE "DEGRADED"
          /\ ObservedEndpoint(endpoint[e], poll.ready).state = IF poll.ready THEN "READY" ELSE "UNHEALTHY"
      BY <1>0, <3>2, ObservedPair DEF TypeOK
    <3>4. /\ dep'[e] = Observed(dep[e], poll.ready)
          /\ endpoint'[e] = ObservedEndpoint(endpoint[e], poll.ready)
          /\ UNCHANGED exec
          /\ \A d \in Deployments \ {e} : Kept(d)
      BY <1>0, <2>1, <3>2 DEF ReconcileSave, Kept, TypeOK
    <3> HIDE DEF poll
    <3>5. StateStep(e)
      BY <3>2, <3>3, <3>4 DEF StateStep, Becomes
    <3> QED
      BY <3>4, <3>5 DEF OneMoves
  <2> QED
    BY <1>1, <1>6, <2>1 DEF ReadStep, ReadDeployment, ReadEndpoint, Inspect, ReconcileCheck
<1>7. ASSUME NEW e \in Deployments, ExecutionLost(e) PROVE OneMoves
  <2>1. /\ UNCHANGED <<dep, endpoint>> /\ exec'[e] = "none"
        /\ \A d \in Deployments \ {e} : Kept(d)
    BY <1>0, <1>7 DEF ExecutionLost, Kept, TypeOK
  <2> QED
    BY <2>1 DEF OneMoves, StateStep, SameDocuments
<1>8. CASE UNCHANGED vars
  BY <1>1, <1>8 DEF vars
<1> QED
  BY <1>0, <1>4, <1>5, <1>6, <1>7, <1>8, CommandMoves DEF Next

\* LaunchFacts holds with IndInv.
LEMMA LaunchesAreProvisioned == ASSUME SingleProcess PROVE Spec => []LaunchFacts
<1>1. Init => LaunchFacts
  BY DEF Init, LaunchFacts, Idle, Holding
<1>2. IndInv /\ LaunchFacts /\ [Next]_vars => LaunchFacts'
  BY LaunchStep
<1> QED
  BY <1>1, <1>2, InvariantHolds, PTL DEF Spec

-----------------------------------------------------------------------------
(* What the activity broker knows of the transitions.                          *)

\* The positions a command reaches only through an answer of the broker.
ReportedPcs == {"persistIntent", "persistStarting", "persistStopping", "readyEvent",
                "failedEvent", "releasedEvent"}

\* A step that calls no broker leaves the tasks alone, reaches no position behind a
\* report, and brings a deployment into transition only from such a position.
LEMMA UnreportedStep ==
    ASSUME SingleProcess, IndInv, CommandStep(Server), ~ReportStep(Server)
    PROVE  /\ UNCHANGED tasks
           /\ cmd'[Server].pc \notin ReportedPcs
           /\ \A d \in Deployments :
                \/ dep'[d].observed = dep[d].observed
                \/ dep'[d].observed \notin {"STARTING", "STOPPING"}
                \/ /\ d = cmd[Server].d
                   /\ \/ /\ cmd[Server].pc \in {"persistIntent", "persistStarting"}
                         /\ dep'[d].observed = "STARTING"
                      \/ cmd[Server].pc = "persistStopping" /\ dep'[d].observed = "STOPPING"
<1> DEFINE c == cmd[Server]
           e == cmd[Server].d
<1>0. TypeOK /\ Server \in Processes /\ c \in Command /\ cmd \in [Processes -> Command]
  BY DEF IndInv, SingleProcess, TypeOK
<1>1. UNCHANGED tasks
  BY DEF CommandStep, ReportStep, PersistIntent, Queue, Load, Prepare, Start, Probe, Verify,
         Cleanup, PersistFailure, FailedEvent, PersistReady, ReadyEvent, PersistStopping,
         StoppingEvent, Release, PersistStopped, ReleasedEvent, PersistStarting
<1>2. e \in Deployments /\ dep \in [Deployments -> Deployment] /\ c.dep \in Deployment
      /\ Failed(c.dep) \in Deployment
  BY <1>0, Documents DEF TypeOK, Command
<1>3. ASSUME NEW pc, Goto(Server, pc) PROVE cmd'[Server].pc = pc
  BY <1>0, <1>3 DEF Goto, Command
<1>4. ASSUME Return(Server) PROVE cmd'[Server].pc = "idle"
  BY <1>0, <1>4 DEF Return, Idle, Holding
<1>5. ASSUME NEW doc, NEW pc,
             SaveDeployment(Server, doc, pc) \/ \E ep : SavePair(Server, doc, ep, pc)
      PROVE  /\ cmd'[Server].pc = pc
             /\ dep'[e] = doc /\ \A d \in Deployments : d # e => dep'[d] = dep[d]
  BY <1>0, <1>2, <1>5 DEF SaveDeployment, SavePair, Command
<1>6. CASE PersistIntent(Server)
  <2>1. cmd'[Server].pc = "queued" /\ c.pc = "persistIntent"
    BY <1>0, <1>6 DEF PersistIntent, At, Command
  <2>2. dep'[e].observed = "STARTING" /\ \A d \in Deployments : d # e => dep'[d] = dep[d]
    BY <1>2, <1>6 DEF PersistIntent, NewDeployment
  <2>. QED
    BY <1>1, <2>1, <2>2 DEF ReportedPcs
<1>7. CASE \/ Queue(Server) \/ Load(Server) \/ Probe(Server) \/ Verify(Server)
           \/ FailedEvent(Server) \/ ReadyEvent(Server) \/ StoppingEvent(Server)
           \/ ReleasedEvent(Server)
  <2>1. dep' = dep
    BY <1>7 DEF Queue, Load, Probe, Verify, FailedEvent, ReadyEvent, StoppingEvent, ReleasedEvent
  <2>2. \/ Return(Server)
        \/ \E pc \in {"dispatch", "prepare", "verify", "persistReady", "cleanup", "release",
                       "readmit"} : Goto(Server, pc)
    BY <1>7 DEF Queue, Load, Probe, Verify, FailedEvent, ReadyEvent, StoppingEvent, ReleasedEvent
  <2>. QED
    BY <1>1, <1>3, <1>4, <2>1, <2>2 DEF ReportedPcs
<1>8. CASE Start(Server) \/ Cleanup(Server) \/ Release(Server)
  <2>1. dep' = dep
    BY <1>8 DEF Start, Cleanup, Release
  <2>2. \/ \E ref : cmd' = [cmd EXCEPT ![Server].pc = "persistFailed", ![Server].ref = ref]
        \/ \E ep : cmd' = [cmd EXCEPT ![Server].pc = "persistStopped", ![Server].ep = ep]
        \/ Goto(Server, "probe") \/ Goto(Server, "cleanup") \/ Return(Server)
    <3>1. CASE Start(Server)
      BY <3>1 DEF Start
    <3>2. CASE Cleanup(Server)
      BY <3>2 DEF Cleanup
    <3>3. CASE Release(Server)
      BY <3>3 DEF Release
    <3>. QED
      BY <1>8, <3>1, <3>2, <3>3
  <2>3. cmd'[Server].pc \in {"persistFailed", "persistStopped", "probe", "cleanup", "idle"}
    BY <1>0, <1>3, <1>4, <2>2 DEF Command
  <2>. QED
    BY <1>1, <2>1, <2>3 DEF ReportedPcs
<1>9. CASE Prepare(Server)
  <2>1. CASE SavePair(Server, Link(c.dep), NextEndpoint(Server, "PROVISIONING"), "start")
    <3>1. c.dep = dep[e]
      BY <1>0, <1>9 DEF Prepare, At, IndInv, LocalsAreStored, CreatePcs
    <3>2. Link(dep[e]).observed = dep[e].observed
      BY <1>2, Documents
    <3>. QED
      BY <1>1, <1>5, <2>1, <3>1, <3>2 DEF ReportedPcs
  <2>2. CASE (Goto(Server, "start") \/ Return(Server)) /\ UNCHANGED dep
    BY <1>1, <1>3, <1>4, <2>2 DEF ReportedPcs
  <2>. QED
    BY <1>9, <2>1, <2>2 DEF Prepare
<1>10. CASE PersistFailure(Server) \/ PersistReady(Server) \/ PersistStopped(Server)
  <2>1. PICK doc \in {Link(Failed(c.dep)), Failed(c.dep), Ready(c.dep), Stopped(c.dep)},
             pc \in {"completeFailed", "completeReady", "completeStopped"} :
          SaveDeployment(Server, doc, pc) \/ \E ep : SavePair(Server, doc, ep, pc)
    <3>1. CASE PersistFailure(Server)
      BY <3>1 DEF PersistFailure
    <3>2. CASE PersistReady(Server)
      BY <3>2 DEF PersistReady
    <3>3. CASE PersistStopped(Server)
      BY <3>3 DEF PersistStopped
    <3>. QED
      BY <1>10, <3>1, <3>2, <3>3
  <2>2. doc.observed \in {"FAILED", "READY", "STOPPED"}
    BY <1>2, Documents
  <2>. QED
    BY <1>1, <1>5, <2>1, <2>2 DEF ReportedPcs
<1>11. CASE PersistStopping(Server)
  <2>1. c.pc = "persistStopping" /\ SaveDeployment(Server, Stopping(c.dep), "stopping")
    BY <1>11 DEF PersistStopping, At
  <2>2. Stopping(c.dep).observed = "STOPPING"
    BY <1>2, Documents
  <2>. QED
    BY <1>1, <1>5, <2>1, <2>2 DEF ReportedPcs
<1>12. CASE PersistStarting(Server)
  <2>1. c.pc = "persistStarting" /\ SaveDeployment(Server, Starting(c.dep), "queued")
    BY <1>12 DEF PersistStarting, At
  <2>2. Starting(c.dep).observed = "STARTING"
    BY <1>2, Documents
  <2>. QED
    BY <1>1, <1>5, <2>1, <2>2 DEF ReportedPcs
<1>. QED
  BY <1>6, <1>7, <1>8, <1>9, <1>10, <1>11, <1>12 DEF CommandStep, ReportStep

\* A call of the broker, answered or not, keeps a task for every transition; only an
\* answer leads on.
LEMMA ReportedStep ==
    ASSUME SingleProcess, IndInv, ActivityTracksTransitions, ReportStep(Server)
    PROVE  (ActivityTracksTransitions /\ ReportFacts)'
<1> DEFINE c == cmd[Server]
           e == cmd[Server].d
<1>0. /\ TypeOK /\ Server \in Processes /\ \A q \in Processes : q = Server
      /\ c \in Command /\ cmd \in [Processes -> Command] /\ e \in Deployments
      /\ tasks \in [Deployments -> {"NONE", "ACCEPTED", "DISPATCHING", "CANCELING"}]
  BY DEF IndInv, SingleProcess, TypeOK, Command
<1>1. dep' = dep
  BY <1>0, ReportWrites
<1>2. ASSUME NEW pc, NEW state, NEW next, Report(Server, pc, state, next)
      PROVE  /\ c.pc = pc
             /\ tasks'[e] \in {state, tasks[e]} /\ \A d \in Deployments : d # e => tasks'[d] = tasks[d]
             /\ \/ cmd'[Server].pc = "idle"
                \/ cmd'[Server].pc = next /\ cmd'[Server].d = e /\ tasks'[e] = state
  <2>1. cmd' = [cmd EXCEPT ![Server] = Idle] => cmd'[Server].pc = "idle"
    BY <1>0 DEF Idle, Holding
  <2>2. cmd' = [cmd EXCEPT ![Server].pc = next] => cmd'[Server].pc = next /\ cmd'[Server].d = e
    BY <1>0 DEF Command
  <2>3. Told(Server, state) => /\ tasks'[e] = state
                               /\ \A d \in Deployments : d # e => tasks'[d] = tasks[d]
    BY <1>0 DEF Told
  <2>. QED
    BY <1>2, <2>1, <2>2, <2>3 DEF Report, At, Goto, Return
<1>3. ASSUME NEW pc, NEW state, NEW next, Report(Server, pc, state, next),
             /\ dep[e].observed = "STARTING" => state # "NONE"
             /\ dep[e].observed = "STOPPING" => state = "CANCELING",
             /\ next \in {"persistIntent", "persistStarting"} => state # "NONE"
             /\ next = "persistStopping" => state = "CANCELING"
             /\ next \in {"readyEvent", "failedEvent", "releasedEvent"} => state = "NONE"
      PROVE  (ActivityTracksTransitions /\ ReportFacts)'
  <2>0. ActivityTracksTransitions /\ dep' = dep
    BY <1>1
  <2>1. ActivityTracksTransitions'
    BY <1>2, <1>3, <2>0 DEF ActivityTracksTransitions
  <2>2. ReportFacts'
    BY <1>0, <1>2, <1>3 DEF ReportFacts
  <2>. QED
    BY <2>1, <2>2
<1>4. /\ c.pc = "admit" => dep[e].observed = "ABSENT"
      /\ c.pc = "dispatch" => dep[e].observed = "STARTING"
      /\ c.pc = "completeReady" => dep[e].observed = "READY"
      /\ c.pc = "completeFailed" => dep[e].observed = "FAILED"
      /\ c.pc \in {"completeStopped", "readmit"} => dep[e].observed = "STOPPED"
  BY <1>0 DEF IndInv, CommandStates, CreatePcs, LaunchPcs, ReleasedPcs, NoDeployment
<1>5. CASE Admit(Server)
  <2>1. Report(Server, "admit", "ACCEPTED", "persistIntent") /\ c.pc = "admit"
    BY <1>5 DEF Admit, Report, At
  <2>. QED
    BY <1>3, <1>4, <2>1
<1>6. CASE Dispatch(Server)
  <2>1. Report(Server, "dispatch", "DISPATCHING", "loading") /\ c.pc = "dispatch"
    BY <1>6 DEF Dispatch, Report, At
  <2>. QED
    BY <1>3, <1>4, <2>1
<1>7. CASE CompleteReady(Server)
  <2>1. Report(Server, "completeReady", "NONE", "readyEvent") /\ c.pc = "completeReady"
    BY <1>7 DEF CompleteReady, Report, At
  <2>. QED
    BY <1>3, <1>4, <2>1
<1>8. CASE CompleteFailed(Server)
  <2>1. Report(Server, "completeFailed", "NONE", "failedEvent") /\ c.pc = "completeFailed"
    BY <1>8 DEF CompleteFailed, Report, At
  <2>. QED
    BY <1>3, <1>4, <2>1
<1>9. CASE Cancel(Server)
  <2>1. Report(Server, "cancel", "CANCELING", "persistStopping")
    BY <1>9 DEF Cancel
  <2>. QED
    BY <1>3, <2>1
<1>10. CASE CompleteStopped(Server)
  <2>1. Report(Server, "completeStopped", "NONE", "releasedEvent") /\ c.pc = "completeStopped"
    BY <1>10 DEF CompleteStopped, Report, At
  <2>. QED
    BY <1>3, <1>4, <2>1
<1>11. CASE Readmit(Server)
  <2>1. Report(Server, "readmit", "ACCEPTED", "persistStarting") /\ c.pc = "readmit"
    BY <1>11 DEF Readmit, Report, At
  <2>. QED
    BY <1>3, <1>4, <2>1
<1>. QED
  BY <1>5, <1>6, <1>7, <1>8, <1>9, <1>10, <1>11 DEF ReportStep

\* Every step keeps what the broker has been told.
LEMMA BrokerStep ==
    ASSUME SingleProcess, IndInv, ActivityTracksTransitions, ReportFacts, [Next]_vars
    PROVE  (ActivityTracksTransitions /\ ReportFacts)'
<1>0. TypeOK /\ Server \in Processes /\ \A q \in Processes : q = Server /\ cmd \in [Processes -> Command]
  BY DEF IndInv, SingleProcess, TypeOK
<1>1. ASSUME cmd'[Server].pc \notin ReportedPcs PROVE ReportFacts'
  BY <1>0, <1>1 DEF ReportFacts, ReportedPcs
<1>2. CASE CommandStep(Server) /\ ReportStep(Server)
  BY <1>2, ReportedStep
<1>3. CASE CommandStep(Server) /\ ~ReportStep(Server)
  <2>1. ActivityTracksTransitions'
    <3> SUFFICES ASSUME NEW d \in Deployments
                 PROVE  /\ dep'[d].observed = "STARTING" => tasks[d] # "NONE"
                        /\ dep'[d].observed = "STOPPING" => tasks[d] = "CANCELING"
      BY <1>3, UnreportedStep DEF ActivityTracksTransitions
    <3>. QED
      BY <1>0, <1>3, UnreportedStep DEF ActivityTracksTransitions, ReportFacts
  <2>. QED
    BY <1>1, <1>3, <2>1, UnreportedStep
<1>4. CASE Begin(Server)
  <2>1. UNCHANGED <<dep, tasks>>
    BY <1>4 DEF Begin, Create, Stop, Restart
  <2>2. cmd'[Server].pc \in {"admit", "cancel", "readmit"}
    <3>1. ASSUME NEW d \in Deployments, NEW ks, Create(Server, d, ks) PROVE cmd'[Server].pc = "admit"
      BY <1>0, <3>1 DEF Create, Holding
    <3>2. ASSUME NEW d \in Deployments, NEW restart, Stop(Server, d, restart)
          PROVE  cmd'[Server].pc = "cancel"
      BY <1>0, <3>2 DEF Stop, Holding
    <3>3. ASSUME NEW d \in Deployments, Restart(Server, d) PROVE cmd'[Server].pc = "readmit"
      BY <1>0, <3>3 DEF Restart, Holding
    <3>. QED
      BY <1>4, <3>1, <3>2, <3>3 DEF Begin
  <2>. QED
    BY <1>1, <2>1, <2>2 DEF ActivityTracksTransitions, ReportedPcs
<1>5. CASE Crash(Server)
  <2>1. cmd'[Server].pc = "idle"
    BY <1>0, <1>5 DEF Crash, Idle, Holding
  <2>2. ActivityTracksTransitions'
    BY <1>5 DEF Crash, ActiveTask, ActivityTracksTransitions
  <2>. QED
    BY <1>1, <2>1, <2>2 DEF ReportedPcs
<1>6. ASSUME NEW f \in Deployments, NEW r \in Readers, ReadStep(f, r)
      PROVE  (ActivityTracksTransitions /\ ReportFacts)'
  <2>1. UNCHANGED <<tasks, cmd>>
    BY <1>6 DEF ReadStep, ReadDeployment, ReadEndpoint, Inspect, ReconcileCheck, ReconcileSave
  <2>2. \A d \in Deployments : dep'[d] = dep[d] \/ dep'[d].observed \in {"READY", "DEGRADED"}
    <3>1. CASE ReconcileSave(f, r)
      <4>1. reader[<<f, r>>] \in Poll
        BY <1>0 DEF TypeOK, Polls
      <4>2. Observed(reader[<<f, r>>].dep, reader[<<f, r>>].ready).observed \in {"READY", "DEGRADED"}
        BY <4>1 DEF Poll, Observed, Deployment
      <4>. QED
        BY <1>0, <3>1, <4>2 DEF ReconcileSave, TypeOK
    <3>2. CASE ~ReconcileSave(f, r)
      BY <1>6, <3>2 DEF ReadStep, ReadDeployment, ReadEndpoint, Inspect, ReconcileCheck
    <3>. QED
      BY <3>1, <3>2
  <2>. QED
    BY <2>1, <2>2 DEF ActivityTracksTransitions, ReportFacts
<1>7. ASSUME NEW d \in Deployments, ExecutionLost(d)
      PROVE  (ActivityTracksTransitions /\ ReportFacts)'
  BY <1>7 DEF ExecutionLost, ActivityTracksTransitions, ReportFacts
<1>8. CASE UNCHANGED vars
  BY <1>8 DEF vars, ActivityTracksTransitions, ReportFacts
<1>. QED
  BY <1>0, <1>2, <1>3, <1>4, <1>5, <1>6, <1>7, <1>8 DEF Next

\* What the broker knows, and what a command has told it, hold together.
LEMMA BrokerFacts ==
    ASSUME SingleProcess PROVE Spec => [](ActivityTracksTransitions /\ ReportFacts)
<1>1. Init => ActivityTracksTransitions /\ ReportFacts
  BY DEF Init, ActivityTracksTransitions, ReportFacts, NoDeployment, Idle, Holding
<1>2. IndInv /\ (ActivityTracksTransitions /\ ReportFacts) /\ [Next]_vars
        => (ActivityTracksTransitions /\ ReportFacts)'
  BY BrokerStep
<1>. QED
  BY <1>1, <1>2, InvariantHolds, PTL DEF Spec

\* No transition is unknown to the broker, whichever of its calls were refused, lost or
\* never answered, and whenever the server died between a call and the transaction.
THEOREM BrokerSeesTransitions == ASSUME SingleProcess PROVE Spec => []ActivityTracksTransitions
BY BrokerFacts, PTL

\* A command that ends leaves a task at the broker exactly if it leaves a transition,
\* unless a call of the broker itself failed.
THEOREM EndsAreKnown == ASSUME SingleProcess PROVE Spec => EndsAreReported
<1>1. IndInv /\ (ActivityTracksTransitions /\ ReportFacts) /\ [Next]_vars => [EndsAreReportedStep]_vars
  <2> DEFINE d == cmd[Server].d
  <2> SUFFICES ASSUME IndInv, ActivityTracksTransitions, ReportFacts, [Next]_vars,
                      cmd[Server].pc # "idle", cmd'[Server].pc = "idle",
                      cmd[Server].pc \notin BrokerPcs \/ Crash(Server)
               PROVE  tasks'[d] # "NONE" <=> dep'[d].observed \in {"STARTING", "STOPPING"}
    BY DEF EndsAreReportedStep, SingleProcess
  <2>0. TypeOK /\ Server \in Processes /\ \A q \in Processes : q = Server /\ d \in Deployments
    BY DEF IndInv, SingleProcess, TypeOK, Command
  <2>1. CASE Crash(Server)
    BY <2>0, <2>1 DEF Crash, ActiveTask
  <2>2. CASE cmd[Server].pc \notin BrokerPcs /\ CommandStep(Server)
    <3>1. ~ReportStep(Server)
      BY <2>2 DEF ReportStep, Admit, Dispatch, CompleteReady, CompleteFailed, Cancel,
                  CompleteStopped, Readmit, Report, At, BrokerPcs
    <3>2. UNCHANGED tasks /\ cmd \in [Processes -> Command]
      BY <2>0, <2>2, <3>1, UnreportedStep DEF TypeOK
    <3>3. CASE FailedEvent(Server) \/ ReadyEvent(Server) \/ ReleasedEvent(Server)
      <4>1. /\ dep' = dep /\ tasks[d] = "NONE"
            /\ dep[d].observed \in {"FAILED", "READY", "STOPPED"}
        BY <2>0, <3>3
        DEF FailedEvent, ReadyEvent, ReleasedEvent, At, ReportFacts, IndInv, CommandStates,
            ReleasedPcs
      <4>. QED
        BY <3>2, <4>1
    <3>4. CASE Prepare(Server) \/ Cleanup(Server) \/ Release(Server)
      <4>1. dep' = dep
        <5>1. CASE Prepare(Server)
          <6>1. SavePair(Server, Link(cmd[Server].dep), NextEndpoint(Server, "PROVISIONING"), "start")
                  => cmd'[Server].pc = "start"
            BY <2>0, <3>2 DEF SavePair, Command
          <6>. QED
            BY <5>1, <6>1 DEF Prepare
        <5>. QED
          BY <3>4, <5>1 DEF Cleanup, Release
      <4>2. dep[d].observed \in {"STARTING", "STOPPING"}
        BY <2>0, <3>4 DEF Prepare, Cleanup, Release, At, IndInv, CommandStates, LaunchPcs, StopPcs
      <4>3. tasks[d] # "NONE"
        BY <2>0, <4>2 DEF ActivityTracksTransitions
      <4>. QED
        BY <3>2, <4>1, <4>2, <4>3
    <3>5. CASE \/ PersistIntent(Server) \/ Queue(Server) \/ Load(Server) \/ Probe(Server)
               \/ Verify(Server) \/ StoppingEvent(Server)
      <4>1. cmd'[Server].pc # "idle"
        BY <2>0, <3>2, <3>5
        DEF PersistIntent, Queue, Load, Probe, Verify, StoppingEvent, Goto, Command
      <4>. QED
        BY <4>1
    <3>6. CASE Start(Server)
      <4>1. \/ \E ref : cmd' = [cmd EXCEPT ![Server].pc = "persistFailed", ![Server].ref = ref]
            \/ Goto(Server, "probe") \/ Goto(Server, "cleanup")
        BY <3>6 DEF Start
      <4>2. cmd'[Server].pc # "idle"
        BY <2>0, <3>2, <4>1 DEF Goto, Command
      <4>. QED
        BY <4>2
    <3>7. CASE \/ PersistFailure(Server) \/ PersistReady(Server) \/ PersistStopping(Server)
               \/ PersistStopped(Server) \/ PersistStarting(Server)
      <4>1. PICK pc \in {"completeFailed", "completeReady", "stopping", "completeStopped",
                         "queued"} :
              \E doc : cmd' = [cmd EXCEPT ![Server].dep = doc, ![Server].pc = pc]
        BY <3>7 DEF PersistFailure, PersistReady, PersistStopping, PersistStopped, PersistStarting,
                    SavePair, SaveDeployment
      <4>2. cmd'[Server].pc # "idle"
        BY <2>0, <3>2, <4>1 DEF Command
      <4>. QED
        BY <4>2
    <3>. QED
      BY <2>2, <3>1, <3>3, <3>4, <3>5, <3>6, <3>7 DEF CommandStep, ReportStep
  <2>3. CASE cmd' = cmd
    BY <2>3
  <2>4. CASE Begin(Server)
    BY <2>4 DEF Begin, Create, Stop, Restart, LockFree
  <2>. QED
    BY <2>0, <2>1, <2>2, <2>3, <2>4
    DEF Next, vars, ReadStep, ReadDeployment, ReadEndpoint, Inspect, ReconcileCheck,
        ReconcileSave, ExecutionLost
<1>. QED
  BY <1>1, BrokerFacts, InvariantHolds, PTL DEF Spec, EndsAreReported

-----------------------------------------------------------------------------
(* The refinement: commands, polls, crashes and reconfigurations implement     *)
(* DeploymentContract.                                                         *)

\* A step of one deployment is a step of the contract, under the mapping.
LEMMA MovesRefine ==
    ASSUME TypeOK, NEW e \in Deployments, StateStep(e), \A d \in Deployments \ {e} : Kept(d)
    PROVE  [Contract!ContractNext]_(Contract!contractVars)
<1> DEFINE state == [d \in Deployments |-> dep[d].observed]
           version == [d \in Deployments |-> dep[d].version]
           url == [d \in Deployments |-> endpoint[d].state]
           held == {d \in Deployments : exec[d] = "held"}
<1>1. \A d \in Deployments \ {e} :
        /\ state'[d] = state[d] /\ version'[d] = version[d] /\ url'[d] = url[d]
        /\ d \in held' <=> d \in held
  BY DEF Kept
<1>2. /\ state[e] = dep[e].observed /\ state'[e] = dep'[e].observed
      /\ version[e] = dep[e].version /\ version'[e] = dep'[e].version
      /\ url[e] = endpoint[e].state /\ url'[e] = endpoint'[e].state
      /\ e \in held <=> exec[e] = "held"
      /\ e \in held' <=> exec'[e] = "held"
  OBVIOUS
<1>3. ASSUME dep'[e].version = dep[e].version + 1, exec'[e] = exec[e]
      PROVE  /\ state' = [state EXCEPT ![e] = dep'[e].observed]
             /\ url' = [url EXCEPT ![e] = endpoint'[e].state]
             /\ version' = [version EXCEPT ![e] = @ + 1]
             /\ held' = held
  <2>1. state' = [state EXCEPT ![e] = dep'[e].observed]
    BY <1>1, <1>2
  <2>2. url' = [url EXCEPT ![e] = endpoint'[e].state]
    BY <1>1, <1>2
  <2>3. version' = [version EXCEPT ![e] = @ + 1]
    BY <1>1, <1>2, <1>3
  <2>4. held' = held
    BY <1>1, <1>2, <1>3
  <2> QED
    BY <2>1, <2>2, <2>3, <2>4
<1>4. ASSUME SameDocuments(e) PROVE state' = state /\ version' = version /\ url' = url
  BY <1>1, <1>2, <1>4 DEF SameDocuments
<1>5. exec[e] \in {"none", "held"} /\ (exec'[e] = exec[e] => held' = held)
  BY <1>1, <1>2 DEF TypeOK
<1>6. CASE dep[e].observed \in {"ABSENT", "STOPPED"}
           /\ Becomes(e, "STARTING", endpoint[e].state)
  <2>1. Contract!Starts(e)
    BY <1>2, <1>3, <1>6 DEF Becomes, Contract!Starts, Contract!Document
  <2> QED
    BY <2>1 DEF Contract!ContractNext
<1>7. CASE /\ dep[e].observed = "STARTING"
           /\ dep'[e].observed = dep[e].observed /\ dep'[e].version = dep[e].version
           /\ endpoint'[e].state = "PROVISIONING"
           /\ exec'[e] = exec[e]
  <2>1. state' = state /\ version' = version /\ url' = [url EXCEPT ![e] = "PROVISIONING"]
    BY <1>1, <1>2, <1>7
  <2>2. Contract!Provisions(e)
    BY <1>2, <1>5, <1>7, <2>1 DEF Contract!Provisions
  <2> QED
    BY <2>2 DEF Contract!ContractNext
<1>9. CASE /\ dep[e].observed = "STARTING" /\ endpoint[e].state = "PROVISIONING"
           /\ exec'[e] = "held" /\ SameDocuments(e)
  <2>1. held' = held \cup {e}
    BY <1>1, <1>2, <1>9
  <2>2. Contract!Acquires(e)
    BY <1>2, <1>4, <1>9, <2>1 DEF Contract!Acquires
  <2> QED
    BY <2>2 DEF Contract!ContractNext
<1>10. CASE exec'[e] = "none" /\ SameDocuments(e)
  <2>1. held' = held \ {e}
    BY <1>1, <1>2, <1>10
  <2>2. Contract!LetsGo(e)
    BY <1>4, <1>10, <2>1 DEF Contract!LetsGo
  <2> QED
    BY <2>2 DEF Contract!ContractNext
<1>11. CASE /\ dep[e].observed = "STARTING" /\ endpoint[e].state = "PROVISIONING"
            /\ Becomes(e, "READY", "READY")
  <2>1. Contract!BecomesReady(e)
    BY <1>2, <1>3, <1>11 DEF Becomes, Contract!BecomesReady, Contract!Document
  <2> QED
    BY <2>1 DEF Contract!ContractNext
<1>12. CASE /\ dep[e].observed = "STARTING"
            /\ \/ Becomes(e, "FAILED", "UNHEALTHY")
               \/ exec[e] = "none" /\ Becomes(e, "FAILED", endpoint[e].state)
  <2>1. Contract!Fails(e)
    BY <1>2, <1>3, <1>12 DEF Becomes, Contract!Fails, Contract!Document
  <2> QED
    BY <2>1 DEF Contract!ContractNext
<1>13. CASE /\ dep[e].observed \in {"READY", "DEGRADED"}
            /\ \/ Becomes(e, "READY", "READY")
               \/ Becomes(e, "DEGRADED", "UNHEALTHY")
  <2>1. Contract!Observes(e)
    BY <1>2, <1>3, <1>13 DEF Becomes, Contract!Observes, Contract!Document
  <2> QED
    BY <2>1 DEF Contract!ContractNext
<1>14. CASE /\ dep[e].observed \notin {"ABSENT", "STOPPED"}
            /\ Becomes(e, "STOPPING", endpoint[e].state)
  <2>1. Contract!Stops(e)
    BY <1>2, <1>3, <1>14 DEF Becomes, Contract!Stops, Contract!Document
  <2> QED
    BY <2>1 DEF Contract!ContractNext
<1>15. CASE /\ dep[e].observed = "STOPPING" /\ exec[e] = "none"
            /\ Becomes(e, "STOPPED", IF endpoint[e].state = "ABSENT" THEN "ABSENT" ELSE "RETIRED")
  <2>1. Contract!IsStopped(e)
    BY <1>2, <1>3, <1>15 DEF Becomes, Contract!IsStopped, Contract!Document
  <2> QED
    BY <2>1 DEF Contract!ContractNext
<1> HIDE DEF state, version, url, held
<1> QED
  BY <1>6, <1>7, <1>9, <1>10, <1>11, <1>12, <1>13, <1>14, <1>15 DEF StateStep

\* The lifecycle implements the contract of the public documents: resources only for
\* a deployment that is on record, STOPPED only when nothing is held, one version per
\* state, through every crash, retry and reconciliation of one server process.
THEOREM LifecycleImplementsContract == ASSUME SingleProcess PROVE Spec => ImplementsContract
<1>1. Init => Contract!ContractInit
  BY DEF Init, Contract!ContractInit, NoDeployment, NoEndpoint
<1>2. IndInv /\ LaunchFacts /\ [Next]_vars => [Contract!ContractNext]_(Contract!contractVars)
  <2> SUFFICES ASSUME IndInv, LaunchFacts, [Next]_vars
               PROVE  [Contract!ContractNext]_(Contract!contractVars)
    OBVIOUS
  <2>1. CASE OneMoves
    BY <2>1, MovesRefine DEF OneMoves, IndInv
  <2>2. CASE NoneMoves
    BY <2>2 DEF NoneMoves, Contract!contractVars
  <2> QED
    BY <2>1, <2>2, StepMoves
<1> QED
  BY <1>1, <1>2, InvariantHolds, LaunchesAreProvisioned, PTL
  DEF Spec, ImplementsContract, Contract!ContractSpec
=============================================================================
