------------------------ MODULE EngineAdmissionProofs ------------------------
(***************************************************************************)
(* The two properties of engine admission for any number of bindings,      *)
(* installations, addresses and generations: AdmissionInv is inductive.    *)
(***************************************************************************)
EXTENDS EngineAdmission, TLAPS

\* A process that has read nothing yet.
LEMMA AdmissionInit == Init => AdmissionInv
<1> SUFFICES ASSUME Init PROVE AdmissionInv
  OBVIOUS
<1>1. TypeOK
  BY DEF Init, TypeOK
<1>2. QED
  BY <1>1 DEF Init, AdmissionInv, AdmissionFacts, EngineAnsweredForItself

\* The steps of the process that do not touch the daemon's state.
LEMMA ProcessStepInv ==
  ASSUME AdmissionInv,
         (\E b \in Bindings : NextBinding(b)) \/ AdmissionStep \/ Serve \/ Relaunch
  PROVE  AdmissionInv'
<1> USE DEF AdmissionInv
<1>1. CASE \E b \in Bindings : NextBinding(b)
  <2>1. PICK b \in Bindings : NextBinding(b)
    BY <1>1
  <2>2. TypeOK'
    BY <2>1 DEF NextBinding, TypeOK, world, process, Admission, AdmissionPcs
  <2>3. QED
    BY <2>1, <2>2 DEF NextBinding, world, process, PortsAreExclusive, AdmissionFacts,
                      EngineAnsweredForItself
<1>2. CASE ReadAuthority
  <2>1. TypeOK'
    BY <1>2 DEF ReadAuthority, Continue, At, TypeOK, world, process, Admission, AdmissionPcs
  <2>2. AdmissionFacts'
    BY <1>2 DEF ReadAuthority, Continue, At, AuthorityAccepted, world, process, TypeOK,
                Admission, AdmissionFacts
  <2>3. QED
    BY <1>2, <2>1, <2>2 DEF ReadAuthority, Continue, world, process, PortsAreExclusive,
                            EngineAnsweredForItself
<1>3. CASE ReadStatus
  <2>0. runtime[adm.b].receipt \in Receipt /\ runtime[adm.b].receipt.gen \in Generations
    BY <1>3 DEF ReadStatus, At, TypeOK, Admission, Runtime, Receipt
  <2>1. TypeOK'
    BY <1>3, <2>0 DEF ReadStatus, Continue, At, TypeOK, world, process, Admission, AdmissionPcs
  <2>2. AdmissionFacts'
    BY <1>3, <2>0 DEF ReadStatus, Continue, At, world, process, TypeOK, Admission,
                      AdmissionFacts, Generations
  <2>3. QED
    BY <1>3, <2>1, <2>2 DEF ReadStatus, Continue, world, process, PortsAreExclusive,
                            EngineAnsweredForItself
<1>4. CASE ReadInstallation
  <2>0. adm \in Admission /\ adm.receipt \in Receipt /\ adm.receipt.inst \in Installations
    BY <1>4 DEF ReadInstallation, At, TypeOK, AdmissionFacts, Receipt
  <2>1. TypeOK'
    BY <1>4, <2>0 DEF ReadInstallation, Continue, TypeOK, world, process, Admission, AdmissionPcs
  <2>2. AdmissionFacts'
    BY <1>4, <2>0 DEF ReadInstallation, Continue, At, world, process, Admission, AdmissionFacts
  <2>3. QED
    BY <1>4, <2>1, <2>2 DEF ReadInstallation, Continue, world, process, PortsAreExclusive,
                            EngineAnsweredForItself
<1>5. CASE ReadMetadata
  <2>0. adm \in Admission /\ adm.b \in Bindings /\ adm.receipt \in Receipt
    BY <1>5 DEF ReadMetadata, At, TypeOK, AdmissionFacts, Admission
  <2>1. PICK p \in Bindings :
           /\ runtime[p].running /\ runtime[p].receipt.conn = adm.receipt.conn
           /\ Continue([adm EXCEPT !.peer = <<p, runtime[p].receipt.gen>>, !.pc = "restatus"])
    BY <1>5 DEF ReadMetadata
  <2>2. runtime[p].receipt.gen \in Generations
    BY DEF TypeOK, Runtime, Receipt
  <2>3. TypeOK'
    BY <2>0, <2>1, <2>2, ZenonT(30) DEF Continue, TypeOK, world, process, Admission, AdmissionPcs, Peer
  <2>4. ASSUME adm.receipt.gen = runtime[adm.b].receipt.gen, runtime[adm.b].running
        PROVE  p = adm.b
    BY <1>5, <2>0, <2>1, <2>4 DEF ReadMetadata, At, AdmissionFacts, PortsAreExclusive
  <2>5. AdmissionFacts'
    BY <1>5, <2>0, <2>1, <2>2, <2>4, ZenonT(60) DEF ReadMetadata, At, Continue, world, process, Admission,
                                        AdmissionFacts, Peer
  <2>6. QED
    BY <2>1, <2>3, <2>5 DEF Continue, world, process, PortsAreExclusive, EngineAnsweredForItself
<1>6. CASE RereadStatus
  <2>0. adm \in Admission
    BY <1>6 DEF RereadStatus, At, TypeOK
  <2>1. TypeOK'
    BY <1>6, <2>0 DEF RereadStatus, Continue, TypeOK, world, process, Admission, AdmissionPcs
  <2>2. AdmissionFacts'
    BY <1>6, <2>0 DEF RereadStatus, At, SameReceipt, Continue, world, process, Admission,
                      AdmissionFacts
  <2>3. QED
    BY <1>6, <2>1, <2>2 DEF RereadStatus, Continue, world, process, PortsAreExclusive,
                            EngineAnsweredForItself
<1>7. CASE RereadAuthority
  <2>0. /\ adm \in Admission /\ adm.b \in Bindings /\ adm.receipt \in Receipt
        /\ adm.receipt.gen \in Generations
        /\ adm.peer = <<adm.b, adm.receipt.gen>> /\ adm.peer \in Peer
        /\ adm.auth = sdk
    BY <1>7 DEF RereadAuthority, At, TypeOK, AdmissionFacts, Admission, Receipt, Peer
  <2> DEFINE new == [receipt |-> adm.receipt, auth |-> adm.auth, peer |-> adm.peer]
  <2>1. new \in Admitted
    BY <2>0 DEF Admitted, TypeOK
  <2>2. TypeOK'
    BY <1>7, <2>0, <2>1 DEF RereadAuthority, TypeOK, world, process
  <2>3. \A b \in Bindings : engines'[b] = IF b = adm.b THEN new ELSE engines[b]
    BY <1>7 DEF RereadAuthority, TypeOK
  <2> HIDE DEF new
  <2>4. new.peer = <<adm.b, new.receipt.gen>> /\ new.auth = sdk
    BY <2>0 DEF new
  <2>5. QED
    BY <1>7, <2>0, <2>2, <2>3, <2>4 DEF RereadAuthority, world, process, PortsAreExclusive,
                                        AdmissionFacts, EngineAnsweredForItself
<1>8. CASE Refuse
  <2>1. TypeOK'
    BY <1>8 DEF Refuse, TypeOK, world, process
  <2>2. QED
    BY <1>8, <2>1 DEF Refuse, world, process, PortsAreExclusive, AdmissionFacts,
                      EngineAnsweredForItself
<1>9. CASE Serve
  <2>1. TypeOK'
    BY <1>9 DEF Serve, TypeOK, world, process
  <2>2. QED
    BY <1>9, <2>1 DEF Serve, world, process, PortsAreExclusive, AdmissionFacts,
                      EngineAnsweredForItself
<1>10. CASE Relaunch
  <2>1. TypeOK'
    BY <1>10 DEF Relaunch, TypeOK, world
  <2>2. QED
    BY <1>10, <2>1 DEF Relaunch, world, PortsAreExclusive, AdmissionFacts,
                       EngineAnsweredForItself
<1>11. QED
  BY <1>1, <1>2, <1>3, <1>4, <1>5, <1>6, <1>7, <1>8, <1>9, <1>10 DEF AdmissionStep

\* What the daemon and its supervisor do meanwhile.
LEMMA WorldStepInv ==
  ASSUME AdmissionInv, WorldStep
  PROVE  AdmissionInv'
<1> USE DEF AdmissionInv
<1>1. CASE \E b \in Bindings : RuntimeStarts(b)
  <2>0. PICK b \in Bindings : RuntimeStarts(b)
    BY <1>1
  <2>1. PICK i \in Installations, c \in Connections :
           /\ runtime[b].receipt.gen < MaxGeneration
           /\ \A o \in Bindings \ {b} : runtime[o].running => runtime[o].receipt.conn # c
           /\ runtime' = [runtime EXCEPT ![b] =
                  [receipt |-> [inst |-> i, gen |-> @.receipt.gen + 1, conn |-> c],
                   running |-> TRUE]]
           /\ UNCHANGED <<catalog, installed, process, phase, adm, engines>>
    BY <2>0, Zenon DEF RuntimeStarts
  <2> DEFINE new == [receipt |-> [inst |-> i, gen |-> runtime[b].receipt.gen + 1, conn |-> c],
                     running |-> TRUE]
  <2>2. /\ \A x \in Bindings : /\ runtime[x] \in Runtime
                               /\ runtime[x].receipt.gen \in Nat
        /\ runtime[b].receipt.gen + 1 \in Generations
    BY <2>1, AdmissionAssumption DEF TypeOK, Runtime, Receipt, Generations
  <2>3. new \in Runtime
    BY <2>2 DEF Runtime, Receipt
  <2>4. \A x \in Bindings : runtime'[x] = IF x = b THEN new ELSE runtime[x]
    BY <2>1 DEF TypeOK
  <2>5. TypeOK'
    BY <2>1, <2>3 DEF TypeOK, process
  <2>6. /\ new.running /\ new.receipt.conn = c
        /\ new.receipt.gen = runtime[b].receipt.gen + 1
    OBVIOUS
  <2> HIDE DEF new
  <2>7. PortsAreExclusive'
    BY <2>1, <2>4, <2>6 DEF PortsAreExclusive
  <2>8. AdmissionFacts'
    <3> SUFFICES ASSUME adm # None
                 PROVE  AdmissionFacts'
      BY <2>1 DEF AdmissionFacts
    <3>1. adm.b \in Bindings
      BY DEF TypeOK, Admission
    <3>2. CASE adm.b # b
      BY <2>1, <2>4, <3>1, <3>2 DEF AdmissionFacts, process
    <3>3. CASE adm.b = b
      <4>1. runtime'[adm.b].receipt.gen = runtime[adm.b].receipt.gen + 1
        BY <2>4, <2>6, <3>1, <3>3
      <4>2. adm.pc \notin {"authority", "status"} =>
               /\ adm.receipt.gen \in Nat
               /\ adm.receipt.gen < runtime'[adm.b].receipt.gen
        BY <2>2, <3>1, <4>1 DEF AdmissionFacts, Receipt, Generations
      <4>3. adm.pc \notin {"authority", "status"} =>
               /\ adm.receipt.gen <= runtime'[adm.b].receipt.gen
               /\ adm.receipt.gen # runtime'[adm.b].receipt.gen
        BY <2>2, <3>1, <4>1, <4>2
      <4>4. QED
        BY <2>1, <4>3 DEF AdmissionFacts, process
    <3>4. QED
      BY <3>2, <3>3
  <2>9. QED
    BY <2>1, <2>5, <2>7, <2>8 DEF EngineAnsweredForItself, process
<1>2. CASE \E b \in Bindings : RuntimeStops(b)
  <2>1. PICK b \in Bindings : RuntimeStops(b)
    BY <1>2
  <2>2. \A x \in Bindings : /\ runtime'[x].receipt = runtime[x].receipt
                            /\ runtime'[x].running => runtime[x].running
    BY <2>1 DEF RuntimeStops, TypeOK, Runtime
  <2>3. TypeOK'
    BY <2>1 DEF RuntimeStops, TypeOK, Runtime, process
  <2>4. adm # None => adm.b \in Bindings
    BY DEF TypeOK, Admission
  <2>5. UNCHANGED <<catalog, installed, sdk, static, phase, adm, engines>>
    BY <2>1 DEF RuntimeStops, process
  <2>6. AdmissionFacts'
    BY <2>2, <2>4, <2>5 DEF AdmissionFacts
  <2>7. QED
    BY <2>2, <2>3, <2>5, <2>6 DEF PortsAreExclusive, EngineAnsweredForItself
<1>3. CASE CatalogMoves
  <2>1. TypeOK'
    BY <1>3, AdmissionAssumption DEF CatalogMoves, TypeOK, process, Generations
  <2>2. QED
    BY <1>3, <2>1 DEF CatalogMoves, process, PortsAreExclusive, AdmissionFacts,
                      EngineAnsweredForItself
<1>4. CASE InstallationChanges
  <2>1. TypeOK'
    BY <1>4 DEF InstallationChanges, TypeOK, process
  <2>2. QED
    BY <1>4, <2>1 DEF InstallationChanges, process, PortsAreExclusive, AdmissionFacts,
                      EngineAnsweredForItself
<1>5. QED
  BY <1>1, <1>2, <1>3, <1>4 DEF WorldStep

\* The invariant is inductive.
LEMMA AdmissionNext == AdmissionInv /\ [Next]_vars => AdmissionInv'
<1> SUFFICES ASSUME AdmissionInv, [Next]_vars PROVE AdmissionInv'
  OBVIOUS
<1>1. CASE Next
  BY <1>1, ProcessStepInv, WorldStepInv DEF Next
<1>2. CASE UNCHANGED vars
  BY <1>2 DEF vars, AdmissionInv, TypeOK, PortsAreExclusive, AdmissionFacts,
              EngineAnsweredForItself
<1>3. QED
  BY <1>1, <1>2

\* AdmissionInv is an invariant: the locals of package_runtime_engine and the
\* engines admitted so far are what the reads established.
THEOREM AdmissionIsConsistent == Spec => []AdmissionInv
<1>1. QED
  BY AdmissionInit, AdmissionNext, PTL DEF Spec

\* No engine of package_runtime_engine relies on metadata that another process,
\* or another generation of its own runtime, gave.
THEOREM EnginesAnswerForThemselves == Spec => []EngineAnsweredForItself
<1>1. AdmissionInv => EngineAnsweredForItself
  BY DEF AdmissionInv
<1>2. QED
  BY <1>1, AdmissionIsConsistent, PTL

\* The engines _engines builds for one process share one authority generation.
THEOREM EnginesShareAuthority == Spec => []OneAuthority
<1>1. AdmissionInv => OneAuthority
  BY DEF AdmissionInv, OneAuthority
<1>2. QED
  BY <1>1, AdmissionIsConsistent, PTL
=============================================================================
