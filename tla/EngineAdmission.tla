--------------------------- MODULE EngineAdmission ---------------------------
(***************************************************************************)
(* How a starting Reactor process builds its serving ports: cli.py's       *)
(* _engines takes the static bindings as they are configured and admits    *)
(* every package binding with package_runtime_engine                       *)
(* (package_runtime_owner.py), which reads the source authority, the       *)
(* runtime's receipt, the installation record and the endpoint's metadata, *)
(* and then the receipt and the authority again.  Each read is one request *)
(* to another process; the runtimes, the catalog and the installations     *)
(* change between them.                                                    *)
(***************************************************************************)
EXTENDS Naturals

CONSTANTS Bindings,       \* keys of package_runtime_bindings
          Installations,  \* installation ids
          Connections,    \* canonical loopback connection refs
          VersionOf,      \* package_version of each installation
          MaxGeneration,  \* bound on the catalog's and the runtimes' generations
          None            \* no receipt, no peer

ASSUME AdmissionAssumption ==
    /\ MaxGeneration \in Nat \ {0}
    /\ DOMAIN VersionOf = Installations

VARIABLES
    catalog,    \* external: catalog_generation of the daemon's authority
    runtime,    \* external: the supervised runtime of each binding
    installed,  \* external: installations whose record is INSTALLED and verified
    sdk,        \* catalog_generation the SDK clients of this process carry
    static,     \* bindings that serving_bindings configures as well
    phase,      \* of the process: building its engines, serving, or failed
    adm,        \* locals of the package_runtime_engine call in progress
    engines     \* the engines built so far

vars == <<catalog, runtime, installed, sdk, static, phase, adm, engines>>

Generations == 1 .. MaxGeneration
Receipt     == [inst : Installations, gen : Generations, conn : Connections]
Runtime     == [receipt : Receipt, running : BOOLEAN]

\* An admitted engine: the receipt it was built from, the authority it was
\* admitted under and (history) the runtime that answered for its metadata.
Peer     == Bindings \X Generations
Admitted == [receipt : Receipt, auth : Generations, peer : Peer]

AdmissionPcs == {"authority", "status", "installation", "metadata", "restatus", "reauthority"}

\* Locals that a step has not assigned yet are None.
Admission == [pc : AdmissionPcs, b : Bindings, auth : Generations \cup {None},
              receipt : Receipt \cup {None}, version : {VersionOf[i] : i \in Installations} \cup {None},
              peer : Peer \cup {None}]

\* The types of the daemon's state, the process's locals and its engines.
TypeOK ==
    /\ catalog \in Generations
    /\ runtime \in [Bindings -> Runtime]
    /\ installed \subseteq Installations
    /\ sdk \in Generations
    /\ static \subseteq Bindings
    /\ phase \in {"building", "serving", "failed"}
    /\ adm \in Admission \cup {None}
    /\ engines \in [Bindings -> Admitted \cup {None}]

\* A loopback port has one listener.
PortsAreExclusive ==
    \A b, c \in Bindings :
        runtime[b].running /\ runtime[c].running /\ runtime[b].receipt.conn = runtime[c].receipt.conn
            => b = c

Init ==
    /\ catalog \in Generations
    /\ runtime \in [Bindings -> Runtime]
    /\ PortsAreExclusive
    /\ installed \in SUBSET Installations
    /\ sdk = catalog
    /\ static \in SUBSET Bindings
    /\ phase = "building"
    /\ adm = None
    /\ engines = [b \in Bindings |-> None]

world   == <<catalog, runtime, installed>>
process == <<sdk, static>>

-----------------------------------------------------------------------------
(* _engines and package_runtime_engine *)

\* The next package binding; one that is configured statically too is an error.
NextBinding(b) ==
    /\ phase = "building" /\ adm = None /\ engines[b] = None
    /\ IF b \in static
       THEN phase' = "failed" /\ UNCHANGED adm
       ELSE /\ adm' = [pc |-> "authority", b |-> b, auth |-> None, receipt |-> None,
                       version |-> None, peer |-> None]
            /\ UNCHANGED phase
    /\ UNCHANGED <<world, process, engines>>

At(pc) == adm # None /\ adm.pc = pc

\* A read succeeded and passed its checks.
Continue(locals) == adm' = locals /\ UNCHANGED <<world, process, phase, engines>>

\* Mutant of AuthorityAccepted: the SDK's generation is not compared.
AnyAuthority == TRUE

\* _current_authority_generation compares the daemon's generation with the SDK's.
AuthorityAccepted == sdk = catalog

ReadAuthority ==
    /\ At("authority") /\ AuthorityAccepted
    /\ Continue([adm EXCEPT !.auth = catalog, !.pc = "status"])

ReadStatus ==
    /\ At("status") /\ runtime[adm.b].running
    /\ Continue([adm EXCEPT !.receipt = runtime[adm.b].receipt, !.pc = "installation"])

ReadInstallation ==
    /\ At("installation") /\ adm.receipt.inst \in installed
    /\ Continue([adm EXCEPT !.version = VersionOf[adm.receipt.inst], !.pc = "metadata"])

\* GET /metadata at the receipt's address is answered by whichever runtime
\* listens there now.
ReadMetadata ==
    /\ At("metadata")
    /\ \E p \in Bindings :
         /\ runtime[p].running /\ runtime[p].receipt.conn = adm.receipt.conn
         /\ VersionOf[runtime[p].receipt.inst] = adm.version
         /\ Continue([adm EXCEPT !.peer = <<p, runtime[p].receipt.gen>>, !.pc = "restatus"])

\* Mutant of SameReceipt: the generation is not compared.
SameAddress(r, s) == r.inst = s.inst /\ r.conn = s.conn

\* The second receipt must be the first one.
SameReceipt(r, s) == r.inst = s.inst /\ r.conn = s.conn /\ r.gen = s.gen

RereadStatus ==
    /\ At("restatus") /\ runtime[adm.b].running
    /\ SameReceipt(runtime[adm.b].receipt, adm.receipt)
    /\ Continue([adm EXCEPT !.pc = "reauthority"])

RereadAuthority ==
    /\ At("reauthority") /\ AuthorityAccepted /\ catalog = adm.auth
    /\ engines' = [engines EXCEPT ![adm.b] =
                      [receipt |-> adm.receipt, auth |-> adm.auth, peer |-> adm.peer]]
    /\ adm' = None
    /\ UNCHANGED <<world, process, phase>>

\* Any read may be denied or return what a check rejects: PackageRuntimeBindingFailure
\* ends the start.
Refuse ==
    /\ adm # None
    /\ adm' = None /\ phase' = "failed"
    /\ UNCHANGED <<world, process, engines>>

\* All bindings are resolved: create_app serves with these engines.
Serve ==
    /\ phase = "building" /\ adm = None /\ \A b \in Bindings : engines[b] # None
    /\ phase' = "serving"
    /\ UNCHANGED <<world, process, adm, engines>>

\* The process is started again, in an environment made for the catalog of now.
Relaunch ==
    /\ phase # "building"
    /\ phase' = "building"
    /\ engines' = [b \in Bindings |-> None]
    /\ sdk' = catalog
    /\ static' \in SUBSET Bindings
    /\ UNCHANGED <<world, adm>>

-----------------------------------------------------------------------------
(* The daemon and its supervisor *)

\* Every process the supervisor starts for a binding has a new generation.
RuntimeStarts(b) ==
    /\ runtime[b].receipt.gen < MaxGeneration
    /\ \E i \in Installations, c \in Connections :
         /\ \A o \in Bindings \ {b} : runtime[o].running => runtime[o].receipt.conn # c
         /\ runtime' = [runtime EXCEPT ![b] =
                [receipt |-> [inst |-> i, gen |-> @.receipt.gen + 1, conn |-> c],
                 running |-> TRUE]]
    /\ UNCHANGED <<catalog, installed, process, phase, adm, engines>>

RuntimeStops(b) ==
    /\ runtime[b].running
    /\ runtime' = [runtime EXCEPT ![b].running = FALSE]
    /\ UNCHANGED <<catalog, installed, process, phase, adm, engines>>

CatalogMoves ==
    /\ catalog < MaxGeneration
    /\ catalog' = catalog + 1
    /\ UNCHANGED <<runtime, installed, process, phase, adm, engines>>

InstallationChanges ==
    /\ installed' \in SUBSET Installations
    /\ UNCHANGED <<catalog, runtime, process, phase, adm, engines>>

-----------------------------------------------------------------------------

AdmissionStep ==
    \/ ReadAuthority \/ ReadStatus \/ ReadInstallation \/ ReadMetadata
    \/ RereadStatus \/ RereadAuthority \/ Refuse

WorldStep ==
    \/ \E b \in Bindings : RuntimeStarts(b) \/ RuntimeStops(b)
    \/ CatalogMoves
    \/ InstallationChanges

Next ==
    \/ \E b \in Bindings : NextBinding(b)
    \/ AdmissionStep
    \/ Serve
    \/ Relaunch
    \/ WorldStep

Spec == Init /\ [][Next]_vars

-----------------------------------------------------------------------------
(* Properties *)

\* An engine sends its requests to a runtime that proved its package itself:
\* the process that answered /metadata was the one of the engine's binding and
\* of the generation on its receipt, whatever stopped, started or took over its
\* port between the reads of package_runtime_engine.
EngineAnsweredForItself ==
    \A b \in Bindings : engines[b] # None => engines[b].peer = <<b, engines[b].receipt.gen>>

\* The engines of one process were all admitted under one authority generation,
\* although each admission reads the authority for itself and the catalog moves
\* between them.
OneAuthority ==
    \A b, c \in Bindings : engines[b] # None /\ engines[c] # None => engines[b].auth = engines[c].auth

\* What an admission in progress knows.
AdmissionFacts ==
    adm # None =>
        LET r == adm.receipt
        IN  /\ phase = "building"
            /\ adm.pc # "authority" => adm.auth = sdk
            /\ adm.pc \notin {"authority", "status"} =>
                 /\ r \in Receipt
                 /\ r.gen <= runtime[adm.b].receipt.gen
                 /\ r.gen = runtime[adm.b].receipt.gen => r = runtime[adm.b].receipt
            /\ adm.pc = "restatus" =>
                 /\ adm.peer \in Peer
                 /\ r.gen = runtime[adm.b].receipt.gen /\ runtime[adm.b].running
                        => adm.peer = <<adm.b, r.gen>>
            /\ adm.pc = "reauthority" => adm.peer = <<adm.b, r.gen>>

\* The inductive invariant behind the two properties: the ports, the locals of
\* the admission in progress, and the engines admitted so far.
AdmissionInv ==
    /\ TypeOK
    /\ PortsAreExclusive
    /\ AdmissionFacts
    /\ EngineAnsweredForItself
    /\ \A b \in Bindings : engines[b] # None => engines[b].auth = sdk
=============================================================================
