------------------------ MODULE PackageRuntimeOwner ------------------------
(***************************************************************************)
(* The durable owner of one PackageRuntime binding                         *)
(* (package_runtime_owner.py over the owner operations of store.py).       *)
(*                                                                         *)
(* activate runs in a worker thread under _operation_lock; reconcile runs  *)
(* on the event loop, one call at a time; status takes no lock at all.     *)
(* The SDK client, the maintenance Gate and the supervised runtime are     *)
(* external.  Every store call is one transaction, and the process may     *)
(* crash between any two steps.                                            *)
(***************************************************************************)
EXTENDS Naturals

CONSTANTS Requests,       \* Idempotency-Keys of activate
          Installations,  \* installations a caller may name
          Connections,    \* loopback connection references of the runtime
          Watchers,       \* concurrent status calls
          None            \* no installation, no connection

ASSUME OwnerAssumption ==
    /\ None \notin Installations \cup Connections
    /\ Requests # {} /\ Installations # {}

VARIABLES
    op,       \* table package_runtime_owner_operations
    gate,     \* external: the operation of a request at the maintenance Gate
    runtime,  \* external: what the supervisor runs for the binding
    sends,    \* history: how often the activation of a request was sent (2: again)
    offered,  \* history: requests whose failure carried a typed pending receipt
    act,      \* locals of the activate call that holds _operation_lock
    rec,      \* locals of the reconcile call on the event loop
    watch     \* locals of the status calls

vars == <<op, gate, runtime, sends, offered, act, rec, watch>>

Operation ==
    [phase   : {"NONE", "INTENT", "UNKNOWN", "RECEIPT_PENDING", "COMPLETED"},
     inst    : Installations \cup {None},
     receipt : BOOLEAN,                       \* receipt_json is set
     conn    : Connections \cup {None}]       \* connection_ref in runtime_status_json

NoOperation == [phase |-> "NONE", inst |-> None, receipt |-> FALSE, conn |-> None]

Runtime == [inst : Installations \cup {None}, conn : Connections \cup {None}]

ActivatePcs == {"idle", "pending", "intent", "exchange", "persist", "gate", "complete",
                "failed", "saveReceipt", "markUnknown"}
Activation == [pc : ActivatePcs, r : Requests, inst : Installations,
               conn : Connections \cup {None},   \* the status the client returned
               receipt : BOOLEAN]                \* the error carries a valid receipt

ReconcilePcs == {"idle", "query", "commit", "gate", "complete"}
Reconciliation == [pc : ReconcilePcs, r : Requests,
                   prev : Connections \cup {None},   \* connection_ref of the record read
                   conn : Connections \cup {None}]

Activating(pc, r, i) == [pc |-> pc, r |-> r, inst |-> i, conn |-> None, receipt |-> FALSE]
NotActivating  == Activating("idle", CHOOSE r \in Requests : TRUE,
                             CHOOSE i \in Installations : TRUE)
NotReconciling == [pc |-> "idle", r |-> CHOOSE r \in Requests : TRUE, prev |-> None,
                   conn |-> None]

\* The rows of package_runtime_owner_operations and the locals of the calls have
\* their shapes: a row is written with INTENT before it has an outcome.
TypeOK ==
    /\ op \in [Requests -> Operation]
    /\ gate \in [Requests -> {"none", "open", "completed"}]
    /\ runtime \in Runtime
    /\ sends \in [Requests -> 0..2]
    /\ offered \subseteq Requests
    /\ act \in Activation
    /\ rec \in Reconciliation
    /\ watch \in [Watchers -> Requests \cup {None}]

Init ==
    /\ op = [r \in Requests |-> NoOperation]
    /\ gate = [r \in Requests |-> "none"]
    /\ runtime = [inst |-> None, conn |-> None]
    /\ sends = [r \in Requests |-> 0]
    /\ offered = {}
    /\ act = NotActivating
    /\ rec = NotReconciling
    /\ watch = [w \in Watchers |-> None]

-----------------------------------------------------------------------------
(* The transactions of store.py *)

\* pending_package_runtime_operation
Pending(r) == op[r].phase \in {"INTENT", "UNKNOWN", "RECEIPT_PENDING"}

\* Mutant of CreateIntent: phase and operation are swapped in the INSERT.
CreateIntentSwapped(r, i) ==
    op' = [op EXCEPT ![r] = [phase |-> "activate", inst |-> i, receipt |-> FALSE, conn |-> None]]

\* create_package_runtime_intent.  Its own check for a pending operation cannot
\* fail here: only the holder of _operation_lock creates one, after its check.
CreateIntent(r, i) ==
    op' = [op EXCEPT ![r] = [phase |-> "INTENT", inst |-> i, receipt |-> FALSE, conn |-> None]]

\* mark_package_runtime_unknown
MarkUnknown(r) ==
    op' = IF op[r].phase = "INTENT" /\ ~op[r].receipt
          THEN [op EXCEPT ![r].phase = "UNKNOWN"] ELSE op

\* persist_package_runtime_receipt; no row updated is an error and no change
PersistReceipt(r) ==
    op' = IF op[r].phase \in {"INTENT", "UNKNOWN"} /\ ~op[r].receipt
          THEN [op EXCEPT ![r].phase = "RECEIPT_PENDING", ![r].receipt = TRUE] ELSE op

\* commit_package_runtime_outcome, of a pending operation
CommitOutcome(r, c) ==
    op' = [op EXCEPT ![r].phase = "RECEIPT_PENDING", ![r].receipt = TRUE, ![r].conn = c]

\* complete_package_runtime_operation may update the row
Completable(r) == op[r].phase = "RECEIPT_PENDING" /\ op[r].receipt
CompleteOperation(r) == op' = [op EXCEPT ![r].phase = "COMPLETED"]

-----------------------------------------------------------------------------
(* activate *)

\* Mutant of Activate: an operation whose outcome is unknown is tried again.
ActivateAgain(r, i) ==
    /\ act.pc = "idle"
    /\ \/ op[r].phase = "NONE" /\ act' = Activating("pending", r, i)
       \/ op[r].phase = "UNKNOWN" /\ ~op[r].receipt /\ act' = Activating("exchange", r, i)
    /\ UNCHANGED <<op, gate, runtime, sends, offered, rec, watch>>

\* An earlier operation of this request is returned or refused without a
\* write, unless it is an INTENT without a receipt.
Activate(r, i) ==
    /\ act.pc = "idle"
    /\ \/ op[r].phase = "NONE" /\ act' = Activating("pending", r, i)
       \/ /\ op[r].phase = "INTENT" /\ ~op[r].receipt /\ op[r].inst = i
          /\ act' = Activating("markUnknown", r, i)
    /\ UNCHANGED <<op, gate, runtime, sends, offered, rec, watch>>

ActivatePending ==
    /\ act.pc = "pending"
    /\ act' = IF \E s \in Requests : Pending(s) THEN NotActivating
              ELSE [act EXCEPT !.pc = "intent"]
    /\ UNCHANGED <<op, gate, runtime, sends, offered, rec, watch>>

\* The client calls persist_intent, or raises before that (no record: the
\* call is over).
PersistIntent ==
    /\ act.pc = "intent"
    /\ \/ /\ CreateIntent(act.r, act.inst)
          /\ act' = [act EXCEPT !.pc = "exchange"]
       \/ act' = NotActivating /\ UNCHANGED op
    /\ UNCHANGED <<gate, runtime, sends, offered, rec, watch>>

\* The client sends the activation.  It may never arrive; if it does, the Gate
\* opens the operation and the runtime may or may not start.  The answer is a
\* status with a receipt, an error with the pending receipt, or an error.  A
\* status that is not RUNNING for this installation is None here.
Exchange ==
    /\ act.pc = "exchange"
    /\ sends' = [sends EXCEPT ![act.r] = IF @ = 0 THEN 1 ELSE 2]
    /\ \/ /\ act' = [act EXCEPT !.pc = "failed", !.receipt = FALSE]
          /\ UNCHANGED <<gate, runtime>>
       \/ /\ gate' = [gate EXCEPT ![act.r] = "open"]
          /\ \/ \E c \in Connections : runtime' = [inst |-> act.inst, conn |-> c]
             \/ UNCHANGED runtime
          /\ \/ \E receipt \in BOOLEAN : act' = [act EXCEPT !.pc = "failed", !.receipt = receipt]
             \/ act' = [act EXCEPT !.pc = "persist",
                                   !.conn = IF runtime'.inst = act.inst THEN runtime'.conn
                                            ELSE None]
    /\ UNCHANGED <<op, offered, rec, watch>>

\* Mutant of Persist: the operation completes without the Gate.
PersistSkipsGate ==
    /\ act.pc = "persist"
    /\ act.conn # None
    /\ CommitOutcome(act.r, act.conn)
    /\ act' = [act EXCEPT !.pc = "complete"]
    /\ UNCHANGED <<gate, runtime, sends, offered, rec, watch>>

\* _validate_actual raises a PackageRuntimeOwnerFailure, which ends the call;
\* otherwise status and receipt are committed together.
Persist ==
    /\ act.pc = "persist"
    /\ \/ /\ act.conn = None
          /\ act' = NotActivating /\ UNCHANGED op
       \/ /\ act.conn # None
          /\ CommitOutcome(act.r, act.conn)
          /\ act' = [act EXCEPT !.pc = "gate"]
    /\ UNCHANGED <<gate, runtime, sends, offered, rec, watch>>

\* After the owner's commit the client completes the operation at the Gate;
\* the reply may be lost.
CompleteAtGate ==
    /\ act.pc = "gate"
    /\ \/ /\ gate' = [gate EXCEPT ![act.r] = "completed"]
          /\ act' \in {[act EXCEPT !.pc = "complete"],
                       [act EXCEPT !.pc = "failed", !.receipt = TRUE]}
       \/ /\ act' = [act EXCEPT !.pc = "failed", !.receipt = TRUE]
          /\ UNCHANGED gate
    /\ UNCHANGED <<op, runtime, sends, offered, rec, watch>>

ActivateComplete ==
    /\ act.pc = "complete"
    /\ \/ /\ Completable(act.r)
          /\ CompleteOperation(act.r)
          /\ act' = NotActivating
       \/ /\ ~Completable(act.r)
          /\ act' = [act EXCEPT !.pc = "failed", !.receipt = FALSE]
          /\ UNCHANGED op
    /\ UNCHANGED <<gate, runtime, sends, offered, rec, watch>>

\* `except Exception`: only a record still in INTENT gets the receipt or
\* becomes UNKNOWN.
HandleFailure ==
    /\ act.pc = "failed"
    /\ IF op[act.r].phase = "INTENT"
       THEN act' = [act EXCEPT !.pc = IF act.receipt THEN "saveReceipt" ELSE "markUnknown"]
       ELSE act' = NotActivating
    /\ offered' = IF act.receipt /\ act'.pc = "idle" THEN offered \cup {act.r} ELSE offered
    /\ UNCHANGED <<op, gate, runtime, sends, rec, watch>>

SaveReceipt ==
    /\ act.pc = "saveReceipt"
    /\ PersistReceipt(act.r)
    /\ act' = NotActivating
    /\ offered' = offered \cup {act.r}
    /\ UNCHANGED <<gate, runtime, sends, rec, watch>>

ActivateUnknown ==
    /\ act.pc = "markUnknown"
    /\ MarkUnknown(act.r)
    /\ act' = NotActivating
    /\ UNCHANGED <<gate, runtime, sends, offered, rec, watch>>

-----------------------------------------------------------------------------
(* reconcile *)

\* Without a receipt the outcome is unknown and the call is over.
Reconcile(r) ==
    /\ rec.pc = "idle"
    /\ op[r].receipt
    /\ rec' = [pc |-> "query", r |-> r, prev |-> op[r].conn, conn |-> None]
    /\ UNCHANGED <<op, gate, runtime, sends, offered, act, watch>>

\* The client reads the runtime and the installation, or fails.
ReconcileQuery ==
    /\ rec.pc = "query"
    /\ \/ rec' = [rec EXCEPT !.pc = "commit",
                             !.conn = IF runtime.inst = op[rec.r].inst THEN runtime.conn ELSE None]
       \/ rec' = NotReconciling
    /\ UNCHANGED <<op, gate, runtime, sends, offered, act, watch>>

\* Mutant of ReconcileAccepts: the recorded connection is not compared.
ReconcileAcceptsMoved == rec.conn # None /\ Pending(rec.r)

\* The checks of the callback, and of commit_package_runtime_outcome.
ReconcileAccepts ==
    /\ rec.conn # None
    /\ rec.prev # None => rec.conn = rec.prev
    /\ Pending(rec.r)

ReconcileCommit ==
    /\ rec.pc = "commit"
    /\ \/ /\ ReconcileAccepts
          /\ CommitOutcome(rec.r, rec.conn)
          /\ rec' = [rec EXCEPT !.pc = "gate"]
       \/ ~ReconcileAccepts /\ rec' = NotReconciling /\ UNCHANGED op
    /\ UNCHANGED <<gate, runtime, sends, offered, act, watch>>

ReconcileGate ==
    /\ rec.pc = "gate"
    /\ \/ /\ gate' = [gate EXCEPT ![rec.r] = "completed"]
          /\ rec' \in {[rec EXCEPT !.pc = "complete"], NotReconciling}
       \/ rec' = NotReconciling /\ UNCHANGED gate
    /\ UNCHANGED <<op, runtime, sends, offered, act, watch>>

ReconcileComplete ==
    /\ rec.pc = "complete"
    /\ \/ Completable(rec.r) /\ CompleteOperation(rec.r)
       \/ ~Completable(rec.r) /\ UNCHANGED op
    /\ rec' = NotReconciling
    /\ UNCHANGED <<gate, runtime, sends, offered, act, watch>>

-----------------------------------------------------------------------------
(* status *)

\* The pending operation is read, and marked in a second transaction.
Status(w, r) ==
    /\ watch[w] = None
    /\ op[r].phase = "INTENT" /\ ~op[r].receipt
    /\ watch' = [watch EXCEPT ![w] = r]
    /\ UNCHANGED <<op, gate, runtime, sends, offered, act, rec>>

StatusUnknown(w) ==
    /\ watch[w] # None
    /\ MarkUnknown(watch[w])
    /\ watch' = [watch EXCEPT ![w] = None]
    /\ UNCHANGED <<gate, runtime, sends, offered, act, rec>>

-----------------------------------------------------------------------------

\* The supervisor restarts, replaces or stops what it runs.
RuntimeChanges ==
    /\ runtime' \in Runtime
    /\ runtime'.inst = None <=> runtime'.conn = None
    /\ UNCHANGED <<op, gate, sends, offered, act, rec, watch>>

Crash ==
    /\ act' = NotActivating
    /\ rec' = NotReconciling
    /\ watch' = [w \in Watchers |-> None]
    /\ UNCHANGED <<op, gate, runtime, sends, offered>>

Next ==
    \/ \E r \in Requests, i \in Installations : Activate(r, i)
    \/ ActivatePending \/ PersistIntent \/ Exchange \/ Persist \/ CompleteAtGate
    \/ ActivateComplete \/ HandleFailure \/ SaveReceipt \/ ActivateUnknown
    \/ \E r \in Requests : Reconcile(r)
    \/ ReconcileQuery \/ ReconcileCommit \/ ReconcileGate \/ ReconcileComplete
    \/ \E w \in Watchers, r \in Requests : Status(w, r)
    \/ \E w \in Watchers : StatusUnknown(w)
    \/ RuntimeChanges
    \/ Crash

Spec == Init /\ [][Next]_vars

-----------------------------------------------------------------------------
(* Properties *)

Stage(phase) == CASE phase = "NONE" -> "new" [] phase = "COMPLETED" -> "finished"
                  [] OTHER -> "unfinished"

Once == INSTANCE ActivateOnce WITH
            stage <- [r \in Requests |-> Stage(op[r].phase)],
            sent  <- sends,
            ended <- {r \in Requests : gate[r] = "completed"}

\* The owner implements ActivateOnce ("Activate once after durable intent"): with
\* crashes, lost answers, retries, reconciliations and status calls, at most one
\* operation of the binding is unfinished, what may have reached the Gate was on
\* record before, nothing is sent twice, and COMPLETED follows the Gate.
ActivatesOnce == Once!OnceSpec

\* COMPLETED is said only of an operation that the Gate has completed and whose
\* outcome and receipt are stored, whichever of activate and reconcile wins.
CompletedIsTrue ==
    \A r \in Requests :
        op[r].phase = "COMPLETED" => gate[r] = "completed" /\ op[r].receipt /\ op[r].conn # None

Rank == [phase \in {"NONE", "INTENT", "UNKNOWN", "RECEIPT_PENDING", "COMPLETED"} |->
            CASE phase = "NONE" -> 0 [] phase = "INTENT" -> 1 [] phase = "UNKNOWN" -> 2
              [] phase = "RECEIPT_PENDING" -> 3 [] phase = "COMPLETED" -> 4]

EvidenceStep ==
    \A r \in Requests :
        /\ Rank[op[r].phase] <= Rank[op'[r].phase]
        /\ op[r].receipt => op'[r].receipt
        /\ op[r].conn # None => op'[r].conn = op[r].conn

\* A phase never goes back, a receipt is never lost, and a recorded connection
\* is never replaced by that of another runtime process.
EvidenceIsKept == [][EvidenceStep]_vars

\* A typed pending receipt that arrives with a failure is saved
\* (persist_package_runtime_receipt: "Save a typed Gate receipt returned with a
\* pending-operation error").
OfferedReceiptIsSaved == \A r \in offered : op[r].receipt

-----------------------------------------------------------------------------
(* The inductive invariant behind the safety properties above *)

\* One operation of the binding at a time is unfinished.
OneUnfinished == \A r, s \in Requests : Pending(r) /\ Pending(s) => r = s

\* What the phase of a row says of its evidence, of the exchange and of the Gate.
RowsAreTrue ==
    \A r \in Requests :
        /\ op[r].phase = "NONE" => sends[r] = 0
        /\ op[r].phase \in {"NONE", "INTENT", "UNKNOWN"} => ~op[r].receipt /\ op[r].conn = None
        /\ op[r].phase \in {"RECEIPT_PENDING", "COMPLETED"} => op[r].receipt
        /\ op[r].receipt => sends[r] = 1
        /\ sends[r] = 0 => gate[r] = "none"

\* What activate has made sure of, although status and reconcile take no lock.
ActivationKnows ==
    LET r == act.r
    IN  /\ act.pc \in {"pending", "intent"} => op[r].phase = "NONE"
        /\ act.pc = "intent" => \A s \in Requests : ~Pending(s)
        /\ act.pc \in {"exchange", "persist"} => op[r].phase \in {"INTENT", "UNKNOWN"}
        /\ act.pc = "exchange" => sends[r] = 0
        /\ act.pc \in {"persist", "gate", "complete", "failed", "saveReceipt"} => sends[r] = 1
        /\ act.pc \in {"gate", "complete"} => op[r].receipt /\ op[r].conn # None
        /\ act.pc = "complete" => gate[r] = "completed"

\* What reconcile has made sure of: the connection it compares is the recorded one.
ReconciliationKnows ==
    LET r == rec.r
    IN  /\ rec.pc # "idle" => op[r].receipt
        /\ rec.pc \in {"query", "commit"} => op[r].conn = rec.prev
        /\ rec.pc \in {"gate", "complete"} => op[r].conn # None
        /\ rec.pc = "complete" => gate[r] = "completed"

\* The inductive invariant of the owner.
OwnerInv ==
    /\ TypeOK
    /\ OneUnfinished
    /\ RowsAreTrue
    /\ ActivationKnows
    /\ ReconciliationKnows
    /\ CompletedIsTrue
=============================================================================
