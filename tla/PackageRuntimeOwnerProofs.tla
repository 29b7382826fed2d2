---------------------- MODULE PackageRuntimeOwnerProofs ----------------------
(* Proofs about PackageRuntimeOwner, for any number of requests, installations, *)
(* connections and concurrent status calls.                                     *)
EXTENDS PackageRuntimeOwner, TLAPS

\* The idle calls and the absent row are well typed.
LEMMA IdleTypes ==
    /\ NotActivating \in Activation /\ NotActivating.pc = "idle"
    /\ NotReconciling \in Reconciliation /\ NotReconciling.pc = "idle"
    /\ NoOperation \in Operation
<1>1. (CHOOSE r \in Requests : TRUE) \in Requests /\ (CHOOSE i \in Installations : TRUE) \in Installations
  BY OwnerAssumption
<1> QED
  BY <1>1 DEF NotActivating, Activating, Activation, ActivatePcs, NotReconciling, Reconciliation,
              ReconcilePcs, NoOperation, Operation

-----------------------------------------------------------------------------
(* What one step does to the rows, the Gate and the sends. *)

Unfinished == {"INTENT", "UNKNOWN", "RECEIPT_PENDING"}

OtherRows(r) == \A s \in Requests \ {r} : op'[s] = op[s]

Intends(r) ==
    /\ op[r].phase = "NONE" /\ \A s \in Requests : ~Pending(s)
    /\ op'[r].phase = "INTENT" /\ ~op'[r].receipt /\ op'[r].conn = None
    /\ OtherRows(r) /\ UNCHANGED <<gate, sends>>

Sends(r) ==
    /\ Pending(r) /\ sends[r] = 0
    /\ sends' = [sends EXCEPT ![r] = 1]
    /\ UNCHANGED gate \/ gate' = [gate EXCEPT ![r] = "open"]
    /\ UNCHANGED op

\* More is known of an unfinished operation: its outcome is unknown, or a receipt.
Learns(r) ==
    /\ \/ op[r].phase = "INTENT" /\ op'[r].phase = "UNKNOWN"
       \/ Pending(r) /\ op'[r].phase = "RECEIPT_PENDING"
    /\ op[r].receipt => op'[r].receipt
    /\ op'[r].receipt <=> op'[r].phase = "RECEIPT_PENDING"
    /\ op'[r].receipt => sends[r] = 1
    /\ ~op'[r].receipt => op'[r].conn = None
    /\ op[r].conn # None => op'[r].conn = op[r].conn
    /\ OtherRows(r) /\ UNCHANGED <<gate, sends>>

GateEnds(r) ==
    /\ op[r].receipt
    /\ gate' = [gate EXCEPT ![r] = "completed"]
    /\ UNCHANGED <<op, sends>>

Concludes(r) ==
    /\ op[r].phase = "RECEIPT_PENDING" /\ op[r].receipt /\ op[r].conn # None
    /\ gate[r] = "completed"
    /\ op'[r].phase = "COMPLETED" /\ op'[r].receipt /\ op'[r].conn = op[r].conn
    /\ OtherRows(r) /\ UNCHANGED <<gate, sends>>

RowStep ==
    \/ UNCHANGED <<op, gate, sends>>
    \/ \E r \in Requests : Intends(r) \/ Sends(r) \/ Learns(r) \/ GateEnds(r) \/ Concludes(r)

-----------------------------------------------------------------------------
(* The transactions of the store *)

\* mark_package_runtime_unknown touches an INTENT without a receipt only.
LEMMA MarkUnknownRow ==
    ASSUME OwnerInv, NEW r \in Requests, MarkUnknown(r), UNCHANGED <<gate, sends>>
    PROVE  /\ op' \in [Requests -> Operation]
           /\ UNCHANGED op \/ (Learns(r) /\ op'[r].phase = "UNKNOWN" /\ op'[r].conn = op[r].conn)
<1>1. op \in [Requests -> Operation] /\ op[r] \in Operation
  BY DEF OwnerInv, TypeOK
<1>2. CASE op[r].phase = "INTENT" /\ ~op[r].receipt
  <2>1. op' = [op EXCEPT ![r].phase = "UNKNOWN"]
    BY <1>2 DEF MarkUnknown
  <2>2. [op[r] EXCEPT !.phase = "UNKNOWN"] \in Operation
    BY <1>1 DEF Operation
  <2>3. /\ op'[r].phase = "UNKNOWN" /\ op'[r].receipt = op[r].receipt /\ op'[r].conn = op[r].conn
        /\ OtherRows(r) /\ op' \in [Requests -> Operation]
    BY <1>1, <2>1, <2>2 DEF OtherRows, Operation
  <2>4. op[r].conn = None
    BY <1>2 DEF OwnerInv, RowsAreTrue
  <2> QED
    BY <1>2, <2>3, <2>4 DEF Learns
<1>3. CASE ~(op[r].phase = "INTENT" /\ ~op[r].receipt)
  BY <1>1, <1>3 DEF MarkUnknown
<1> QED
  BY <1>2, <1>3

\* persist_package_runtime_receipt
LEMMA PersistReceiptRow ==
    ASSUME OwnerInv, NEW r \in Requests, PersistReceipt(r), sends[r] = 1, UNCHANGED <<gate, sends>>
    PROVE  /\ op' \in [Requests -> Operation]
           /\ UNCHANGED op \/ (Learns(r) /\ ~op[r].receipt)
<1>1. op \in [Requests -> Operation] /\ op[r] \in Operation
  BY DEF OwnerInv, TypeOK
<1>2. CASE op[r].phase \in {"INTENT", "UNKNOWN"} /\ ~op[r].receipt
  <2>1. op' = [op EXCEPT ![r].phase = "RECEIPT_PENDING", ![r].receipt = TRUE]
    BY <1>2 DEF PersistReceipt
  <2>2. [[op[r] EXCEPT !.phase = "RECEIPT_PENDING"] EXCEPT !.receipt = TRUE] \in Operation
    BY <1>1 DEF Operation
  <2>3. /\ op'[r].phase = "RECEIPT_PENDING" /\ op'[r].receipt /\ op'[r].conn = op[r].conn
        /\ OtherRows(r) /\ op' \in [Requests -> Operation]
    BY <1>1, <2>1, <2>2 DEF OtherRows, Operation
  <2> QED
    BY <1>2, <2>3 DEF Learns, Pending
<1>3. CASE ~(op[r].phase \in {"INTENT", "UNKNOWN"} /\ ~op[r].receipt)
  BY <1>1, <1>3 DEF PersistReceipt
<1> QED
  BY <1>2, <1>3

\* commit_package_runtime_outcome, with a connection that is not another one than
\* the recorded.
LEMMA CommitRow ==
    ASSUME OwnerInv, NEW r \in Requests, NEW c \in Connections, CommitOutcome(r, c), Pending(r),
           sends[r] = 1, op[r].conn # None => c = op[r].conn, UNCHANGED <<gate, sends>>
    PROVE  /\ op' \in [Requests -> Operation]
           /\ Learns(r) /\ op'[r].receipt /\ op'[r].conn = c
<1>1. op \in [Requests -> Operation] /\ op[r] \in Operation
  BY DEF OwnerInv, TypeOK
<1>2. op' = [op EXCEPT ![r].phase = "RECEIPT_PENDING", ![r].receipt = TRUE, ![r].conn = c]
  BY DEF CommitOutcome
<1>3. [[[op[r] EXCEPT !.phase = "RECEIPT_PENDING"] EXCEPT !.receipt = TRUE] EXCEPT !.conn = c] \in Operation
  BY <1>1 DEF Operation
<1>4. /\ op'[r].phase = "RECEIPT_PENDING" /\ op'[r].receipt /\ op'[r].conn = c
      /\ OtherRows(r) /\ op' \in [Requests -> Operation]
  BY <1>1, <1>2, <1>3 DEF OtherRows, Operation
<1> QED
  BY <1>4 DEF Learns

\* complete_package_runtime_operation
LEMMA CompleteRow ==
    ASSUME OwnerInv, NEW r \in Requests, Completable(r), CompleteOperation(r), op[r].conn # None,
           gate[r] = "completed", UNCHANGED <<gate, sends>>
    PROVE  op' \in [Requests -> Operation] /\ Concludes(r)
<1>1. op \in [Requests -> Operation] /\ op[r] \in Operation
  BY DEF OwnerInv, TypeOK
<1>2. op' = [op EXCEPT ![r].phase = "COMPLETED"] /\ op[r].phase = "RECEIPT_PENDING" /\ op[r].receipt
  BY DEF CompleteOperation, Completable
<1>3. [op[r] EXCEPT !.phase = "COMPLETED"] \in Operation
  BY <1>1 DEF Operation
<1>4. /\ op'[r].phase = "COMPLETED" /\ op'[r].receipt /\ op'[r].conn = op[r].conn
      /\ OtherRows(r) /\ op' \in [Requests -> Operation]
  BY <1>1, <1>2, <1>3 DEF OtherRows, Operation
<1> QED
  BY <1>2, <1>4 DEF Concludes

-----------------------------------------------------------------------------
(* The steps of the calls *)

\* What reconcile knows outlives the steps of the others: no row with a receipt
\* gets another connection.
LEMMA ReconciliationKept ==
    ASSUME OwnerInv, UNCHANGED rec, TypeOK',
           \A s \in Requests : op[s].receipt => /\ op'[s].receipt /\ op'[s].conn = op[s].conn
                                                /\ gate[s] = "completed" => gate'[s] = "completed"
    PROVE  ReconciliationKnows'
<1>1. rec.r \in Requests
  BY DEF OwnerInv, TypeOK, Reconciliation
<1> QED
  BY <1>1 DEF OwnerInv, ReconciliationKnows

\* What activate knows outlives the steps of the others.
LEMMA ActivationKept ==
    ASSUME OwnerInv, UNCHANGED <<act, sends>>,
           \A s \in Requests :
             /\ op[s].phase = "NONE" => op'[s].phase = "NONE"
             /\ op[s].phase \in {"INTENT", "UNKNOWN"} => op'[s].phase \in {"INTENT", "UNKNOWN"}
             /\ op[s].receipt => op'[s].receipt
             /\ op[s].conn # None => op'[s].conn = op[s].conn
             /\ op'[s].phase \in Unfinished => Pending(s)
             /\ gate[s] = "completed" => gate'[s] = "completed"
    PROVE  ActivationKnows'
<1>1. act.r \in Requests
  BY DEF OwnerInv, TypeOK, Activation
<1> QED
  BY <1>1 DEF OwnerInv, ActivationKnows, Pending, Unfinished

\* The steps of activate.
LEMMA ActivateStep ==
    ASSUME OwnerInv,
           \/ \E r \in Requests, i \in Installations : Activate(r, i)
           \/ ActivatePending \/ PersistIntent \/ Exchange \/ Persist \/ CompleteAtGate
           \/ ActivateComplete \/ HandleFailure \/ SaveReceipt \/ ActivateUnknown
    PROVE  TypeOK' /\ RowStep /\ ActivationKnows' /\ ReconciliationKnows'
<1> DEFINE r == act.r
<1>0. /\ TypeOK /\ act \in Activation /\ r \in Requests /\ act.inst \in Installations
      /\ op \in [Requests -> Operation] /\ op[r] \in Operation
      /\ sends \in [Requests -> 0 .. 2] /\ gate \in [Requests -> {"none", "open", "completed"}]
  BY DEF OwnerInv, TypeOK, Activation
<1>1. ASSUME act' = NotActivating PROVE act' \in Activation /\ ActivationKnows'
  BY <1>1, IdleTypes DEF ActivationKnows
<1>2. ASSUME NEW pc \in ActivatePcs, act' = [act EXCEPT !.pc = pc]
      PROVE  act' \in Activation /\ act'.pc = pc /\ act'.r = r
  BY <1>0, <1>2 DEF Activation
<1>3. ASSUME NEW pc \in ActivatePcs, NEW b \in BOOLEAN, act' = [act EXCEPT !.pc = pc, !.receipt = b]
      PROVE  act' \in Activation /\ act'.pc = pc /\ act'.r = r
  <2>1. [[act EXCEPT !.pc = pc] EXCEPT !.receipt = b] \in Activation
    BY <1>0 DEF Activation
  <2> QED
    BY <1>0, <1>3, <2>1 DEF Activation
<1>4. ASSUME NEW q \in Requests, NEW i \in Installations, Activate(q, i)
      PROVE  TypeOK' /\ RowStep /\ ActivationKnows' /\ ReconciliationKnows'
  <2>1. UNCHANGED <<op, gate, sends, runtime, offered, rec, watch>>
    BY <1>4 DEF Activate
  <2>2. /\ act' \in Activation /\ act'.r = q
        /\ act'.pc = "markUnknown" \/ (act'.pc = "pending" /\ op[q].phase = "NONE")
    <3>1. \A pc \in ActivatePcs : /\ Activating(pc, q, i) \in Activation
                                 /\ Activating(pc, q, i).pc = pc /\ Activating(pc, q, i).r = q
      BY DEF Activating, Activation
    <3>2. \/ act' = Activating("markUnknown", q, i)
          \/ act' = Activating("pending", q, i) /\ op[q].phase = "NONE"
      BY <1>4 DEF Activate
    <3> QED
      BY <3>1, <3>2 DEF ActivatePcs
  <2>3. TypeOK' /\ RowStep /\ ReconciliationKnows'
    BY <1>0, <2>1, <2>2 DEF TypeOK, RowStep, OwnerInv, ReconciliationKnows
  <2>4. ActivationKnows'
    BY <2>1, <2>2 DEF ActivationKnows
  <2> QED
    BY <2>3, <2>4
<1>5. ASSUME ActivatePending
      PROVE  TypeOK' /\ RowStep /\ ActivationKnows' /\ ReconciliationKnows'
  <2>1. UNCHANGED <<op, gate, sends, runtime, offered, rec, watch>>
    BY <1>5 DEF ActivatePending
  <2>2. RowStep /\ ReconciliationKnows'
    BY <2>1 DEF RowStep, OwnerInv, ReconciliationKnows
  <2>3. CASE \E s \in Requests : Pending(s)
    BY <1>0, <1>1, <1>5, <2>1, <2>2, <2>3 DEF ActivatePending, TypeOK
  <2>4. CASE ~\E s \in Requests : Pending(s)
    <3>1. act' \in Activation /\ act'.pc = "intent" /\ act'.r = r
      BY <1>2, <1>5, <2>4 DEF ActivatePending, ActivatePcs
    <3>2. TypeOK'
      BY <1>0, <2>1, <3>1 DEF TypeOK
    <3>3. ActivationKnows'
      BY <1>5, <2>1, <2>4, <3>1 DEF ActivatePending, OwnerInv, ActivationKnows, Pending
    <3> QED
      BY <2>2, <3>2, <3>3
  <2> QED
    BY <2>3, <2>4
<1>6. ASSUME PersistIntent
      PROVE  TypeOK' /\ RowStep /\ ActivationKnows' /\ ReconciliationKnows'
  <2>1. UNCHANGED <<gate, sends, runtime, offered, rec, watch>>
    BY <1>6 DEF PersistIntent
  <2>2. CASE act' = NotActivating /\ UNCHANGED op
    BY <1>0, <1>1, <2>1, <2>2 DEF TypeOK, RowStep, OwnerInv, ReconciliationKnows
  <2>3. CASE CreateIntent(r, act.inst) /\ act' = [act EXCEPT !.pc = "exchange"]
    <3>1. op[r].phase = "NONE" /\ \A s \in Requests : ~Pending(s)
      BY <1>6 DEF PersistIntent, OwnerInv, ActivationKnows
    <3>2. sends[r] = 0 /\ ~op[r].receipt
      BY <1>0, <3>1 DEF OwnerInv, RowsAreTrue
    <3>3. act' \in Activation /\ act'.pc = "exchange" /\ act'.r = r
      BY <1>2, <2>3 DEF ActivatePcs
    <3>4. /\ op' \in [Requests -> Operation] /\ op'[r].phase = "INTENT" /\ ~op'[r].receipt
          /\ op'[r].conn = None /\ OtherRows(r)
      BY <1>0, <2>3 DEF CreateIntent, Operation, OtherRows
    <3>5. TypeOK'
      BY <1>0, <2>1, <3>3, <3>4 DEF TypeOK
    <3>6. RowStep
      BY <1>0, <2>1, <3>1, <3>4 DEF RowStep, Intends
    <3>7. ActivationKnows'
      BY <2>1, <3>2, <3>3, <3>4 DEF ActivationKnows
    <3>8. ReconciliationKnows'
      BY <2>1, <3>2, <3>4, <3>5, ReconciliationKept DEF OtherRows
    <3> QED
      BY <3>5, <3>6, <3>7, <3>8
  <2> QED
    BY <1>6, <2>2, <2>3 DEF PersistIntent
<1>7. ASSUME Exchange
      PROVE  TypeOK' /\ RowStep /\ ActivationKnows' /\ ReconciliationKnows'
  <2>1. UNCHANGED <<op, offered, rec, watch>> /\ sends[r] = 0 /\ op[r].phase \in {"INTENT", "UNKNOWN"}
    BY <1>7 DEF Exchange, OwnerInv, ActivationKnows
  <2>2. sends' = [sends EXCEPT ![r] = 1] /\ sends' \in [Requests -> 0 .. 2] /\ sends'[r] = 1
    <3>1. sends' = [sends EXCEPT ![r] = IF sends[r] = 0 THEN 1 ELSE 2]
      BY <1>7 DEF Exchange
    <3> QED
      BY <1>0, <2>1, <3>1
  <2>3. UNCHANGED gate \/ gate' = [gate EXCEPT ![r] = "open"]
    BY <1>7 DEF Exchange
  <2>4. runtime' \in Runtime
    <3>1. UNCHANGED runtime \/ \E c \in Connections : runtime' = [inst |-> act.inst, conn |-> c]
      BY <1>7 DEF Exchange
    <3> QED
      BY <1>0, <3>1 DEF Runtime, TypeOK
  <2>5. act' \in Activation /\ act'.r = r /\ act'.pc \in {"failed", "persist"}
    <3>1. CASE \E b \in BOOLEAN : act' = [act EXCEPT !.pc = "failed", !.receipt = b]
      BY <1>3, <3>1 DEF ActivatePcs
    <3>2. CASE \E c \in Connections \cup {None} : act' = [act EXCEPT !.pc = "persist", !.conn = c]
      <4>1. PICK c \in Connections \cup {None} : act' = [act EXCEPT !.pc = "persist", !.conn = c]
        BY <3>2
      <4>2. [[act EXCEPT !.pc = "persist"] EXCEPT !.conn = c] \in Activation
        BY <1>0 DEF Activation, ActivatePcs
      <4> QED
        BY <1>0, <4>1, <4>2 DEF Activation
    <3>3. runtime'.conn \in Connections \cup {None}
      BY <2>4 DEF Runtime
    <3> QED
      BY <1>7, <3>1, <3>2, <3>3 DEF Exchange
  <2>6. TypeOK'
    BY <1>0, <2>1, <2>2, <2>3, <2>4, <2>5 DEF TypeOK
  <2>7. RowStep
    BY <1>0, <2>1, <2>2, <2>3 DEF RowStep, Sends, Pending
  <2>8. ActivationKnows'
    BY <2>1, <2>2, <2>5 DEF ActivationKnows
  <2>9. ~op[r].receipt
    BY <1>0, <2>1 DEF OwnerInv, RowsAreTrue
  <2>10. ReconciliationKnows'
    BY <1>0, <2>1, <2>3, <2>6, <2>9, ReconciliationKept
  <2> QED
    BY <2>6, <2>7, <2>8, <2>10
<1>8. ASSUME Persist
      PROVE  TypeOK' /\ RowStep /\ ActivationKnows' /\ ReconciliationKnows'
  <2>1. UNCHANGED <<gate, runtime, sends, offered, rec, watch>>
    BY <1>8 DEF Persist
  <2>2. CASE act' = NotActivating /\ UNCHANGED op
    BY <1>0, <1>1, <2>1, <2>2 DEF TypeOK, RowStep, OwnerInv, ReconciliationKnows
  <2>3. CASE act.conn # None /\ CommitOutcome(r, act.conn) /\ act' = [act EXCEPT !.pc = "gate"]
    <3>1. sends[r] = 1 /\ op[r].phase \in {"INTENT", "UNKNOWN"}
      BY <1>8 DEF Persist, OwnerInv, ActivationKnows
    <3>2. ~op[r].receipt /\ op[r].conn = None /\ Pending(r) /\ act.conn \in Connections
      BY <1>0, <2>3, <3>1 DEF OwnerInv, RowsAreTrue, Pending, Activation
    <3>3. /\ op' \in [Requests -> Operation]
          /\ Learns(r) /\ op'[r].receipt /\ op'[r].conn = act.conn
      BY <1>0, <2>1, <2>3, <3>1, <3>2, CommitRow
    <3>4. act' \in Activation /\ act'.pc = "gate" /\ act'.r = r
      BY <1>2, <2>3 DEF ActivatePcs
    <3>5. TypeOK' /\ RowStep
      BY <1>0, <2>1, <3>3, <3>4 DEF TypeOK, RowStep
    <3>6. ActivationKnows'
      BY <2>1, <2>3, <3>1, <3>3, <3>4 DEF ActivationKnows
    <3>7. ReconciliationKnows'
      BY <2>1, <3>2, <3>3, <3>5, ReconciliationKept DEF Learns, OtherRows
    <3> QED
      BY <3>5, <3>6, <3>7
  <2> QED
    BY <1>8, <2>2, <2>3 DEF Persist
<1>9. ASSUME CompleteAtGate
      PROVE  TypeOK' /\ RowStep /\ ActivationKnows' /\ ReconciliationKnows'
  <2>1. /\ UNCHANGED <<op, runtime, sends, offered, rec, watch>>
        /\ sends[r] = 1 /\ op[r].receipt /\ op[r].conn # None
    BY <1>9 DEF CompleteAtGate, OwnerInv, ActivationKnows
  <2>2. /\ act' \in Activation /\ act'.r = r
        /\ \/ act'.pc = "failed" /\ UNCHANGED gate
           \/ act'.pc \in {"complete", "failed"} /\ gate' = [gate EXCEPT ![r] = "completed"]
    BY <1>2, <1>3, <1>9 DEF CompleteAtGate, ActivatePcs
  <2>3. TypeOK'
    BY <1>0, <2>1, <2>2 DEF TypeOK
  <2>4. RowStep
    BY <1>0, <2>1, <2>2 DEF RowStep, GateEnds
  <2>5. ActivationKnows'
    BY <1>0, <2>1, <2>2 DEF ActivationKnows
  <2>6. ReconciliationKnows'
    BY <1>0, <2>1, <2>2, <2>3, ReconciliationKept
  <2> QED
    BY <2>3, <2>4, <2>5, <2>6
<1>10. ASSUME ActivateComplete
       PROVE  TypeOK' /\ RowStep /\ ActivationKnows' /\ ReconciliationKnows'
  <2>1. /\ UNCHANGED <<gate, runtime, sends, offered, rec, watch>>
        /\ sends[r] = 1 /\ op[r].receipt /\ op[r].conn # None /\ gate[r] = "completed"
    BY <1>10 DEF ActivateComplete, OwnerInv, ActivationKnows
  <2>2. CASE Completable(r) /\ CompleteOperation(r) /\ act' = NotActivating
    <3>1. op' \in [Requests -> Operation] /\ Concludes(r)
      BY <1>0, <2>1, <2>2, CompleteRow
    <3>2. TypeOK' /\ RowStep
      BY <1>0, <1>1, <2>1, <2>2, <3>1 DEF TypeOK, RowStep
    <3>3. ReconciliationKnows'
      BY <2>1, <3>1, <3>2, ReconciliationKept DEF Concludes, OtherRows
    <3> QED
      BY <1>1, <2>2, <3>2, <3>3
  <2>3. CASE act' = [act EXCEPT !.pc = "failed", !.receipt = FALSE] /\ UNCHANGED op
    <3>1. act' \in Activation /\ act'.pc = "failed" /\ act'.r = r
      BY <1>3, <2>3 DEF ActivatePcs
    <3>2. TypeOK' /\ RowStep /\ ReconciliationKnows'
      BY <1>0, <2>1, <2>3, <3>1 DEF TypeOK, RowStep, OwnerInv, ReconciliationKnows
    <3>3. ActivationKnows'
      BY <2>1, <3>1 DEF ActivationKnows
    <3> QED
      BY <3>2, <3>3
  <2> QED
    BY <1>10, <2>2, <2>3 DEF ActivateComplete
<1>11. ASSUME HandleFailure
       PROVE  TypeOK' /\ RowStep /\ ActivationKnows' /\ ReconciliationKnows'
  <2>1. UNCHANGED <<op, gate, runtime, sends, rec, watch>> /\ sends[r] = 1
    BY <1>11 DEF HandleFailure, OwnerInv, ActivationKnows
  <2>2. offered' \subseteq Requests
    BY <1>0, <1>11 DEF HandleFailure, TypeOK
  <2>3. act' = NotActivating \/ \E pc \in {"saveReceipt", "markUnknown"} : act' = [act EXCEPT !.pc = pc]
    BY <1>11 DEF HandleFailure
  <2>4. act' = NotActivating \/ (act' \in Activation /\ act'.pc \in {"saveReceipt", "markUnknown"} /\ act'.r = r)
    BY <1>2, <2>3 DEF ActivatePcs
  <2>5. TypeOK' /\ RowStep /\ ReconciliationKnows'
    BY <1>0, <1>1, <2>1, <2>2, <2>4 DEF TypeOK, RowStep, OwnerInv, ReconciliationKnows
  <2>6. ActivationKnows'
    BY <1>1, <2>1, <2>4 DEF ActivationKnows
  <2> QED
    BY <2>5, <2>6
<1>12. ASSUME SaveReceipt
       PROVE  TypeOK' /\ RowStep /\ ActivationKnows' /\ ReconciliationKnows'
  <2>1. /\ UNCHANGED <<gate, runtime, sends, rec, watch>> /\ sends[r] = 1
        /\ act' = NotActivating /\ offered' = offered \cup {r}
    BY <1>12 DEF SaveReceipt, OwnerInv, ActivationKnows
  <2>2. op' \in [Requests -> Operation] /\ (UNCHANGED op \/ (Learns(r) /\ ~op[r].receipt))
    BY <1>0, <1>12, <2>1, PersistReceiptRow DEF SaveReceipt
  <2>3. TypeOK' /\ RowStep
    BY <1>0, <1>1, <2>1, <2>2 DEF TypeOK, RowStep
  <2>4. ReconciliationKnows'
    BY <2>1, <2>2, <2>3, ReconciliationKept DEF Learns, OtherRows
  <2> QED
    BY <1>1, <2>1, <2>3, <2>4
<1>13. ASSUME ActivateUnknown
       PROVE  TypeOK' /\ RowStep /\ ActivationKnows' /\ ReconciliationKnows'
  <2>1. UNCHANGED <<gate, runtime, sends, offered, rec, watch>> /\ act' = NotActivating
    BY <1>13 DEF ActivateUnknown
  <2>2. /\ op' \in [Requests -> Operation]
        /\ UNCHANGED op \/ (Learns(r) /\ op'[r].phase = "UNKNOWN" /\ op'[r].conn = op[r].conn)
    BY <1>0, <1>13, <2>1, MarkUnknownRow DEF ActivateUnknown
  <2>3. TypeOK' /\ RowStep
    BY <1>0, <1>1, <2>1, <2>2 DEF TypeOK, RowStep
  <2>4. ReconciliationKnows'
    BY <2>1, <2>2, <2>3, ReconciliationKept DEF Learns, OtherRows
  <2> QED
    BY <1>1, <2>1, <2>3, <2>4
<1> QED
  BY <1>4, <1>5, <1>6, <1>7, <1>8, <1>9, <1>10, <1>11, <1>12, <1>13

\* The steps of reconcile.
LEMMA ReconcileStep ==
    ASSUME OwnerInv,
           \/ \E r \in Requests : Reconcile(r)
           \/ ReconcileQuery \/ ReconcileCommit \/ ReconcileGate \/ ReconcileComplete
    PROVE  TypeOK' /\ RowStep /\ ActivationKnows' /\ ReconciliationKnows'
<1> DEFINE r == rec.r
<1>0. /\ TypeOK /\ rec \in Reconciliation /\ r \in Requests
      /\ op \in [Requests -> Operation] /\ op[r] \in Operation
      /\ gate \in [Requests -> {"none", "open", "completed"}]
  BY DEF OwnerInv, TypeOK, Reconciliation
<1>1. ASSUME rec' = NotReconciling PROVE rec' \in Reconciliation /\ ReconciliationKnows'
  BY <1>1, IdleTypes DEF ReconciliationKnows
<1>2. ASSUME NEW pc \in ReconcilePcs, rec' = [rec EXCEPT !.pc = pc]
      PROVE  rec' \in Reconciliation /\ rec'.pc = pc /\ rec'.r = r
  BY <1>0, <1>2 DEF Reconciliation
<1>3. ASSUME UNCHANGED <<op, gate, sends, act>> PROVE RowStep /\ ActivationKnows'
  BY <1>3 DEF RowStep, OwnerInv, ActivationKnows, Pending
<1>4. ASSUME NEW q \in Requests, Reconcile(q)
      PROVE  TypeOK' /\ RowStep /\ ActivationKnows' /\ ReconciliationKnows'
  <2>1. /\ UNCHANGED <<op, gate, runtime, sends, offered, act, watch>> /\ op[q].receipt
        /\ rec' = [pc |-> "query", r |-> q, prev |-> op[q].conn, conn |-> None]
    BY <1>4 DEF Reconcile
  <2>2. op[q].conn \in Connections \cup {None}
    BY <1>0 DEF Operation
  <2>3. /\ rec' \in Reconciliation /\ rec'.pc = "query" /\ rec'.r = q /\ rec'.prev = op[q].conn
    BY <2>1, <2>2 DEF Reconciliation, ReconcilePcs
  <2>4. TypeOK'
    BY <1>0, <2>1, <2>3 DEF TypeOK
  <2>5. ReconciliationKnows'
    BY <2>1, <2>3 DEF ReconciliationKnows
  <2> QED
    BY <1>3, <2>1, <2>4, <2>5
<1>5. ASSUME ReconcileQuery
      PROVE  TypeOK' /\ RowStep /\ ActivationKnows' /\ ReconciliationKnows'
  <2>1. UNCHANGED <<op, gate, runtime, sends, offered, act, watch>>
    BY <1>5 DEF ReconcileQuery
  <2>2. CASE rec' = NotReconciling
    BY <1>0, <1>1, <1>3, <2>1, <2>2 DEF TypeOK
  <2>3. CASE \E c \in Connections \cup {None} : rec' = [rec EXCEPT !.pc = "commit", !.conn = c]
    <3>1. PICK c \in Connections \cup {None} : rec' = [rec EXCEPT !.pc = "commit", !.conn = c]
      BY <2>3
    <3>2. [[rec EXCEPT !.pc = "commit"] EXCEPT !.conn = c] \in Reconciliation
      BY <1>0 DEF Reconciliation, ReconcilePcs
    <3>3. rec' \in Reconciliation /\ rec'.pc = "commit" /\ rec'.r = r /\ rec'.prev = rec.prev
      BY <1>0, <3>1, <3>2 DEF Reconciliation
    <3>4. TypeOK'
      BY <1>0, <2>1, <3>3 DEF TypeOK
    <3>5. ReconciliationKnows'
      BY <1>5, <2>1, <3>3 DEF ReconcileQuery, OwnerInv, ReconciliationKnows
    <3> QED
      BY <1>3, <2>1, <3>4, <3>5
  <2>4. runtime.conn \in Connections \cup {None}
    BY <1>0 DEF TypeOK, Runtime
  <2> QED
    BY <1>5, <2>2, <2>3, <2>4 DEF ReconcileQuery
<1>6. ASSUME ReconcileCommit
      PROVE  TypeOK' /\ RowStep /\ ActivationKnows' /\ ReconciliationKnows'
  <2>1. /\ UNCHANGED <<gate, runtime, sends, offered, act, watch>>
        /\ op[r].receipt /\ op[r].conn = rec.prev
    BY <1>6 DEF ReconcileCommit, OwnerInv, ReconciliationKnows
  <2>2. CASE rec' = NotReconciling /\ UNCHANGED op
    BY <1>0, <1>1, <1>3, <2>1, <2>2 DEF TypeOK
  <2>3. CASE ReconcileAccepts /\ CommitOutcome(r, rec.conn) /\ rec' = [rec EXCEPT !.pc = "gate"]
    <3>1. rec.conn \in Connections /\ (op[r].conn # None => rec.conn = op[r].conn) /\ Pending(r)
      BY <1>0, <2>1, <2>3 DEF ReconcileAccepts, Reconciliation
    <3>2. sends[r] = 1 /\ op[r].phase \notin {"NONE", "INTENT", "UNKNOWN"}
      BY <1>0, <2>1 DEF OwnerInv, RowsAreTrue
    <3>3. op' \in [Requests -> Operation] /\ Learns(r) /\ op'[r].receipt /\ op'[r].conn = rec.conn
      BY <1>0, <2>1, <2>3, <3>1, <3>2, CommitRow
    <3>4. rec' \in Reconciliation /\ rec'.pc = "gate" /\ rec'.r = r
      BY <1>2, <2>3 DEF ReconcilePcs
    <3>5. TypeOK' /\ RowStep
      BY <1>0, <2>1, <3>3, <3>4 DEF TypeOK, RowStep
    <3>6. ActivationKnows'
      BY <2>1, <3>1, <3>2, <3>3, ActivationKept DEF Learns, OtherRows, Pending, Unfinished
    <3>7. ReconciliationKnows'
      BY <3>1, <3>3, <3>4, OwnerAssumption DEF ReconciliationKnows
    <3> QED
      BY <3>5, <3>6, <3>7
  <2> QED
    BY <1>6, <2>2, <2>3 DEF ReconcileCommit
<1>7. ASSUME ReconcileGate
      PROVE  TypeOK' /\ RowStep /\ ActivationKnows' /\ ReconciliationKnows'
  <2>1. /\ UNCHANGED <<op, runtime, sends, offered, act, watch>>
        /\ op[r].receipt /\ op[r].conn # None
    BY <1>7 DEF ReconcileGate, OwnerInv, ReconciliationKnows
  <2>2. CASE rec' = NotReconciling /\ UNCHANGED gate
    BY <1>0, <1>1, <1>3, <2>1, <2>2 DEF TypeOK
  <2>3. CASE /\ gate' = [gate EXCEPT ![r] = "completed"]
             /\ rec' \in {[rec EXCEPT !.pc = "complete"], NotReconciling}
    <3>1. \/ rec' = NotReconciling
          \/ rec' \in Reconciliation /\ rec'.pc = "complete" /\ rec'.r = r
      BY <1>2, <2>3 DEF ReconcilePcs
    <3>2. TypeOK'
      BY <1>0, <1>1, <2>1, <2>3, <3>1 DEF TypeOK
    <3>3. RowStep
      BY <1>0, <2>1, <2>3 DEF RowStep, GateEnds
    <3>4. ActivationKnows'
      BY <1>0, <2>1, <2>3, ActivationKept DEF Pending, Unfinished
    <3>5. ReconciliationKnows'
      BY <1>0, <1>1, <2>1, <2>3, <3>1 DEF ReconciliationKnows
    <3> QED
      BY <3>2, <3>3, <3>4, <3>5
  <2> QED
    BY <1>7, <2>2, <2>3 DEF ReconcileGate
<1>8. ASSUME ReconcileComplete
      PROVE  TypeOK' /\ RowStep /\ ActivationKnows' /\ ReconciliationKnows'
  <2>1. /\ UNCHANGED <<gate, runtime, sends, offered, act, watch>> /\ rec' = NotReconciling
        /\ op[r].receipt /\ op[r].conn # None /\ gate[r] = "completed"
    BY <1>8 DEF ReconcileComplete, OwnerInv, ReconciliationKnows
  <2>2. CASE UNCHANGED op
    BY <1>0, <1>1, <1>3, <2>1, <2>2 DEF TypeOK
  <2>3. CASE Completable(r) /\ CompleteOperation(r)
    <3>1. op' \in [Requests -> Operation] /\ Concludes(r)
      BY <1>0, <2>1, <2>3, CompleteRow
    <3>2. TypeOK' /\ RowStep
      BY <1>0, <1>1, <2>1, <3>1 DEF TypeOK, RowStep
    <3>3. ActivationKnows'
      BY <2>1, <3>1, ActivationKept DEF Concludes, OtherRows, Pending, Unfinished
    <3> QED
      BY <1>1, <2>1, <3>2, <3>3
  <2> QED
    BY <1>8, <2>2, <2>3 DEF ReconcileComplete
<1> QED
  BY <1>4, <1>5, <1>6, <1>7, <1>8

\* The steps of status, of the supervisor and the crash.
LEMMA OtherStep ==
    ASSUME OwnerInv,
           \/ \E w \in Watchers, r \in Requests : Status(w, r)
           \/ \E w \in Watchers : StatusUnknown(w)
           \/ RuntimeChanges \/ Crash \/ UNCHANGED vars
    PROVE  TypeOK' /\ RowStep /\ ActivationKnows' /\ ReconciliationKnows'
<1>0. TypeOK
  BY DEF OwnerInv
<1>1. ASSUME UNCHANGED <<op, gate, sends>> PROVE RowStep
  BY <1>1 DEF RowStep
<1>2. ASSUME UNCHANGED <<op, gate, sends, act, rec>> PROVE ActivationKnows' /\ ReconciliationKnows'
  BY <1>2 DEF OwnerInv, ActivationKnows, ReconciliationKnows, Pending
<1>3. ASSUME NEW w \in Watchers, NEW r \in Requests, Status(w, r)
      PROVE  TypeOK' /\ RowStep /\ ActivationKnows' /\ ReconciliationKnows'
  <2>1. TypeOK'
    BY <1>0, <1>3 DEF Status, TypeOK
  <2> QED
    BY <1>1, <1>2, <1>3, <2>1 DEF Status
<1>4. ASSUME NEW w \in Watchers, StatusUnknown(w)
      PROVE  TypeOK' /\ RowStep /\ ActivationKnows' /\ ReconciliationKnows'
  <2> DEFINE r == watch[w]
  <2>1. r \in Requests /\ UNCHANGED <<gate, runtime, sends, offered, act, rec>>
    BY <1>0, <1>4 DEF StatusUnknown, TypeOK
  <2>2. /\ op' \in [Requests -> Operation]
        /\ UNCHANGED op \/ (Learns(r) /\ op'[r].phase = "UNKNOWN" /\ op'[r].conn = op[r].conn)
    BY <1>4, <2>1, MarkUnknownRow DEF StatusUnknown
  <2>3. TypeOK'
    BY <1>0, <1>4, <2>1, <2>2 DEF StatusUnknown, TypeOK
  <2>4. RowStep
    BY <2>1, <2>2 DEF RowStep
  <2>5. ActivationKnows'
    <3>1. CASE UNCHANGED op
      BY <1>2, <2>1, <3>1
    <3>2. CASE Learns(r) /\ op'[r].phase = "UNKNOWN"
      BY <2>1, <3>2, ActivationKept DEF Learns, OtherRows, Pending, Unfinished
    <3> QED
      BY <2>2, <3>1, <3>2
  <2>6. ReconciliationKnows'
    BY <2>1, <2>2, <2>3, ReconciliationKept DEF Learns, OtherRows
  <2> QED
    BY <2>3, <2>4, <2>5, <2>6
<1>5. ASSUME RuntimeChanges
      PROVE  TypeOK' /\ RowStep /\ ActivationKnows' /\ ReconciliationKnows'
  BY <1>0, <1>1, <1>2, <1>5 DEF RuntimeChanges, TypeOK
<1>6. ASSUME Crash
      PROVE  TypeOK' /\ RowStep /\ ActivationKnows' /\ ReconciliationKnows'
  <2>1. act' = NotActivating /\ rec' = NotReconciling
    BY <1>6 DEF Crash
  <2>2. ActivationKnows' /\ ReconciliationKnows'
    BY <2>1, IdleTypes DEF ActivationKnows, ReconciliationKnows
  <2>3. TypeOK'
    BY <1>0, <1>6, IdleTypes DEF Crash, TypeOK
  <2> QED
    BY <1>1, <1>6, <2>2, <2>3 DEF Crash
<1>7. ASSUME UNCHANGED vars
      PROVE  TypeOK' /\ RowStep /\ ActivationKnows' /\ ReconciliationKnows'
  BY <1>0, <1>1, <1>2, <1>7 DEF vars, TypeOK
<1> QED
  BY <1>3, <1>4, <1>5, <1>6, <1>7

\* What a step does to the rows keeps what the rows say.
LEMMA RowsKept ==
    ASSUME OwnerInv, TypeOK', RowStep
    PROVE  OneUnfinished' /\ RowsAreTrue' /\ CompletedIsTrue'
<1>0. /\ sends \in [Requests -> 0 .. 2] /\ gate \in [Requests -> {"none", "open", "completed"}]
      /\ OneUnfinished /\ RowsAreTrue /\ CompletedIsTrue
  BY DEF OwnerInv, TypeOK
<1>1. CASE UNCHANGED <<op, gate, sends>>
  BY <1>0, <1>1 DEF OneUnfinished, RowsAreTrue, CompletedIsTrue, Pending
<1>2. ASSUME NEW r \in Requests, Intends(r)
      PROVE  OneUnfinished' /\ RowsAreTrue' /\ CompletedIsTrue'
  BY <1>0, <1>2 DEF Intends, OtherRows, OneUnfinished, RowsAreTrue, CompletedIsTrue, Pending
<1>3. ASSUME NEW r \in Requests, Sends(r)
      PROVE  OneUnfinished' /\ RowsAreTrue' /\ CompletedIsTrue'
  <2>1. OneUnfinished'
    BY <1>0, <1>3 DEF Sends, OneUnfinished, Pending
  <2>2. RowsAreTrue'
    BY <1>0, <1>3 DEF Sends, RowsAreTrue, Pending
  <2>3. CompletedIsTrue'
    BY <1>0, <1>3 DEF Sends, CompletedIsTrue, Pending
  <2> QED
    BY <2>1, <2>2, <2>3
<1>4. ASSUME NEW r \in Requests, Learns(r)
      PROVE  OneUnfinished' /\ RowsAreTrue' /\ CompletedIsTrue'
  <2>1. OneUnfinished'
    BY <1>0, <1>4 DEF Learns, OtherRows, OneUnfinished, Pending
  <2>2. RowsAreTrue'
    BY <1>0, <1>4 DEF Learns, OtherRows, RowsAreTrue, Pending
  <2>3. CompletedIsTrue'
    BY <1>0, <1>4 DEF Learns, OtherRows, CompletedIsTrue
  <2> QED
    BY <2>1, <2>2, <2>3
<1>5. ASSUME NEW r \in Requests, GateEnds(r)
      PROVE  OneUnfinished' /\ RowsAreTrue' /\ CompletedIsTrue'
  <2>1. OneUnfinished'
    BY <1>0, <1>5 DEF GateEnds, OneUnfinished, Pending
  <2>2. RowsAreTrue'
    BY <1>0, <1>5 DEF GateEnds, RowsAreTrue
  <2>3. CompletedIsTrue'
    BY <1>0, <1>5 DEF GateEnds, CompletedIsTrue
  <2> QED
    BY <2>1, <2>2, <2>3
<1>6. ASSUME NEW r \in Requests, Concludes(r)
      PROVE  OneUnfinished' /\ RowsAreTrue' /\ CompletedIsTrue'
  <2>1. OneUnfinished'
    BY <1>0, <1>6 DEF Concludes, OtherRows, OneUnfinished, Pending
  <2>2. RowsAreTrue'
    BY <1>0, <1>6 DEF Concludes, OtherRows, RowsAreTrue
  <2>3. CompletedIsTrue'
    BY <1>0, <1>6 DEF Concludes, OtherRows, CompletedIsTrue
  <2> QED
    BY <2>1, <2>2, <2>3
<1> QED
  BY <1>1, <1>2, <1>3, <1>4, <1>5, <1>6 DEF RowStep

\* OwnerInv is inductive, and every step is a step of the rows.
LEMMA OwnerStep == ASSUME OwnerInv, [Next]_vars PROVE OwnerInv' /\ RowStep
<1>1. TypeOK' /\ RowStep /\ ActivationKnows' /\ ReconciliationKnows'
  BY ActivateStep, ReconcileStep, OtherStep DEF Next
<1> QED
  BY <1>1, RowsKept DEF OwnerInv

-----------------------------------------------------------------------------
(* Theorems *)

\* The inductive invariant: what activate and reconcile have made sure of is still
\* so when they act on it, although neither status nor reconcile takes the lock.
THEOREM OwnerInvariant == Spec => []OwnerInv
<1>1. Init => OwnerInv
  <2> SUFFICES ASSUME Init PROVE OwnerInv
    OBVIOUS
  <2>1. TypeOK
    BY IdleTypes DEF Init, TypeOK, Runtime
  <2>2. /\ \A r \in Requests : op[r].phase = "NONE" /\ ~op[r].receipt /\ op[r].conn = None
        /\ \A r \in Requests : sends[r] = 0 /\ gate[r] = "none"
        /\ act.pc = "idle" /\ rec.pc = "idle"
    BY IdleTypes DEF Init, NoOperation
  <2>3. OneUnfinished /\ RowsAreTrue /\ CompletedIsTrue
    BY <2>2 DEF OneUnfinished, RowsAreTrue, CompletedIsTrue, Pending
  <2>4. ActivationKnows /\ ReconciliationKnows
    BY <2>2 DEF ActivationKnows, ReconciliationKnows
  <2> QED
    BY <2>1, <2>3, <2>4 DEF OwnerInv
<1>2. OwnerInv /\ [Next]_vars => OwnerInv'
  BY OwnerStep
<1> QED
  BY <1>1, <1>2, PTL DEF Spec

\* Type correctness of the owner's rows and of the locals of its calls.
THEOREM OwnerTypeCorrect == Spec => []TypeOK
<1>1. OwnerInv => TypeOK
  BY DEF OwnerInv
<1> QED
  BY <1>1, OwnerInvariant, PTL

\* COMPLETED is said only of an operation that the Gate has completed and whose
\* outcome and receipt are stored, whichever of activate and reconcile says it.
THEOREM CompletionIsTrue == Spec => []CompletedIsTrue
<1>1. OwnerInv => CompletedIsTrue
  BY DEF OwnerInv
<1> QED
  BY <1>1, OwnerInvariant, PTL

\* Phases never go back, and neither a receipt nor a recorded connection is ever
\* lost or replaced, by activate, reconcile, status or a crash.
THEOREM EvidenceKept == Spec => EvidenceIsKept
<1>1. OwnerInv /\ [Next]_vars => [EvidenceStep]_vars
  <2> SUFFICES ASSUME OwnerInv, [Next]_vars, NEW s \in Requests
               PROVE  /\ Rank[op[s].phase] <= Rank[op'[s].phase]
                      /\ op[s].receipt => op'[s].receipt
                      /\ op[s].conn # None => op'[s].conn = op[s].conn
    BY DEF EvidenceStep
  <2>1. /\ Rank["NONE"] = 0 /\ Rank["INTENT"] = 1 /\ Rank["UNKNOWN"] = 2
        /\ Rank["RECEIPT_PENDING"] = 3 /\ Rank["COMPLETED"] = 4
    BY DEF Rank
  <2>2. op[s].phase \in {"NONE", "INTENT", "UNKNOWN", "RECEIPT_PENDING", "COMPLETED"}
    BY DEF OwnerInv, TypeOK, Operation
  <2>3. CASE op'[s] = op[s]
    BY <2>1, <2>2, <2>3
  <2>4. CASE Intends(s) \/ Learns(s) \/ Concludes(s)
    BY <2>1, <2>2, <2>4 DEF Intends, Learns, Concludes, Pending, OwnerInv, RowsAreTrue
  <2>5. op'[s] = op[s] \/ Intends(s) \/ Learns(s) \/ Concludes(s)
    BY OwnerStep DEF RowStep, Intends, Sends, Learns, GateEnds, Concludes, OtherRows
  <2> QED
    BY <2>3, <2>4, <2>5
<1> QED
  BY <1>1, OwnerInvariant, PTL DEF Spec, EvidenceIsKept

\* The owner implements ActivateOnce: one operation at a time, on record before it is
\* sent, sent at most once, finished only after the Gate has finished it.
THEOREM OwnerActivatesOnce == Spec => ActivatesOnce
<1>1. Init => Once!OnceInit
  BY DEF Init, Once!OnceInit, NoOperation, Stage
<1>2. OwnerInv /\ [Next]_vars => [Once!OnceNext]_(Once!onceVars)
  <2> SUFFICES ASSUME OwnerInv, [Next]_vars PROVE [Once!OnceNext]_(Once!onceVars)
    OBVIOUS
  <2> DEFINE stage == [r \in Requests |-> Stage(op[r].phase)]
             ended == {r \in Requests : gate[r] = "completed"}
  <2>0. /\ OwnerInv' /\ RowStep
        /\ gate \in [Requests -> {"none", "open", "completed"}]
        /\ sends \in [Requests -> 0 .. 2] /\ op \in [Requests -> Operation]
    BY OwnerStep DEF OwnerInv, TypeOK
  <2>1. /\ \A r \in Requests : /\ stage[r] = "new" <=> op[r].phase = "NONE"
                               /\ stage[r] = "finished" <=> op[r].phase = "COMPLETED"
                               /\ stage[r] = "unfinished" <=> Pending(r)
        /\ \A r \in Requests : stage[r] = Stage(op[r].phase) /\ stage'[r] = Stage(op'[r].phase)
        /\ Stage("NONE") = "new" /\ Stage("INTENT") = "unfinished" /\ Stage("UNKNOWN") = "unfinished"
        /\ Stage("RECEIPT_PENDING") = "unfinished" /\ Stage("COMPLETED") = "finished"
    BY <2>0 DEF Stage, Pending, Operation
  <2>2. CASE UNCHANGED <<op, gate, sends>>
    BY <2>2 DEF Once!onceVars
  <2>3. ASSUME NEW r \in Requests, Intends(r) PROVE Once!OnceNext
    <3>0. \A s \in Requests : stage'[s] = IF s = r THEN "unfinished" ELSE stage[s]
      BY <2>1, <2>3 DEF Intends, OtherRows
    <3>1. stage' = [stage EXCEPT ![r] = "unfinished"]
      BY <3>0
    <3>2. Once!Intend(r)
      BY <2>1, <2>3, <3>1 DEF Intends, Once!Intend
    <3> QED
      BY <3>2 DEF Once!OnceNext
  <2>4. ASSUME NEW r \in Requests, Sends(r) PROVE Once!OnceNext
    <3>1. gate[r] = "none"
      BY <2>4 DEF Sends, OwnerInv, RowsAreTrue
    <3>2. ended' = ended /\ stage' = stage
      BY <2>0, <2>4, <3>1 DEF Sends
    <3>3. Once!Send(r)
      BY <2>1, <2>4, <3>2 DEF Sends, Once!Send
    <3> QED
      BY <3>3 DEF Once!OnceNext
  <2>5. ASSUME NEW r \in Requests, Learns(r) PROVE UNCHANGED Once!onceVars
    <3>1. stage' = stage
      BY <2>1, <2>5 DEF Learns, OtherRows, Pending
    <3> QED
      BY <2>5, <3>1 DEF Learns, Once!onceVars
  <2>6. ASSUME NEW r \in Requests, GateEnds(r) PROVE [Once!OnceNext]_(Once!onceVars)
    <3>1. /\ ended' = ended \cup {r} /\ stage' = stage /\ sends' = sends
          /\ sends[r] = 1 /\ op[r].phase \in {"RECEIPT_PENDING", "COMPLETED"}
      BY <2>0, <2>6 DEF GateEnds, OwnerInv, RowsAreTrue, Operation
    <3>2. CASE op[r].phase = "RECEIPT_PENDING"
      <4>1. Once!End(r)
        BY <2>1, <3>1, <3>2 DEF Once!End
      <4> QED
        BY <4>1 DEF Once!OnceNext
    <3>3. CASE op[r].phase = "COMPLETED"
      <4>1. r \in ended
        BY <3>3 DEF OwnerInv, CompletedIsTrue
      <4> QED
        BY <3>1, <4>1 DEF Once!onceVars
    <3> QED
      BY <3>1, <3>2, <3>3
  <2>7. ASSUME NEW r \in Requests, Concludes(r) PROVE Once!OnceNext
    <3>0. \A s \in Requests : stage'[s] = IF s = r THEN "finished" ELSE stage[s]
      BY <2>1, <2>7 DEF Concludes, OtherRows
    <3>1. stage' = [stage EXCEPT ![r] = "finished"]
      BY <3>0
    <3>2. stage[r] = "unfinished"
      BY <2>1, <2>7 DEF Concludes
    <3>3. Once!Conclude(r)
      BY <2>7, <3>1, <3>2 DEF Concludes, Once!Conclude
    <3> QED
      BY <3>3 DEF Once!OnceNext
  <2> HIDE DEF stage, ended
  <2> QED
    BY <2>0, <2>2, <2>3, <2>4, <2>5, <2>6, <2>7 DEF RowStep
<1> QED
  BY <1>1, <1>2, OwnerInvariant, PTL DEF Spec, ActivatesOnce, Once!OnceSpec
=============================================================================
