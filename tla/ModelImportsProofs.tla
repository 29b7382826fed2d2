------------------------- MODULE ModelImportsProofs -------------------------
(***************************************************************************)
(* For any imports, Workspaces, keys and request bodies: the properties of *)
(* model imports follow from ImportsInv, which every step keeps.           *)
(***************************************************************************)
EXTENDS ModelImports, TLAPS

\* The rows of a request exist: the locals of an idle command are well-typed.
LEMMA IdleTyped ==
    Idle \in Call /\ NoImport \in Import
BY ImportsAssumption DEF Idle, NoImport, Call, Import, States, Scopes, Pcs

\* A new database satisfies the invariant.
LEMMA InitInv ==
    ASSUME Init
    PROVE  ImportsInv
<1> USE ImportsAssumption, IdleTyped DEF Init
<1>1. TypeOK
  BY DEF TypeOK, Scopes
<1>2. \A i \in Imports : imports[i].state = "NONE" /\ calls[i] = 0
  BY DEF NoImport
<1>3. KeysAreStored /\ EngineCalledOnce
  BY <1>2 DEF KeysAreStored, EngineCalledOnce
<1>4. CommandFacts /\ AnswersStayInScope
  BY DEF CommandFacts, AnswersStayInScope, Idle
<1> QED
  BY <1>1, <1>2, <1>3, <1>4 DEF ImportsInv

\* Every step keeps the invariant.
LEMMA StepInv ==
    ASSUME ImportsInv, [Next]_vars
    PROVE  ImportsInv'
<1> USE ImportsAssumption, IdleTyped
<1> USE DEF ImportsInv, TypeOK, stored, outside
<1>1. CASE \E scope \in Scopes, key \in Keys \cup {NoKey}, req \in Requests :
             Create(scope, key, req) \/ Replay(scope, key, req)
  <2>1. PICK scope \in Scopes, key \in Keys \cup {NoKey}, req \in Requests :
             Create(scope, key, req) \/ Replay(scope, key, req)
    BY <1>1
  <2>2. CASE Create(scope, key, req)
    <3>1. TypeOK'
      BY <2>2 DEF Create, Resolve, CommandFacts, States, Import, Call, Pcs, Answers, Scopes
    <3>2. KeysAreStored'
      BY <2>2 DEF Create, Resolve, CommandFacts, KeysAreStored, Call, Import, Scopes
    <3>3. CommandFacts'
      <4>1. PICK i \in Imports :
              /\ imports[i].state = "NONE"
              /\ call' = [pc |-> "admit", i |-> i, scope |-> scope, key |-> key, req |-> req,
                          ok |-> FALSE]
        BY <2>2 DEF Create
      <4>2. /\ call'.pc = "admit" /\ call'.i = i /\ call'.scope = scope /\ call'.key = key
            /\ UNCHANGED <<imports, idem, calls, tasks, published, grants>>
        BY <2>2, <4>1 DEF Create
      <4>3. calls[i] = 0
        <5>1. calls[i] \in Nat /\ calls[i] <= 1 /\ calls[i] # 1
          BY <4>1 DEF EngineCalledOnce
        <5> QED
          BY <5>1, SMTT(30)
      <4>4. Granted(scope)'
        BY <2>2, <4>2 DEF Create, Granted
      <4>5. key # NoKey => idem[<<scope, key>>] = None
        BY <2>2 DEF Create, Resolve
      <4> QED
        BY <4>1, <4>2, <4>3, <4>4, <4>5 DEF CommandFacts
    <3>4. EngineCalledOnce'
      BY <2>2 DEF Create, Resolve, EngineCalledOnce, CommandFacts
    <3>5. AnswersStayInScope'
      BY <2>2 DEF Create, Resolve, AnswersStayInScope, CommandFacts
    <3>6. (answer # None => imports[answer.i].state # "NONE")'
      BY <2>2 DEF Create, Resolve, AnswersStayInScope, CommandFacts
    <3>7. (\A i \in Imports : imports[i].state = "READY" => i \in published)'
      BY <2>2 DEF Create, Resolve, CommandFacts
    <3> QED
      BY <3>1, <3>2, <3>3, <3>4, <3>5, <3>6, <3>7
  <2>3. CASE Replay(scope, key, req)
    <3>1. TypeOK'
      BY <2>3 DEF Replay, Resolve, Visible, Answer, CommandFacts, States, Import, Call, Pcs, Answers, Scopes
    <3>2. KeysAreStored'
      BY <2>3 DEF Replay, Resolve, Visible, Answer, CommandFacts, KeysAreStored, Call, Import, Scopes
    <3>3. CommandFacts'
      BY <2>3 DEF Replay, Resolve, Visible, Answer, CommandFacts, KeysAreStored, EngineCalledOnce, Call, Scopes, Granted
    <3>4. EngineCalledOnce'
      BY <2>3 DEF Replay, Resolve, Visible, Answer, EngineCalledOnce, CommandFacts
    <3>5. AnswersStayInScope'
      BY <2>3 DEF Replay, Resolve, Visible, Answer, AnswersStayInScope, CommandFacts
    <3>6. (answer # None => imports[answer.i].state # "NONE")'
      BY <2>3 DEF Replay, Resolve, Visible, Answer, AnswersStayInScope, CommandFacts
    <3>7. (\A i \in Imports : imports[i].state = "READY" => i \in published)'
      BY <2>3 DEF Replay, Resolve, Visible, Answer, CommandFacts
    <3> QED
      BY <3>1, <3>2, <3>3, <3>4, <3>5, <3>6, <3>7
  <2> QED
    BY <2>1, <2>2, <2>3
<1>2. CASE Admit
  <2>1. TypeOK'
    BY <1>2 DEF Admit, At, Goto, CommandFacts, States, Import, Call, Pcs, Answers, Scopes
  <2>2. KeysAreStored'
    BY <1>2 DEF Admit, At, Goto, CommandFacts, KeysAreStored, Call, Import, Scopes
  <2>3. CommandFacts'
    BY <1>2 DEF Admit, At, Goto, CommandFacts, KeysAreStored, EngineCalledOnce, Call, Scopes, Granted
  <2>4. EngineCalledOnce'
    BY <1>2 DEF Admit, At, Goto, EngineCalledOnce, CommandFacts
  <2>5. AnswersStayInScope'
    BY <1>2 DEF Admit, At, Goto, AnswersStayInScope, CommandFacts
  <2>6. (answer # None => imports[answer.i].state # "NONE")'
    BY <1>2 DEF Admit, At, Goto, AnswersStayInScope, CommandFacts
  <2>7. (\A i \in Imports : imports[i].state = "READY" => i \in published)'
    BY <1>2 DEF Admit, At, Goto, CommandFacts
  <2> QED
    BY <2>1, <2>2, <2>3, <2>4, <2>5, <2>6, <2>7
<1>3. CASE PersistIntent
  <2>1. TypeOK'
    BY <1>3 DEF PersistIntent, At, Goto, CommandFacts, States, Import, Call, Pcs, Answers, Scopes
  <2>2. KeysAreStored'
    BY <1>3 DEF PersistIntent, At, Goto, CommandFacts, KeysAreStored, Call, Import, Scopes
  <2>3. CommandFacts'
    BY <1>3 DEF PersistIntent, At, Goto, CommandFacts, KeysAreStored, EngineCalledOnce, Call, Scopes, Granted
  <2>4. EngineCalledOnce'
    BY <1>3 DEF PersistIntent, At, Goto, EngineCalledOnce, CommandFacts
  <2>5. AnswersStayInScope'
    BY <1>3 DEF PersistIntent, At, Goto, AnswersStayInScope, CommandFacts
  <2>6. (answer # None => imports[answer.i].state # "NONE")'
    BY <1>3 DEF PersistIntent, At, Goto, AnswersStayInScope, CommandFacts
  <2>7. (\A i \in Imports : imports[i].state = "READY" => i \in published)'
    BY <1>3 DEF PersistIntent, At, Goto, CommandFacts
  <2> QED
    BY <2>1, <2>2, <2>3, <2>4, <2>5, <2>6, <2>7
<1>4. CASE TransitionRunning
  <2>1. TypeOK'
    BY <1>4 DEF TransitionRunning, At, Goto, CommandFacts, States, Import, Call, Pcs, Answers, Scopes
  <2>2. KeysAreStored'
    BY <1>4 DEF TransitionRunning, At, Goto, CommandFacts, KeysAreStored, Call, Import, Scopes
  <2>3. CommandFacts'
    BY <1>4 DEF TransitionRunning, At, Goto, CommandFacts, KeysAreStored, EngineCalledOnce, Call, Scopes, Granted
  <2>4. EngineCalledOnce'
    BY <1>4 DEF TransitionRunning, At, Goto, EngineCalledOnce, CommandFacts
  <2>5. AnswersStayInScope'
    BY <1>4 DEF TransitionRunning, At, Goto, AnswersStayInScope, CommandFacts
  <2>6. (answer # None => imports[answer.i].state # "NONE")'
    BY <1>4 DEF TransitionRunning, At, Goto, AnswersStayInScope, CommandFacts
  <2>7. (\A i \in Imports : imports[i].state = "READY" => i \in published)'
    BY <1>4 DEF TransitionRunning, At, Goto, CommandFacts
  <2> QED
    BY <2>1, <2>2, <2>3, <2>4, <2>5, <2>6, <2>7
<1>5. CASE EngineImport
  <2>1. TypeOK'
    <3>1. call.i \in Imports
      BY <1>5 DEF EngineImport, At, CommandFacts
    <3>2. published' \subseteq Imports
      BY <1>5, <3>1 DEF EngineImport
    <3>3. calls' \in [Imports -> Nat]
      BY <1>5, <3>1 DEF EngineImport
    <3>4. call' \in Call
      BY <1>5, ZenonT(60) DEF EngineImport, Call, Pcs
    <3>5. UNCHANGED <<imports, idem, tasks, grants, answer>>
      BY <1>5 DEF EngineImport
    <3> QED
      BY <3>2, <3>3, <3>4, <3>5
  <2>2. KeysAreStored'
    BY <1>5 DEF EngineImport, At, CommandFacts, KeysAreStored, Call, Import, Scopes
  <2>3. CommandFacts'
    BY <1>5 DEF EngineImport, At, CommandFacts, KeysAreStored, EngineCalledOnce, Call, Scopes, Granted
  <2>4. EngineCalledOnce'
    BY <1>5 DEF EngineImport, At, EngineCalledOnce, CommandFacts
  <2>5. AnswersStayInScope'
    BY <1>5 DEF EngineImport, At, AnswersStayInScope, CommandFacts
  <2>6. (answer # None => imports[answer.i].state # "NONE")'
    BY <1>5 DEF EngineImport, At, AnswersStayInScope, CommandFacts
  <2>7. (\A i \in Imports : imports[i].state = "READY" => i \in published)'
    BY <1>5 DEF EngineImport, At, CommandFacts
  <2> QED
    BY <2>1, <2>2, <2>3, <2>4, <2>5, <2>6, <2>7
<1>6. CASE PersistOutcome
  <2>1. TypeOK'
    <3>1. imports' \in [Imports -> Import]
      BY <1>6, ZenonT(60) DEF PersistOutcome, Import, States
    <3>2. call' \in Call
      BY <1>6 DEF PersistOutcome, Goto, Call, Pcs
    <3>3. UNCHANGED <<idem, tasks, calls, published, grants, answer>>
      BY <1>6 DEF PersistOutcome
    <3> QED
      BY <3>1, <3>2, <3>3
  <2>2. KeysAreStored'
    BY <1>6 DEF PersistOutcome, At, Goto, CommandFacts, KeysAreStored, Call, Import, Scopes
  <2>3. CommandFacts'
    BY <1>6 DEF PersistOutcome, At, Goto, CommandFacts, KeysAreStored, EngineCalledOnce, Call, Scopes, Granted
  <2>4. EngineCalledOnce'
    BY <1>6 DEF PersistOutcome, At, Goto, EngineCalledOnce, CommandFacts
  <2>5. AnswersStayInScope'
    BY <1>6 DEF PersistOutcome, At, Goto, AnswersStayInScope, CommandFacts
  <2>6. (answer # None => imports[answer.i].state # "NONE")'
    BY <1>6 DEF PersistOutcome, At, Goto, AnswersStayInScope, CommandFacts
  <2>7. (\A i \in Imports : imports[i].state = "READY" => i \in published)'
    BY <1>6 DEF PersistOutcome, At, Goto, CommandFacts
  <2> QED
    BY <2>1, <2>2, <2>3, <2>4, <2>5, <2>6, <2>7
<1>7. CASE Complete
  <2>1. TypeOK'
    <3>1. call.i \in Imports
      BY <1>7 DEF Complete, At, CommandFacts
    <3>2. tasks' \in [Imports -> {"NONE", "ACCEPTED", "RUNNING"}]
      BY <1>7 DEF Complete
    <3>3. answer' \in Answers \cup {None}
      <4>1. CASE call.ok
        <5>1. answer' = [post |-> TRUE, scope |-> call.scope, i |-> call.i, req |-> call.req,
                         state |-> "READY"]
          BY <1>7, <4>1 DEF Complete, Answer
        <5>2. call.scope \in Scopes /\ call.req \in Requests
          BY DEF Call
        <5> QED
          BY <3>1, <5>1, <5>2 DEF Answers, States
      <4>2. CASE ~call.ok
        BY <1>7, <4>2 DEF Complete
      <4> QED
        BY <4>1, <4>2
    <3>4. UNCHANGED <<imports, idem, calls, published, grants>> /\ call' = Idle
      BY <1>7 DEF Complete
    <3> QED
      BY <3>2, <3>3, <3>4
  <2>2. KeysAreStored'
    BY <1>7 DEF Complete, At, Answer, Idle, CommandFacts, KeysAreStored, Call, Import, Scopes
  <2>3. CommandFacts'
    BY <1>7 DEF Complete, At, Answer, Idle, CommandFacts, KeysAreStored, EngineCalledOnce, Call, Scopes, Granted
  <2>4. EngineCalledOnce'
    BY <1>7 DEF Complete, At, Answer, Idle, EngineCalledOnce, CommandFacts
  <2>5. AnswersStayInScope'
    BY <1>7 DEF Complete, At, Answer, Idle, AnswersStayInScope, CommandFacts
  <2>6. (answer # None => imports[answer.i].state # "NONE")'
    BY <1>7 DEF Complete, At, Answer, Idle, AnswersStayInScope, CommandFacts
  <2>7. (\A i \in Imports : imports[i].state = "READY" => i \in published)'
    BY <1>7 DEF Complete, At, Answer, Idle, CommandFacts
  <2> QED
    BY <2>1, <2>2, <2>3, <2>4, <2>5, <2>6, <2>7
<1>8. CASE Raise
  <2>0. /\ tasks' \in [Imports -> {"NONE", "ACCEPTED", "RUNNING"}]
        /\ \A i \in Imports :
             \/ tasks'[i] = tasks[i]
             \/ i = call.i /\ call.pc # "complete" /\ tasks'[i] # "NONE"
             \/ i = call.i /\ call.pc = "complete"
    <3>1. /\ Reported(call.pc) \in {"NONE", "ACCEPTED", "RUNNING"}
          /\ call.pc # "complete" => Reported(call.pc) # "NONE"
      BY <1>8 DEF Raise, Reported
    <3>2. tasks' = tasks \/ tasks' = [tasks EXCEPT ![call.i] = Reported(call.pc)]
      BY <1>8 DEF Raise
    <3> QED
      BY <3>1, <3>2
  <2>1. TypeOK'
    BY <1>8, <2>0 DEF Raise, Idle, CommandFacts, States, Import, Call, Pcs, Answers, Scopes
  <2>2. KeysAreStored'
    BY <1>8 DEF Raise, Idle, CommandFacts, KeysAreStored, Call, Import, Scopes
  <2>3. CommandFacts'
    BY <1>8 DEF Raise, Idle, CommandFacts, KeysAreStored, EngineCalledOnce, Call, Scopes, Granted
  <2>4. EngineCalledOnce'
    BY <1>8, <2>0 DEF Raise, Idle, EngineCalledOnce, CommandFacts
  <2>5. AnswersStayInScope'
    BY <1>8 DEF Raise, Idle, AnswersStayInScope, CommandFacts
  <2>6. (answer # None => imports[answer.i].state # "NONE")'
    BY <1>8 DEF Raise, Idle, AnswersStayInScope, CommandFacts
  <2>7. (\A i \in Imports : imports[i].state = "READY" => i \in published)'
    BY <1>8 DEF Raise, Idle, CommandFacts
  <2> QED
    BY <2>1, <2>2, <2>3, <2>4, <2>5, <2>6, <2>7
<1>9. CASE \E scope \in Scopes, i \in Imports : Read(scope, i)
  <2>0. PICK scope \in Scopes, j \in Imports : Read(scope, j)
    BY <1>9
  <2>1. TypeOK'
    BY <2>0 DEF Read, Visible, Answer, CommandFacts, States, Import, Call, Pcs, Answers, Scopes
  <2>2. KeysAreStored'
    BY <2>0 DEF Read, Visible, Answer, CommandFacts, KeysAreStored, Call, Import, Scopes
  <2>3. CommandFacts'
    BY <2>0 DEF Read, Visible, Answer, CommandFacts, KeysAreStored, EngineCalledOnce, Call, Scopes, Granted
  <2>4. EngineCalledOnce'
    BY <2>0 DEF Read, Visible, Answer, EngineCalledOnce, CommandFacts
  <2>5. AnswersStayInScope'
    BY <2>0 DEF Read, Visible, Answer, AnswersStayInScope, CommandFacts
  <2>6. (answer # None => imports[answer.i].state # "NONE")'
    BY <2>0 DEF Read, Visible, Answer, AnswersStayInScope, CommandFacts
  <2>7. (\A i \in Imports : imports[i].state = "READY" => i \in published)'
    BY <2>0 DEF Read, Visible, Answer, CommandFacts
  <2> QED
    BY <2>1, <2>2, <2>3, <2>4, <2>5, <2>6, <2>7
<1>10. CASE Crash
  <2>1. TypeOK'
    BY <1>10 DEF Crash, Idle, ActiveTask, CommandFacts, States, Import, Call, Pcs, Answers, Scopes
  <2>2. KeysAreStored'
    BY <1>10 DEF Crash, Idle, ActiveTask, CommandFacts, KeysAreStored, Call, Import, Scopes
  <2>3. CommandFacts'
    BY <1>10 DEF Crash, Idle, ActiveTask, CommandFacts, KeysAreStored, EngineCalledOnce, Call, Scopes, Granted
  <2>4. EngineCalledOnce'
    BY <1>10 DEF Crash, Idle, ActiveTask, EngineCalledOnce, CommandFacts
  <2>5. AnswersStayInScope'
    BY <1>10 DEF Crash, Idle, ActiveTask, AnswersStayInScope, CommandFacts
  <2>6. (answer # None => imports[answer.i].state # "NONE")'
    BY <1>10 DEF Crash, Idle, ActiveTask, AnswersStayInScope, CommandFacts
  <2>7. (\A i \in Imports : imports[i].state = "READY" => i \in published)'
    BY <1>10 DEF Crash, Idle, ActiveTask, CommandFacts
  <2> QED
    BY <2>1, <2>2, <2>3, <2>4, <2>5, <2>6, <2>7
<1>11. CASE UNCHANGED vars
  <2>1. TypeOK'
    BY <1>11 DEF vars, CommandFacts, States, Import, Call, Pcs, Answers, Scopes
  <2>2. KeysAreStored'
    BY <1>11 DEF vars, CommandFacts, KeysAreStored, Call, Import, Scopes
  <2>3. CommandFacts'
    BY <1>11 DEF vars, CommandFacts, KeysAreStored, EngineCalledOnce, Call, Scopes, Granted
  <2>4. EngineCalledOnce'
    BY <1>11 DEF vars, EngineCalledOnce, CommandFacts
  <2>5. AnswersStayInScope'
    BY <1>11 DEF vars, AnswersStayInScope, CommandFacts
  <2>6. (answer # None => imports[answer.i].state # "NONE")'
    BY <1>11 DEF vars, AnswersStayInScope, CommandFacts
  <2>7. (\A i \in Imports : imports[i].state = "READY" => i \in published)'
    BY <1>11 DEF vars, CommandFacts
  <2> QED
    BY <2>1, <2>2, <2>3, <2>4, <2>5, <2>6, <2>7
<1> QED
  BY <1>1, <1>2, <1>3, <1>4, <1>5, <1>6, <1>7, <1>8, <1>9, <1>10, <1>11 DEF Next, CommandStep

\* The invariant of model imports, for any imports, scopes, keys and bodies.
THEOREM ImportsInvariant == Spec => []ImportsInv
<1>1. ImportsInv /\ [Next]_vars => ImportsInv'
  BY StepInv
<1>2. Init => ImportsInv
  BY InitInv
<1> QED
  BY <1>1, <1>2, PTL DEF Spec

\* Retries with one key of one scope make one import
\* (commit_model_import_intent stores the key with the import).
THEOREM KeysMakeOneImport == Spec => []OneImportPerKey
<1>1. ImportsInv => OneImportPerKey
  <2> SUFFICES ASSUME KeysAreStored,
                      NEW i \in Imports, NEW j \in Imports,
                      imports[i].state # "NONE", imports[j].state # "NONE", imports[i].key # NoKey,
                      imports[i].scope = imports[j].scope, imports[i].key = imports[j].key
               PROVE  i = j
    BY Zenon DEF ImportsInv, OneImportPerKey
  <2>1. idem[<<imports[i].scope, imports[i].key>>] = i
    BY DEF KeysAreStored
  <2>2. idem[<<imports[j].scope, imports[j].key>>] = j
    BY DEF KeysAreStored
  <2> QED
    BY <2>1, <2>2
<1> QED
  BY <1>1, ImportsInvariant, PTL

\* The binding imports a model at most once, never unrecorded and never behind
\* the broker's back (admit_and_persist, list_active_activity_tasks).
THEOREM ImportsRunOnce == Spec => []EngineCalledOnce
<1>1. ImportsInv => EngineCalledOnce
  BY DEF ImportsInv
<1> QED
  BY <1>1, ImportsInvariant, PTL

\* Callers see imports of their own scope, for their own request (the scope
\* joins of the store and the digest of a key).
THEOREM ScopesAreKept == Spec => []AnswersStayInScope
<1>1. ImportsInv => AnswersStayInScope
  BY DEF ImportsInv
<1> QED
  BY <1>1, ImportsInvariant, PTL
=============================================================================
