---------------------------- MODULE ModelImports ----------------------------
(***************************************************************************)
(* Importing an external model (ReactorService.create_model_import and its *)
(* tables).  A command holds _commands while it resolves the caller's      *)
(* Idempotency-Key, admits a task at the activity broker, stores the       *)
(* intent with its key and its Workspace scope, asks the serving binding   *)
(* to import, and stores the outcome.  The process may stop anywhere.      *)
(***************************************************************************)
EXTENDS Naturals

CONSTANTS Imports,     \* ids that uuid4 gives to imports
          Workspaces,  \* authenticated scopes
          Legacy,      \* scope of the legacy routes: no Workspace
          Keys,        \* Idempotency-Key values
          NoKey,       \* a request without the header
          Requests,    \* request bodies, by digest
          None         \* no import

ASSUME ImportsAssumption ==
    /\ None \notin Imports
    /\ Legacy \notin Workspaces
    /\ NoKey \notin Keys
    /\ Requests # {}

VARIABLES
    imports,    \* model_imports, with the scope of model_import_scopes
    idem,       \* idempotency rows of each scope: the import of a key
    tasks,      \* external: what the activity broker tracks
    calls,      \* external: POST /imports that the binding received
    published,  \* external: imports whose artifact the binding published
    grants,     \* workspace_serving_binding_grants of the running process
    call,       \* locals of the create_model_import inside _commands
    answer      \* (history) the last import shown to a caller, as it was

vars == <<imports, idem, tasks, calls, published, grants, call, answer>>

Scopes == Workspaces \cup {Legacy}
States == {"NONE", "VALIDATING", "READY", "FAILED"}
Import == [state : States, scope : Scopes, key : Keys \cup {NoKey}, req : Requests]
Pcs    == {"idle", "admit", "persist", "transition", "engine", "outcome", "complete"}
Call   == [pc : Pcs, i : Imports \cup {None}, scope : Scopes, key : Keys \cup {NoKey},
           req : Requests, ok : BOOLEAN]

\* A 201 of the create routes (post) or an item of the read routes.
Answers == [post : BOOLEAN, scope : Scopes, i : Imports, req : Requests, state : States]

NoImport == [state |-> "NONE", scope |-> Legacy, key |-> NoKey, req |-> CHOOSE r \in Requests : TRUE]
Idle     == [pc |-> "idle", i |-> None, scope |-> Legacy, key |-> NoKey,
             req |-> CHOOSE r \in Requests : TRUE, ok |-> FALSE]

\* The rows, the broker's tasks and the locals have their shapes.
TypeOK ==
    /\ imports \in [Imports -> Import]
    /\ idem \in [Scopes \X Keys -> Imports \cup {None}]
    /\ tasks \in [Imports -> {"NONE", "ACCEPTED", "RUNNING"}]
    /\ calls \in [Imports -> Nat]
    /\ published \subseteq Imports
    /\ grants \subseteq Workspaces
    /\ call \in Call
    /\ answer \in Answers \cup {None}

Init ==
    /\ imports = [i \in Imports |-> NoImport]
    /\ idem = [x \in Scopes \X Keys |-> None]
    /\ tasks = [i \in Imports |-> "NONE"]
    /\ calls = [i \in Imports |-> 0]
    /\ published = {}
    /\ grants \in SUBSET Workspaces
    /\ call = Idle
    /\ answer = None

stored  == <<imports, idem>>
outside == <<calls, published>>

-----------------------------------------------------------------------------
(* create_model_import *)

\* A Workspace needs a grant for the serving binding.
Granted(scope) == scope = Legacy \/ scope \in grants

\* Mutant of Resolve: the key is not looked up.
ResolveNothing(scope, key) == None

\* The import that a key of the scope already stands for.
Resolve(scope, key) == IF key = NoKey THEN None ELSE idem[<<scope, key>>]

\* Mutant of Visible: the scope rows are not joined.
VisibleToAll(scope, i) == imports[i].state # "NONE"

\* Workspaces see the imports of their own scope, legacy callers those without one.
Visible(scope, i) == imports[i].state # "NONE" /\ imports[i].scope = scope

Answer(post, scope, i, req, state) ==
    answer' = [post |-> post, scope |-> scope, i |-> i, req |-> req, state |-> state]

\* The key was used before: the import is returned as it is, and a different
\* request is refused.
Replay(scope, key, req) ==
    LET i == Resolve(scope, key)
    IN  /\ call.pc = "idle" /\ Granted(scope)
        /\ i # None /\ imports[i].req = req /\ Visible(scope, i)
        /\ Answer(TRUE, scope, i, req, imports[i].state)
        /\ UNCHANGED <<stored, tasks, outside, grants, call>>

Create(scope, key, req) ==
    /\ call.pc = "idle" /\ Granted(scope)
    /\ Resolve(scope, key) = None
    /\ \E i \in Imports :
         /\ imports[i].state = "NONE"
         /\ call' = [pc |-> "admit", i |-> i, scope |-> scope, key |-> key, req |-> req,
                     ok |-> FALSE]
    /\ UNCHANGED <<stored, tasks, outside, grants, answer>>

At(pc)   == call.pc = pc
Goto(pc) == call' = [call EXCEPT !.pc = pc]

\* admit_and_persist: the broker takes the task and then the intent is stored.
Admit ==
    /\ At("admit")
    /\ tasks' = [tasks EXCEPT ![call.i] = "ACCEPTED"]
    /\ Goto("persist")
    /\ UNCHANGED <<stored, outside, grants, answer>>

\* commit_model_import_intent: import, key and scope in one transaction.
PersistIntent ==
    /\ At("persist")
    /\ imports' = [imports EXCEPT ![call.i] = [state |-> "VALIDATING", scope |-> call.scope,
                                               key |-> call.key, req |-> call.req]]
    /\ idem' = IF call.key = NoKey THEN idem
               ELSE [idem EXCEPT ![<<call.scope, call.key>>] = call.i]
    /\ Goto("transition")
    /\ UNCHANGED <<tasks, outside, grants, answer>>

TransitionRunning ==
    /\ At("transition")
    /\ tasks' = [tasks EXCEPT ![call.i] = "RUNNING"]
    /\ Goto("engine")
    /\ UNCHANGED <<stored, outside, grants, answer>>

\* The binding imports the model or not, and its answer arrives or not.
EngineImport ==
    /\ At("engine")
    /\ calls' = [calls EXCEPT ![call.i] = @ + 1]
    /\ \E done, ok \in BOOLEAN :
         /\ ok => done
         /\ published' = IF done THEN published \cup {call.i} ELSE published
         /\ call' = [call EXCEPT !.pc = "outcome", !.ok = ok]
    /\ UNCHANGED <<stored, tasks, grants, answer>>

\* complete_after_persist: the outcome is stored and then the task is removed.
PersistOutcome ==
    /\ At("outcome")
    /\ imports' = [imports EXCEPT ![call.i].state = IF call.ok THEN "READY" ELSE "FAILED"]
    /\ Goto("complete")
    /\ UNCHANGED <<idem, tasks, outside, grants, answer>>

\* The caller of a failed import gets an error, not the import.
Complete ==
    /\ At("complete")
    /\ tasks' = [tasks EXCEPT ![call.i] = "NONE"]
    /\ IF call.ok THEN Answer(TRUE, call.scope, call.i, call.req, "READY") ELSE UNCHANGED answer
    /\ call' = Idle
    /\ UNCHANGED <<stored, outside, grants>>

\* The task state that the broker call at pc reports.
Reported(pc) == CASE pc = "admit" -> "ACCEPTED" [] pc = "transition" -> "RUNNING" [] OTHER -> "NONE"

\* The broker refuses or does not answer: its exception ends the command where
\* it is, whether the report has arrived or not.
Raise ==
    /\ call.pc \in {"admit", "transition", "complete"}
    /\ tasks' \in {tasks, [tasks EXCEPT ![call.i] = Reported(call.pc)]}
    /\ call' = Idle
    /\ UNCHANGED <<stored, outside, grants, answer>>

-----------------------------------------------------------------------------
(* Reads, and the end of a process *)

\* The list and get routes.
Read(scope, i) ==
    /\ Visible(scope, i)
    /\ Answer(FALSE, scope, i, imports[i].req, imports[i].state)
    /\ UNCHANGED <<stored, tasks, outside, grants, call>>

\* Mutant of ActiveTask: imports are not listed.
NoActiveTask(i) == "NONE"

\* list_active_activity_tasks
ActiveTask(i) == IF imports[i].state = "VALIDATING" THEN "RUNNING" ELSE "NONE"

\* The process stops, and is started again with the grants of now; the broker
\* takes the tasks that the tables list.
Crash ==
    /\ call' = Idle
    /\ tasks' = [i \in Imports |-> ActiveTask(i)]
    /\ grants' \in SUBSET Workspaces
    /\ UNCHANGED <<stored, outside, answer>>

-----------------------------------------------------------------------------

CommandStep ==
    \/ Admit \/ PersistIntent \/ TransitionRunning \/ EngineImport \/ PersistOutcome \/ Complete
    \/ Raise

Next ==
    \/ \E scope \in Scopes, key \in Keys \cup {NoKey}, req \in Requests :
         Create(scope, key, req) \/ Replay(scope, key, req)
    \/ CommandStep
    \/ \E scope \in Scopes, i \in Imports : Read(scope, i)
    \/ Crash

Spec == Init /\ [][Next]_vars

-----------------------------------------------------------------------------
(* Properties *)

\* Retries with one Idempotency-Key of one scope, before and after a crash,
\* make one import (commit_model_import_intent).
OneImportPerKey ==
    \A i, j \in Imports :
        /\ imports[i].state # "NONE" /\ imports[j].state # "NONE"
        /\ imports[i].key # NoKey
        /\ imports[i].scope = imports[j].scope /\ imports[i].key = imports[j].key
        => i = j

\* The binding is asked at most once to import, only for an import whose intent
\* is stored, and only while the broker tracks it: nothing runs unrecorded or
\* behind the broker's back, whenever the process stopped.
EngineCalledOnce ==
    \A i \in Imports :
        /\ calls[i] <= 1
        /\ calls[i] = 1 => imports[i].state # "NONE"
        /\ imports[i].state = "VALIDATING" => tasks[i] # "NONE"

\* What a caller is shown belongs to its scope and is what its request asked
\* for, through keys, replays and reads.
AnswersStayInScope ==
    answer # None =>
        /\ imports[answer.i].scope = answer.scope
        /\ imports[answer.i].req = answer.req
        /\ answer.state = "READY" => answer.i \in published

\* A 201 of the create routes returns a validated import ("Validated
\* ModelImport").
AnswersAreValidated == answer # None /\ answer.post => answer.state = "READY"

\* The idempotency rows are the keys of the stored imports.
KeysAreStored ==
    /\ \A scope \in Scopes, key \in Keys :
         LET i == idem[<<scope, key>>]
         IN  i # None => /\ imports[i].state # "NONE"
                         /\ imports[i].scope = scope /\ imports[i].key = key
    /\ \A i \in Imports :
         imports[i].state # "NONE" /\ imports[i].key # NoKey
             => idem[<<imports[i].scope, imports[i].key>>] = i

\* What the command inside _commands knows.
CommandFacts ==
    call.pc # "idle" =>
        /\ call.i \in Imports
        /\ Granted(call.scope)
        /\ call.pc \in {"admit", "persist"} =>
             /\ imports[call.i].state = "NONE"
             /\ call.key # NoKey => idem[<<call.scope, call.key>>] = None
        /\ call.pc \in {"admit", "persist", "transition", "engine"} => calls[call.i] = 0
        /\ call.pc \in {"transition", "engine", "outcome"} => imports[call.i].state = "VALIDATING"
        /\ call.pc = "complete" => imports[call.i].state \in {"READY", "FAILED"}
        /\ call.pc \in {"transition", "engine", "outcome", "complete"} =>
             imports[call.i].scope = call.scope /\ imports[call.i].req = call.req
        /\ call.pc = "persist" => tasks[call.i] # "NONE"
        /\ call.pc \in {"outcome", "complete"} /\ call.ok => call.i \in published

\* The inductive invariant behind the properties.
ImportsInv ==
    /\ TypeOK
    /\ KeysAreStored
    /\ CommandFacts
    /\ EngineCalledOnce
    /\ AnswersStayInScope
    /\ answer # None => imports[answer.i].state # "NONE"
    /\ \A i \in Imports : imports[i].state = "READY" => i \in published
=============================================================================
