-------------------------- MODULE DeploymentDrafts --------------------------
(***************************************************************************)
(* Deployment drafts (the deployment-drafts routes of api.py over          *)
(* store.py), composed with DeploymentLifecycle: an imported draft is      *)
(* deployed by reading it, running create_deployment under a key made of   *)
(* the draft's id, and saving it as STARTED.  The three are separate       *)
(* transactions, several calls may deploy one draft, and the process may   *)
(* stop between any two steps.                                             *)
(***************************************************************************)
EXTENDS DeploymentLifecycle

CONSTANTS Drafts,     \* ids uuid4() may return; as keys, "deployment-draft:<id>"
          ImportKeys, \* keys of import requests
          Callers,    \* concurrent deploy_draft calls
          None        \* no deployment

\* Nothing reserves the key of a draft: a client may send the same text.
ASSUME DraftsAssumption ==
    /\ Drafts \subseteq Keys
    /\ None \notin Deployments

VARIABLES
    draft,     \* table deployment_drafts
    imported,  \* idempotency rows of scope deployment-draft: <<key, draft>>
    call       \* locals of the deploy_draft calls

draftVars == <<draft, imported, call>>
allVars   == <<vars, draft, imported, call>>

Draft == [state : {"ABSENT", "DRAFT", "STARTED"}, ref : Deployments \cup {None}]
NoDraft == [state |-> "ABSENT", ref |-> None]

DeployCall == [pc : {"idle", "create", "launch", "save"}, t : Drafts \cup {None}, doc : Draft,
               d : Deployments \cup {None}]
NoCall == [pc |-> "idle", t |-> None, doc |-> NoDraft, d |-> None]

DraftsInit ==
    /\ Init
    /\ draft = [t \in Drafts |-> NoDraft]
    /\ imported = {}
    /\ call = [c \in Callers |-> NoCall]

-----------------------------------------------------------------------------

\* create_draft: the draft and its key in one transaction.  A key with a row is
\* a replay or a conflict, and neither writes.
CreateDraft(t, k) ==
    /\ \A u \in Drafts : <<k, u>> \notin imported
    /\ draft' = [draft EXCEPT ![t].state = "DRAFT"]
    /\ imported' = imported \cup {<<k, t>>}

\* import_draft, under the client's key or the digest of its request.
ImportDraft(t, k) ==
    /\ draft[t] = NoDraft
    /\ CreateDraft(t, k)
    /\ UNCHANGED <<vars, call>>

\* deploy_draft reads the draft first.
ReadDraft(c, t) ==
    /\ call[c].pc = "idle"
    /\ draft[t] # NoDraft
    /\ call' = [call EXCEPT ![c] = [pc |-> "create", t |-> t, doc |-> draft[t], d |-> None]]
    /\ UNCHANGED <<vars, draft, imported>>

\* Mutant of CreateFromDraft: the deployment is created without the draft's key.
CreateWithoutKey(c) ==
    /\ call[c].pc = "create"
    /\ \E d \in Deployments :
         /\ Create(Server, d, {})
         /\ call' = [call EXCEPT ![c].pc = "launch", ![c].d = d]
    /\ UNCHANGED <<draft, imported>>

\* create_deployment takes _commands to create a deployment under the key.
CreateFromDraft(c) ==
    /\ call[c].pc = "create"
    /\ \E d \in Deployments :
         /\ Create(Server, d, {call[c].t})
         /\ call' = [call EXCEPT ![c].pc = "launch", ![c].d = d]
    /\ UNCHANGED <<draft, imported>>

\* The key has a deployment already: create_deployment returns it as it is.
ReplayFromDraft(c) ==
    /\ call[c].pc = "create"
    /\ LockFree(Server)
    /\ \E d \in Deployments :
         /\ <<call[c].t, d>> \in idem
         /\ call' = [call EXCEPT ![c].pc = "save", ![c].d = d]
    /\ UNCHANGED <<vars, draft, imported>>

\* create_deployment raises before it calls the broker: the key belongs to
\* another request, or the binding is not configured.
RefuseDraft(c) ==
    /\ call[c].pc = "create"
    /\ LockFree(Server)
    /\ \/ \E d \in Deployments : <<call[c].t, d>> \in idem
       \/ \E d \in Deployments : binding[d] = "missing"
    /\ call' = [call EXCEPT ![c] = NoCall]
    /\ UNCHANGED <<vars, draft, imported>>

\* A step of a command.  The caller whose command ends goes on when the launch
\* succeeded; otherwise the exception leaves deploy_draft as well.
ServerStep ==
    /\ CommandStep(Server)
    /\ call' = [c \in Callers |->
                  IF call[c].pc # "launch" \/ cmd'[Server].pc # "idle" THEN call[c]
                  ELSE IF cmd[Server].pc = "readyEvent" THEN [call[c] EXCEPT !.pc = "save"]
                  ELSE NoCall]
    /\ UNCHANGED <<draft, imported>>

\* save_draft writes the draft that was read, as STARTED.
SaveDraft(c) ==
    /\ call[c].pc = "save"
    /\ draft' = [draft EXCEPT ![call[c].t] = [call[c].doc EXCEPT !.state = "STARTED",
                                                                 !.ref = call[c].d]]
    /\ call' = [call EXCEPT ![c] = NoCall]
    /\ UNCHANGED <<vars, imported>>

\* The server process stops and is started again.
Restarted ==
    /\ Crash(Server)
    /\ call' = [c \in Callers |-> NoCall]
    /\ UNCHANGED <<draft, imported>>

DraftsNext ==
    \/ \E t \in Drafts, k \in ImportKeys : ImportDraft(t, k)
    \/ \E c \in Callers, t \in Drafts : ReadDraft(c, t)
    \/ \E c \in Callers :
         CreateFromDraft(c) \/ ReplayFromDraft(c) \/ RefuseDraft(c) \/ SaveDraft(c)
    \/ ServerStep
    \/ Restarted
    \/ /\ Begin(Server) \/ (\E d \in Deployments : ExecutionLost(d))
       /\ UNCHANGED draftVars

DraftsSpec == DraftsInit /\ [][DraftsNext]_allVars

-----------------------------------------------------------------------------
(* Properties *)

\* However often and by however many calls a draft is deployed, before and after
\* a crash, a STARTED draft names the one deployment that its key made, and
\* goes on naming it (deploy_draft, create_intent).
StartedDraftIsDeployed ==
    \A t \in Drafts :
        draft[t].state = "STARTED" =>
            /\ draft[t].ref \in Deployments
            /\ \A d \in Deployments : t \in origin[d] <=> d = draft[t].ref

\* Drafts and the locals of deploy_draft calls have their shape.
DraftsTypeOK ==
    /\ draft \in [Drafts -> Draft]
    /\ call \in [Callers -> DeployCall]

\* A deploy_draft call in create_deployment has the command that holds _commands, under
\* its draft's key; one that got a deployment got the one of that key, and so did the
\* calls that saved a draft.
CallsKnowTheirKey ==
    /\ \A c \in Callers :
         /\ call[c].pc # "idle" => call[c].t \in Drafts
         /\ call[c].pc = "launch" => /\ cmd[Server].pc # "idle" /\ call[c].d = cmd[Server].d
                                     /\ \/ cmd[Server].pc \in CreatePcs /\ call[c].t \in cmd[Server].keys
                                        \/ call[c].t \in origin[call[c].d]
         /\ call[c].pc = "save" => call[c].d \in Deployments /\ call[c].t \in origin[call[c].d]
    /\ \A t \in Drafts :
         draft[t].state = "STARTED" =>
             draft[t].ref \in Deployments /\ t \in origin[draft[t].ref]

\* The inductive invariant of the drafts over the deployments.
DraftsInv == TypeOK /\ KeyInv /\ DraftsTypeOK /\ CallsKnowTheirKey
=============================================================================
