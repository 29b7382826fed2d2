---------------------------- MODULE ActivateOnce ----------------------------
(***************************************************************************)
(* What the owner of a PackageRuntime binding promises ("Activate once     *)
(* after durable intent", package_runtime_owner.py): one operation at a    *)
(* time, on record before it is sent, sent at most once, and finished only *)
(* after the maintenance Gate has finished it.  Receipts, statuses, calls  *)
(* and crashes are not part of it.                                         *)
(***************************************************************************)
EXTENDS Naturals

CONSTANT Requests

VARIABLES
    stage,   \* per request: "new", "unfinished" or "finished" on record
    sent,    \* per request: how often its activation was sent
    ended    \* the requests whose operation the Gate has completed

onceVars == <<stage, sent, ended>>

OnceInit ==
    /\ stage = [r \in Requests |-> "new"]
    /\ sent = [r \in Requests |-> 0]
    /\ ended = {}

Intend(r) ==
    /\ stage[r] = "new"
    /\ \A s \in Requests : stage[s] # "unfinished"
    /\ stage' = [stage EXCEPT ![r] = "unfinished"]
    /\ UNCHANGED <<sent, ended>>

Send(r) ==
    /\ stage[r] = "unfinished" /\ sent[r] = 0
    /\ sent' = [sent EXCEPT ![r] = 1]
    /\ UNCHANGED <<stage, ended>>

End(r) ==
    /\ stage[r] = "unfinished" /\ sent[r] = 1
    /\ ended' = ended \cup {r}
    /\ UNCHANGED <<stage, sent>>

Conclude(r) ==
    /\ stage[r] = "unfinished" /\ r \in ended
    /\ stage' = [stage EXCEPT ![r] = "finished"]
    /\ UNCHANGED <<sent, ended>>

OnceNext == \E r \in Requests : Intend(r) \/ Send(r) \/ End(r) \/ Conclude(r)

OnceSpec == OnceInit /\ [][OnceNext]_onceVars
=============================================================================
