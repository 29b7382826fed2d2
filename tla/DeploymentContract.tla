-------------------------- MODULE DeploymentContract --------------------------
(***************************************************************************)
(* What the product promises of a deployment, whatever happens inside it:  *)
(* the states of the public documents (domain.py), their versions, and     *)
(* what the execution host holds meanwhile.  Commands, locks, processes,   *)
(* crashes, polls, events and the broker are not part of it.               *)
(***************************************************************************)
EXTENDS Naturals

CONSTANT Deployments

VARIABLES
    state,     \* ObservedState of the Deployment
    version,   \* resource_version of the Deployment
    url,       \* EndpointState of its Endpoint
    held       \* the deployments for which the host holds resources

contractVars == <<state, version, url, held>>

\* A step of deployment d: its documents become s and e, under the next version.
Document(d, s, e) ==
    /\ state' = [state EXCEPT ![d] = s]
    /\ url' = [url EXCEPT ![d] = e]
    /\ version' = [version EXCEPT ![d] = @ + 1]

ContractInit ==
    /\ state = [d \in Deployments |-> "ABSENT"]
    /\ version = [d \in Deployments |-> 0]
    /\ url = [d \in Deployments |-> "ABSENT"]
    /\ held = {}

\* A deployment starts, as a new one or after a stop.
Starts(d) ==
    /\ state[d] \in {"ABSENT", "STOPPED"}
    /\ Document(d, "STARTING", url[d])
    /\ UNCHANGED held

\* Its endpoint is on record before the host is asked for anything.
Provisions(d) ==
    /\ state[d] = "STARTING"
    /\ url' = [url EXCEPT ![d] = "PROVISIONING"]
    /\ UNCHANGED <<state, version, held>>

\* The host takes resources only for a deployment that starts and that can
\* be found again.
Acquires(d) ==
    /\ state[d] = "STARTING" /\ url[d] = "PROVISIONING"
    /\ held' = held \cup {d}
    /\ UNCHANGED <<state, version, url>>

\* The host lets go: asked to, or by itself.
LetsGo(d) ==
    /\ held' = held \ {d}
    /\ UNCHANGED <<state, version, url>>

BecomesReady(d) ==
    /\ state[d] = "STARTING" /\ url[d] = "PROVISIONING"
    /\ Document(d, "READY", "READY")
    /\ UNCHANGED held

\* A failed start is kept addressable unless nothing can be held.
Fails(d) ==
    /\ state[d] = "STARTING"
    /\ Document(d, "FAILED", "UNHEALTHY") \/ (d \notin held /\ Document(d, "FAILED", url[d]))
    /\ UNCHANGED held

\* The documents follow the execution.
Observes(d) ==
    /\ state[d] \in {"READY", "DEGRADED"}
    /\ Document(d, "READY", "READY") \/ Document(d, "DEGRADED", "UNHEALTHY")
    /\ UNCHANGED held

Stops(d) ==
    /\ state[d] \notin {"ABSENT", "STOPPED"}
    /\ Document(d, "STOPPING", url[d])
    /\ UNCHANGED held

\* A deployment is STOPPED when nothing is held for it any more.
IsStopped(d) ==
    /\ state[d] = "STOPPING"
    /\ d \notin held
    /\ Document(d, "STOPPED", IF url[d] = "ABSENT" THEN "ABSENT" ELSE "RETIRED")
    /\ UNCHANGED held

ContractNext ==
    \E d \in Deployments :
        \/ Starts(d) \/ Provisions(d) \/ Acquires(d) \/ LetsGo(d) \/ BecomesReady(d)
        \/ Fails(d) \/ Observes(d) \/ Stops(d) \/ IsStopped(d)

ContractSpec == ContractInit /\ [][ContractNext]_contractVars
=============================================================================
