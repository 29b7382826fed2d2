-------------------------- MODULE MCWorkerService --------------------------
(* WorkerService for TLC: requests of one priority for one model. *)
EXTENDS WorkerService

OnePriority == [t \in Tasks |-> 0]
OneModel    == [t \in Tasks |-> CHOOSE m \in Models : TRUE]
=============================================================================
