-------------------------- MODULE MCInferenceServer --------------------------
(* InferenceServer for TLC: requests of one priority for one model, the case *)
(* in which requests, unloads and the shutdown all contend.                  *)
EXTENDS InferenceServer, TLC

OnePriority == [t \in Tasks |-> 0]
OneModel    == [t \in Tasks |-> CHOOSE m \in Models : TRUE]

\* Such requests, and workers, are interchangeable.
Interchangeable == Permutations(Tasks) \cup Permutations(Workers)
=============================================================================
