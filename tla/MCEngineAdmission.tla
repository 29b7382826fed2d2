-------------------------- MODULE MCEngineAdmission --------------------------
(* EngineAdmission for TLC: two installations of one package version, so that *)
(* a runtime of one can answer for the other.                                 *)
EXTENDS EngineAdmission, TLC

OneVersion == [i \in Installations |-> 1]

\* Bindings, installations and addresses are interchangeable.
Interchangeable == Permutations(Bindings) \cup Permutations(Connections)
                       \cup Permutations(Installations)
=============================================================================
