------------------------- MODULE MCDeploymentDrafts -------------------------
(* Small instances of DeploymentDrafts for TLC. *)
EXTENDS DeploymentDrafts, TLC

CONSTANTS c1, c2  \* calls

\* The calls are interchangeable.
Interchangeable == Permutations({c1, c2})
=============================================================================
