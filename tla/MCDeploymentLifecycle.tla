------------------------ MODULE MCDeploymentLifecycle ------------------------
(* Small instances of DeploymentLifecycle for TLC. *)
EXTENDS DeploymentLifecycle
=============================================================================
