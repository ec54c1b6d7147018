------------------------- MODULE MCDeploymentManager -------------------------
(* Instance of DeploymentManager for TLC. *)
EXTENDS DeploymentManager
=============================================================================
