------------------------- MODULE MCDeployController -------------------------
(* A small instance of DeployController. *)
EXTENDS DeployController
=============================================================================
