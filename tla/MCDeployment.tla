---- MODULE MCDeployment ----
(* Instances of DeploymentLifecycle for TLC. *)
EXTENDS DeploymentLifecycle
====
