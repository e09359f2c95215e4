---------------------------- MODULE MCDeployment ----------------------------
(***************************************************************************)
(* TLC instances of DeploymentSystem: the configurations choose how many   *)
(* deployments and executions there are and what the environment does.     *)
(***************************************************************************)
EXTENDS DeploymentSystem, TLC

\* Executions are interchangeable; used where only safety is checked.
Interchangeable == Permutations(Workers)

=============================================================================
