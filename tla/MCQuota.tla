------------------------------ MODULE MCQuota ------------------------------
(***************************************************************************)
(* Two instances of DeploymentSystem in one run, of which Init chooses     *)
(* one: a deployment whose executions lose their locks, or two builds that *)
(* compete for one slot.                                                   *)
(***************************************************************************)
EXTENDS DeploymentSystem, TLC

CONSTANT Single   \* the deployment of the first instance

VARIABLE part

BQ == INSTANCE DeploymentSystem
      WITH MaxExecutions <- 1, MaxRetries <- 1,
           Environment <- { "cancel", "retry", "stage throws" }

InitEither == \/ part = "lost locks" /\ Init
              \/ part = "two builds" /\ BQ!Init

NextEither ==
  /\ UNCHANGED part
  /\ \/ /\ part = "lost locks" /\ Next
        /\ \A d \in Deployments \ { Single } : state'[d] = "absent" /\ authorized'[d]
     \/ part = "two builds" /\ BQ!Next

SpecEither == InitEither /\ [][NextEither]_<< part, vars >>

Interchangeable == Permutations(Workers)

=============================================================================
