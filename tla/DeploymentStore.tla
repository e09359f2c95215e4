-------------------------- MODULE DeploymentStore --------------------------
(***************************************************************************)
(* PostgresDeploymentStore: the deployment rows, their event log and the   *)
(* tables a state change touches in the same transaction.                  *)
(*                                                                         *)
(* Each operator below is one database transaction.  The event log is kept *)
(* as the set of command ids it holds, which is all that transition reads  *)
(* from it; reservations are the consumed rows of quota_reservations.      *)
(***************************************************************************)
EXTENDS Integers, FiniteSets, Sequences, StateMachine

CONSTANTS
  Deployments,       \* deployments of one organization
  Rollbacks,         \* those whose trigger_source is 'rollback'
  ConcurrentBuilds   \* entitlement concurrent_builds of its plan

ASSUME StoreAssumption ==
  /\ IsFiniteSet(Deployments) /\ Deployments # {}
  /\ Rollbacks \subseteq Deployments
  /\ ConcurrentBuilds \in Nat

VARIABLES
  state,        \* deployments.current_state, "absent" before the INSERT
  version,      \* deployments.state_version
  commands,     \* command ids recorded in deployment_events
  outbox,       \* undelivered deployment_outbox rows <<deployment, version>>
  reserved,     \* consumed quota_reservations <<deployment, version>>
  attempts,     \* deployment_job_attempts: the status of each attempt
  image,        \* deployment_images: digest and published columns
  imageDigest,  \* deployments.image_digest
  endpoint,     \* deployments.endpoint: the attempt that wrote it, or 0
  opLock        \* deployment_id of the unexpired operation lock

rows      == << state, version, commands, outbox, reserved >>
artifacts == << image, imageDigest, endpoint >>
storeVars == << rows, artifacts, attempts, opLock >>

-----------------------------------------------------------------------------
(***************************************************************************)
(* A digest is named by the attempt that built it.  NoDigest is NULL and   *)
(* TargetDigest the digest of the deployment a rollback returns to.        *)
(***************************************************************************)
NoDigest     == 0
TargetDigest == -1
Digest       == Nat \union { TargetDigest }

NoHolder == "no lock"

QUEUED == { "queued", "rollback_queued" }

\* A row as a SELECT returns it to its reader.
Row(d) == [ state |-> state[d], version |-> version[d], digest |-> imageDigest[d] ]

RowType == [ state : STATES \union { "absent" }, version : Nat, digest : Digest ]

StoreInit ==
  /\ state       = [ d \in Deployments |-> "absent" ]
  /\ version     = [ d \in Deployments |-> 0 ]
  /\ commands    = [ d \in Deployments |-> {} ]
  /\ outbox      = {}
  /\ reserved    = {}
  /\ attempts    = [ d \in Deployments |-> << >> ]
  /\ image       = [ d \in Deployments |-> [ digest |-> NoDigest, published |-> FALSE ] ]
  /\ imageDigest = [ d \in Deployments |-> NoDigest ]
  /\ endpoint    = [ d \in Deployments |-> 0 ]
  /\ opLock      = NoHolder

-----------------------------------------------------------------------------
(***************************************************************************)
(* _event: entering a queued state publishes an outbox row and, unless the *)
(* deployment is a rollback, takes a build slot; entering a terminal state *)
(* gives every slot of the deployment back.  Events that repeat the        *)
(* current state (logs, stages) find both already done.                    *)
(***************************************************************************)
\* Mutant: only the creation takes a slot, a retry does not.
TakesSlotOnce(d, to) == to \in QUEUED /\ d \notin Rollbacks /\ version[d] = 0

TakesSlot(d, to) == to \in QUEUED /\ d \notin Rollbacks

\* Mutant: the limit is exceeded by one.
SlotFreeOffByOne(d, to) == TakesSlot(d, to) => Cardinality(reserved) <= ConcurrentBuilds

\* reserveInTransaction fails with QUOTA_EXCEEDED, which aborts the change.
SlotFree(d, to) == TakesSlot(d, to) => Cardinality(reserved) < ConcurrentBuilds

SlotsOf(d) == { r \in reserved : r[1] = d }

RecordEvent(d, to) ==
  LET entry == << d, version[d] + 1 >>
  IN /\ state'    = [ state EXCEPT ![d] = to ]
     /\ version'  = [ version EXCEPT ![d] = @ + 1 ]
     /\ outbox'   = IF to \in QUEUED THEN outbox \union { entry } ELSE outbox
     /\ reserved' = IF TakesSlot(d, to) THEN reserved \union { entry }
                    ELSE IF to \in TERMINAL THEN reserved \ SlotsOf(d)
                    ELSE reserved

\* create: one transaction inserts the row and its first event.
CreateRow(d, initial) ==
  /\ state[d] = "absent"
  /\ SlotFree(d, initial)
  /\ RecordEvent(d, initial)
  /\ UNCHANGED commands

\* transition: a command already in the log changes nothing ...
Duplicate(d, cmd) == cmd \in commands[d]

\* ... and any other needs the version it read, an edge and a free slot.
CanCommit(d, to, expected) ==
  /\ version[d] = expected
  /\ CanTransition(state[d], to)
  /\ SlotFree(d, to)

Commit(d, to, cmd) ==
  /\ RecordEvent(d, to)
  /\ commands' = [ commands EXCEPT ![d] = @ \union { cmd } ]

-----------------------------------------------------------------------------
AddAttempt(d) == attempts' = [ attempts EXCEPT ![d] = Append(@, "active") ]

FinishAttempt(d, k, status) == attempts' = [ attempts EXCEPT ![d][k] = status ]

\* saveImage upserts the local digest and leaves published as it was.
SaveImage(d, k) ==
  /\ image' = [ image EXCEPT ![d].digest = k ]
  /\ UNCHANGED << imageDigest, endpoint >>

\* Mutant: the digest of a first attempt is kept.
SaveFirstPublishedImage(d, k) ==
  /\ image'       = [ image EXCEPT ![d] = [ digest |-> k, published |-> TRUE ] ]
  /\ imageDigest' = [ imageDigest EXCEPT ![d] = IF @ = NoDigest THEN k ELSE @ ]
  /\ UNCHANGED endpoint

SavePublishedImage(d, k) ==
  /\ image'       = [ image EXCEPT ![d] = [ digest |-> k, published |-> TRUE ] ]
  /\ imageDigest' = [ imageDigest EXCEPT ![d] = k ]
  /\ UNCHANGED endpoint

SetEndpoint(d, k) ==
  /\ endpoint' = [ endpoint EXCEPT ![d] = k ]
  /\ UNCHANGED << image, imageDigest >>

ReleaseOperationLock(d) == opLock' = IF opLock = d THEN NoHolder ELSE opLock

=============================================================================
