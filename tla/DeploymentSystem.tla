-------------------------- MODULE DeploymentSystem --------------------------
(***************************************************************************)
(* The deployment control plane: the API requests, the outbox dispatcher,  *)
(* the queue and the workers around one PostgreSQL database and one Redis. *)
(*                                                                         *)
(* A request handler commits to the database first and calls the queue     *)
(* afterwards, so a request is in flight between the two and its process   *)
(* may die there.  The same holds for the dispatcher between its read of   *)
(* a deployment, its call of the queue and its mark of the outbox row.     *)
(***************************************************************************)
EXTENDS DeploymentWorker

CONSTANTS
  MaxRetries,      \* bound: Idempotency-Keys of retry requests
  MaxDispatchers   \* bound: outbox rows being dispatched at once

ASSUME SystemAssumption == MaxRetries \in Nat /\ MaxDispatchers \in Nat

VARIABLES
  requests,    \* handlers in flight: <<what they do next, deployment>>
  deliveries   \* dispatchers in flight: <<what they do next, outbox row>>

vars == << storeVars, queueVars, execution, world, requests, deliveries >>

RequestType == ({ "enqueue", "dequeue" } \X Deployments) \union ({ "lock", "insert" } \X Rollbacks)

Init == StoreInit /\ QueueInit /\ WorkerInit /\ requests = {} /\ deliveries = {}

Proceed(from, to, d) == requests' = (requests \ { << from, d >> }) \union { << to, d >> }

Send(kind, d) == requests' = requests \union { << kind, d >> }

Answer(kind, d) == requests' = requests \ { << kind, d >> }

-----------------------------------------------------------------------------
(***************************************************************************)
(* POST deployments, for a deployment no approval policy protects.         *)
(***************************************************************************)
Create(d) ==
  /\ d \notin Rollbacks
  /\ CreateRow(d, "queued")
  /\ Send("enqueue", d)
  /\ UNCHANGED << artifacts, attempts, opLock, queueVars, execution, world, deliveries >>

(***************************************************************************)
(* POST rollback: createRollback inserts a queued deployment in one        *)
(* transaction.  A second one finds no unexpired lock of another           *)
(* deployment, inserts its own unless one appeared meanwhile, and queues   *)
(* the rollback whatever state the deployment has reached.                 *)
(***************************************************************************)
CreateRollback(d) ==
  /\ d \in Rollbacks
  /\ CreateRow(d, "queued")
  /\ Send("lock", d)
  /\ UNCHANGED << artifacts, attempts, opLock, queueVars, execution, world, deliveries >>

CheckLock(d) ==
  /\ << "lock", d >> \in requests
  /\ IF opLock \in { NoHolder, d } THEN Proceed("lock", "insert", d) ELSE Answer("lock", d)
  /\ UNCHANGED << storeVars, queueVars, execution, world, deliveries >>

QueueRollback(d) ==
  /\ << "insert", d >> \in requests
  /\ opLock' = IF opLock = NoHolder THEN d ELSE opLock
  /\ RecordEvent(d, "rollback_queued")
  /\ imageDigest' = [ imageDigest EXCEPT ![d] = TargetDigest ]
  /\ Proceed("insert", "enqueue", d)
  /\ UNCHANGED << commands, image, endpoint, attempts, queueVars,
                  execution, world, deliveries >>

OperationLockExpires ==
  /\ "lock expires" \in Environment
  /\ opLock # NoHolder
  /\ opLock' = NoHolder
  /\ UNCHANGED << rows, artifacts, attempts, queueVars, execution, world,
                  requests, deliveries >>

\* POST cancel.  Its command id is the same for every cancellation.
RequestCancellation(d) ==
  LET cmd == << "cancel", 0 >>
  IN /\ "cancel" \in Environment
     /\ state[d] # "absent"
     /\ \/ Duplicate(d, cmd) /\ UNCHANGED rows
        \/ /\ ~Duplicate(d, cmd)
           /\ CanCommit(d, "cancel_requested", version[d])
           /\ Commit(d, "cancel_requested", cmd)
     /\ Send("dequeue", d)
     /\ UNCHANGED << artifacts, attempts, opLock, queueVars, execution, world, deliveries >>

\* POST retry with Idempotency-Key k; one seen before only enqueues again.
Retry(d, k) ==
  LET cmd == << "retry", k >>
  IN /\ "retry" \in Environment
     /\ state[d] = "failed"
     /\ \/ Duplicate(d, cmd) /\ UNCHANGED rows
        \/ /\ ~Duplicate(d, cmd)
           /\ CanCommit(d, "queued", version[d])
           /\ Commit(d, "queued", cmd)
     /\ Send("enqueue", d)
     /\ UNCHANGED << artifacts, attempts, opLock, queueVars, execution, world, deliveries >>

\* The second half of a handler: its call of the queue.
CallQueue(d) ==
  /\ \/ << "enqueue", d >> \in requests /\ Enqueue(d) /\ Answer("enqueue", d)
     \/ << "dequeue", d >> \in requests /\ CancelJob(d) /\ Answer("dequeue", d)
  /\ UNCHANGED << storeVars, execution, world, deliveries >>

\* The API process dies, or Redis refuses the call.
RequestDies(r) ==
  /\ "request dies" \in Environment
  /\ requests' = requests \ { r }
  /\ UNCHANGED << storeVars, queueVars, execution, world, deliveries >>

\* A membership, policy, target or secret changes for good.
RevokeAccess(d) ==
  /\ "revoke" \in Environment
  /\ authorized[d]
  /\ authorized' = [ authorized EXCEPT ![d] = FALSE ]
  /\ UNCHANGED << storeVars, queueVars, execution, applied, requests, deliveries >>

-----------------------------------------------------------------------------
(***************************************************************************)
(* dispatchDeploymentOutbox, run by every worker process.                  *)
(***************************************************************************)
\* Mutant: the row is marked before the queue is called.
DispatchReadMarked(e) ==
  /\ Cardinality(deliveries) < MaxDispatchers
  /\ deliveries' = deliveries \union { << "enqueue", e >> }
  /\ outbox' = outbox \ { e }
  /\ UNCHANGED << state, version, commands, reserved, artifacts, attempts, opLock,
                  queueVars, execution, world, requests >>

DispatchRead(e) ==
  /\ Cardinality(deliveries) < MaxDispatchers
  /\ deliveries' = deliveries \union
       { << IF state[e[1]] \in QUEUED THEN "enqueue" ELSE "mark", e >> }
  /\ UNCHANGED << storeVars, queueVars, execution, world, requests >>

DispatchEnqueue(e) ==
  /\ << "enqueue", e >> \in deliveries
  /\ Enqueue(e[1])
  /\ deliveries' = (deliveries \ { << "enqueue", e >> }) \union { << "mark", e >> }
  /\ UNCHANGED << storeVars, execution, world, requests >>

DispatchMark(e) ==
  /\ << "mark", e >> \in deliveries
  /\ outbox' = outbox \ { e }
  /\ deliveries' = deliveries \ { << "mark", e >> }
  /\ UNCHANGED << state, version, commands, reserved, artifacts, attempts, opLock,
                  queueVars, execution, world, requests >>

DispatcherDies(x) ==
  /\ "dispatcher dies" \in Environment
  /\ deliveries' = deliveries \ { x }
  /\ UNCHANGED << storeVars, queueVars, execution, world, requests >>

-----------------------------------------------------------------------------
Handlers(d) ==
  \/ Create(d) \/ CreateRollback(d) \/ CheckLock(d) \/ QueueRollback(d)
  \/ RequestCancellation(d) \/ CallQueue(d) \/ RevokeAccess(d)
  \/ \E k \in 1..MaxRetries : Retry(d, k)

Dispatcher ==
  \/ \E e \in outbox : DispatchRead(e)
  \/ \E x \in deliveries : DispatchEnqueue(x[2]) \/ DispatchMark(x[2]) \/ DispatcherDies(x)

\* What BullMQ does by itself.
Queue(d) ==
  /\ BackoffEnds(d) \/ ReclaimStalled(d)
  /\ UNCHANGED << storeVars, execution, world, requests, deliveries >>

WorkerStep(w) == Execute(w) /\ UNCHANGED << requests, deliveries >>

Failure ==
  \/ \E w \in Workers :
       /\ Crash(w) \/ LoseLock(w) \/ StoreThrows(w)
       /\ UNCHANGED << requests, deliveries >>
  \/ \E r \in requests : RequestDies(r)

Next ==
  \/ \E d \in Deployments : Handlers(d) \/ Queue(d)
  \/ \E w \in Workers : WorkerStep(w)
  \/ Dispatcher
  \/ OperationLockExpires
  \/ Failure

Spec == Init /\ [][Next]_vars

(***************************************************************************)
(* Worker processes run, BullMQ does its bookkeeping, and the maintenance  *)
(* timer calls the dispatcher again and again: a dispatcher that dies is   *)
(* started anew, so one of them gets past each of its calls in the end.    *)
(* Nothing obliges users, API processes or failures to do anything.        *)
(***************************************************************************)
Dispatching == \E e \in outbox : DispatchRead(e)
Publishing  == \E x \in deliveries : DispatchEnqueue(x[2])
Marking     == \E x \in deliveries : DispatchMark(x[2])

Fairness ==
  /\ \A w \in Workers : WF_vars(WorkerStep(w))
  /\ \A d \in Deployments : WF_vars(Queue(d))
  /\ WF_vars(Dispatching) /\ SF_vars(Publishing) /\ SF_vars(Marking)

FairSpec == Spec /\ Fairness

-----------------------------------------------------------------------------
RowTypeOK ==
  /\ state    \in [ Deployments -> STATES \union { "absent" } ]
  /\ version  \in [ Deployments -> Nat ]
  /\ commands \in [ Deployments -> SUBSET ((Steps \union { "cancel", "retry" }) \X Nat) ]
  /\ outbox   \subseteq Deployments \X Nat
  /\ reserved \subseteq Deployments \X Nat

ArtifactTypeOK ==
  /\ attempts    \in [ Deployments -> Seq({ "active", "completed", "failed" }) ]
  /\ image       \in [ Deployments -> [ digest : Nat, published : BOOLEAN ] ]
  /\ imageDigest \in [ Deployments -> Digest ]
  /\ endpoint    \in [ Deployments -> Nat ]
  /\ opLock      \in Deployments \union { NoHolder }
  /\ authorized  \in [ Deployments -> BOOLEAN ]
  /\ applied     \in [ Deployments -> Digest ]

QueueTypeOK ==
  /\ job     \in [ Jobs -> JobStates ]
  /\ made    \in [ Jobs -> Nat ]
  /\ stalled \in [ Jobs -> Nat ]
  /\ lock    \in [ Jobs -> Workers \union { NoLock } ]

ExecutionTypeOK ==
  /\ pc      \in [ Workers -> PC ]
  /\ task    \in [ Workers -> Deployments ]
  /\ attempt \in [ Workers -> Nat ]
  /\ step    \in [ Workers -> Steps ]
  /\ row     \in [ Workers -> RowType ]
  /\ requests   \subseteq RequestType
  /\ deliveries \subseteq { "enqueue", "mark" } \X (Deployments \X Nat)

\* The types of the tables, of the queue and of what is in flight.
TypeOK == RowTypeOK /\ ArtifactTypeOK /\ QueueTypeOK /\ ExecutionTypeOK

-----------------------------------------------------------------------------
Holding == { "queued", "validating", "testing", "scanning", "building" }

Delivering == { "build_complete", "pushing", "deploying", "verifying" }

Builds == Deployments \ Rollbacks

\* Through retries, recoveries, cancellations and crashes, a deployment has
\* one build slot while it waits for its build or builds, and none after.
SlotPerBuild ==
  \A d \in Builds :
    /\ state[d] \in Holding => Cardinality(SlotsOf(d)) = 1
    /\ state[d] = "cancel_requested" => Cardinality(SlotsOf(d)) <= 1
    /\ SlotsOf(d) # {} => state[d] \in Holding \union { "cancel_requested" }

\* The plan's concurrent_builds bounds the deployments that wait or build.
BuildsWithinQuota ==
  Cardinality({ d \in Builds : state[d] \in Holding }) <= ConcurrentBuilds

Phase(d) ==
  IF SlotsOf(d) # {} THEN "building"
  ELSE IF state[d] \in Delivering THEN "built"
  ELSE IF state[d] = "ready" THEN "delivered"
  ELSE "idle"

Lifecycle == INSTANCE BuildLifecycle
             WITH Slots <- ConcurrentBuilds, phase <- [ d \in Builds |-> Phase(d) ]

\* The rows, the reservations and the transitions of many executions and
\* requests amount to the build life cycle: slots are respected, nothing is
\* delivered unbuilt, nothing delivered builds again.
ImplementsLifecycle == Lifecycle!Spec

-----------------------------------------------------------------------------
Busy(w) == pc[w] # "idle"

\* BullMQ's lock keeps two executions of a deployment apart.
OneExecution ==
  \A v, w \in Workers : Busy(v) /\ Busy(w) /\ task[v] = task[w] => v = w

\* What a deployment that succeeded recorded is what the cluster runs:
\* however often it was retried, no other attempt applied or published last.
DeliveredDigest ==
  \A d \in Deployments :
    /\ state[d] \in { "ready", "rolled_back" } => applied[d] = imageDigest[d]
    /\ state[d] = "ready" => /\ image[d] = [ digest |-> applied[d], published |-> TRUE ]
                             /\ endpoint[d] = applied[d]

\* Even of executions that run side by side only one can succeed, and what
\* succeeded stays so.
OneSuccess ==
  \A d \in Builds : \A k \in 1..Len(attempts[d]) :
    attempts[d][k] = "completed" =>
      /\ state[d] = "ready"
      /\ << "ready", k >> \in commands[d]
      /\ \A l \in 1..Len(attempts[d]) : attempts[d][l] = "completed" => l = k

\* The cluster changes only on behalf of a deployment that is being deployed
\* or was asked to stop while it was: never once that is settled.
AppliesInTurn ==
  [][ \A d \in Builds :
        applied'[d] # applied[d] => state[d] \in { "deploying", "cancel_requested" } ]_vars

Pending == { "waiting", "delayed", "active" }

\* The outbox makes up for requests and dispatchers that die: a deployment
\* that waits has a job or an outbox row that will bring one.
WakeUpPending ==
  \A d \in Builds :
    state[d] = "queued" => job[d] \in Pending \/ \E e \in outbox : e[1] = d

\* The bound on executions, and nothing else, keeps a job from being taken.
AtBound(d) == job[d] = "waiting" /\ Len(attempts[d]) >= MaxExecutions

\* A job does not bounce between workers for ever: it completes, fails for
\* good or is removed.
JobSettles ==
  \A d \in Deployments : job[d] \in Pending ~> (job[d] \notin Pending \/ AtBound(d))

\* A build slot is given back in the end, so that other builds can start.
SlotReleased ==
  \A d \in Builds : SlotsOf(d) # {} ~> (SlotsOf(d) = {} \/ AtBound(d))

-----------------------------------------------------------------------------
(***************************************************************************)
(* What the documents say of the system, and the code does not keep.       *)
(***************************************************************************)
Quiet(d) ==
  /\ \A r \in requests : r[2] # d
  /\ \A e \in outbox : e[1] # d

\* queue/outbox.js: publication is at least once and BullMQ deduplicates it,
\* so that a queued deployment whose rows are delivered has a job to come.
DeliveredMeansQueued ==
  \A d \in Builds : state[d] = "queued" /\ Quiet(d) => job[d] \in Pending

\* docs/DEPLOYMENT_PIPELINE.md: the current job owner takes a deployment out
\* of cancel_requested, so there is one.
CancellationHasOwner ==
  \A d \in Deployments :
    state[d] = "cancel_requested" /\ Quiet(d) => job[d] \in Pending

\* docs/PHASE2-PART4-SAFE-ROLLBACK.md: a rollback that has begun ends in
\* rolled_back or failed; it never builds.
RollbackNeverBuilds ==
  \A d \in Rollbacks :
    (\E c \in commands[d] : c[1] = "rolling-back") => state[d] \notin Holding \ { "queued" }

=============================================================================
