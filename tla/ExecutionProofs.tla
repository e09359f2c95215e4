-------------------------- MODULE ExecutionProofs --------------------------
(***************************************************************************)
(* Proofs about executions. A job is never executed twice at once, as long *)
(* as executions renew their locks: BullMQ hands an active job to another  *)
(* worker only when its lock is gone, a worker that dies stops executing,  *)
(* and the requests and the dispatcher, which know nothing of locks, never *)
(* make a job with a lock wait again. From that follows what a deployment  *)
(* that succeeded recorded and when the cluster is changed. That one       *)
(* attempt succeeds at most is proved of executions that lose their locks  *)
(* as well. Last comes that a build that waits is woken up.                *)
(***************************************************************************)
EXTENDS DeploymentProofs

\* A locked job is active, and who executes a job holds its lock.
LockInv ==
  /\ \A j \in Jobs : lock[j] # NoLock => job[j] = "active"
  /\ \A w \in Workers : Busy(w) => lock[task[w]] = w

\* The calls of the queue touch no locked job.
LEMMA QueueCallLocks ==
  ASSUME TypeInv, LockInv, NEW j \in Jobs, UNCHANGED execution,
         Enqueue(j) \/ CancelJob(j) \/ BackoffEnds(j) \/ ReclaimStalled(j)
  PROVE  LockInv'
<1>1. UNCHANGED << lock, pc, task >>
  BY DEF Enqueue, CancelJob, BackoffEnds, ReclaimStalled, execution
<1>2. ASSUME NEW i \in Jobs, lock[i] # NoLock
      PROVE  job'[i] = "active"
  BY <1>2 DEF LockInv, Enqueue, CancelJob, BackoffEnds, ReclaimStalled,
              TypeInv, TypeOK, QueueTypeOK
<1> QED
  BY <1>1, <1>2 DEF LockInv, Busy

\* An execution works on under the lock it took.
LEMMA WorkingLocks ==
  ASSUME TypeInv, LockInv, NEW w \in Workers, pc[w] # "idle",
         UNCHANGED << task, lock, job >>, \E p : Goto(w, p)
  PROVE  LockInv'
<1>1. \A v \in Workers : v # w => pc'[v] = pc[v]
  BY DEF Goto, TypeInv, TypeOK, ExecutionTypeOK
<1> QED
  BY <1>1 DEF LockInv, Busy

\* An execution that takes a job, ends or dies leaves the others their locks.
LEMMA ExecutionLocks ==
  ASSUME TypeInv, LockInv, "lock loss" \notin Environment, NEW w \in Workers, Moves(w)
  PROVE  LockInv'
<1>a. /\ \A j \in Jobs : lock[j] # NoLock => job[j] = "active"
      /\ \A v \in Workers : Busy(v) => lock[task[v]] = v
      /\ w # NoLock
  BY LockAssumption DEF LockInv
<1>b. /\ pc   \in [ Workers -> PC ]
      /\ task \in [ Workers -> Jobs ]
      /\ lock \in [ Jobs -> Workers \union { NoLock } ]
      /\ job  \in [ Jobs -> JobStates ]
  BY WorkerAssumption DEF TypeInv, TypeOK, ExecutionTypeOK, QueueTypeOK
<1>1. CASE Take(w)
  <2>1. PICK d \in Jobs : TakeJob(w, d) /\ task' = [ task EXCEPT ![w] = d ]
    BY <1>1, WorkerAssumption DEF Take
  <2>2. lock[d] = NoLock
    BY <1>a, <2>1 DEF TakeJob
  <2>3. \A v \in Workers : v # w => pc'[v] = pc[v] /\ task'[v] = task[v]
    BY <1>b, <1>1, <2>1 DEF Take, Goto
  <2>4. /\ \A j \in Jobs : j # d => lock'[j] = lock[j] /\ job'[j] = job[j]
        /\ lock'[d] = w /\ job'[d] = "active" /\ task'[w] = d
    BY <1>b, <2>1 DEF TakeJob
  <2>5. \A j \in Jobs : lock'[j] # NoLock => job'[j] = "active"
    BY <1>a, <2>4
  <2>6. ASSUME NEW v \in Workers, pc'[v] # "idle"
        PROVE  lock'[task'[v]] = v
    <3>1. CASE v = w
      BY <2>6, <3>1, <2>3, <2>4
    <3>2. CASE v # w
      <4>1. pc'[v] = pc[v] /\ task'[v] = task[v] /\ task[v] \in Jobs /\ lock[task[v]] = v
        BY <1>a, <1>b, <2>6, <3>2, <2>3, <2>4 DEF Busy
      <4> QED
        BY <2>2, <2>4, <4>1, LockAssumption
    <3> QED
      BY <3>1, <3>2
  <2> QED
    BY <2>5, <2>6 DEF LockInv, Busy
<1>2. CASE Return(w) \/ Crash(w)
  <2>1. /\ pc'[w] = "idle"
        /\ \A v \in Workers : v # w => pc'[v] = pc[v] /\ task'[v] = task[v]
    BY <1>b, <1>2 DEF Return, Crash, Reset, Goto
  <2>2. ASSUME NEW j \in Jobs
        PROVE  \/ lock'[j] = lock[j] /\ job'[j] = job[j]
               \/ lock[j] = w /\ lock'[j] = NoLock
    <3>1. CASE Return(w)
      <4>1. PICK outcome : Settle(w, task[w], outcome)
        BY <3>1 DEF Return, CompleteJob, FailJob
      <4> QED
        BY <1>b, <4>1 DEF Settle, queueVars
    <3>2. CASE Crash(w)
      BY <3>2 DEF Crash, DropLock
    <3> QED
      BY <1>2, <3>1, <3>2
  <2>3. \A j \in Jobs : lock'[j] # NoLock => job'[j] = "active"
    BY <1>a, <2>2
  <2>4. ASSUME NEW v \in Workers, pc'[v] # "idle"
        PROVE  lock'[task'[v]] = v
    <3>1. v # w
      BY <2>1, <2>4
    <3>2. pc'[v] = pc[v] /\ task'[v] = task[v] /\ task[v] \in Jobs /\ lock[task[v]] = v
      BY <1>a, <1>b, <2>1, <2>4, <3>1 DEF Busy
    <3> QED
      BY <2>2, <3>1, <3>2
  <2> QED
    BY <2>3, <2>4 DEF LockInv, Busy
<1>3. CASE Load(w) \/ Reject(w) \/ Admit(w) \/ ReadCurrent(w) \/ Catch(w)
  <2>1. /\ pc[w] # "idle"
        /\ UNCHANGED << task, lock, job >>
    BY <1>3 DEF Load, Reject, Admit, ReadCurrent, Catch, At, queueVars
  <2>2. CASE Load(w)
    BY <2>1, <2>2, WorkingLocks DEF Load, Enter, GotoStep
  <2>3. CASE Reject(w) \/ Admit(w) \/ ReadCurrent(w) \/ Catch(w)
    BY <2>1, <2>3, WorkingLocks DEF Reject, Admit, ReadCurrent, Catch, GotoStep
  <2> QED
    BY <1>3, <2>2, <2>3
<1>4. CASE Transition(w)
  <2>1. /\ pc[w] # "idle"
        /\ UNCHANGED << task, lock, job >>
    BY <1>4 DEF Transition, At, queueVars
  <2>2. \E p : Goto(w, p)
    BY <1>4 DEF Transition, After, Enter, GotoStep
  <2> QED
    BY <2>1, <2>2, WorkingLocks
<1>5. CASE RunStage(w) \/ BuildImage(w) \/ PublishImage(w) \/ Apply(w)
           \/ ConfirmRollout(w) \/ VerifyRollback(w)
  <2>1. /\ pc[w] # "idle"
        /\ UNCHANGED << task, lock, job >>
    BY <1>5 DEF RunStage, BuildImage, PublishImage, Apply, ConfirmRollout,
                VerifyRollback, At, queueVars
  <2>2. \E p : Goto(w, p)
    BY <1>5 DEF RunStage, BuildImage, PublishImage, Apply, ConfirmRollout,
                VerifyRollback, NextStage, GotoStep
  <2> QED
    BY <2>1, <2>2, WorkingLocks
<1>6. CASE StageThrows(w) \/ Finish(w) \/ Abandon(w) \/ Release(w) \/ StoreThrows(w)
  <2>1. /\ pc[w] # "idle"
        /\ UNCHANGED << task, lock, job >>
    BY <1>6 DEF StageThrows, Finish, Abandon, Release, StoreThrows, At, queueVars
  <2>2. \E p : Goto(w, p)
    BY <1>6 DEF StageThrows, Finish, Abandon, Release, StoreThrows
  <2> QED
    BY <2>1, <2>2, WorkingLocks
<1>7. ~LoseLock(w)
  BY DEF LoseLock
<1> QED
  BY <1>1, <1>2, <1>3, <1>4, <1>5, <1>6, <1>7 DEF Moves, Execute

\* Who calls the queue: requests, the dispatcher and BullMQ itself.
LEMMA QueueCallers ==
  ASSUME TypeInv, [Next]_vars, ~\E w \in Workers : Moves(w)
  PROVE  \/ UNCHANGED << lock, job >>
         \/ \E j \in Jobs : Enqueue(j) \/ CancelJob(j) \/ BackoffEnds(j) \/ ReclaimStalled(j)
<1> USE DEF queueVars
<1>1. CASE \E d \in Deployments : Handlers(d)
  BY <1>1, WorkerAssumption
     DEF Handlers, Create, CreateRollback, CheckLock, QueueRollback,
         RequestCancellation, CallQueue, RevokeAccess, Retry
<1>2. CASE \E d \in Deployments : Queue(d)
  BY <1>2, WorkerAssumption DEF Queue
<1>3. CASE \E w \in Workers : WorkerStep(w)
  BY <1>3 DEF WorkerStep, Moves
<1>4. CASE Dispatcher
  <2>1. \A x \in deliveries : x[2][1] \in Jobs
    BY WorkerAssumption DEF TypeInv, TypeOK, ExecutionTypeOK
  <2> QED
    BY <1>4, <2>1 DEF Dispatcher, DispatchRead, DispatchEnqueue, DispatchMark, DispatcherDies
<1>5. CASE OperationLockExpires \/ UNCHANGED vars
  BY <1>5 DEF OperationLockExpires, vars
<1>6. CASE Failure
  BY <1>6 DEF Failure, RequestDies, Moves
<1> QED
  BY <1>1, <1>2, <1>3, <1>4, <1>5, <1>6 DEF Next

\* Every step keeps the locks.
LEMMA LockInvStep ==
  ASSUME TypeInv, LockInv, "lock loss" \notin Environment, [Next]_vars
  PROVE  LockInv'
<1>1. CASE \E w \in Workers : Moves(w)
  BY <1>1, ExecutionLocks
<1>2. CASE ~\E w \in Workers : Moves(w)
  <2>1. UNCHANGED execution
    BY <1>2, ExecutionsMove
  <2>2. CASE UNCHANGED << lock, job >>
    BY <2>1, <2>2 DEF LockInv, Busy, execution
  <2> QED
    BY <1>2, <2>1, <2>2, QueueCallers, QueueCallLocks
<1> QED
  BY <1>1, <1>2

LEMMA LockInit == Init => LockInv
<1>1. Init => \A j \in Jobs : lock[j] = NoLock
  BY DEF Init, QueueInit
<1>2. Init => \A w \in Workers : ~Busy(w)
  BY DEF Init, WorkerInit, Busy
<1> QED
  BY <1>1, <1>2 DEF LockInv

\* For any number of deployments and executions, with crashes, stalls,
\* retries and duplicate publications but no lost lock, two executions are
\* never busy with the same deployment.
THEOREM OneExecutionKept ==
  ASSUME "lock loss" \notin Environment
  PROVE  Spec => []OneExecution
<1>1. Init => LockInv
  BY LockInit
<1>2. TypeInv /\ LockInv /\ [Next]_vars => LockInv'
  BY LockInvStep
<1>3. LockInv => OneExecution
  BY DEF LockInv, OneExecution
<1> QED
  BY <1>1, <1>2, <1>3, TypesKept, PTL DEF Spec

(***************************************************************************)
(* What an execution works on.                                             *)
(*                                                                         *)
(* Its command ids are new, since the attempt they bear is its own; hence  *)
(* it never takes a transition for done that is not.  While it works, the  *)
(* row is in the state it committed last, or was asked to stop or to roll  *)
(* back, from where no stage is reached.                                   *)
(***************************************************************************)
\* The steps that commit a stage, in the order of a build and of a rollback.
Chain == { "validating", "testing", "scanning", "building", "build-complete", "pushing",
           "deploying", "verifying", "ready",
           "rolling-back", "rollback-verifying", "rolled-back" }

Rank(s) ==
  CASE s \in { "validating", "rolling-back" }    -> 1
    [] s \in { "testing", "rollback-verifying" } -> 2
    [] s \in { "scanning", "rolled-back" }       -> 3
    [] s = "building"       -> 4
    [] s = "build-complete" -> 5
    [] s = "pushing"        -> 6
    [] s = "deploying"      -> 7
    [] s = "verifying"      -> 8
    [] s = "ready"          -> 9

\* The state a row must be in for a step to be committed.
Prior(s) ==
  CASE s = "testing"            -> "validating"
    [] s = "scanning"           -> "testing"
    [] s = "building"           -> "scanning"
    [] s = "build-complete"     -> "building"
    [] s = "pushing"            -> "build_complete"
    [] s = "deploying"          -> "pushing"
    [] s = "verifying"          -> "deploying"
    [] s = "ready"              -> "verifying"
    [] s = "rollback-verifying" -> "rolling_back"
    [] s = "rolled-back"        -> "verifying"

\* Asked to stop, or to roll back, by a request.
Derailed(d) == state[d] \in { "rollback_queued", "cancel_requested" }

\* Commands are of attempts there were, and an execution's are behind it.
Numbered(d) == \A c \in commands[d] : c[1] \in Chain => c[2] <= Len(attempts[d])

Fresh(w) ==
  /\ attempt[w] <= Len(attempts[task[w]])
  /\ pc[w] = "idle" => attempt[w] = 0
  /\ step[w] \in Chain => \A c \in commands[task[w]] : c[1] \in Chain /\ c[2] = attempt[w] =>
       /\ pc[w] \in { "read", "commit" }  => Rank(c[1]) < Rank(step[w])
       /\ pc[w] \in { "work", "rollout" } => Rank(c[1]) <= Rank(step[w])

OnCourse(w) ==
  /\ pc[w] = "admit" => step[w] \in { "validating", "rolling-back" }
  /\ pc[w] \in { "work", "rollout" } =>
       /\ step[w] \in Chain \ { "ready", "rolled-back" }
       /\ Derailed(task[w]) \/ state[task[w]] = Target(step[w])
  /\ pc[w] \in { "read", "commit" } /\ step[w] \in Chain \ { "validating", "rolling-back" }
       => Derailed(task[w]) \/ state[task[w]] = Prior(step[w])

\* What the stages behind an execution left: the image it published, the
\* digest it applied, the endpoint it recorded.
Produced(w, d) ==
  /\ step[w] \in { "deploying", "verifying", "ready" } =>
       image[d] = [ digest |-> attempt[w], published |-> TRUE ] /\ imageDigest[d] = attempt[w]
  /\ step[w] \in { "verifying", "ready" } \/ (step[w] = "deploying" /\ pc[w] = "rollout") =>
       applied[d] = attempt[w]
  /\ step[w] \in { "verifying", "ready" } => endpoint[d] = attempt[w]
  /\ step[w] = "rollback-verifying" /\ pc[w] = "work" => row[w].digest = imageDigest[d]
  /\ step[w] = "rolled-back" => applied[d] = imageDigest[d]

Working(w) == pc[w] \in { "read", "commit", "work", "rollout" }

CourseInv ==
  /\ \A d \in Deployments : Numbered(d)
  /\ \A w \in Workers :
       /\ Fresh(w)
       /\ OnCourse(w)
       /\ Working(w) => Derailed(task[w]) \/ Produced(w, task[w])

\* What a step that is not an execution's own does to its deployment: it may
\* derail it, and else changes nothing the execution relies on.
Spared(d) ==
  /\ UNCHANGED << attempts[d], image[d], endpoint[d], applied[d] >>
  /\ commands[d] \subseteq commands'[d]
  /\ \A c \in commands'[d] : c[1] \in Chain => c \in commands[d]
  /\ \/ state'[d] = state[d] /\ imageDigest'[d] = imageDigest[d]
     \/ Derailed(d)'
     \/ state[d] \in { "absent", "failed" } /\ state'[d] = "queued"

\* A step that leaves the tables alone spares every deployment.
LEMMA SparedByNone ==
  ASSUME NEW d, UNCHANGED << state, commands, artifacts, attempts, applied >>
  PROVE  Spared(d)
  BY DEF Spared, artifacts

\* So does a change of another row.
LEMMA SparedByOthers ==
  ASSUME TypeInv, NEW d \in Deployments, NEW e \in Deployments, e # d, NEW to, NEW cmd,
         RecordEvent(e, to), Commit(e, to, cmd) \/ UNCHANGED commands,
         UNCHANGED << attempts, applied, image, endpoint >>,
         imageDigest'[d] = imageDigest[d]
  PROVE  Spared(d)
  BY DEF Spared, RecordEvent, Commit, TypeInv, TypeOK, RowTypeOK

\* Requests spare every deployment in this sense.
LEMMA HandlersSpare ==
  ASSUME TypeInv, NEW d \in Deployments, NEW e \in Deployments, Handlers(e)
  PROVE  Spared(d)
<1>a. /\ state \in [ Deployments -> STATES \union { "absent" } ]
      /\ commands \in [ Deployments -> SUBSET ((Steps \union { "cancel", "retry" }) \X Nat) ]
      /\ imageDigest \in [ Deployments -> Digest ]
  BY DEF TypeInv, TypeOK, RowTypeOK, ArtifactTypeOK
<1>1. CASE Create(e) \/ CreateRollback(e)
  <2>1. /\ state[e] = "absent" /\ state' = [ state EXCEPT ![e] = "queued" ]
        /\ UNCHANGED << commands, artifacts, attempts, applied >>
    BY <1>1 DEF Create, CreateRollback, CreateRow, RecordEvent, world
  <2> QED
    BY <1>a, <2>1 DEF Spared, artifacts
<1>2. CASE RequestCancellation(e)
  <2>1. /\ UNCHANGED << artifacts, attempts, applied >>
        /\ \/ UNCHANGED << state, commands >>
           \/ /\ state' = [ state EXCEPT ![e] = "cancel_requested" ]
              /\ commands' = [ commands EXCEPT ![e] = @ \union { << "cancel", 0 >> } ]
    BY <1>2 DEF RequestCancellation, Commit, RecordEvent, world, rows
  <2> QED
    BY <1>a, <2>1 DEF Spared, artifacts, Derailed, Chain
<1>3. ASSUME NEW k \in 1..MaxRetries, Retry(e, k)
      PROVE  Spared(d)
  <2>1. /\ state[e] = "failed"
        /\ UNCHANGED << artifacts, attempts, applied >>
        /\ \/ UNCHANGED << state, commands >>
           \/ /\ state' = [ state EXCEPT ![e] = "queued" ]
              /\ commands' = [ commands EXCEPT ![e] = @ \union { << "retry", k >> } ]
    BY <1>3 DEF Retry, Commit, RecordEvent, world, rows
  <2> QED
    BY <1>a, <2>1 DEF Spared, artifacts, Chain
<1>4. CASE QueueRollback(e)
  <2>1. /\ state' = [ state EXCEPT ![e] = "rollback_queued" ]
        /\ imageDigest' = [ imageDigest EXCEPT ![e] = TargetDigest ]
        /\ UNCHANGED << commands, image, endpoint, attempts, applied >>
    BY <1>4 DEF QueueRollback, RecordEvent, world
  <2> QED
    BY <1>a, <2>1 DEF Spared, Derailed
<1>5. CASE CheckLock(e) \/ CallQueue(e) \/ RevokeAccess(e)
  BY <1>5, SparedByNone DEF CheckLock, CallQueue, RevokeAccess, storeVars, rows, world
<1> QED
  BY <1>1, <1>2, <1>3, <1>4, <1>5 DEF Handlers

\* A step of another execution spares a deployment, and so does an idle one.
LEMMA ExecutionsSpare ==
  ASSUME TypeInv, NEW d \in Deployments, NEW w \in Workers, Moves(w),
         pc[w] = "idle" \/ task[w] # d
  PROVE  Spared(d)
<1>a. /\ task[w] \in Deployments
      /\ attempts \in [ Deployments -> Seq({ "active", "completed", "failed" }) ]
      /\ image \in [ Deployments -> [ digest : Nat, published : BOOLEAN ] ]
      /\ imageDigest \in [ Deployments -> Digest ]
      /\ endpoint \in [ Deployments -> Nat ]
      /\ applied \in [ Deployments -> Digest ]
  BY DEF TypeInv, TypeOK, ExecutionTypeOK, ArtifactTypeOK
<1>1. CASE Take(w) \/ Load(w) \/ Reject(w) \/ ReadCurrent(w) \/ RunStage(w)
           \/ StageThrows(w) \/ Catch(w) \/ Return(w)
  BY <1>1, SparedByNone DEF Take, Load, Reject, ReadCurrent, RunStage, StageThrows, Catch,
                            Return, storeVars, rows, world
<1>2. CASE Crash(w) \/ LoseLock(w) \/ StoreThrows(w)
  BY <1>2, SparedByNone DEF Crash, LoseLock, StoreThrows, storeVars, rows, world
<1>3. CASE Admit(w) \/ Finish(w) \/ Abandon(w)
  <2>1. task[w] # d
    BY <1>3 DEF Admit, Finish, Abandon, At
  <2>2. attempts'[d] = attempts[d]
    BY <1>a, <1>3, <2>1 DEF Admit, Finish, Abandon, AddAttempt, FinishAttempt
  <2> QED
    BY <1>3, <2>2 DEF Admit, Finish, Abandon, Spared, rows, artifacts, world
<1>4. CASE BuildImage(w) \/ PublishImage(w) \/ ConfirmRollout(w) \/ VerifyRollback(w)
  <2>1. task[w] # d
    BY <1>4 DEF BuildImage, PublishImage, ConfirmRollout, VerifyRollback, At
  <2>2. UNCHANGED << image[d], imageDigest[d], endpoint[d] >>
    BY <1>a, <1>4, <2>1 DEF BuildImage, PublishImage, ConfirmRollout, VerifyRollback,
                            SaveImage, SavePublishedImage, SetEndpoint, artifacts
  <2> QED
    BY <1>4, <2>2 DEF BuildImage, PublishImage, ConfirmRollout, VerifyRollback, Spared,
                      rows, world
<1>5. CASE Apply(w)
  <2>1. task[w] # d
    BY <1>5 DEF Apply, At
  <2>2. applied'[d] = applied[d]
    BY <1>a, <1>5, <2>1 DEF Apply
  <2> QED
    BY <1>5, <2>2 DEF Apply, Spared, storeVars, rows, artifacts
<1>6. CASE Release(w)
  BY <1>6, SparedByNone DEF Release, rows, artifacts, world
<1>7. CASE Transition(w)
  <2>1. task[w] # d
    BY <1>7 DEF Transition, At
  <2>2. CASE UNCHANGED rows
    BY <1>7, <2>2, SparedByNone DEF Transition, rows, artifacts, world
  <2>3. CASE Commit(task[w], Target(step[w]), CommandId(w))
    BY <1>a, <1>7, <2>1, <2>3, SparedByOthers DEF Transition, Commit, artifacts, world
  <2> QED
    BY <1>7, <2>2, <2>3 DEF Transition
<1> QED
  BY <1>1, <1>2, <1>3, <1>4, <1>5, <1>6, <1>7 DEF Moves, Execute

\* Nobody but an execution of a deployment does more than that to it.
LEMMA OthersSpare ==
  ASSUME TypeInv, [Next]_vars, NEW d \in Deployments,
         \A w \in Workers : Moves(w) => pc[w] = "idle" \/ task[w] # d
  PROVE  Spared(d)
<1>1. CASE \E e \in Deployments : Handlers(e)
  BY <1>1, HandlersSpare
<1>2. CASE \E w \in Workers : Moves(w)
  BY <1>2, ExecutionsSpare
<1>3. CASE \E e \in Deployments : Queue(e)
  BY <1>3, SparedByNone DEF Queue, storeVars, rows, world
<1>4. CASE Dispatcher
  BY <1>4, SparedByNone DEF Dispatcher, DispatchRead, DispatchEnqueue, DispatchMark,
                            DispatcherDies, storeVars, rows, world
<1>5. CASE OperationLockExpires \/ (\E r \in requests : RequestDies(r)) \/ UNCHANGED vars
  BY <1>5, SparedByNone DEF OperationLockExpires, RequestDies, vars, storeVars, rows, world
<1> QED
  BY <1>1, <1>2, <1>3, <1>4, <1>5 DEF Next, WorkerStep, Failure, Moves

\* A step of an execution is its own.
LEMMA MovesOwn ==
  ASSUME TypeInv, NEW v \in Workers, NEW w \in Workers, v # w, Moves(v)
  PROVE  UNCHANGED << pc[w], task[w], attempt[w], step[w], row[w] >>
<1>a. /\ pc      \in [ Workers -> PC ]
      /\ task    \in [ Workers -> Deployments ]
      /\ attempt \in [ Workers -> Nat ]
      /\ step    \in [ Workers -> Steps ]
      /\ row     \in [ Workers -> RowType ]
  BY DEF TypeInv, TypeOK, ExecutionTypeOK
<1>0. \E p, s : pc' = [ pc EXCEPT ![v] = p ] /\ step' = [ step EXCEPT ![v] = s ]
  BY WorkerControl DEF Moves, ControlStep
<1>1. UNCHANGED << pc[w], step[w] >>
  BY <1>a, <1>0
<1>2. CASE Take(v) \/ Admit(v)
  BY <1>a, <1>1, <1>2 DEF Take, Admit
<1>3. CASE Load(v) \/ Reject(v) \/ ReadCurrent(v) \/ Catch(v)
  BY <1>a, <1>1, <1>3 DEF Load, Reject, ReadCurrent, Catch
<1>4. CASE Transition(v)
  <2>1. (\E r : row' = [ row EXCEPT ![v] = r ]) \/ row' = row
    BY <1>4 DEF Transition
  <2> QED
    BY <1>a, <1>1, <1>4, <2>1 DEF Transition
<1>5. CASE Return(v) \/ Crash(v)
  BY <1>a, <1>1, <1>5 DEF Return, Crash, Reset
<1>6. CASE LoseLock(v)
  BY <1>6 DEF LoseLock, execution
<1>7. CASE RunStage(v) \/ BuildImage(v) \/ PublishImage(v) \/ Apply(v)
           \/ ConfirmRollout(v) \/ VerifyRollback(v) \/ StageThrows(v)
  BY <1>1, <1>7 DEF RunStage, BuildImage, PublishImage, Apply,
                    ConfirmRollout, VerifyRollback, StageThrows
<1>8. CASE Finish(v) \/ Abandon(v) \/ Release(v) \/ StoreThrows(v)
  BY <1>1, <1>8 DEF Finish, Abandon, Release, StoreThrows
<1> QED
  BY <1>2, <1>3, <1>4, <1>5, <1>6, <1>7, <1>8 DEF Moves, Execute

\* What holds of an execution, for short.
Ours(w) == Fresh(w) /\ OnCourse(w) /\ (Working(w) => Derailed(task[w]) \/ Produced(w, task[w]))

\* An execution whose deployment is spared loses nothing.
LEMMA SparedKeeps ==
  ASSUME TypeInv, NEW w \in Workers, Ours(w), Spared(task[w]),
         UNCHANGED << pc[w], task[w], attempt[w], step[w], row[w] >>
  PROVE  Ours(w)'
<1> DEFINE d == task[w]
<1>1. Fresh(w)'
  BY DEF Ours, Fresh, Spared
<1>2. /\ step[w] \in Chain => Target(step[w]) \notin { "absent", "failed" }
      /\ step[w] \in Chain \ { "validating", "rolling-back" }
           => Prior(step[w]) \notin { "absent", "failed" }
  BY DEF Chain, Target, Prior, RecoverySteps
<1>3. ASSUME ~Derailed(d)', state[d] \notin { "absent", "failed" }
      PROVE  UNCHANGED << state[d], imageDigest[d], image[d], endpoint[d], applied[d] >>
  BY <1>3 DEF Spared
<1>4. OnCourse(w)'
  <2>1. ASSUME pc[w] \in { "work", "rollout" }, ~Derailed(d)'
        PROVE  state'[d] = Target(step[w])
    BY <1>2, <1>3, <2>1 DEF Ours, OnCourse, Derailed, Spared
  <2>2. ASSUME pc[w] \in { "read", "commit" }, ~Derailed(d)',
               step[w] \in Chain \ { "validating", "rolling-back" }
        PROVE  state'[d] = Prior(step[w])
    BY <1>2, <1>3, <2>2 DEF Ours, OnCourse, Derailed, Spared
  <2> QED
    BY <2>1, <2>2 DEF Ours, OnCourse, Derailed
<1>5. ASSUME Working(w), ~Derailed(d)'
      PROVE  Produced(w, d)'
  <2>1. CASE step[w] \in Chain \ { "validating", "rolling-back" }
    <3>1. state[d] \notin { "absent", "failed" } /\ ~Derailed(d)
      BY <1>2, <1>5, <2>1 DEF Ours, OnCourse, Working, Spared, Derailed
    <3> QED
      BY <1>3, <1>5, <3>1 DEF Ours, Produced
  <2>2. CASE step[w] \notin Chain \ { "validating", "rolling-back" }
    BY <2>2 DEF Produced, Chain
  <2> QED
    BY <2>1, <2>2
<1> QED
  BY <1>1, <1>4, <1>5 DEF Ours, Working, Derailed

\* The steps in their order.
LEMMA ChainOrder ==
  ASSUME NEW s \in Chain \ { "ready", "rolled-back" }
  PROVE  /\ Following(s) \in Chain \ { "validating", "rolling-back" }
         /\ Prior(Following(s)) = Target(s)
         /\ Rank(s) < Rank(Following(s))
         /\ Target(s) \notin { "ready", "rolled_back", "failed" }
<1>1. Following(s) \in Chain \ { "validating", "rolling-back" }
  BY DEF Chain, Following
<1>2. \E f, t : /\ Following(s) = f /\ Target(s) = t
                 /\ Prior(f) = t /\ Rank(s) < Rank(f)
  <2>1. CASE s = "validating"
    <3>1. Following(s) = "testing" /\ Target(s) = "validating"
      BY <2>1 DEF Following, Target, RecoverySteps
    <3>2. Prior("testing") = "validating" /\ Rank(s) < Rank("testing")
      BY <2>1 DEF Prior, Rank
    <3> QED
      BY <3>1, <3>2
  <2>2. CASE s = "testing"
    <3>1. Following(s) = "scanning" /\ Target(s) = "testing"
      BY <2>2 DEF Following, Target, RecoverySteps
    <3>2. Prior("scanning") = "testing" /\ Rank(s) < Rank("scanning")
      BY <2>2 DEF Prior, Rank
    <3> QED
      BY <3>1, <3>2
  <2>3. CASE s = "scanning"
    <3>1. Following(s) = "building" /\ Target(s) = "scanning"
      BY <2>3 DEF Following, Target, RecoverySteps
    <3>2. Prior("building") = "scanning" /\ Rank(s) < Rank("building")
      BY <2>3 DEF Prior, Rank
    <3> QED
      BY <3>1, <3>2
  <2>4. CASE s = "building"
    <3>1. Following(s) = "build-complete" /\ Target(s) = "building"
      BY <2>4 DEF Following, Target, RecoverySteps
    <3>2. Prior("build-complete") = "building" /\ Rank(s) < Rank("build-complete")
      BY <2>4 DEF Prior, Rank
    <3> QED
      BY <3>1, <3>2
  <2>5. CASE s = "build-complete"
    <3>1. Following(s) = "pushing" /\ Target(s) = "build_complete"
      BY <2>5 DEF Following, Target, RecoverySteps
    <3>2. Prior("pushing") = "build_complete" /\ Rank(s) < Rank("pushing")
      BY <2>5 DEF Prior, Rank
    <3> QED
      BY <3>1, <3>2
  <2>6. CASE s = "pushing"
    <3>1. Following(s) = "deploying" /\ Target(s) = "pushing"
      BY <2>6 DEF Following, Target, RecoverySteps
    <3>2. Prior("deploying") = "pushing" /\ Rank(s) < Rank("deploying")
      BY <2>6 DEF Prior, Rank
    <3> QED
      BY <3>1, <3>2
  <2>7. CASE s = "deploying"
    <3>1. Following(s) = "verifying" /\ Target(s) = "deploying"
      BY <2>7 DEF Following, Target, RecoverySteps
    <3>2. Prior("verifying") = "deploying" /\ Rank(s) < Rank("verifying")
      BY <2>7 DEF Prior, Rank
    <3> QED
      BY <3>1, <3>2
  <2>8. CASE s = "verifying"
    <3>1. Following(s) = "ready" /\ Target(s) = "verifying"
      BY <2>8 DEF Following, Target, RecoverySteps
    <3>2. Prior("ready") = "verifying" /\ Rank(s) < Rank("ready")
      BY <2>8 DEF Prior, Rank
    <3> QED
      BY <3>1, <3>2
  <2>9. CASE s = "rolling-back"
    <3>1. Following(s) = "rollback-verifying" /\ Target(s) = "rolling_back"
      BY <2>9 DEF Following, Target, RecoverySteps
    <3>2. Prior("rollback-verifying") = "rolling_back" /\ Rank(s) < Rank("rollback-verifying")
      BY <2>9 DEF Prior, Rank
    <3> QED
      BY <3>1, <3>2
  <2>10. CASE s = "rollback-verifying"
    <3>1. Following(s) = "rolled-back" /\ Target(s) = "verifying"
      BY <2>10 DEF Following, Target, RecoverySteps
    <3>2. Prior("rolled-back") = "verifying" /\ Rank(s) < Rank("rolled-back")
      BY <2>10 DEF Prior, Rank
    <3> QED
      BY <3>1, <3>2
  <2> QED
    BY <2>1, <2>2, <2>3, <2>4, <2>5, <2>6, <2>7, <2>8, <2>9, <2>10 DEF Chain
<1>4. Target(s) \notin { "ready", "rolled_back", "failed" }
  BY DEF Chain, Target, RecoverySteps
<1> QED
  BY <1>1, <1>2, <1>4

\* No stage is reached by a row that was derailed.
LEMMA DerailedStops ==
  ASSUME NEW d, NEW s \in Chain \ { "validating", "rolling-back" }, Derailed(d)
  PROVE  ~CanTransition(state[d], Target(s))
<1>1. \/ state[d] = "rollback_queued"  /\ ALLOWED(state[d]) = { "rolling_back", "cancel_requested", "failed" }
      \/ state[d] = "cancel_requested" /\ ALLOWED(state[d]) = { "cancelled", "failed" }
  BY DEF Derailed, ALLOWED, Interruptible
<1>2. Target(s) \notin { "rolling_back", "cancel_requested", "cancelled", "failed" }
  BY DEF Chain, Target, RecoverySteps
<1> QED
  BY <1>1, <1>2 DEF CanTransition

\* Where a stage leads once it is committed, or found to be so.
LEMMA AfterChain ==
  ASSUME TypeInv, NEW w \in Workers, step[w] \in Chain, NEW r, After(w, r)
  PROVE  /\ step'[w] = step[w]
         /\ pc'[w] = IF step[w] \in { "ready", "rolled-back" } THEN "finish" ELSE "work"
<1>1. /\ UNCHANGED step
      /\ Goto(w, IF step[w] \in { "ready", "rolled-back" } THEN "finish" ELSE "work")
  BY DEF After, Chain
<1> QED
  BY <1>1 DEF Goto, TypeInv, TypeOK, ExecutionTypeOK

\* Recovery and the end of an execution commit no stage.
LEMMA AfterOther ==
  ASSUME TypeInv, NEW w \in Workers, At(w, "commit"), step[w] \notin Chain, NEW r, After(w, r)
  PROVE  /\ pc'[w] \in { "commit", "admit", "threw", "abandon" }
         /\ pc'[w] = "commit" => step'[w] \notin Chain
         /\ pc'[w] = "admit" => step'[w] \in { "validating", "rolling-back" }
<1>a. step[w] \in RecoverySteps \union { "cancelled", "failed", "rollback-failed" }
  BY DEF TypeInv, TypeOK, ExecutionTypeOK, Steps, RollbackSteps, BuildSteps, Chain
<1>b. /\ pc \in [ Workers -> PC ] /\ step \in [ Workers -> Steps ]
  BY DEF TypeInv, TypeOK, ExecutionTypeOK
<1>1. ASSUME Enter(w, r)
      PROVE  /\ pc'[w] \in { "commit", "admit" }
             /\ pc'[w] = "commit" => step'[w] \notin Chain
             /\ pc'[w] = "admit" => step'[w] \in { "validating", "rolling-back" }
  BY <1>1, <1>b DEF Enter, GotoStep, Goto, Chain
<1>2. CASE step[w] = "rollback-recovery-queue"
  BY <1>1, <1>2 DEF After
<1>3. CASE step[w] # "rollback-recovery-queue"
  BY <1>a, <1>b, <1>3 DEF After, GotoStep, Goto, RecoverySteps, Chain
<1> QED
  BY <1>2, <1>3

\* The length of the list of attempts only grows.
LEMMA AttemptsGrow ==
  ASSUME TypeInv, NEW w \in Workers, Moves(w)
  PROVE  /\ Len(attempts[task[w]]) \in Nat /\ Len(attempts'[task[w]]) \in Nat
         /\ Len(attempts[task[w]]) <= Len(attempts'[task[w]])
<1> DEFINE d == task[w]
           S == { "active", "completed", "failed" }
<1>a. d \in Deployments /\ attempts \in [ Deployments -> Seq(S) ] /\ attempts[d] \in Seq(S)
      /\ Len(attempts[d]) \in Nat
  BY DEF TypeInv, TypeOK, ExecutionTypeOK, ArtifactTypeOK
<1>0. CASE UNCHANGED attempts
  BY <1>a, <1>0
<1>1. CASE Admit(w)
  <2>1. attempts'[d] = Append(attempts[d], "active") \/ attempts' = attempts
    BY <1>a, <1>1 DEF Admit, AddAttempt
  <2>2. Len(Append(attempts[d], "active")) = Len(attempts[d]) + 1
    BY <1>a
  <2> QED
    BY <1>a, <2>1, <2>2
<1>2. CASE Finish(w) \/ Abandon(w)
  <2>1. PICK k, status : attempts' = [ attempts EXCEPT ![d][k] = status ]
    BY <1>2 DEF Finish, Abandon, FinishAttempt
  <2>2. attempts'[d] = [ attempts[d] EXCEPT ![k] = status ]
    BY <1>a, <2>1
  <2>3. DOMAIN attempts'[d] = 1..Len(attempts[d])
    BY <1>a, <2>2
  <2>4. Len(attempts'[d]) = Len(attempts[d])
    BY <1>a, <2>2, <2>3, LenProperties
  <2> QED
    BY <1>a, <2>4
<1>3. CASE Take(w) \/ Load(w) \/ Reject(w) \/ ReadCurrent(w) \/ Transition(w) \/ RunStage(w)
           \/ StageThrows(w) \/ Catch(w) \/ Return(w) \/ Apply(w)
  BY <1>0, <1>3 DEF Take, Load, Reject, ReadCurrent, Transition, RunStage, StageThrows,
                    Catch, Return, Apply, storeVars
<1>4. CASE BuildImage(w) \/ PublishImage(w) \/ ConfirmRollout(w) \/ VerifyRollback(w)
           \/ Release(w) \/ Crash(w) \/ LoseLock(w) \/ StoreThrows(w)
  BY <1>0, <1>4 DEF BuildImage, PublishImage, ConfirmRollout, VerifyRollback, Release,
                    Crash, LoseLock, StoreThrows, storeVars
<1> QED
  BY <1>1, <1>2, <1>3, <1>4 DEF Moves, Execute

\* An execution that leaves its stages relies on nothing.
LEMMA Aside ==
  ASSUME TypeInv, NEW w \in Workers, Moves(w), Fresh(w),
         attempt'[w] = attempt[w], task'[w] = task[w],
         \/ pc'[w] \notin { "idle", "read", "commit", "work", "rollout" }
         \/ pc'[w] = "commit" /\ step'[w] \notin Chain,
         pc'[w] = "admit" => step'[w] \in { "validating", "rolling-back" }
  PROVE  Ours(w)'
<1>1. attempt[w] <= Len(attempts'[task[w]])
  <2>1. attempt[w] \in Nat /\ attempt[w] <= Len(attempts[task[w]])
    BY DEF Fresh, TypeInv, TypeOK, ExecutionTypeOK
  <2> QED
    BY <2>1, AttemptsGrow
<1>2. Fresh(w)'
  BY <1>1 DEF Fresh
<1>3. OnCourse(w)'
  BY DEF OnCourse
<1>4. Working(w)' => Produced(w, task[w])'
  BY DEF Working, Produced, Chain
<1> QED
  BY <1>2, <1>3, <1>4 DEF Ours

\* The steps that take an execution to a stage, away from all of them, or
\* back to where it waits for a job.
LEMMA StepsAside ==
  ASSUME TypeInv, NEW w \in Workers, Ours(w), pc[w] # "idle",
         \/ Load(w) \/ Reject(w) \/ Catch(w) \/ Finish(w) \/ Abandon(w)
         \/ Release(w) \/ StageThrows(w) \/ StoreThrows(w)
  PROVE  Ours(w)'
<1>a. /\ pc \in [ Workers -> PC ] /\ step \in [ Workers -> Steps ]
      /\ Fresh(w)
      /\ Moves(w)
      /\ UNCHANGED << task, attempt >>
  BY DEF TypeInv, TypeOK, ExecutionTypeOK, Moves, Execute, Load, Reject, Catch, Finish,
         Abandon, Release, StageThrows, StoreThrows, Ours
<1>1. CASE Load(w)
  <2>1. ASSUME NEW r, Enter(w, r)
        PROVE  \/ pc'[w] = "admit" /\ step'[w] \in { "validating", "rolling-back" }
               \/ pc'[w] = "commit" /\ step'[w] \notin Chain
    BY <1>a, <2>1 DEF Enter, GotoStep, Goto, Chain
  <2>2. \/ pc'[w] = "succeeded" \/ pc'[w] = "reject"
        \/ pc'[w] = "admit" /\ step'[w] \in { "validating", "rolling-back" }
        \/ pc'[w] = "commit" /\ step'[w] \notin Chain
    BY <1>a, <1>1, <2>1 DEF Load, GotoStep, Goto, Chain
  <2> QED
    BY <1>a, <2>2, Aside
<1>2. CASE Reject(w) \/ Catch(w)
  <2>1. \/ pc'[w] \in { "threw", "abandon" }
        \/ pc'[w] = "commit" /\ step'[w] \notin Chain
    BY <1>a, <1>2 DEF Reject, Catch, GotoStep, Goto, Chain
  <2> QED
    BY <1>a, <2>1, Aside
<1>3. CASE Finish(w) \/ Abandon(w) \/ Release(w) \/ StageThrows(w) \/ StoreThrows(w)
  <2>1. pc'[w] \in { "release", "succeeded", "threw", "catch" }
    BY <1>a, <1>3 DEF Finish, Abandon, Release, StageThrows, StoreThrows, Goto, Thrown
  <2> QED
    BY <1>a, <2>1, Aside
<1> QED
  BY <1>1, <1>2, <1>3

\* A new attempt has a number that no command bears.
LEMMA AdmitKeeps ==
  ASSUME TypeInv, NEW w \in Workers, Ours(w), Numbered(task[w]), Admit(w)
  PROVE  Ours(w)'
<1> DEFINE d == task[w]
           S == { "active", "completed", "failed" }
<1>a. /\ d \in Deployments /\ attempts \in [ Deployments -> Seq(S) ] /\ attempts[d] \in Seq(S)
      /\ Len(attempts[d]) \in Nat
      /\ pc \in [ Workers -> PC ] /\ attempt \in [ Workers -> Nat ]
      /\ commands \in [ Deployments -> SUBSET ((Steps \union { "cancel", "retry" }) \X Nat) ]
      /\ pc[w] = "admit" /\ step[w] \in { "validating", "rolling-back" }
      /\ UNCHANGED << task, step, row, rows, artifacts >>
  BY DEF TypeInv, TypeOK, ExecutionTypeOK, ArtifactTypeOK, RowTypeOK, Admit, Ours, OnCourse, At
<1>1. CASE pc'[w] = "reject" /\ attempt' = attempt
  BY <1>1, <1>a, Aside DEF Ours, Moves, Execute
<1>2. CASE /\ pc'[w] \in { "read", "commit" }
           /\ attempts'[d] = Append(attempts[d], "active")
           /\ attempt'[w] = Len(attempts[d]) + 1
  <2>1. Len(attempts'[d]) = Len(attempts[d]) + 1
    BY <1>a, <1>2
  <2>2. \A c \in commands'[d] : c[1] \in Chain => c[2] # attempt'[w]
    <3>1. \A c \in commands[d] : c[2] \in Nat
      BY <1>a
    <3>2. commands' = commands
      BY <1>a DEF rows
    <3> QED
      BY <1>a, <1>2, <3>1, <3>2 DEF Numbered
  <2>3. Fresh(w)'
    BY <1>a, <1>2, <2>1, <2>2 DEF Fresh
  <2>4. OnCourse(w)' /\ Produced(w, d)'
    BY <1>a, <1>2 DEF OnCourse, Produced
  <2> QED
    BY <1>a, <2>3, <2>4 DEF Ours
<1> QED
  BY <1>a, <1>1, <1>2 DEF Admit, Goto, AddAttempt

LEMMA RankInt ==
  ASSUME NEW s \in Chain
  PROVE  Rank(s) \in Nat
  BY DEF Chain, Rank

\* The work of a stage leads to the next one, which nobody has committed.
LEMMA StageDone ==
  ASSUME TypeInv, NEW w \in Workers, Ours(w), pc[w] \in { "work", "rollout" }, NextStage(w),
         UNCHANGED << task, attempt, rows, attempts >>,
         Derailed(task[w]) \/ Produced(w, task[w])'
  PROVE  Ours(w)'
<1> DEFINE d == task[w]
           s == step[w]
<1>a. /\ s \in Chain \ { "ready", "rolled-back" }
      /\ pc'[w] = "read" /\ step'[w] = Following(s)
      /\ UNCHANGED << state, commands >>
  BY DEF TypeInv, TypeOK, ExecutionTypeOK, NextStage, GotoStep, Goto, Ours, OnCourse, rows
<1>b. /\ Following(s) \in Chain \ { "validating", "rolling-back" }
      /\ Prior(Following(s)) = Target(s)
      /\ Rank(s) < Rank(Following(s))
  BY <1>a, ChainOrder
<1>1. Fresh(w)'
  <2>1. ASSUME NEW c \in commands[d], c[1] \in Chain, c[2] = attempt[w]
        PROVE  Rank(c[1]) < Rank(Following(s))
    <3>1. Rank(c[1]) <= Rank(s)
      BY <1>a, <2>1 DEF Ours, Fresh
    <3>2. Rank(c[1]) \in Nat /\ Rank(s) \in Nat /\ Rank(Following(s)) \in Nat
      BY <1>a, <1>b, <2>1, RankInt
    <3> QED
      BY <1>b, <3>1, <3>2
  <2> QED
    BY <1>a, <2>1 DEF Ours, Fresh
<1>2. OnCourse(w)'
  BY <1>a, <1>b DEF Ours, OnCourse, Derailed
<1>3. Derailed(d)' \/ Produced(w, d)'
  BY <1>a DEF Derailed
<1> QED
  BY <1>1, <1>2, <1>3 DEF Ours

\* What each stage leaves behind.
LEMMA StagesProduce ==
  ASSUME TypeInv, NEW w \in Workers, Ours(w),
         RunStage(w) \/ BuildImage(w) \/ PublishImage(w) \/ ConfirmRollout(w) \/ VerifyRollback(w)
  PROVE  Ours(w)'
<1> DEFINE d == task[w]
<1>a. /\ d \in Deployments
      /\ pc \in [ Workers -> PC ] /\ step \in [ Workers -> Steps ]
      /\ image \in [ Deployments -> [ digest : Nat, published : BOOLEAN ] ]
      /\ imageDigest \in [ Deployments -> Digest ]
      /\ endpoint \in [ Deployments -> Nat ]
      /\ UNCHANGED << task, attempt, row, world, rows, attempts >>
      /\ pc[w] \in { "work", "rollout" } /\ NextStage(w)
  BY DEF TypeInv, TypeOK, ExecutionTypeOK, ArtifactTypeOK, RunStage, BuildImage, PublishImage,
         ConfirmRollout, VerifyRollback, At, storeVars
<1>b. /\ step'[w] = Following(step[w]) /\ pc'[w] = "read"
      /\ pc[w] = "rollout" => step[w] \in { "deploying", "rolling-back" }
      /\ UNCHANGED applied
  BY <1>a DEF NextStage, GotoStep, Goto, TypeInv, RolloutStep, At, world
<1>c. Derailed(d) \/ Produced(w, d)
  BY <1>a DEF Ours, Working
<1>1. ASSUME Produced(w, d)
      PROVE  Produced(w, d)'
  <2>1. CASE RunStage(w)
    <3>1. UNCHANGED artifacts
      BY <2>1 DEF RunStage, storeVars
    <3>2. CASE step[w] \in { "validating", "testing", "scanning", "build-complete" }
      <4>1. step'[w] \in { "testing", "scanning", "building", "pushing" }
        BY <1>b, <3>2 DEF Following
      <4> QED
        BY <1>b, <4>1 DEF Produced
    <3>3. CASE step[w] = "verifying"
      <4>1. step'[w] = "ready"
        BY <1>b, <3>3 DEF Following
      <4> QED
        BY <1>a, <1>b, <1>1, <3>1, <3>3, <4>1 DEF Produced, artifacts
    <3> QED
      BY <2>1, <3>2, <3>3 DEF RunStage
  <2>2. CASE BuildImage(w)
    <3>1. step'[w] = "build-complete"
      BY <1>b, <2>2 DEF BuildImage, Following
    <3> QED
      BY <1>b, <3>1 DEF Produced
  <2>3. CASE PublishImage(w)
    <3>1. step'[w] = "deploying"
      BY <1>b, <2>3 DEF PublishImage, Following
    <3> QED
      BY <1>a, <1>b, <2>3, <3>1 DEF Produced, PublishImage, SavePublishedImage
  <2>4. CASE ConfirmRollout(w)
    <3>1. CASE step[w] = "deploying"
      <4>1. step'[w] = "verifying"
        BY <1>b, <3>1 DEF Following
      <4> QED
        BY <1>a, <1>b, <1>1, <2>4, <3>1, <4>1 DEF Produced, ConfirmRollout, SetEndpoint, At
    <3>2. CASE step[w] = "rolling-back"
      <4>1. step'[w] = "rollback-verifying"
        BY <1>b, <3>2 DEF Following
      <4> QED
        BY <1>b, <4>1 DEF Produced
    <3> QED
      BY <1>b, <2>4, <3>1, <3>2 DEF ConfirmRollout, At
  <2>5. CASE VerifyRollback(w)
    <3>1. step'[w] = "rolled-back"
      BY <1>b, <2>5 DEF VerifyRollback, Following
    <3> QED
      BY <1>a, <1>b, <1>1, <2>5, <3>1 DEF Produced, VerifyRollback, SetEndpoint, At
  <2> QED
    BY <2>1, <2>2, <2>3, <2>4, <2>5
<1> QED
  BY <1>a, <1>c, <1>1, StageDone

\* The rollout a stage awaits once it has told the cluster what to run.
LEMMA ApplyKeeps ==
  ASSUME TypeInv, NEW w \in Workers, Ours(w), Apply(w)
  PROVE  Ours(w)'
<1> DEFINE d == task[w]
<1>a. /\ d \in Deployments /\ pc \in [ Workers -> PC ]
      /\ applied \in [ Deployments -> Digest ]
      /\ UNCHANGED << task, attempt, step, row, rows, artifacts, attempts >>
      /\ pc[w] = "work" /\ pc'[w] = "rollout"
      /\ step[w] \in { "deploying", "rolling-back" }
  BY DEF TypeInv, TypeOK, ExecutionTypeOK, ArtifactTypeOK, Apply, At, Goto, storeVars
<1>1. Fresh(w)' /\ OnCourse(w)'
  BY <1>a DEF Ours, Fresh, OnCourse, Derailed, rows
<1>2. Produced(w, d) => Produced(w, d)'
  BY <1>a DEF Apply, Produced, artifacts
<1> QED
  BY <1>a, <1>1, <1>2 DEF Ours, Working, Derailed, rows

\* The read of the row before a transition.
LEMMA ReadKeeps ==
  ASSUME TypeInv, NEW w \in Workers, Ours(w), ReadCurrent(w)
  PROVE  Ours(w)'
<1> DEFINE d == task[w]
<1>a. /\ d \in Deployments /\ pc \in [ Workers -> PC ] /\ row \in [ Workers -> RowType ]
      /\ UNCHANGED << task, attempt, step, storeVars, world >>
      /\ pc[w] = "read" /\ pc'[w] \in { "catch", "commit" }
  BY DEF TypeInv, TypeOK, ExecutionTypeOK, ReadCurrent, At, Goto
<1>1. CASE pc'[w] = "catch"
  BY <1>a, <1>1, Aside DEF Ours, Moves, Execute
<1>2. CASE pc'[w] = "commit"
  <2>1. Fresh(w)' /\ OnCourse(w)'
    BY <1>a, <1>2 DEF Ours, Fresh, OnCourse, Derailed, storeVars, rows
  <2>2. Produced(w, d) => Produced(w, d)'
    BY <1>a, <1>2 DEF Produced, storeVars, artifacts, world
  <2> QED
    BY <1>a, <2>1, <2>2 DEF Ours, Working, Derailed, storeVars, rows
<1> QED
  BY <1>a, <1>1, <1>2

\* A transition opens its stage, once for each attempt, unless the row was
\* derailed; any other outcome leaves the stages.
LEMMA TransitionKeeps ==
  ASSUME TypeInv, NEW w \in Workers, Ours(w), Transition(w)
  PROVE  Ours(w)'
<1> DEFINE d == task[w]
           s == step[w]
<1>a. /\ d \in Deployments
      /\ pc \in [ Workers -> PC ] /\ step \in [ Workers -> Steps ]
      /\ row \in [ Workers -> RowType ]
      /\ state \in [ Deployments -> STATES \union { "absent" } ]
      /\ commands \in [ Deployments -> SUBSET ((Steps \union { "cancel", "retry" }) \X Nat) ]
      /\ UNCHANGED << task, attempt, world, artifacts, attempts >>
      /\ pc[w] = "commit"
      /\ Fresh(w) /\ Moves(w)
  BY DEF TypeInv, TypeOK, ExecutionTypeOK, RowTypeOK, Transition, At, Ours, Moves, Execute
<1>1. CASE pc'[w] \in { "catch", "threw" }
  BY <1>a, <1>1, Aside
<1>2. CASE s \notin Chain
  <2>1. CASE \E r : After(w, r)
    <3>1. /\ pc'[w] \in { "commit", "admit", "threw", "abandon" }
          /\ pc'[w] = "commit" => step'[w] \notin Chain
          /\ pc'[w] = "admit" => step'[w] \in { "validating", "rolling-back" }
      BY <1>a, <1>2, <2>1, AfterOther DEF At
    <3> QED
      BY <1>a, <3>1, Aside
  <2>2. CASE Goto(w, Thrown(w))
    BY <1>a, <1>1, <2>2 DEF Goto, Thrown
  <2> QED
    BY <2>1, <2>2 DEF Transition
<1>3. CASE s \in Chain
  <2>1. CommandId(w) = << s, attempt[w] >>
    BY <1>3 DEF CommandId, RecoverySteps, Chain
  <2>2. ~Duplicate(d, CommandId(w))
    <3>1. ASSUME << s, attempt[w] >> \in commands[d]
          PROVE  FALSE
      <4>1. Rank(s) < Rank(s)
        BY <1>a, <1>3, <3>1 DEF Fresh
      <4> QED
        BY <1>3, <4>1, RankInt
    <3> QED
      BY <2>1, <3>1 DEF Duplicate
  <2>3. CASE Goto(w, Thrown(w))
    BY <1>a, <1>1, <2>3 DEF Goto, Thrown
  <2>4. ASSUME CanCommit(d, Target(s), row[w].version), Commit(d, Target(s), CommandId(w)),
               \E r : row' = [ row EXCEPT ![w] = r ] /\ r.digest = imageDigest[d] /\ After(w, r)
        PROVE  Ours(w)'
    <3>1. PICK r : row' = [ row EXCEPT ![w] = r ] /\ r.digest = imageDigest[d] /\ After(w, r)
      BY <2>4
    <3>2. /\ step'[w] = s
          /\ pc'[w] = IF s \in { "ready", "rolled-back" } THEN "finish" ELSE "work"
      BY <1>3, <3>1, AfterChain
    <3>3. CASE s \in { "ready", "rolled-back" }
      BY <1>a, <3>2, <3>3, Aside
    <3>4. CASE s \notin { "ready", "rolled-back" }
      <4>1. /\ state'[d] = Target(s)
            /\ commands'[d] = commands[d] \union { << s, attempt[w] >> }
        BY <1>a, <2>1, <2>4 DEF Commit, RecordEvent
      <4>2. Fresh(w)'
        <5>1. ASSUME NEW c \in commands'[d], c[1] \in Chain, c[2] = attempt[w]
              PROVE  Rank(c[1]) <= Rank(s)
          <6>1. c[1] = s \/ Rank(c[1]) < Rank(s)
            BY <1>a, <1>3, <4>1, <5>1 DEF Fresh
          <6> QED
            BY <1>3, <5>1, <6>1, RankInt
        <5> QED
          BY <1>a, <3>2, <3>4, <5>1 DEF Fresh
      <4>3. OnCourse(w)'
        BY <1>a, <1>3, <3>2, <3>4, <4>1 DEF OnCourse
      <4>4. Produced(w, d)'
        <5>1. CASE s \in { "validating", "rolling-back" }
          BY <3>2, <5>1 DEF Produced
        <5>2. CASE s \notin { "validating", "rolling-back" }
          <6>1. Produced(w, d)
            BY <1>a, <1>3, <2>4, <5>2, DerailedStops DEF Ours, Working, CanCommit
          <6>2. row'[w].digest = imageDigest[d]
            BY <1>a, <3>1
          <6> QED
            BY <1>a, <3>2, <3>4, <6>1, <6>2 DEF Produced, artifacts, world
        <5> QED
          BY <5>1, <5>2
      <4> QED
        BY <1>a, <4>2, <4>3, <4>4 DEF Ours
    <3> QED
      BY <3>3, <3>4
  <2>5. LET r == [ Row(d) EXCEPT !.state = Target(s), !.version = @ + 1 ]
        IN  r.digest = imageDigest[d]
    BY DEF Row
  <2> QED
    BY <2>2, <2>3, <2>4, <2>5 DEF Transition
<1> QED
  BY <1>2, <1>3

\* A step of an execution keeps what it relies on.
LEMMA OwnStep ==
  ASSUME TypeInv, NEW w \in Workers, Ours(w), Numbered(task[w]), Moves(w)
  PROVE  Ours(w)'
<1>a. /\ pc \in [ Workers -> PC ] /\ task \in [ Workers -> Deployments ]
      /\ attempt \in [ Workers -> Nat ]
      /\ attempts \in [ Deployments -> Seq({ "active", "completed", "failed" }) ]
  BY DEF TypeInv, TypeOK, ExecutionTypeOK, ArtifactTypeOK
<1>1. CASE Take(w)
  <2>1. /\ attempt'[w] = 0 /\ pc'[w] = "load" /\ task'[w] \in Deployments
        /\ attempts' = attempts
    BY <1>a, <1>1 DEF Take, At, Goto, Ours, Fresh, storeVars
  <2>2. Len(attempts'[task'[w]]) \in Nat
    BY <1>a, <2>1
  <2> QED
    BY <2>1, <2>2 DEF Ours, Fresh, OnCourse, Working
<1>2. CASE Return(w) \/ Crash(w)
  <2>1. /\ attempt'[w] = 0 /\ pc'[w] = "idle" /\ task'[w] \in Deployments
        /\ step'[w] = "validating"
        /\ attempts' = attempts
    <3>1. NoTask \in Deployments
      BY StoreAssumption DEF NoTask
    <3>2. step \in [ Workers -> Steps ]
      BY DEF TypeInv, TypeOK, ExecutionTypeOK
    <3> QED
      BY <1>a, <1>2, <3>1, <3>2 DEF Return, Crash, Reset, Goto, storeVars
  <2>2. Len(attempts'[task'[w]]) \in Nat
    BY <1>a, <2>1
  <2> QED
    BY <2>1, <2>2 DEF Ours, Fresh, OnCourse, Working
<1>3. CASE LoseLock(w)
  <2>1. UNCHANGED << execution, storeVars, world >>
    BY <1>3 DEF LoseLock
  <2> QED
    BY <2>1 DEF Ours, Fresh, OnCourse, Working, Produced, Derailed, execution, storeVars,
                rows, artifacts, world
<1>4. CASE Load(w) \/ Reject(w) \/ Catch(w) \/ Finish(w) \/ Abandon(w)
           \/ Release(w) \/ StageThrows(w) \/ StoreThrows(w)
  <2>1. pc[w] # "idle"
    BY <1>4 DEF Load, Reject, Catch, Finish, Abandon, Release, StageThrows, StoreThrows, At
  <2> QED
    BY <1>4, <2>1, StepsAside
<1> QED
  BY <1>1, <1>2, <1>3, <1>4, AdmitKeeps, TransitionKeeps, ReadKeeps, ApplyKeeps,
     StagesProduce DEF Moves, Execute

\* Nothing but a transition writes a command.
LEMMA OthersCommitNothing ==
  ASSUME NEW w \in Workers, Moves(w), ~Transition(w)
  PROVE  UNCHANGED << state, commands >>
<1>1. CASE Take(w) \/ Load(w) \/ Reject(w) \/ ReadCurrent(w) \/ RunStage(w)
           \/ StageThrows(w) \/ Catch(w) \/ Return(w) \/ Apply(w)
  BY <1>1 DEF Take, Load, Reject, ReadCurrent, RunStage, StageThrows, Catch, Return, Apply,
              storeVars, rows
<1>2. CASE Admit(w) \/ BuildImage(w) \/ PublishImage(w) \/ ConfirmRollout(w)
           \/ VerifyRollback(w) \/ Finish(w) \/ Abandon(w) \/ Release(w)
  BY <1>2 DEF Admit, BuildImage, PublishImage, ConfirmRollout, VerifyRollback, Finish,
              Abandon, Release, rows
<1>3. CASE Crash(w) \/ LoseLock(w) \/ StoreThrows(w)
  BY <1>3 DEF Crash, LoseLock, StoreThrows, storeVars, rows
<1> QED
  BY <1>1, <1>2, <1>3 DEF Moves, Execute

\* The commands of a stage bear an attempt there was.
LEMMA NumberedStep ==
  ASSUME TypeInv, [Next]_vars, CourseInv, NEW d \in Deployments
  PROVE  Numbered(d)'
<1>a. /\ commands \in [ Deployments -> SUBSET ((Steps \union { "cancel", "retry" }) \X Nat) ]
      /\ attempts \in [ Deployments -> Seq({ "active", "completed", "failed" }) ]
      /\ Len(attempts[d]) \in Nat
  BY DEF TypeInv, TypeOK, RowTypeOK, ArtifactTypeOK
<1>1. CASE Spared(d)
  BY <1>1 DEF CourseInv, Numbered, Spared
<1>2. ASSUME NEW w \in Workers, Moves(w), task[w] = d
      PROVE  Numbered(d)'
  <2>1. \A c \in commands'[d] : c \in commands[d] \/ c = CommandId(w)
    <3>1. CASE Transition(w)
      BY <1>a, <1>2, <3>1 DEF Transition, Commit, rows
    <3>2. CASE ~Transition(w)
      BY <1>2, <3>2, OthersCommitNothing
    <3> QED
      BY <3>1, <3>2
  <2>2. CommandId(w)[1] \in Chain => CommandId(w)[2] = attempt[w]
    BY DEF CommandId, Chain, RecoverySteps
  <2>3. attempt[w] \in Nat /\ attempt[w] <= Len(attempts[d])
    BY <1>2 DEF CourseInv, Fresh, TypeInv, TypeOK, ExecutionTypeOK
  <2>4. Len(attempts'[d]) \in Nat /\ Len(attempts[d]) <= Len(attempts'[d])
    BY <1>2, AttemptsGrow
  <2>5. \A c \in commands[d] : c[2] \in Nat
    BY <1>a
  <2> QED
    BY <1>a, <2>1, <2>2, <2>3, <2>4, <2>5 DEF CourseInv, Numbered
<1> QED
  BY <1>1, <1>2, OthersSpare

(***************************************************************************)
(* The steps together: while no lock is lost, nobody disturbs an execution *)
(* but the requests that stop it or that queue a rollback.                 *)
(***************************************************************************)
LEMMA CourseInit ==
  ASSUME Init
  PROVE  CourseInv
<1>1. \A d \in Deployments : Numbered(d)
  BY DEF Init, StoreInit, Numbered
<1>2. ASSUME NEW w \in Workers
      PROVE  /\ pc[w] = "idle" /\ attempt[w] = 0 /\ step[w] = "validating"
             /\ Len(attempts[task[w]]) = 0 /\ commands[task[w]] = {}
  <2>1. task[w] \in Deployments
    BY StoreAssumption DEF Init, WorkerInit, NoTask
  <2> QED
    BY <2>1 DEF Init, StoreInit, WorkerInit
<1>3. \A w \in Workers : Ours(w)
  BY <1>2 DEF Ours, Fresh, OnCourse, Working
<1> QED
  BY <1>1, <1>3 DEF CourseInv, Ours

LEMMA CourseStep ==
  ASSUME TypeInv, LockInv, CourseInv, [Next]_vars
  PROVE  CourseInv'
<1>a. /\ task \in [ Workers -> Deployments ]
      /\ attempts \in [ Deployments -> Seq({ "active", "completed", "failed" }) ]
      /\ \A w \in Workers : Ours(w)
  BY DEF TypeInv, TypeOK, ExecutionTypeOK, ArtifactTypeOK, CourseInv, Ours
<1>1. ASSUME NEW w \in Workers
      PROVE  Ours(w)'
  <2>1. CASE Moves(w)
    BY <1>a, <2>1, OwnStep DEF CourseInv
  <2>2. CASE ~Moves(w)
    <3>1. UNCHANGED << pc[w], task[w], attempt[w], step[w], row[w] >>
      <4>1. CASE \E v \in Workers : Moves(v)
        BY <2>2, <4>1, MovesOwn
      <4>2. CASE UNCHANGED execution
        BY <4>2 DEF execution
      <4> QED
        BY <4>1, <4>2, ExecutionsMove
    <3>2. CASE pc[w] = "idle"
      <4>1. Len(attempts'[task[w]]) \in Nat
        <5>1. ArtifactTypeOK'
          BY TypesInductive DEF TypeInv, TypeOK
        <5> QED
          BY <1>a, <5>1 DEF ArtifactTypeOK
      <4>2. attempt[w] = 0
        BY <1>a, <3>2 DEF Ours, Fresh
      <4>3. Fresh(w)'
        BY <3>1, <3>2, <4>1, <4>2 DEF Fresh
      <4> QED
        BY <3>1, <3>2, <4>3 DEF Ours, OnCourse, Working
    <3>3. CASE pc[w] # "idle"
      <4>1. \A v \in Workers : Moves(v) => pc[v] = "idle" \/ task[v] # task[w]
        BY <2>2, <3>3 DEF LockInv, Busy
      <4>2. Spared(task[w])
        BY <1>a, <4>1, OthersSpare
      <4> QED
        BY <1>a, <3>1, <4>2, SparedKeeps
    <3> QED
      BY <3>2, <3>3
  <2> QED
    BY <2>1, <2>2
<1>2. \A d \in Deployments : Numbered(d)'
  BY NumberedStep
<1> QED
  BY <1>1, <1>2 DEF CourseInv, Ours

\* What a deployment recorded when it succeeded is what the cluster runs.
LEMMA DeliveredStep ==
  ASSUME TypeInv, CourseInv, DeliveredDigest, [Next]_vars
  PROVE  DeliveredDigest'
<1> SUFFICES ASSUME NEW d \in Deployments, state'[d] \in { "ready", "rolled_back" }
             PROVE  /\ applied'[d] = imageDigest'[d]
                    /\ state'[d] = "ready" =>
                         /\ image'[d] = [ digest |-> applied'[d], published |-> TRUE ]
                         /\ endpoint'[d] = applied'[d]
  BY DEF DeliveredDigest
<1>1. CASE Spared(d)
  <2>1. /\ UNCHANGED << state[d], imageDigest[d], image[d], endpoint[d], applied[d] >>
    BY <1>1 DEF Spared, Derailed
  <2> QED
    BY <2>1 DEF DeliveredDigest
<1>2. ASSUME NEW w \in Workers, Moves(w), pc[w] # "idle", task[w] = d
      PROVE  /\ applied'[d] = imageDigest'[d]
             /\ state'[d] = "ready" =>
                  /\ image'[d] = [ digest |-> applied'[d], published |-> TRUE ]
                  /\ endpoint'[d] = applied'[d]
  <2>1. ASSUME pc[w] \in { "work", "rollout" }, state' = state
        PROVE  FALSE
    <3>1. Derailed(d) \/ state[d] = Target(step[w])
      BY <1>2, <2>1 DEF CourseInv, OnCourse
    <3>2. Target(step[w]) \notin { "ready", "rolled_back" }
      BY <1>2, <2>1, ChainOrder DEF CourseInv, OnCourse
    <3> QED
      BY <2>1, <3>1, <3>2 DEF Derailed
  <2>2. CASE BuildImage(w) \/ PublishImage(w) \/ ConfirmRollout(w) \/ VerifyRollback(w) \/ Apply(w)
    BY <2>1, <2>2 DEF BuildImage, PublishImage, ConfirmRollout, VerifyRollback, Apply, At,
                      storeVars, rows
  <2>3. CASE UNCHANGED << state, artifacts, applied >>
    BY <2>3 DEF DeliveredDigest, artifacts
  <2>4. CASE Take(w) \/ Load(w) \/ Reject(w) \/ Admit(w) \/ ReadCurrent(w) \/ RunStage(w)
    BY <2>3, <2>4 DEF Take, Load, Reject, Admit, ReadCurrent, RunStage, storeVars, rows, world
  <2>5. CASE StageThrows(w) \/ Finish(w) \/ Catch(w) \/ Abandon(w) \/ Release(w) \/ Return(w)
    BY <2>3, <2>5 DEF StageThrows, Finish, Catch, Abandon, Release, Return, storeVars, rows, world
  <2>6. CASE Crash(w) \/ LoseLock(w) \/ StoreThrows(w)
    BY <2>3, <2>6 DEF Crash, LoseLock, StoreThrows, storeVars, rows, world
  <2>7. CASE Transition(w)
    <3>1. CASE UNCHANGED rows
      BY <2>3, <2>7, <3>1 DEF Transition, rows, world
    <3>2. CASE CanCommit(d, Target(step[w]), row[w].version)
               /\ Commit(d, Target(step[w]), CommandId(w))
      <4>1. state'[d] = Target(step[w])
        BY <3>2 DEF Commit, RecordEvent, TypeInv, TypeOK, RowTypeOK
      <4>2. \/ step[w] = "ready" /\ state'[d] = "ready"
            \/ step[w] = "rolled-back" /\ state'[d] = "rolled_back"
        <5>1. step[w] \in Steps
          BY DEF TypeInv, TypeOK, ExecutionTypeOK
        <5> QED
          BY <4>1, <5>1 DEF Target, Steps, RecoverySteps, RollbackSteps, BuildSteps
      <4>3. Produced(w, d)
        <5>1. ~Derailed(d)
          BY <3>2, <4>2, DerailedStops DEF CanCommit, Chain
        <5> QED
          BY <1>2, <2>7, <5>1 DEF Transition, At, CourseInv, Working
      <4> QED
        BY <2>7, <4>2, <4>3 DEF Produced, Transition, artifacts, world
    <3> QED
      BY <1>2, <2>7, <3>1, <3>2 DEF Transition
  <2> QED
    BY <1>2, <2>2, <2>4, <2>5, <2>6, <2>7 DEF Moves, Execute
<1> QED
  BY <1>1, <1>2, OthersSpare

\* However often a deployment was retried, cancelled, restarted or published
\* twice: when it is ready, the cluster runs the image that the attempt which
\* made it ready built, published and recorded; when it is rolled back, the
\* digest it was to return to.
THEOREM DeliveredDigestKept ==
  ASSUME "lock loss" \notin Environment
  PROVE  Spec => []DeliveredDigest
<1>1. Init => LockInv
  BY LockInit
<1>2. Init => CourseInv /\ DeliveredDigest
  <2>1. Init => DeliveredDigest
    BY DEF Init, StoreInit, DeliveredDigest
  <2> QED
    BY <2>1, CourseInit
<1>3. TypeInv /\ LockInv /\ [Next]_vars => LockInv'
  BY LockInvStep
<1>4. TypeInv /\ LockInv /\ CourseInv /\ [Next]_vars => CourseInv'
  BY CourseStep
<1>5. TypeInv /\ CourseInv /\ DeliveredDigest /\ [Next]_vars => DeliveredDigest'
  BY DeliveredStep
<1> QED
  BY <1>1, <1>2, <1>3, <1>4, <1>5, TypesKept, PTL DEF Spec

\* The cluster is told to run another digest for a build only while it is
\* being deployed, or once it was asked to stop in that time.
THEOREM AppliesInTurnKept ==
  ASSUME "lock loss" \notin Environment
  PROVE  Spec => AppliesInTurn
<1>1. Init => LockInv /\ CourseInv
  BY LockInit, CourseInit
<1>2. TypeInv /\ LockInv /\ [Next]_vars => LockInv'
  BY LockInvStep
<1>3. TypeInv /\ LockInv /\ CourseInv /\ [Next]_vars => CourseInv'
  BY CourseStep
<1>4. ASSUME TypeInv, CourseInv, NeverRollsBack, [Next]_vars
      PROVE  [ \A d \in Builds :
                 applied'[d] # applied[d] => state[d] \in { "deploying", "cancel_requested" } ]_vars
  <2> SUFFICES ASSUME NEW d \in Builds, applied'[d] # applied[d]
               PROVE  state[d] \in { "deploying", "cancel_requested" }
    OBVIOUS
  <2>1. d \in Deployments /\ ~Spared(d)
    BY DEF Builds, Spared
  <2>2. PICK w \in Workers : Moves(w) /\ pc[w] # "idle" /\ task[w] = d
    BY <1>4, <2>1, OthersSpare
  <2>3. Apply(w)
    <3>1. CASE Take(w) \/ Load(w) \/ Reject(w) \/ Admit(w) \/ ReadCurrent(w) \/ RunStage(w)
               \/ BuildImage(w) \/ PublishImage(w)
      BY <3>1 DEF Take, Load, Reject, Admit, ReadCurrent, RunStage, BuildImage, PublishImage, world
    <3>2. CASE ConfirmRollout(w) \/ VerifyRollback(w) \/ StageThrows(w) \/ Finish(w)
               \/ Catch(w) \/ Abandon(w) \/ Release(w) \/ Return(w)
      BY <3>2 DEF ConfirmRollout, VerifyRollback, StageThrows, Finish, Catch, Abandon,
                  Release, Return, world
    <3>3. CASE Transition(w) \/ Crash(w) \/ LoseLock(w) \/ StoreThrows(w)
      BY <3>3 DEF Transition, Crash, LoseLock, StoreThrows, world
    <3> QED
      BY <2>2, <3>1, <3>2, <3>3 DEF Moves, Execute
  <2>4. step[w] \in { "deploying", "rolling-back" } /\ (Derailed(d) \/ state[d] = Target(step[w]))
    BY <1>4, <2>2, <2>3 DEF Apply, At, CourseInv, OnCourse
  <2>5. Target("deploying") = "deploying" /\ Target("rolling-back") = "rolling_back"
    BY DEF Target, RecoverySteps
  <2> QED
    BY <1>4, <2>4, <2>5 DEF Derailed, NeverRollsBack
<1>5. BuildInv => TypeInv /\ NeverRollsBack
  BY DEF BuildInv
<1> QED
  BY <1>1, <1>2, <1>3, <1>4, <1>5, BuildInvKept, PTL DEF Spec, AppliesInTurn

(***************************************************************************)
(* What remains when locks are lost and executions of one deployment run   *)
(* side by side: the row lets one of them make a build ready, and only the *)
(* one that did completes its attempt.                                     *)
(***************************************************************************)
\* Only rollbacks are executed as rollbacks.
OwnInv ==
  \A w \in Workers : step[w] \in RollbackSteps => pc[w] # "idle" /\ task[w] \in Rollbacks

SuccessInv ==
  /\ OwnInv
  /\ \A d \in Builds : \A c \in commands[d] : c[1] = "ready" =>
       /\ state[d] = "ready"
       /\ \A e \in commands[d] : e[1] = "ready" => e = c
  /\ \A w \in Workers : pc[w] = "finish" /\ task[w] \in Builds =>
       << "ready", attempt[w] >> \in commands[task[w]]
  /\ \A d \in Builds : \A k \in 1..Len(attempts[d]) :
       attempts[d][k] = "completed" => << "ready", k >> \in commands[d]

\* Who leaves an execution of a rollback, or enters one.
LEMMA OwnStepsOwn ==
  ASSUME BuildInv, BuildInv', OwnInv, NEW w \in Workers, Moves(w)
  PROVE  step'[w] \in RollbackSteps => pc'[w] # "idle" /\ task'[w] \in Rollbacks
<1>a. /\ pc \in [ Workers -> PC ] /\ step \in [ Workers -> Steps ]
      /\ task \in [ Workers -> Deployments ] /\ task' \in [ Workers -> Deployments ]
      /\ step[w] \in RollbackSteps => pc[w] # "idle" /\ task[w] \in Rollbacks
      /\ Rollbacks \subseteq Deployments
      /\ \A d \in Deployments : state[d] = "rollback_queued" => d \in Rollbacks
      /\ \A d \in Deployments : state'[d] = "rollback_queued" => d \in Rollbacks
  BY StoreAssumption DEF BuildInv, TypeInv, TypeOK, ExecutionTypeOK, OwnInv, NeverRollsBack, Builds
<1>1. CASE Take(w) \/ LoseLock(w) \/ Crash(w) \/ Return(w)
  <2>1. \/ step'[w] = step[w] /\ pc[w] = "idle"
        \/ step'[w] = step[w] /\ task'[w] = task[w] /\ pc'[w] = pc[w]
        \/ step'[w] = "validating"
    BY <1>a, <1>1 DEF Take, LoseLock, Crash, Return, Reset, At, execution
  <2> QED
    BY <1>a, <2>1 DEF RollbackSteps
<1>2. ASSUME task'[w] = task[w], pc'[w] # "idle",
             \/ step'[w] = step[w]
             \/ step'[w] \notin RollbackSteps
             \/ step[w] \in RollbackSteps
             \/ task[w] \in Rollbacks
      PROVE  step'[w] \in RollbackSteps => pc'[w] # "idle" /\ task'[w] \in Rollbacks
  BY <1>a, <1>2
<1>3. ASSUME NEW r, Enter(w, r), r.state = "rollback_queued" => task[w] \in Rollbacks
      PROVE  /\ pc'[w] # "idle"
             /\ step'[w] \notin RollbackSteps \/ task[w] \in Rollbacks
  BY <1>a, <1>3 DEF Enter, GotoStep, Goto, RollbackSteps
<1>4. CASE Load(w)
  <2>1. Row(task[w]).state = "rollback_queued" => task[w] \in Rollbacks
    BY <1>a DEF Row
  <2>2. task'[w] = task[w] /\ pc'[w] # "idle"
        /\ (step'[w] = step[w] \/ step'[w] \notin RollbackSteps \/ task[w] \in Rollbacks)
    BY <1>a, <1>3, <1>4, <2>1 DEF Load, Goto, GotoStep, RollbackSteps
  <2> QED
    BY <1>2, <2>2
<1>5. CASE Reject(w) \/ Catch(w) \/ Admit(w) \/ ReadCurrent(w)
  <2>1. task'[w] = task[w] /\ pc'[w] # "idle"
        /\ (step'[w] = step[w] \/ step'[w] \notin RollbackSteps \/ step[w] \in RollbackSteps)
    BY <1>a, <1>5 DEF Reject, Catch, Admit, ReadCurrent, Goto, GotoStep, RollbackSteps
  <2> QED
    BY <1>2, <2>1
<1>6. CASE Transition(w)
  <2>1. task'[w] = task[w]
    BY <1>6 DEF Transition
  <2>2. ASSUME NEW r, After(w, r), r.state = state'[task[w]]
        PROVE  pc'[w] # "idle" /\ (step'[w] = step[w] \/ step'[w] \notin RollbackSteps
                                    \/ task[w] \in Rollbacks)
    <3>1. CASE step[w] = "rollback-recovery-queue"
      BY <1>a, <1>3, <2>2, <3>1 DEF After
    <3>2. CASE step[w] # "rollback-recovery-queue"
      BY <1>a, <2>2, <3>2 DEF After, Goto, GotoStep, RollbackSteps
    <3> QED
      BY <3>1, <3>2
  <2>3. CASE UNCHANGED rows /\ After(w, Row(task[w]))
    BY <1>2, <2>1, <2>2, <2>3 DEF Row, rows
  <2>4. CASE Goto(w, Thrown(w)) /\ step' = step
    BY <1>a, <1>2, <2>1, <2>4 DEF Goto, Thrown
  <2>5. CASE \E r : After(w, r) /\ r.state = Target(step[w])
             /\ Commit(task[w], Target(step[w]), CommandId(w))
    <3>1. state'[task[w]] = Target(step[w])
      BY <1>a, <2>5 DEF Commit, RecordEvent, BuildInv, TypeInv, TypeOK, RowTypeOK
    <3> QED
      BY <1>2, <2>1, <2>2, <2>5, <3>1
  <2>6. LET r == [ Row(task[w]) EXCEPT !.state = Target(step[w]), !.version = @ + 1 ]
        IN  r.state = Target(step[w])
    BY DEF Row
  <2> QED
    BY <1>6, <2>3, <2>4, <2>5, <2>6 DEF Transition
<1>7. ASSUME NextStage(w), task' = task,
             step[w] \in { "validating", "testing", "scanning", "building", "build-complete",
                           "pushing", "deploying", "verifying", "rolling-back",
                           "rollback-verifying" }
      PROVE  step'[w] \in RollbackSteps => pc'[w] # "idle" /\ task'[w] \in Rollbacks
  <2>1. pc'[w] = "read" /\ step'[w] = Following(step[w])
    BY <1>a, <1>7 DEF NextStage, GotoStep, Goto
  <2>2. step[w] \notin RollbackSteps => Following(step[w]) \notin RollbackSteps
    BY <1>7 DEF Following, RollbackSteps
  <2> QED
    BY <1>a, <1>7, <2>1, <2>2
<1>8. CASE RunStage(w) \/ BuildImage(w) \/ PublishImage(w) \/ ConfirmRollout(w) \/ VerifyRollback(w)
  <2>1. pc[w] = "rollout" => step[w] \in { "deploying", "rolling-back" }
    BY DEF BuildInv, TypeInv, RolloutStep, At
  <2> QED
    BY <1>7, <1>8, <2>1
       DEF RunStage, BuildImage, PublishImage, ConfirmRollout, VerifyRollback, At
<1>9. CASE Apply(w) \/ StageThrows(w) \/ Finish(w) \/ Abandon(w) \/ Release(w) \/ StoreThrows(w)
  <2>1. task'[w] = task[w] /\ pc'[w] # "idle" /\ step'[w] = step[w]
    BY <1>a, <1>9 DEF Apply, StageThrows, Finish, Abandon, Release, StoreThrows, Goto, Thrown
  <2> QED
    BY <1>2, <2>1
<1> QED
  BY <1>1, <1>4, <1>5, <1>6, <1>8, <1>9 DEF Moves, Execute

\* No command is lost, and none that opens a stage is written but by an
\* execution at that stage.
LEMMA CommandsOf ==
  ASSUME TypeInv, [Next]_vars, NEW d \in Deployments
  PROVE  /\ commands[d] \subseteq commands'[d]
         /\ \A c \in commands'[d] \ commands[d] : c[1] \in Chain =>
              \E w \in Workers : /\ Transition(w) /\ task[w] = d /\ c = CommandId(w)
                                 /\ CanCommit(d, Target(step[w]), row[w].version)
                                 /\ Commit(d, Target(step[w]), CommandId(w))
<1>1. CASE Spared(d)
  BY <1>1 DEF Spared
<1>2. ASSUME NEW w \in Workers, Moves(w), task[w] = d
      PROVE  /\ commands[d] \subseteq commands'[d]
             /\ \A c \in commands'[d] \ commands[d] :
                  /\ Transition(w) /\ c = CommandId(w)
                  /\ CanCommit(d, Target(step[w]), row[w].version)
                  /\ Commit(d, Target(step[w]), CommandId(w))
  <2>1. CASE commands' = commands
    BY <2>1
  <2>2. CASE commands' # commands
    <3>1. Transition(w)
      BY <1>2, <2>2, OthersCommitNothing
    <3>2. /\ CanCommit(d, Target(step[w]), row[w].version)
          /\ Commit(d, Target(step[w]), CommandId(w))
      BY <1>2, <2>2, <3>1 DEF Transition, rows
    <3>3. commands'[d] = commands[d] \union { CommandId(w) }
      BY <3>2 DEF Commit, TypeInv, TypeOK, RowTypeOK
    <3> QED
      BY <3>1, <3>2, <3>3
  <2> QED
    BY <2>1, <2>2
<1> QED
  BY <1>1, <1>2, OthersSpare

\* A build that is ready stays so.
LEMMA ReadyStays ==
  ASSUME BuildInv, BuildInv', [Next]_vars, NEW d \in Builds, state[d] = "ready"
  PROVE  state'[d] = "ready"
<1>a. /\ TypeInv /\ d \in Deployments /\ d \notin Rollbacks
      /\ state \in [ Deployments -> STATES \union { "absent" } ]
      /\ state'[d] # "rollback_queued"
  BY DEF BuildInv, NeverRollsBack, Builds, TypeInv, TypeOK, RowTypeOK
<1>1. CASE OutboxShrinks
  BY <1>1 DEF OutboxShrinks
<1>2. ASSUME NEW e \in Deployments, NEW to \in STATES, RowChange(e, to)
      PROVE  state'[d] = "ready"
  <2>1. CASE e = d
    <3>1. CanTransition("ready", to) /\ state'[d] = to
      BY <1>a, <1>2, <2>1 DEF RowChange, RecordEvent
    <3> QED
      BY <1>a, <3>1 DEF CanTransition, ALLOWED
  <2>2. CASE e # d
    BY <1>a, <1>2, <2>2 DEF RowChange, RecordEvent
  <2> QED
    BY <2>1, <2>2
<1> QED
  BY <1>a, <1>1, <1>2, EveryStepIsRowStep DEF RowStep

\* The rows let one command make a build ready.
LEMMA ReadyOnce ==
  ASSUME BuildInv, BuildInv', SuccessInv, [Next]_vars, NEW d \in Builds, NEW c \in commands'[d],
         c[1] = "ready"
  PROVE  /\ state'[d] = "ready"
         /\ \A e \in commands'[d] : e[1] = "ready" => e = c
<1>a. TypeInv /\ d \in Deployments
  BY DEF BuildInv, Builds
<1>1. CASE c \in commands[d]
  <2>1. state[d] = "ready" /\ state'[d] = "ready"
    BY <1>1, ReadyStays DEF SuccessInv
  <2>2. ASSUME NEW e \in commands'[d], e[1] = "ready", e \notin commands[d]
        PROVE  FALSE
    <3>1. e[1] \in Chain
      BY <2>2 DEF Chain
    <3>2. PICK w \in Workers : e = CommandId(w) /\ CanCommit(d, Target(step[w]), row[w].version)
      BY <1>a, <2>2, <3>1, CommandsOf
    <3>3. step[w] = "ready"
      BY <2>2, <3>2 DEF CommandId
    <3>4. CanTransition("ready", "ready")
      BY <2>1, <3>2, <3>3 DEF CanCommit, Target, RecoverySteps
    <3> QED
      BY <3>4 DEF CanTransition, ALLOWED
  <2> QED
    BY <1>1, <2>1, <2>2 DEF SuccessInv
<1>2. CASE c \notin commands[d]
  <2>1. PICK w \in Workers : /\ task[w] = d /\ c = CommandId(w)
                             /\ CanCommit(d, Target(step[w]), row[w].version)
                             /\ Commit(d, Target(step[w]), CommandId(w))
    BY <1>a, <1>2, CommandsOf DEF Chain
  <2>2. step[w] = "ready" /\ Target(step[w]) = "ready"
    BY <2>1 DEF CommandId, Target, RecoverySteps
  <2>3. state'[d] = "ready" /\ commands'[d] = commands[d] \union { c }
    BY <1>a, <2>1, <2>2 DEF Commit, RecordEvent, TypeInv, TypeOK, RowTypeOK
  <2>4. state[d] # "ready"
    BY <2>1, <2>2 DEF CanCommit, CanTransition, ALLOWED
  <2> QED
    BY <2>3, <2>4 DEF SuccessInv
<1> QED
  BY <1>1, <1>2

\* Whoever has a build finished found its command in the log, or wrote it.
LEMMA FinishFound ==
  ASSUME BuildInv, SuccessInv, [Next]_vars, NEW w \in Workers,
         pc'[w] = "finish", task'[w] \in Builds
  PROVE  << "ready", attempt'[w] >> \in commands'[task'[w]]
<1>a. /\ TypeInv
      /\ pc \in [ Workers -> PC ] /\ step \in [ Workers -> Steps ]
      /\ commands \in [ Deployments -> SUBSET ((Steps \union { "cancel", "retry" }) \X Nat) ]
  BY DEF BuildInv, TypeInv, TypeOK, ExecutionTypeOK, RowTypeOK
<1>1. CASE UNCHANGED << pc[w], task[w], attempt[w] >>
  <2>1. << "ready", attempt[w] >> \in commands[task[w]]
    BY <1>1 DEF SuccessInv
  <2>2. task[w] \in Deployments
    BY <1>a DEF TypeInv, TypeOK, ExecutionTypeOK
  <2> QED
    BY <1>a, <1>1, <2>1, <2>2, CommandsOf
<1>2. CASE Moves(w)
  <2>1. ~(Take(w) \/ Load(w) \/ Reject(w) \/ Admit(w) \/ ReadCurrent(w) \/ Catch(w))
    BY <1>a DEF Take, Load, Reject, Admit, ReadCurrent, Catch, Enter, GotoStep, Goto
  <2>2. ~(RunStage(w) \/ BuildImage(w) \/ PublishImage(w) \/ Apply(w) \/ ConfirmRollout(w)
          \/ VerifyRollback(w) \/ StageThrows(w))
    BY <1>a DEF RunStage, BuildImage, PublishImage, Apply, ConfirmRollout, VerifyRollback,
                StageThrows, NextStage, GotoStep, Goto
  <2>3. ~(Finish(w) \/ Abandon(w) \/ Release(w) \/ Return(w) \/ Crash(w) \/ StoreThrows(w))
    BY <1>a DEF Finish, Abandon, Release, Return, Crash, Reset, StoreThrows, Thrown, Goto
  <2>4. CASE LoseLock(w)
    BY <1>1, <2>4 DEF LoseLock, execution
  <2>5. CASE Transition(w)
    <3>1. \E r : After(w, r)
      BY <1>a, <2>5 DEF Transition, Goto, Thrown
    <3>2. step[w] \in { "ready", "rolled-back" }
      BY <1>a, <3>1 DEF After, Enter, GotoStep, Goto, RecoverySteps
    <3>3. task'[w] = task[w] /\ attempt'[w] = attempt[w] /\ task[w] \in Deployments
      BY <1>a, <2>5 DEF Transition, TypeInv, TypeOK, ExecutionTypeOK
    <3>4. step[w] = "ready"
      BY <3>2, <3>3 DEF SuccessInv, OwnInv, RollbackSteps, Builds
    <3>5. CommandId(w) = << "ready", attempt[w] >>
      BY <3>4 DEF CommandId, RecoverySteps
    <3>6. CommandId(w) \in commands'[task[w]]
      BY <1>a, <2>5, <3>1, <3>3 DEF Transition, Duplicate, Commit, rows, Goto, Thrown
    <3> QED
      BY <3>3, <3>5, <3>6
  <2> QED
    BY <1>2, <2>1, <2>2, <2>3, <2>4, <2>5 DEF Moves, Execute
<1>3. CASE ~Moves(w)
  <2>1. CASE \E v \in Workers : Moves(v)
    BY <1>a, <1>1, <1>3, <2>1, MovesOwn
  <2>2. CASE UNCHANGED execution
    BY <1>1, <2>2 DEF execution
  <2> QED
    BY <2>1, <2>2, ExecutionsMove
<1> QED
  BY <1>2, <1>3

\* Nothing is written as completed but the attempt of such an execution.
LEMMA CompletedFound ==
  ASSUME BuildInv, SuccessInv, [Next]_vars, NEW d \in Builds, NEW k \in 1..Len(attempts'[d]),
         attempts'[d][k] = "completed"
  PROVE  << "ready", k >> \in commands'[d]
<1> DEFINE S == { "active", "completed", "failed" }
<1>a. /\ TypeInv /\ d \in Deployments
      /\ attempts \in [ Deployments -> Seq(S) ] /\ attempts[d] \in Seq(S)
      /\ Len(attempts[d]) \in Nat /\ DOMAIN attempts[d] = 1..Len(attempts[d])
      /\ commands[d] \subseteq commands'[d]
  BY CommandsOf DEF BuildInv, Builds, TypeInv, TypeOK, ArtifactTypeOK
<1>1. CASE attempts'[d] = attempts[d]
  BY <1>a, <1>1 DEF SuccessInv
<1>2. ASSUME NEW w \in Workers, Moves(w), task[w] = d, attempts'[d] # attempts[d]
      PROVE  << "ready", k >> \in commands'[d]
  <2>1. Admit(w) \/ Finish(w) \/ Abandon(w)
    <3>1. CASE Take(w) \/ Load(w) \/ Reject(w) \/ ReadCurrent(w) \/ Transition(w) \/ RunStage(w)
               \/ StageThrows(w) \/ Catch(w) \/ Return(w) \/ Apply(w)
      BY <1>2, <3>1 DEF Take, Load, Reject, ReadCurrent, Transition, RunStage, StageThrows,
                        Catch, Return, Apply, storeVars
    <3>2. CASE BuildImage(w) \/ PublishImage(w) \/ ConfirmRollout(w) \/ VerifyRollback(w)
               \/ Release(w) \/ Crash(w) \/ LoseLock(w) \/ StoreThrows(w)
      BY <1>2, <3>2 DEF BuildImage, PublishImage, ConfirmRollout, VerifyRollback, Release,
                        Crash, LoseLock, StoreThrows, storeVars
    <3> QED
      BY <1>2, <3>1, <3>2 DEF Moves, Execute
  <2>2. CASE Admit(w)
    <3>1. attempts'[d] = Append(attempts[d], "active")
      BY <1>a, <1>2, <2>2 DEF Admit, AddAttempt
    <3>2. k \in 1..Len(attempts[d]) /\ attempts[d][k] = "completed"
      <4>1. Len(attempts'[d]) = Len(attempts[d]) + 1
        BY <1>a, <3>1
      <4>2. k # Len(attempts[d]) + 1
        BY <1>a, <3>1
      <4>3. k \in 1..Len(attempts[d])
        BY <1>a, <4>1, <4>2
      <4> QED
        BY <1>a, <3>1, <4>3
    <3> QED
      BY <1>a, <3>2 DEF SuccessInv
  <2>3. ASSUME NEW status, attempts' = [ attempts EXCEPT ![d][attempt[w]] = status ]
        PROVE  /\ k \in 1..Len(attempts[d])
               /\ attempts'[d][k] = IF k = attempt[w] THEN status ELSE attempts[d][k]
    <3>1. attempts'[d] = [ attempts[d] EXCEPT ![attempt[w]] = status ]
      BY <1>a, <2>3
    <3>2. DOMAIN attempts'[d] = 1..Len(attempts[d])
      BY <1>a, <3>1
    <3>3. Len(attempts'[d]) = Len(attempts[d])
      BY <1>a, <3>1, <3>2, LenProperties
    <3> QED
      BY <1>a, <3>1, <3>3
  <2>4. CASE Finish(w)
    <3>1. /\ attempts' = [ attempts EXCEPT ![d][attempt[w]] = "completed" ]
          /\ pc[w] = "finish"
      BY <1>2, <2>4 DEF Finish, FinishAttempt, At
    <3>2. << "ready", attempt[w] >> \in commands'[d]
      BY <1>a, <1>2, <3>1 DEF SuccessInv
    <3> QED
      BY <1>a, <2>3, <3>1, <3>2 DEF SuccessInv
  <2>5. CASE Abandon(w)
    <3>1. attempts' = [ attempts EXCEPT ![d][attempt[w]] = "failed" ]
      BY <1>2, <2>5 DEF Abandon, FinishAttempt
    <3>2. /\ k \in 1..Len(attempts[d])
          /\ attempts'[d][k] = IF k = attempt[w] THEN "failed" ELSE attempts[d][k]
      BY <2>3, <3>1
    <3> QED
      BY <1>a, <3>2 DEF SuccessInv
  <2> QED
    BY <2>1, <2>2, <2>4, <2>5
<1> QED
  BY <1>a, <1>1, <1>2, OthersSpare DEF Spared

LEMMA SuccessStep ==
  ASSUME BuildInv, BuildInv', SuccessInv, [Next]_vars
  PROVE  SuccessInv'
<1>1. OwnInv'
  <2>1. ASSUME NEW w \in Workers
        PROVE  step'[w] \in RollbackSteps => pc'[w] # "idle" /\ task'[w] \in Rollbacks
    <3>1. CASE Moves(w)
      BY <3>1, OwnStepsOwn DEF SuccessInv
    <3>2. CASE ~Moves(w)
      <4>1. UNCHANGED << pc[w], task[w], step[w] >>
        <5>1. CASE \E v \in Workers : Moves(v)
          BY <3>2, <5>1, MovesOwn DEF BuildInv
        <5>2. CASE UNCHANGED execution
          BY <5>2 DEF execution
        <5> QED
          BY <5>1, <5>2, ExecutionsMove
      <4> QED
        BY <4>1 DEF SuccessInv, OwnInv
    <3> QED
      BY <3>1, <3>2
  <2> QED
    BY <2>1 DEF OwnInv
<1> QED
  BY <1>1, ReadyOnce, FinishFound, CompletedFound DEF SuccessInv

LEMMA SuccessInit == Init => SuccessInv
<1> SUFFICES ASSUME Init PROVE SuccessInv
  OBVIOUS
<1>1. OwnInv /\ \A w \in Workers : pc[w] = "idle"
  BY DEF Init, WorkerInit, OwnInv, RollbackSteps
<1>2. \A d \in Builds : commands[d] = {} /\ Len(attempts[d]) = 0
  BY DEF Init, StoreInit, Builds
<1> QED
  BY <1>1, <1>2 DEF SuccessInv

\* Whatever fails, and even while executions that lost their locks run side
\* by side with their successors: one attempt of a build at most completes,
\* the one that made it ready, and the build stays ready.
THEOREM OneSuccessKept == Spec => []OneSuccess
<1>1. Init => SuccessInv
  BY SuccessInit
<1>2. BuildInv /\ BuildInv' /\ SuccessInv /\ [Next]_vars => SuccessInv'
  BY SuccessStep
<1>3. SuccessInv => OneSuccess
  <2> SUFFICES ASSUME SuccessInv, NEW d \in Builds, NEW k \in 1..Len(attempts[d]),
                      attempts[d][k] = "completed"
               PROVE  /\ state[d] = "ready"
                      /\ << "ready", k >> \in commands[d]
                      /\ \A l \in 1..Len(attempts[d]) : attempts[d][l] = "completed" => l = k
    BY DEF OneSuccess
  <2>1. << "ready", k >> \in commands[d]
    BY DEF SuccessInv
  <2>2. ASSUME NEW l \in 1..Len(attempts[d]), attempts[d][l] = "completed"
        PROVE  l = k
    <3>1. << "ready", l >> \in commands[d]
      BY <2>2 DEF SuccessInv
    <3> QED
      BY <2>1, <3>1 DEF SuccessInv
  <2> QED
    BY <2>1, <2>2 DEF SuccessInv
<1> QED
  BY <1>1, <1>2, <1>3, BuildInvKept, PTL DEF Spec

(***************************************************************************)
(* What is published is executed, or published again.                      *)
(*                                                                         *)
(* Without crashes, lost locks, exceptions of the store and retries: a     *)
(* deployment is queued by its creation or by the execution that recovers  *)
(* it, whoever leaves a job behind has taken its deployment further, and   *)
(* only a cancelled deployment loses a job that waits.                     *)
(***************************************************************************)
Undisturbed == { "crash", "lock loss", "store throws", "retry" } \intersect Environment = {}

Stopped == { "cancel_requested", "cancelled" }

Settled == { "ready", "rolled_back", "cancelled" }

\* The log's recoveries are of earlier versions, a cancellation stops.
LoggedInv(d) ==
  /\ \A c \in commands[d] : c[1] \in RecoverySteps => c[2] < version[d]
  /\ << "cancel", 0 >> \in commands[d] => state[d] \in Stopped

\* Rows that are published, delivered or executed are there, with versions
\* they have had; only a cancellation removes jobs.
KnownInv(d) ==
  /\ \A x \in { "enqueue", "mark" } : \A v \in Nat :
       << d, v >> \in outbox \/ << x, << d, v >> >> \in deliveries
         => state[d] # "absent" /\ v <= version[d]
  /\ \A x \in { "enqueue", "dequeue" } : << x, d >> \in requests => state[d] # "absent"
  /\ << "dequeue", d >> \in requests => << "cancel", 0 >> \in commands[d]
  /\ job[d] # "none" => state[d] # "absent"

\* Every job that is active has its execution; a completed one needs none.
JobInv(d) ==
  /\ job[d] = "active" => lock[d] # NoLock
  /\ job[d] = "completed" => state[d] \in Settled
  /\ state[d] = "queued" => job[d] \in Pending \/ << d, version[d] >> \in outbox
  /\ state[d] = "queued" /\ << "mark", << d, version[d] >> >> \in deliveries
       => job[d] \in Pending

\* While its deployment waits, an execution is still before its first stage.
AtStart(w) ==
  \/ pc[w] \in { "load", "reject" }
  \/ pc[w] \in { "admit", "read", "commit" } /\ step[w] = "validating"
  \/ pc[w] = "commit" /\ step[w] = "authorization-rejected"

\* The row an execution is about to write over is the one it read, unless the
\* deployment was stopped, and it fails none that it saw being stopped.
CurrentInv(w, d) ==
  /\ row[w].version <= version[d]
  /\ row[w].version = version[d] => row[w].state = state[d]
  /\ row[w].version < version[d] => state[d] \in Stopped
  /\ Target(step[w]) = "failed" => row[w].state # "cancel_requested"

CarryInv(w, d) ==
  /\ state[d] = "queued" => AtStart(w)
  /\ pc[w] = "succeeded" => state[d] \in Settled
  /\ pc[w] = "read" => Target(step[w]) # "failed"
  /\ pc[w] = "commit" => CurrentInv(w, d)

WakeInv ==
  /\ \A d \in Builds : LoggedInv(d) /\ KnownInv(d) /\ JobInv(d)
  /\ \A w \in Workers : Busy(w) /\ task[w] \in Builds => CarryInv(w, task[w])

\* The types of the rows.
RowTypes ==
  /\ state    \in [ Deployments -> STATES \union { "absent" } ]
  /\ version  \in [ Deployments -> Nat ]
  /\ commands \in [ Deployments -> SUBSET ((Steps \union { "cancel", "retry" }) \X Nat) ]

\* What happens to the row of a build: it is created, it is stopped, or an
\* execution advances it.
Unmoved(d) == UNCHANGED << state[d], version[d], commands[d] >>

Created(d) ==
  /\ state[d] = "absent" /\ state'[d] = "queued"
  /\ version'[d] = version[d] + 1
  /\ commands'[d] = commands[d]
  /\ << d, version[d] + 1 >> \in outbox'
  /\ UNCHANGED << queueVars, execution, deliveries >>

Stops(d) ==
  /\ CanTransition(state[d], "cancel_requested") /\ state'[d] = "cancel_requested"
  /\ version'[d] = version[d] + 1
  /\ commands'[d] = commands[d] \union { << "cancel", 0 >> }
  /\ UNCHANGED << queueVars, execution, deliveries >>

Advances(w, d) ==
  /\ Transition(w) /\ task[w] = d
  /\ ~Duplicate(d, CommandId(w))
  /\ CanCommit(d, Target(step[w]), row[w].version)
  /\ state'[d] = Target(step[w])
  /\ version'[d] = version[d] + 1
  /\ commands'[d] = commands[d] \union { CommandId(w) }
  /\ outbox \subseteq outbox'
  /\ Target(step[w]) \in QUEUED => << d, version[d] + 1 >> \in outbox'
  /\ UNCHANGED << queueVars, deliveries, requests >>

RowMoves(d) == Unmoved(d) \/ Created(d) \/ Stops(d) \/ \E w \in Workers : Advances(w, d)

\* Only a transition writes rows for an execution.
LEMMA OthersLeaveRows ==
  ASSUME NEW w \in Workers, Moves(w), ~Transition(w)
  PROVE  UNCHANGED rows
<1>1. CASE Take(w) \/ Load(w) \/ Reject(w) \/ ReadCurrent(w) \/ RunStage(w)
           \/ StageThrows(w) \/ Catch(w) \/ Return(w) \/ Apply(w)
  BY <1>1 DEF Take, Load, Reject, ReadCurrent, RunStage, StageThrows, Catch, Return, Apply,
              storeVars
<1>2. CASE Admit(w) \/ BuildImage(w) \/ PublishImage(w) \/ ConfirmRollout(w)
           \/ VerifyRollback(w) \/ Finish(w) \/ Abandon(w) \/ Release(w)
  BY <1>2 DEF Admit, BuildImage, PublishImage, ConfirmRollout, VerifyRollback, Finish,
              Abandon, Release
<1>3. CASE Crash(w) \/ LoseLock(w) \/ StoreThrows(w)
  BY <1>3 DEF Crash, LoseLock, StoreThrows, storeVars
<1> QED
  BY <1>1, <1>2, <1>3 DEF Moves, Execute

\* An event of one row leaves the others alone.
LEMMA RowOfOther ==
  ASSUME TypeInv, NEW d \in Deployments, NEW e, e # d, NEW to, RecordEvent(e, to),
         commands' = commands \/ \E cmd : Commit(e, to, cmd)
  PROVE  Unmoved(d)
  BY DEF Unmoved, RecordEvent, Commit, TypeInv, TypeOK, RowTypeOK

\* Requests create a build or stop it.
LEMMA HandlersMoveRow ==
  ASSUME TypeInv, Undisturbed, NEW d \in Builds, NEW e \in Deployments, Handlers(e)
  PROVE  Unmoved(d) \/ Created(d) \/ Stops(d)
<1>a. /\ d \in Deployments /\ d \notin Rollbacks
      /\ RowTypes
  BY DEF Builds, TypeInv, TypeOK, RowTypeOK, RowTypes
<1>1. CASE Create(e)
  <2>1. CASE e = d
    BY <1>a, <1>1, <2>1
       DEF Create, CreateRow, RecordEvent, Created, artifacts, RowTypes, QUEUED
  <2>2. CASE e # d
    BY <1>a, <1>1, <2>2, RowOfOther DEF Create, CreateRow
  <2> QED
    BY <2>1, <2>2
<1>2. CASE CreateRollback(e)
  BY <1>a, <1>2, RowOfOther DEF CreateRollback, CreateRow
<1>3. CASE QueueRollback(e)
  <2>1. e \in Rollbacks
    BY <1>3 DEF QueueRollback, TypeInv, TypeOK, ExecutionTypeOK, RequestType
  <2> QED
    BY <1>a, <1>3, <2>1, RowOfOther DEF QueueRollback
<1>4. CASE RequestCancellation(e)
  <2>1. CASE e = d
    <3>1. CASE UNCHANGED rows
      BY <3>1 DEF Unmoved, rows
    <3>2. CASE Commit(d, "cancel_requested", << "cancel", 0 >>)
               /\ CanCommit(d, "cancel_requested", version[d])
      <4>1. state'[d] = "cancel_requested" /\ version'[d] = version[d] + 1
            /\ commands'[d] = commands[d] \union { << "cancel", 0 >> }
        BY <1>a, <3>2 DEF Commit, RecordEvent, RowTypes
      <4> QED
        BY <1>4, <3>2, <4>1 DEF RequestCancellation, Stops, CanCommit
    <3> QED
      BY <1>4, <2>1, <3>1, <3>2 DEF RequestCancellation
  <2>2. CASE e # d
    <3>1. CASE UNCHANGED rows
      BY <3>1 DEF Unmoved, rows
    <3>2. CASE Commit(e, "cancel_requested", << "cancel", 0 >>)
      BY <1>a, <2>2, <3>2, RowOfOther DEF Commit
    <3> QED
      BY <1>4, <3>1, <3>2 DEF RequestCancellation
  <2> QED
    BY <2>1, <2>2
<1>5. CASE CheckLock(e) \/ CallQueue(e) \/ RevokeAccess(e)
  BY <1>5 DEF CheckLock, CallQueue, RevokeAccess, storeVars, rows, Unmoved
<1>6. ~\E k \in 1..MaxRetries : Retry(e, k)
  BY DEF Retry, Undisturbed
<1> QED
  BY <1>1, <1>2, <1>3, <1>4, <1>5, <1>6 DEF Handlers

\* An execution advances the row of its task only.
LEMMA ExecutionMovesRow ==
  ASSUME TypeInv, NEW d \in Builds, NEW w \in Workers, Moves(w), UNCHANGED << requests, deliveries >>
  PROVE  Unmoved(d) \/ Advances(w, d)
<1>a. /\ d \in Deployments /\ RowTypes
  BY DEF Builds, TypeInv, TypeOK, RowTypeOK, RowTypes
<1>1. CASE ~Transition(w)
  BY <1>1, OthersLeaveRows DEF rows, Unmoved
<1>2. CASE Transition(w) /\ UNCHANGED rows
  BY <1>2 DEF rows, Unmoved
<1>3. CASE /\ Transition(w) /\ ~Duplicate(task[w], CommandId(w))
           /\ CanCommit(task[w], Target(step[w]), row[w].version)
           /\ Commit(task[w], Target(step[w]), CommandId(w))
  <2>1. CASE task[w] = d
    <3>1. /\ state'[d] = Target(step[w]) /\ version'[d] = version[d] + 1
          /\ commands'[d] = commands[d] \union { CommandId(w) }
          /\ outbox \subseteq outbox'
          /\ Target(step[w]) \in QUEUED => << d, version[d] + 1 >> \in outbox'
      BY <1>a, <1>3, <2>1 DEF Commit, RecordEvent, RowTypes
    <3> QED
      BY <1>3, <2>1, <3>1 DEF Advances, Transition
  <2>2. CASE task[w] # d
    BY <1>a, <1>3, <2>2, RowOfOther DEF Commit
  <2> QED
    BY <2>1, <2>2
<1> QED
  BY <1>1, <1>2, <1>3 DEF Transition

\* All steps.
LEMMA EveryRowMoves ==
  ASSUME TypeInv, Undisturbed, [Next]_vars, NEW d \in Builds
  PROVE  RowMoves(d)
<1>1. CASE \E e \in Deployments : Handlers(e)
  BY <1>1, HandlersMoveRow DEF RowMoves
<1>2. CASE \E w \in Workers : WorkerStep(w)
  BY <1>2, ExecutionMovesRow DEF RowMoves, WorkerStep, Moves
<1>3. CASE Failure \/ Dispatcher \/ OperationLockExpires \/ \E e \in Deployments : Queue(e)
  BY <1>3 DEF Failure, Crash, LoseLock, StoreThrows, RequestDies, Dispatcher, DispatchRead,
              DispatchEnqueue, DispatchMark, DispatcherDies, OperationLockExpires, Queue,
              storeVars, rows, RowMoves, Unmoved
<1>4. CASE UNCHANGED vars
  BY <1>4 DEF vars, storeVars, rows, RowMoves, Unmoved
<1> QED
  BY <1>1, <1>2, <1>3, <1>4 DEF Next

-----------------------------------------------------------------------------
(***************************************************************************)
(* What becomes of a build's requests, outbox rows, deliveries and job.    *)
(***************************************************************************)
\* A request comes from a row that is there, and one to dequeue from a cancellation.
Requested(d) ==
  /\ \A x \in { "enqueue", "dequeue" } :
       << x, d >> \in requests' => << x, d >> \in requests \/ state'[d] # "absent"
  /\ << "dequeue", d >> \in requests' =>
       << "dequeue", d >> \in requests \/ << "cancel", 0 >> \in commands'[d]

\* A row of the outbox comes with a version and goes when it is marked.
Published(d) ==
  /\ \A v \in Nat : << d, v >> \in outbox' =>
       << d, v >> \in outbox \/ (v = version'[d] /\ state'[d] # "absent")
  /\ \A v \in Nat : << d, v >> \in outbox /\ << d, v >> \notin outbox' =>
       << "mark", << d, v >> >> \in deliveries /\ UNCHANGED queueVars

\* A dispatcher reads what is published, and is to mark it when the deployment
\* waits no more or its job was enqueued.
Delivered(d) ==
  \A v \in Nat :
    /\ << "enqueue", << d, v >> >> \in deliveries' =>
         << d, v >> \in outbox \/ << "enqueue", << d, v >> >> \in deliveries
    /\ << "mark", << d, v >> >> \in deliveries' =>
         \/ << "mark", << d, v >> >> \in deliveries
         \/ << d, v >> \in outbox /\ state[d] \notin QUEUED /\ Unmoved(d)
         \/ /\ << "enqueue", << d, v >> >> \in deliveries
            /\ Unmoved(d) /\ job'[d] \notin { "none", "failed" }

\* Who may call enqueue, and what may happen to the job.
Known(d) == << "enqueue", d >> \in requests \/ \E v \in Nat : << "enqueue", << d, v >> >> \in deliveries

JobMoves(d) ==
  \/ UNCHANGED << job[d], lock[d] >>
  \/ /\ Known(d) /\ lock'[d] = lock[d]
     /\ job'[d] = IF job[d] \in { "none", "failed" } THEN "waiting" ELSE job[d]
  \/ /\ << "dequeue", d >> \in requests /\ lock'[d] = lock[d]
     /\ job[d] = "waiting" /\ job'[d] = "none"
  \/ job[d] = "waiting" /\ job'[d] = "active" /\ lock'[d] \in Workers
  \/ \E w \in Workers : /\ Return(w) /\ task[w] = d /\ lock'[d] = NoLock
                        /\ \/ pc[w] = "succeeded" /\ job'[d] = "completed"
                           \/ pc[w] = "threw" /\ job'[d] \in { "delayed", "failed" }
  \/ job[d] = "delayed" /\ job'[d] = "waiting" /\ lock'[d] = lock[d]
  \/ job[d] = "active" /\ lock[d] = NoLock

\* The types of the queue.
QueueTypes ==
  /\ job \in [ Deployments -> JobStates ] /\ made \in [ Deployments -> Nat ]
  /\ stalled \in [ Deployments -> Nat ] /\ lock \in [ Deployments -> Workers \union { NoLock } ]

Traffic(d) == Requested(d) /\ Published(d) /\ Delivered(d) /\ JobMoves(d)

\* Both follow from the types.
LEMMA TrafficTypes ==
  ASSUME TypeInv
  PROVE  RowTypes /\ QueueTypes
  BY WorkerAssumption DEF TypeInv, TypeOK, RowTypeOK, QueueTypeOK, RowTypes, QueueTypes

\* A step that changes neither the queue nor what is delivered, and answers
\* requests at most.
LEMMA TrafficRests ==
  ASSUME NEW d, UNCHANGED << queueVars, deliveries >>, Published(d), Requested(d)
  PROVE  Traffic(d)
  BY DEF Traffic, Delivered, JobMoves, queueVars

\* Every event publishes the version it gives the row.
LEMMA PublishedByEvent ==
  ASSUME TypeInv, NEW d \in Deployments, NEW e \in Deployments, NEW to, RecordEvent(e, to),
         to # "absent"
  PROVE  Published(d)
  BY TrafficTypes DEF Published, RecordEvent, RowTypes

\* The handlers, one by one.
LEMMA HandlersTraffic ==
  ASSUME TypeInv, Undisturbed, NEW d \in Builds, NEW e \in Deployments, Handlers(e)
  PROVE  Traffic(d)
<1>a. /\ d \in Deployments /\ d \notin Rollbacks /\ RowTypes /\ QueueTypes
  BY TrafficTypes DEF Builds
<1>1. CASE Create(e)
  <2>1. Published(d)
    BY <1>a, <1>1, PublishedByEvent DEF Create, CreateRow
  <2>2. Requested(d)
    <3>1. e = d => state'[d] = "queued"
      BY <1>a, <1>1 DEF Create, CreateRow, RecordEvent, RowTypes
    <3> QED
      BY <1>1, <3>1 DEF Create, Requested, Send
  <2> QED
    BY <1>1, <2>1, <2>2, TrafficRests DEF Create
<1>2. CASE CreateRollback(e)
  <2>1. Published(d)
    BY <1>a, <1>2, PublishedByEvent DEF CreateRollback, CreateRow
  <2>2. Requested(d)
    BY <1>2 DEF CreateRollback, Requested, Send
  <2> QED
    BY <1>2, <2>1, <2>2, TrafficRests DEF CreateRollback
<1>3. CASE CheckLock(e)
  <2>1. Published(d) /\ Requested(d)
    BY <1>3 DEF CheckLock, Published, Requested, Proceed, Answer, storeVars, rows
  <2> QED
    BY <1>3, <2>1, TrafficRests DEF CheckLock
<1>4. CASE QueueRollback(e)
  <2>1. e # d
    BY <1>a, <1>4 DEF QueueRollback, TypeInv, TypeOK, ExecutionTypeOK, RequestType
  <2>2. Published(d)
    BY <1>a, <1>4, PublishedByEvent DEF QueueRollback
  <2>3. Requested(d)
    BY <1>4, <2>1 DEF QueueRollback, Requested, Proceed
  <2> QED
    BY <1>4, <2>2, <2>3, TrafficRests DEF QueueRollback
<1>5. CASE RequestCancellation(e)
  <2>1. CASE UNCHANGED rows /\ Duplicate(e, << "cancel", 0 >>)
    <3>1. Published(d)
      BY <2>1 DEF Published, rows
    <3>2. Requested(d)
      BY <1>5, <2>1 DEF RequestCancellation, Requested, Send, rows, Duplicate
    <3> QED
      BY <1>5, <3>1, <3>2, TrafficRests DEF RequestCancellation
  <2>2. CASE Commit(e, "cancel_requested", << "cancel", 0 >>)
    <3>1. Published(d)
      BY <1>a, <2>2, PublishedByEvent DEF Commit
    <3>2. e = d => state'[d] = "cancel_requested" /\ << "cancel", 0 >> \in commands'[d]
      BY <1>a, <2>2 DEF Commit, RecordEvent, RowTypes
    <3>3. Requested(d)
      BY <1>5, <3>2 DEF RequestCancellation, Requested, Send
    <3> QED
      BY <1>5, <3>1, <3>3, TrafficRests DEF RequestCancellation
  <2> QED
    BY <1>5, <2>1, <2>2 DEF RequestCancellation
<1>6. CASE RevokeAccess(e)
  <2>1. Published(d) /\ Requested(d)
    BY <1>6 DEF RevokeAccess, Published, Requested, storeVars, rows
  <2> QED
    BY <1>6, <2>1, TrafficRests DEF RevokeAccess
<1>7. CASE CallQueue(e)
  <2>1. Published(d) /\ Requested(d) /\ Delivered(d)
    BY <1>7 DEF CallQueue, Published, Requested, Delivered, Answer, storeVars, rows
  <2>2. JobMoves(d)
    <3>1. CASE << "enqueue", e >> \in requests /\ Enqueue(e)
      BY <1>a, <3>1 DEF Enqueue, JobMoves, Known, QueueTypes
    <3>2. CASE << "dequeue", e >> \in requests /\ CancelJob(e)
      BY <1>a, <3>2 DEF CancelJob, JobMoves, QueueTypes
    <3> QED
      BY <1>7, <3>1, <3>2 DEF CallQueue
  <2> QED
    BY <2>1, <2>2 DEF Traffic
<1>8. ~\E k \in 1..MaxRetries : Retry(e, k)
  BY DEF Retry, Undisturbed
<1> QED
  BY <1>1, <1>2, <1>3, <1>4, <1>5, <1>6, <1>7, <1>8 DEF Handlers

\* The dispatcher.
LEMMA DispatcherTraffic ==
  ASSUME TypeInv, NEW d \in Builds, Dispatcher
  PROVE  Traffic(d)
<1>a. /\ d \in Deployments /\ RowTypes /\ QueueTypes
      /\ outbox \subseteq Deployments \X Nat
      /\ deliveries \subseteq { "enqueue", "mark" } \X (Deployments \X Nat)
  BY TrafficTypes DEF Builds, TypeInv, TypeOK, RowTypeOK, ExecutionTypeOK
<1>1. ASSUME NEW e \in outbox, DispatchRead(e)
      PROVE  Traffic(d)
  <2>1. Published(d) /\ Requested(d) /\ JobMoves(d) /\ Unmoved(d)
    BY <1>1 DEF DispatchRead, Published, Requested, JobMoves, Unmoved, storeVars, rows, queueVars
  <2>2. Delivered(d)
    BY <1>1, <2>1 DEF DispatchRead, Delivered
  <2> QED
    BY <2>1, <2>2 DEF Traffic
<1>2. ASSUME NEW x \in deliveries, DispatchEnqueue(x[2])
      PROVE  Traffic(d)
  <2>1. PICK e \in Deployments, n \in Nat : x[2] = << e, n >>
    BY <1>a, <1>2
  <2>2. /\ << "enqueue", << e, n >> >> \in deliveries /\ Enqueue(e)
        /\ deliveries' = (deliveries \ { << "enqueue", << e, n >> >> })
                           \union { << "mark", << e, n >> >> }
        /\ UNCHANGED << storeVars, requests >>
    BY <1>2, <2>1 DEF DispatchEnqueue
  <2>3. Published(d) /\ Requested(d) /\ Unmoved(d)
    BY <2>2 DEF Published, Requested, Unmoved, storeVars, rows
  <2>4. JobMoves(d) /\ (e = d => job'[d] \notin { "none", "failed" })
    BY <1>a, <2>2 DEF Enqueue, JobMoves, Known, QueueTypes
  <2>5. Delivered(d)
    BY <2>2, <2>3, <2>4 DEF Delivered
  <2> QED
    BY <2>3, <2>4, <2>5 DEF Traffic
<1>3. ASSUME NEW x \in deliveries, DispatchMark(x[2])
      PROVE  Traffic(d)
  <2>1. Requested(d) /\ JobMoves(d) /\ Delivered(d)
    BY <1>3 DEF DispatchMark, Requested, JobMoves, Delivered, queueVars
  <2>2. Published(d)
    BY <1>3 DEF DispatchMark, Published
  <2> QED
    BY <2>1, <2>2 DEF Traffic
<1>4. ASSUME NEW x \in deliveries, DispatcherDies(x)
      PROVE  Traffic(d)
  BY <1>4 DEF DispatcherDies, Traffic, Published, Requested, JobMoves, Delivered, storeVars,
              rows, queueVars
<1> QED
  BY <1>1, <1>2, <1>3, <1>4 DEF Dispatcher

\* An execution takes a job and returns it, and publishes what it queues.
LEMMA ExecutionTraffic ==
  ASSUME TypeInv, Undisturbed, NEW d \in Builds, NEW w \in Workers, WorkerStep(w)
  PROVE  Traffic(d)
<1>a. /\ d \in Deployments /\ RowTypes /\ QueueTypes
      /\ task \in [ Workers -> Deployments ] /\ UNCHANGED << requests, deliveries >>
      /\ step[w] \in Steps
  BY TrafficTypes DEF Builds, TypeInv, TypeOK, ExecutionTypeOK, WorkerStep
<1>1. Requested(d) /\ Delivered(d)
  BY <1>a DEF Requested, Delivered
<1>2. Published(d)
  <2>1. CASE UNCHANGED rows
    BY <2>1 DEF rows, Published
  <2>2. CASE Transition(w) /\ Commit(task[w], Target(step[w]), CommandId(w))
    <3>1. Target(step[w]) # "absent"
      BY <1>a DEF Target, Steps, RecoverySteps, RollbackSteps, BuildSteps
    <3> QED
      BY <1>a, <2>2, <3>1, PublishedByEvent DEF Commit
  <2>3. UNCHANGED rows \/ Transition(w)
    BY OthersLeaveRows DEF WorkerStep, Moves
  <2> QED
    BY <2>1, <2>2, <2>3 DEF Transition
<1>3. JobMoves(d)
  <2>1. CASE UNCHANGED queueVars
    BY <2>1 DEF queueVars, JobMoves
  <2>2. CASE Take(w)
    <3>1. PICK e \in Deployments : TakeJob(w, e)
      BY <2>2 DEF Take
    <3> QED
      BY <1>a, <3>1 DEF TakeJob, JobMoves, QueueTypes
  <2>3. CASE Return(w)
    <3>1. CASE task[w] = d
      <4>1. CASE At(w, "succeeded") /\ CompleteJob(w, d)
        BY <1>a, <2>3, <3>1, <4>1 DEF CompleteJob, Settle, At, JobMoves, QueueTypes, queueVars
      <4>2. CASE At(w, "threw") /\ FailJob(w, d)
        BY <1>a, <2>3, <3>1, <4>2 DEF FailJob, Settle, At, JobMoves, QueueTypes, queueVars
      <4> QED
        BY <2>3, <3>1, <4>1, <4>2 DEF Return
    <3>2. CASE task[w] # d
      BY <1>a, <2>3, <3>2 DEF Return, CompleteJob, FailJob, Settle, JobMoves, QueueTypes, queueVars
    <3> QED
      BY <3>1, <3>2
  <2>4. CASE Load(w) \/ Reject(w) \/ Admit(w) \/ ReadCurrent(w) \/ Transition(w) \/ RunStage(w)
             \/ BuildImage(w) \/ PublishImage(w)
    BY <2>1, <2>4 DEF Load, Reject, Admit, ReadCurrent, Transition, RunStage, BuildImage, PublishImage
  <2>5. CASE Apply(w) \/ ConfirmRollout(w) \/ VerifyRollback(w) \/ StageThrows(w)
             \/ Finish(w) \/ Catch(w) \/ Abandon(w) \/ Release(w)
    BY <2>1, <2>5 DEF Apply, ConfirmRollout, VerifyRollback, StageThrows, Finish, Catch, Abandon,
                      Release
  <2> QED
    BY <2>2, <2>3, <2>4, <2>5 DEF WorkerStep, Execute
<1> QED
  BY <1>1, <1>2, <1>3 DEF Traffic

\* All steps.
LEMMA EveryTraffic ==
  ASSUME TypeInv, Undisturbed, [Next]_vars, NEW d \in Builds
  PROVE  Traffic(d)
<1>a. d \in Deployments /\ RowTypes /\ QueueTypes
  BY TrafficTypes DEF Builds
<1>1. CASE \E e \in Deployments : Handlers(e)
  BY <1>1, HandlersTraffic
<1>2. CASE \E w \in Workers : WorkerStep(w)
  BY <1>2, ExecutionTraffic
<1>3. CASE Dispatcher
  BY <1>3, DispatcherTraffic
<1>4. ASSUME NEW e \in Deployments, Queue(e)
      PROVE  Traffic(d)
  <2>1. Requested(d) /\ Published(d) /\ Delivered(d)
    BY <1>4 DEF Queue, Requested, Published, Delivered, storeVars, rows
  <2>2. JobMoves(d)
    BY <1>a, <1>4 DEF Queue, BackoffEnds, ReclaimStalled, JobMoves, QueueTypes
  <2> QED
    BY <2>1, <2>2 DEF Traffic
<1>5. CASE OperationLockExpires \/ UNCHANGED vars \/ \E r \in requests : RequestDies(r)
  <2>1. UNCHANGED << rows, queueVars, deliveries >> /\ requests' \subseteq requests
    BY <1>5 DEF OperationLockExpires, vars, RequestDies, storeVars
  <2> QED
    BY <2>1, TrafficRests DEF Published, Requested, rows
<1>6. Failure => \E r \in requests : RequestDies(r)
  BY DEF Failure, Undisturbed, Crash, LoseLock, StoreThrows
<1> QED
  BY <1>1, <1>2, <1>3, <1>4, <1>5, <1>6 DEF Next

-----------------------------------------------------------------------------
\* What is known of every behaviour without lost locks.
Ground == BuildInv /\ LockInv /\ CourseInv /\ SuccessInv

\* An execution that commits has its deployment's row in hand.
LEMMA AdvancesFrom ==
  ASSUME Ground, WakeInv, NEW d \in Builds, NEW w \in Workers, Advances(w, d)
  PROVE  /\ pc[w] = "commit" /\ Busy(w)
         /\ AtStart(w) \/ state[d] # "queued"
         /\ row[w].version = version[d] /\ row[w].state = state[d]
         /\ Target(step[w]) = "failed" => state[d] # "cancel_requested"
         /\ Target(step[w]) \in ALLOWED(state[d]) /\ Target(step[w]) # "rollback_queued"
<1>1. pc[w] = "commit" /\ task[w] = d
  BY DEF Advances, Transition, At
<1>2. CarryInv(w, d)
  BY <1>1 DEF WakeInv, Busy
<1>3. version[d] = row[w].version /\ Target(step[w]) \in ALLOWED(state[d])
  BY DEF Advances, CanCommit, CanTransition
<1>4. Target(step[w]) # "rollback_queued"
  <2>1. step[w] # "rollback-recovery-queue"
    BY <1>1 DEF Ground, BuildInv, RecoveryInv, Builds
  <2>2. step[w] \in Steps
    BY DEF Ground, BuildInv, TypeInv, TypeOK, ExecutionTypeOK
  <2> QED
    BY <2>1, <2>2 DEF Target, Steps, RecoverySteps, RollbackSteps, BuildSteps
<1> QED
  BY <1>1, <1>2, <1>3, <1>4 DEF CarryInv, CurrentInv, Busy

\* What is settled stays so, what is stopped too, and a row stays.
LEMMA RowsStay ==
  ASSUME Ground, WakeInv, Undisturbed, [Next]_vars, NEW d \in Builds
  PROVE  /\ state[d] \in Settled => state'[d] \in Settled
         /\ state[d] \in Stopped => state'[d] \in Stopped
         /\ state[d] # "absent" => state'[d] # "absent"
         /\ version[d] \in Nat /\ version'[d] \in Nat /\ version[d] <= version'[d]
         /\ commands[d] \subseteq commands'[d]
<1>a. TypeInv /\ d \in Deployments /\ version[d] \in Nat /\ version' \in [ Deployments -> Nat ]
  BY RowTypeStep DEF Ground, BuildInv, Builds, TypeInv, TypeOK, RowTypeOK
<1>1. CASE Unmoved(d)
  BY <1>a, <1>1 DEF Unmoved
<1>2. CASE Created(d)
  BY <1>a, <1>2 DEF Created, Settled, Stopped
<1>3. CASE Stops(d)
  BY <1>a, <1>3 DEF Stops, Settled, Stopped, CanTransition, ALLOWED
<1>4. ASSUME NEW w \in Workers, Advances(w, d)
      PROVE  /\ state[d] \in Settled => state'[d] \in Settled
             /\ state[d] \in Stopped => state'[d] \in Stopped
             /\ state'[d] # "absent"
  <2>1. /\ state'[d] \in ALLOWED(state[d]) /\ state'[d] # "rollback_queued"
        /\ state'[d] = "failed" => state[d] # "cancel_requested"
    BY <1>4, AdvancesFrom DEF Advances
  <2>2. state'[d] \in STATES
    BY <1>4 DEF Advances, CanCommit, CanTransition
  <2> QED
    BY <2>1, <2>2 DEF ALLOWED, Settled, Stopped, STATES
<1> QED
  BY <1>a, <1>1, <1>2, <1>3, <1>4, EveryRowMoves DEF RowMoves, Advances

\* The conjuncts of the invariant, one by one.
LEMMA LoggedKept ==
  ASSUME Ground, WakeInv, Undisturbed, [Next]_vars, NEW d \in Builds
  PROVE  LoggedInv(d)'
<1>a. /\ TypeInv /\ LoggedInv(d) /\ d \in Deployments
      /\ commands[d] \subseteq (Steps \union { "cancel", "retry" }) \X Nat
      /\ version[d] \in Nat
  BY DEF Ground, BuildInv, WakeInv, Builds, TypeInv, TypeOK, RowTypeOK
<1>1. CASE Unmoved(d)
  BY <1>a, <1>1 DEF Unmoved, LoggedInv
<1>2. CASE Created(d)
  <2>1. \A c \in commands'[d] : c[1] \in RecoverySteps => c[2] < version[d] + 1
    BY <1>a, <1>2 DEF Created, LoggedInv
  <2>2. << "cancel", 0 >> \notin commands[d]
    BY <1>a, <1>2 DEF Created, LoggedInv, Stopped
  <2> QED
    BY <1>2, <2>1, <2>2 DEF Created, LoggedInv
<1>3. CASE Stops(d)
  <2>1. \A c \in commands[d] : c[1] \in RecoverySteps => c[2] < version[d] + 1
    BY <1>a DEF LoggedInv
  <2> QED
    BY <1>3, <2>1 DEF Stops, LoggedInv, Stopped, RecoverySteps
<1>4. ASSUME NEW w \in Workers, Advances(w, d)
      PROVE  LoggedInv(d)'
  <2>1. row[w].version = version[d]
    BY <1>4, AdvancesFrom
  <2>2. \A c \in commands[d] : c[1] \in RecoverySteps => c[2] < version[d] + 1
    BY <1>a DEF LoggedInv
  <2>3. CommandId(w)[1] \in RecoverySteps => CommandId(w)[2] < version[d] + 1
    BY <1>a, <2>1 DEF CommandId
  <2>4. CommandId(w)[1] # "cancel"
    BY DEF CommandId, Ground, BuildInv, TypeInv, TypeOK, ExecutionTypeOK, Steps, RecoverySteps,
           RollbackSteps, BuildSteps
  <2>5. << "cancel", 0 >> \in commands'[d] => state'[d] \in Stopped
    BY <1>a, <1>4, <2>4, RowsStay DEF Advances, LoggedInv
  <2> QED
    BY <1>4, <2>2, <2>3, <2>5 DEF Advances, LoggedInv
<1> QED
  BY <1>a, <1>1, <1>2, <1>3, <1>4, EveryRowMoves DEF RowMoves

LEMMA KnownKept ==
  ASSUME Ground, WakeInv, Undisturbed, [Next]_vars, NEW d \in Builds
  PROVE  KnownInv(d)'
<1>a. /\ TypeInv /\ KnownInv(d) /\ Traffic(d)
      /\ state[d] # "absent" => state'[d] # "absent"
      /\ version[d] \in Nat /\ version'[d] \in Nat /\ version[d] <= version'[d]
      /\ commands[d] \subseteq commands'[d]
  BY EveryTraffic, RowsStay DEF Ground, BuildInv, WakeInv
<1>1. ASSUME NEW v \in Nat, << d, v >> \in outbox'
      PROVE  state'[d] # "absent" /\ v <= version'[d]
  <2>1. << d, v >> \in outbox => state[d] # "absent" /\ v <= version[d]
    BY <1>a DEF KnownInv
  <2>2. << d, v >> \in outbox \/ (v = version'[d] /\ state'[d] # "absent")
    BY <1>a, <1>1 DEF Traffic, Published
  <2> QED
    BY <1>a, <2>1, <2>2
<1>2. ASSUME NEW x \in { "enqueue", "mark" }, NEW v \in Nat, << x, << d, v >> >> \in deliveries'
      PROVE  state'[d] # "absent" /\ v <= version'[d]
  <2>1. \/ << d, v >> \in outbox
        \/ << "enqueue", << d, v >> >> \in deliveries
        \/ << "mark", << d, v >> >> \in deliveries
    BY <1>a, <1>2 DEF Traffic, Delivered
  <2> QED
    BY <1>a, <2>1 DEF KnownInv
<1>3. /\ \A x \in { "enqueue", "dequeue" } : << x, d >> \in requests' => state'[d] # "absent"
      /\ << "dequeue", d >> \in requests' => << "cancel", 0 >> \in commands'[d]
  BY <1>a DEF Traffic, Requested, KnownInv
<1>4. job'[d] # "none" => state'[d] # "absent"
  <2>1. Known(d) => state[d] # "absent"
    BY <1>a DEF Known, KnownInv
  <2>2. job'[d] # "none" => job[d] # "none" \/ Known(d)
    <3>2. CASE \E w \in Workers : Return(w) /\ task[w] = d
      <4>1. PICK w \in Workers : Return(w) /\ task[w] = d
        BY <3>2
      <4>2. Busy(w)
        BY <4>1 DEF Return, At, Busy
      <4>3. lock[d] # NoLock /\ d \in Jobs
        BY <4>1, <4>2, LockAssumption, WorkerAssumption DEF Ground, LockInv, Builds
      <4> QED
        BY <4>3 DEF Ground, LockInv
    <3> QED
      BY <1>a, <3>2 DEF Traffic, JobMoves
  <2> QED
    BY <1>a, <2>1, <2>2 DEF KnownInv
<1> QED
  BY <1>1, <1>2, <1>3, <1>4 DEF KnownInv

\* Whose job is done or removed does not wait.
LEMMA LeavesNoWaiting ==
  ASSUME Ground, WakeInv, Undisturbed, [Next]_vars, NEW d \in Builds,
         state[d] = "queued", job[d] \in Pending
  PROVE  job'[d] \in Pending
<1>a. /\ TypeInv /\ Traffic(d) /\ JobInv(d) /\ KnownInv(d) /\ LoggedInv(d)
  BY EveryTraffic DEF Ground, BuildInv, WakeInv
<1>1. << "dequeue", d >> \notin requests
  BY <1>a DEF KnownInv, LoggedInv, Stopped
<1>2. ASSUME NEW w \in Workers, Return(w), task[w] = d
      PROVE  FALSE
  <2>1. pc[w] \in { "succeeded", "threw" }
    BY <1>2 DEF Return, At
  <2>2. AtStart(w)
    BY <1>2, <2>1 DEF WakeInv, CarryInv, Busy
  <2> QED
    BY <2>1, <2>2 DEF AtStart
<1>3. ~(job[d] = "active" /\ lock[d] = NoLock)
  BY <1>a DEF JobInv
<1> QED
  BY <1>a, <1>1, <1>2, <1>3 DEF Traffic, JobMoves, Pending

LEMMA JobKept ==
  ASSUME Ground, WakeInv, Undisturbed, [Next]_vars, NEW d \in Builds
  PROVE  JobInv(d)'
<1>a. /\ TypeInv /\ Traffic(d) /\ RowMoves(d) /\ JobInv(d) /\ KnownInv(d) /\ LoggedInv(d)
      /\ d \in Deployments /\ version[d] \in Nat
      /\ NoLock \notin Workers
  BY EveryTraffic, EveryRowMoves, LockAssumption
     DEF Ground, BuildInv, WakeInv, Builds, TypeInv, TypeOK, RowTypeOK
<1>1. job'[d] = "active" => lock'[d] # NoLock
  BY <1>a DEF Traffic, JobMoves, JobInv
<1>2. ASSUME job'[d] = "completed"
      PROVE  state'[d] \in Settled
  <2>1. CASE job[d] = "completed"
    BY <1>a, <2>1, RowsStay DEF JobInv
  <2>2. CASE \E w \in Workers : Return(w) /\ task[w] = d /\ pc[w] = "succeeded"
    <3>1. state[d] \in Settled
      BY <2>2 DEF WakeInv, CarryInv, Busy
    <3> QED
      BY <3>1, RowsStay
  <2> QED
    BY <1>a, <1>2, <2>1, <2>2 DEF Traffic, JobMoves, JobInv
<1>3. ASSUME state'[d] = "queued"
      PROVE  job'[d] \in Pending \/ << d, version'[d] >> \in outbox'
  <2>1. CASE Unmoved(d)
    <3>1. state[d] = "queued" /\ version'[d] = version[d]
      BY <1>3, <2>1 DEF Unmoved
    <3>2. CASE job[d] \in Pending
      BY <3>1, <3>2, LeavesNoWaiting
    <3>3. CASE << d, version[d] >> \in outbox /\ << d, version[d] >> \notin outbox'
      <4>1. << "mark", << d, version[d] >> >> \in deliveries
        BY <1>a, <3>3 DEF Traffic, Published
      <4> QED
        BY <1>a, <3>1, <4>1, LeavesNoWaiting DEF JobInv
    <3> QED
      BY <1>a, <3>1, <3>2, <3>3 DEF JobInv
  <2>2. ASSUME NEW w \in Workers, Advances(w, d)
        PROVE  << d, version'[d] >> \in outbox'
    BY <1>3, <2>2 DEF Advances, QUEUED
  <2> QED
    BY <1>a, <1>3, <2>1, <2>2 DEF RowMoves, Created, Stops
<1>4. ASSUME state'[d] = "queued", << "mark", << d, version'[d] >> >> \in deliveries'
      PROVE  job'[d] \in Pending
  <2>1. CASE Unmoved(d)
    <3>1. state[d] = "queued" /\ version'[d] = version[d]
      BY <1>4, <2>1 DEF Unmoved
    <3>2. CASE << "mark", << d, version[d] >> >> \in deliveries
      BY <1>a, <3>1, <3>2, LeavesNoWaiting DEF JobInv
    <3>3. CASE job'[d] \notin { "none", "failed" }
      <4>1. job'[d] # "completed"
        BY <1>2, <1>4 DEF Settled
      <4>2. job'[d] \in JobStates
        <5>1. job[d] \in JobStates
          BY <1>a, WorkerAssumption DEF TypeInv, TypeOK, QueueTypeOK
        <5> QED
          BY <1>a, <5>1 DEF Traffic, JobMoves, JobStates, JobInv
      <4> QED
        BY <3>3, <4>1, <4>2 DEF JobStates, Pending
    <3> QED
      BY <1>a, <1>4, <3>1, <3>2, <3>3 DEF Traffic, Delivered, QUEUED
  <2>2. CASE ~Unmoved(d)
    <3>1. version'[d] = version[d] + 1 /\ deliveries' = deliveries
      BY <1>a, <1>4, <2>2 DEF RowMoves, Created, Stops, Advances
    <3>2. version[d] + 1 <= version[d]
      BY <1>a, <1>4, <3>1 DEF KnownInv
    <3> QED
      BY <1>a, <3>2
  <2> QED
    BY <2>1, <2>2
<1> QED
  BY <1>1, <1>2, <1>3, <1>4 DEF JobInv

-----------------------------------------------------------------------------
\* An execution at work has a row of its own deployment.
LEMMA BusyIsThere ==
  ASSUME Ground, WakeInv, NEW w \in Workers, Busy(w), task[w] \in Builds
  PROVE  state[task[w]] # "absent" /\ \A v \in Workers : Busy(v) /\ task[v] = task[w] => v = w
<1>1. lock[task[w]] = w /\ w # NoLock /\ task[w] \in Jobs
  BY LockAssumption, WorkerAssumption DEF Ground, LockInv, Builds
<1>2. job[task[w]] # "none"
  BY <1>1 DEF Ground, LockInv
<1> QED
  BY <1>1, <1>2 DEF WakeInv, KnownInv, Ground, LockInv

\* What others do leaves an execution what it relies on.
LEMMA CarriedByOthers ==
  ASSUME Ground, WakeInv, Undisturbed, [Next]_vars, NEW w \in Workers, ~Moves(w),
         Busy(w), task[w] \in Builds, UNCHANGED << pc[w], task[w], step[w], row[w] >>
  PROVE  CarryInv(w, task[w])'
<1> DEFINE d == task[w]
<1>a. /\ CarryInv(w, d) /\ d \in Builds /\ RowMoves(d)
      /\ version[d] \in Nat /\ row[w].version \in Nat /\ task'[w] = d
  BY EveryRowMoves
     DEF WakeInv, Ground, BuildInv, Builds, TypeInv, TypeOK, RowTypeOK, ExecutionTypeOK, RowType
<1>1. CASE Unmoved(d)
  BY <1>a, <1>1 DEF Unmoved, CarryInv, CurrentInv, AtStart
<1>2. CASE Stops(d)
  <2>1. state[d] \notin Settled /\ state'[d] = "cancel_requested" /\ version'[d] = version[d] + 1
    BY <1>2 DEF Stops, CanTransition, ALLOWED, Settled
  <2> QED
    BY <1>a, <2>1 DEF CarryInv, CurrentInv, Stopped
<1>3. ~Created(d)
  BY <1>a, BusyIsThere DEF Created
<1>4. ~\E v \in Workers : Advances(v, d)
  BY <1>a, BusyIsThere DEF Advances, Transition, At, Busy, Moves, Execute
<1> QED
  BY <1>a, <1>1, <1>2, <1>3, <1>4 DEF RowMoves

\* Where the row that an execution read takes it.
LEMMA EnterCarries ==
  ASSUME NEW w \in Workers, NEW r, Enter(w, r), NEW d \in Builds,
         pc \in [ Workers -> PC ], step \in [ Workers -> Steps ],
         r.state = state'[d], r.state # "rollback_queued",
         row'[w] = r, r.version = version'[d], version'[d] \in Nat
  PROVE  CarryInv(w, d)'
<1>1. CASE r.state \in Interrupted
  <2>1. pc'[w] = "commit" /\ step'[w] = "recovery-fail"
    BY <1>1 DEF Enter, GotoStep, Goto, Interrupted
  <2> QED
    BY <1>1, <2>1 DEF CarryInv, CurrentInv, Interrupted
<1>2. CASE r.state = "failed"
  <2>1. pc'[w] = "commit" /\ step'[w] = "recovery-queue"
    BY <1>2 DEF Enter, GotoStep, Goto, Interrupted
  <2> QED
    BY <1>2, <2>1 DEF CarryInv, CurrentInv
<1>3. CASE r.state \notin Interrupted \union { "failed" }
  <2>1. pc'[w] = "admit" /\ step'[w] = "validating"
    BY <1>3 DEF Enter, GotoStep, Goto
  <2> QED
    BY <2>1 DEF CarryInv, AtStart
<1> QED
  BY <1>1, <1>2, <1>3

\* Where a transition takes it: past the beginning only once it has begun.
LEMMA AfterCarries ==
  ASSUME NEW w \in Workers, NEW d, NEW r, After(w, r),
         pc \in [ Workers -> PC ], step \in [ Workers -> Steps ],
         r.state = state'[d], row'[w] = r, r.version = version'[d], version'[d] \in Nat,
         step[w] \notin RollbackSteps \union { "rollback-recovery-fail", "rollback-recovery-queue" },
         state'[d] = "queued" => step[w] \in { "recovery-fail", "recovery-queue" }
  PROVE  CarryInv(w, d)'
<1>1. CASE step[w] = "recovery-fail" /\ r.state = "failed"
  <2>1. pc'[w] = "commit" /\ step'[w] = "recovery-queue"
    BY <1>1 DEF After, GotoStep, Goto
  <2> QED
    BY <1>1, <2>1 DEF CarryInv, CurrentInv
<1>2. CASE (step[w] = "recovery-fail" /\ r.state # "failed") \/ step[w] = "recovery-queue"
  <2>1. pc'[w] = "admit" /\ step'[w] = "validating"
    BY <1>2 DEF After, GotoStep, Goto
  <2> QED
    BY <2>1 DEF CarryInv, AtStart
<1>3. CASE step[w] \notin { "recovery-fail", "recovery-queue" }
  <2>1. pc'[w] \in { "threw", "finish", "abandon", "work" }
    BY <1>3 DEF After, Goto
  <2> QED
    BY <1>3, <2>1 DEF CarryInv
<1> QED
  BY <1>1, <1>2, <1>3

\* A transition that fails was not the first of a deployment that waits.
LEMMA WaitingCanStart ==
  ASSUME Ground, WakeInv, NEW w \in Workers, pc[w] = "commit", task[w] \in Builds,
         state[task[w]] = "queued"
  PROVE  /\ step[w] \in { "validating", "authorization-rejected" }
         /\ CanCommit(task[w], Target(step[w]), row[w].version)
         /\ ~Duplicate(task[w], CommandId(w))
<1> DEFINE d == task[w]
<1>a. /\ CarryInv(w, d) /\ LoggedInv(d) /\ Fresh(w) /\ d \in Builds
      /\ version[d] \in Nat /\ row[w].version \in Nat
  BY DEF WakeInv, Busy, Ground, CourseInv, BuildInv, Builds, TypeInv, TypeOK, RowTypeOK,
         ExecutionTypeOK, RowType
<1>1. step[w] \in { "validating", "authorization-rejected" }
  BY <1>a DEF CarryInv, AtStart
<1>2. row[w].version = version[d]
  BY <1>a DEF CarryInv, CurrentInv, Stopped
<1>3. Target(step[w]) \in { "validating", "failed" }
  BY <1>1 DEF Target, RecoverySteps
<1>4. CanCommit(d, Target(step[w]), row[w].version)
  BY <1>2, <1>3 DEF CanCommit, CanTransition, ALLOWED, Interruptible, STATES, SlotFree, TakesSlot,
                    QUEUED
<1>5. CASE step[w] = "validating"
  <2>1. CommandId(w) = << "validating", attempt[w] >>
    BY <1>5 DEF CommandId, RecoverySteps
  <2>2. << "validating", attempt[w] >> \notin commands[d]
    BY <1>a, <1>5 DEF Fresh, Chain, Rank
  <2> QED
    BY <1>1, <1>4, <2>1, <2>2 DEF Duplicate
<1>6. CASE step[w] = "authorization-rejected"
  <2>1. CommandId(w) = << "authorization-rejected", version[d] >>
    BY <1>2, <1>6 DEF CommandId, RecoverySteps
  <2> QED
    BY <1>1, <1>4, <1>a, <2>1 DEF Duplicate, LoggedInv, RecoverySteps
<1> QED
  BY <1>1, <1>5, <1>6

\* An execution that works ends what it does with the row further than queued.
LEMMA CarriedBySelf ==
  ASSUME Ground, WakeInv, NEW w \in Workers, Execute(w), Busy(w)', NEW d \in Builds,
         task'[w] = d
  PROVE  CarryInv(w, d)'
<1>a. /\ TypeInv /\ pc \in [ Workers -> PC ] /\ step \in [ Workers -> Steps ]
      /\ task \in [ Workers -> Deployments ] /\ row \in [ Workers -> RowType ]
      /\ d \in Deployments /\ d \notin Rollbacks /\ RowTypes
      /\ version[d] \in Nat /\ Row(d).state = state[d] /\ Row(d).version = version[d]
  BY TrafficTypes DEF Ground, BuildInv, Builds, TypeInv, TypeOK, ExecutionTypeOK, Row, RowTypes
<1>b. ~Return(w)
  BY <1>a DEF Return, Reset, Goto, Busy
<1>1. CASE Take(w)
  <2>1. pc'[w] = "load"
    BY <1>a, <1>1 DEF Take, Goto
  <2> QED
    BY <2>1 DEF CarryInv, AtStart
<1> SUFFICES ASSUME ~Take(w) PROVE CarryInv(w, d)'
  BY <1>1
<1>c. task[w] = d /\ pc[w] # "idle"
  <2>1. CASE Load(w) \/ Reject(w) \/ Admit(w) \/ ReadCurrent(w) \/ Transition(w) \/ RunStage(w)
             \/ BuildImage(w) \/ PublishImage(w)
    BY <2>1 DEF Load, Reject, Admit, ReadCurrent, Transition, RunStage, BuildImage, PublishImage, At
  <2>2. CASE Apply(w) \/ ConfirmRollout(w) \/ VerifyRollback(w) \/ StageThrows(w)
             \/ Finish(w) \/ Catch(w) \/ Abandon(w) \/ Release(w)
    BY <2>2 DEF Apply, ConfirmRollout, VerifyRollback, StageThrows, Finish, Catch, Abandon,
                Release, At
  <2> QED
    BY <1>b, <2>1, <2>2 DEF Execute
<1>d. /\ CarryInv(w, d)
      /\ step[w] \notin RollbackSteps \union { "rollback-recovery-fail", "rollback-recovery-queue" }
      /\ state[d] # "rollback_queued"
  BY <1>a, <1>c DEF WakeInv, Busy, Ground, SuccessInv, OwnInv, BuildInv, RecoveryInv, NeverRollsBack
<1>e. ~Transition(w) => state' = state /\ version' = version
  BY OthersLeaveRows DEF Moves, rows
<1>2. CASE Load(w)
  <2>a. state' = state /\ version' = version /\ row'[w] = Row(d)
    BY <1>a, <1>c, <1>e, <1>2 DEF Load, Transition, At
  <2>1. CASE pc'[w] = "reject"
    BY <2>1 DEF CarryInv, AtStart
  <2>2. CASE state[d] \in Settled /\ pc'[w] = "succeeded"
    BY <2>a, <2>2 DEF CarryInv, Settled
  <2>3. CASE Enter(w, Row(d))
    BY <1>a, <1>d, <2>a, <2>3, EnterCarries
  <2> QED
    BY <1>a, <1>c, <1>2, <2>1, <2>2, <2>3 DEF Load, Goto, Settled
<1>3. CASE Reject(w)
  <2>a. state' = state /\ version' = version /\ row'[w] = Row(d)
    BY <1>a, <1>c, <1>e, <1>3 DEF Reject, Transition, At
  <2>1. CASE state[d] \in QUEUED
    <3>1. pc'[w] = "commit" /\ step'[w] = "authorization-rejected"
      BY <1>a, <1>c, <1>3, <2>1 DEF Reject, GotoStep, Goto
    <3> QED
      BY <1>a, <2>a, <2>1, <3>1 DEF CarryInv, AtStart, CurrentInv, QUEUED
  <2>2. CASE state[d] \notin QUEUED
    <3>1. pc'[w] = "threw"
      BY <1>a, <1>c, <1>3, <2>2 DEF Reject, GotoStep, Goto
    <3> QED
      BY <2>a, <2>2, <3>1 DEF CarryInv, QUEUED
  <2> QED
    BY <2>1, <2>2
<1>4. CASE Admit(w)
  <2>1. pc[w] = "admit" /\ step[w] = "validating"
    BY <1>d, <1>4 DEF Admit, At, Ground, CourseInv, OnCourse, RollbackSteps
  <2>2. pc'[w] = "read" /\ step'[w] = "validating"
    BY <1>a, <1>4, <2>1 DEF Admit, Goto
  <2> QED
    BY <2>2 DEF CarryInv, AtStart, Target, RecoverySteps
<1>5. CASE ReadCurrent(w)
  <2>a. /\ state' = state /\ version' = version /\ row'[w] = Row(d)
        /\ pc[w] = "read" /\ step'[w] = step[w]
    BY <1>a, <1>c, <1>e, <1>5 DEF ReadCurrent, Transition, At
  <2>1. CASE state[d] = "cancel_requested" /\ pc'[w] = "catch"
    BY <2>a, <2>1 DEF CarryInv
  <2>2. CASE pc'[w] = "commit"
    BY <1>a, <1>d, <2>a, <2>2 DEF CarryInv, CurrentInv, AtStart
  <2> QED
    BY <1>a, <1>c, <1>5, <2>1, <2>2 DEF ReadCurrent, Goto
<1>6. CASE Transition(w)
  <2>a. pc[w] = "commit"
    BY <1>6 DEF Transition, At
  <2>b. \/ ~Duplicate(d, CommandId(w)) /\ CanCommit(d, Target(step[w]), row[w].version)
        \/ state[d] # "queued"
    BY <1>c, <2>a, WaitingCanStart
  <2>1. CASE Duplicate(d, CommandId(w))
    <3>1. /\ After(w, Row(d)) /\ state' = state /\ version' = version /\ row'[w] = Row(d)
      BY <1>a, <1>c, <1>6, <2>1 DEF Transition, rows
    <3> QED
      BY <1>a, <1>d, <2>b, <2>1, <3>1, AfterCarries
  <2>2. CASE ~Duplicate(d, CommandId(w)) /\ CanCommit(d, Target(step[w]), row[w].version)
    <3> DEFINE r == [ Row(d) EXCEPT !.state = Target(step[w]), !.version = @ + 1 ]
    <3>1. After(w, r) /\ row'[w] = r /\ Commit(d, Target(step[w]), CommandId(w))
      BY <1>a, <1>c, <1>6, <2>2 DEF Transition
    <3>2. state'[d] = Target(step[w]) /\ version'[d] = version[d] + 1
      BY <1>a, <3>1 DEF Commit, RecordEvent, RowTypes
    <3>3. r.state = state'[d] /\ r.version = version'[d] /\ version'[d] \in Nat
      BY <1>a, <3>2 DEF Row
    <3>4. step[w] \in Steps
      BY <1>a
    <3>5. state'[d] = "queued" => step[w] = "recovery-queue"
      BY <3>2, <3>4 DEF Target, Steps, RecoverySteps, RollbackSteps, BuildSteps
    <3> QED
      BY <1>a, <1>d, <3>1, <3>3, <3>5, AfterCarries
  <2>3. CASE ~Duplicate(d, CommandId(w)) /\ ~CanCommit(d, Target(step[w]), row[w].version)
    <3>1. pc'[w] \in { "threw", "catch" } /\ state' = state
      BY <1>a, <1>c, <1>6, <2>3 DEF Transition, Goto, Thrown, rows
    <3> QED
      BY <2>b, <2>3, <3>1 DEF CarryInv
  <2> QED
    BY <2>1, <2>2, <2>3
<1>7. ASSUME state' = state, pc[w] \notin { "load", "reject", "admit", "read", "commit" },
             \/ pc'[w] \in { "rollout", "catch", "abandon", "release", "threw" }
             \/ pc'[w] = "read" /\ Target(step'[w]) # "failed"
             \/ pc'[w] = "succeeded" /\ state[d] \in Settled
      PROVE  CarryInv(w, d)'
  BY <1>d, <1>7 DEF CarryInv, AtStart
<1>8. ASSUME NextStage(w), step[w] \in { "validating", "testing", "scanning", "building", "build-complete",
                           "pushing", "deploying", "verifying", "rolling-back",
                           "rollback-verifying" }
      PROVE  pc'[w] = "read" /\ Target(step'[w]) # "failed"
  <2>1. pc'[w] = "read" /\ step'[w] = Following(step[w])
    BY <1>a, <1>8 DEF NextStage, GotoStep, Goto
  <2> QED
    BY <1>8, <2>1 DEF Following, Target, RecoverySteps
<1>9. CASE RunStage(w) \/ BuildImage(w) \/ PublishImage(w) \/ ConfirmRollout(w) \/ VerifyRollback(w)
  <2>1. pc[w] = "rollout" => step[w] \in { "deploying", "rolling-back" }
    BY DEF Ground, BuildInv, TypeInv, RolloutStep, At
  <2>2. pc[w] \in { "work", "rollout" }
    BY <1>9 DEF RunStage, BuildImage, PublishImage, ConfirmRollout, VerifyRollback, At
  <2>3. pc'[w] = "read" /\ Target(step'[w]) # "failed"
    BY <1>8, <1>9, <2>1
       DEF RunStage, BuildImage, PublishImage, ConfirmRollout, VerifyRollback, At
  <2> QED
    BY <1>e, <1>7, <2>2, <2>3 DEF Transition, At
<1>10. CASE Apply(w) \/ StageThrows(w) \/ Abandon(w)
  <2>1. pc[w] \in { "work", "rollout", "abandon" }
    BY <1>10 DEF Apply, StageThrows, Abandon, At
  <2>2. pc'[w] \in { "rollout", "catch", "release", "threw" }
    BY <1>a, <1>10 DEF Apply, StageThrows, Abandon, Goto
  <2> QED
    BY <1>e, <1>7, <2>1, <2>2 DEF Transition, At
<1>11. CASE Finish(w)
  <2>1. pc[w] = "finish" /\ pc'[w] \in { "succeeded", "release" }
    BY <1>a, <1>11 DEF Finish, At, Goto
  <2>2. state[d] = "ready"
    BY <1>c, <2>1 DEF Ground, SuccessInv
  <2> QED
    BY <1>e, <1>7, <2>1, <2>2 DEF Transition, At, Settled
<1>12. CASE Release(w)
  <2>1. pc[w] = "release" /\ pc'[w] = "threw"
    BY <1>a, <1>d, <1>12 DEF Release, At, Goto, RollbackSteps
  <2> QED
    BY <1>e, <1>7, <2>1 DEF Transition, At
<1>13. CASE Catch(w)
  <2>a. /\ state' = state /\ version' = version /\ row'[w] = Row(d) /\ pc[w] = "catch"
        /\ state[d] # "queued"
    BY <1>a, <1>c, <1>d, <1>e, <1>13 DEF Catch, Transition, At, CarryInv, AtStart
  <2>1. CASE pc'[w] = "abandon"
    BY <2>a, <2>1 DEF CarryInv
  <2>2. CASE pc'[w] = "commit" /\ (step'[w] = "failed" => state[d] # "cancel_requested")
             /\ step'[w] \in { "failed", "cancelled" }
    <3>1. Target("cancelled") = "cancelled"
      BY DEF Target, RecoverySteps
    <3> QED
      BY <1>a, <2>a, <2>2, <3>1 DEF CarryInv, CurrentInv
  <2>3. \/ pc'[w] = "abandon"
        \/ pc'[w] = "commit" /\ step'[w] = "cancelled"
        \/ pc'[w] = "commit" /\ step'[w] = "failed" /\ state[d] # "cancel_requested"
    BY <1>a, <1>c, <1>d, <1>13 DEF Catch, GotoStep, Goto
  <2> QED
    BY <2>1, <2>2, <2>3
<1> QED
  BY <1>b, <1>2, <1>3, <1>4, <1>5, <1>6, <1>9, <1>10, <1>11, <1>12, <1>13 DEF Execute

\* Together.
LEMMA WakeStep ==
  ASSUME Ground, WakeInv, Undisturbed, [Next]_vars
  PROVE  WakeInv'
<1>1. ASSUME NEW d \in Builds
      PROVE  LoggedInv(d)' /\ KnownInv(d)' /\ JobInv(d)'
  BY LoggedKept, KnownKept, JobKept
<1>2. ASSUME NEW w \in Workers, Busy(w)', NEW d \in Builds, task'[w] = d
      PROVE  CarryInv(w, d)'
  <2>1. CASE Moves(w)
    <3>1. Execute(w) \/ LoseLock(w)
      BY <2>1 DEF Moves, Undisturbed, Crash, StoreThrows
    <3>2. ~LoseLock(w)
      BY DEF Undisturbed, LoseLock
    <3> QED
      BY <1>2, <3>1, <3>2, CarriedBySelf
  <2>2. CASE ~Moves(w)
    <3>1. UNCHANGED << pc[w], task[w], step[w], row[w] >>
      <4>1. CASE \E v \in Workers : Moves(v)
        BY <2>2, <4>1, MovesOwn DEF Ground, BuildInv
      <4>2. CASE UNCHANGED execution
        BY <4>2 DEF execution
      <4> QED
        BY <4>1, <4>2, ExecutionsMove
    <3> QED
      BY <1>2, <2>2, <3>1, CarriedByOthers DEF Busy
  <2> QED
    BY <2>1, <2>2
<1>3. ASSUME NEW w \in Workers, Busy(w)', task'[w] \in Builds
      PROVE  CarryInv(w, task[w])'
  BY <1>2, <1>3 DEF CarryInv, CurrentInv, AtStart
<1> QED
  BY <1>1, <1>3 DEF WakeInv, Builds

\* While nobody retries and neither executions nor the store fail in ways the
\* worker does not catch: a build that waits has a job, or an outbox row that
\* will bring one, whichever requests and dispatchers die, stages throw,
\* accesses are withdrawn and builds are cancelled.
THEOREM NoLostWakeUp ==
  ASSUME Undisturbed
  PROVE  Spec => []WakeUpPending
<1>0. "lock loss" \notin Environment
  BY DEF Undisturbed
<1>1. Init => LockInv /\ CourseInv /\ SuccessInv /\ WakeInv
  <2> SUFFICES ASSUME Init PROVE LockInv /\ CourseInv /\ SuccessInv /\ WakeInv
    OBVIOUS
  <2>1. \A d \in Builds : LoggedInv(d) /\ KnownInv(d) /\ JobInv(d)
    BY WorkerAssumption DEF Init, StoreInit, QueueInit, Builds, LoggedInv, KnownInv, JobInv
  <2>2. \A w \in Workers : ~Busy(w)
    BY DEF Init, WorkerInit, Busy
  <2> QED
    BY <2>1, <2>2, LockInit, CourseInit, SuccessInit DEF WakeInv
<1>2. TypeInv /\ LockInv /\ [Next]_vars => LockInv'
  BY <1>0, LockInvStep
<1>3. TypeInv /\ LockInv /\ CourseInv /\ [Next]_vars => CourseInv'
  BY CourseStep
<1>4. BuildInv /\ BuildInv' /\ SuccessInv /\ [Next]_vars => SuccessInv'
  BY SuccessStep
<1>5. BuildInv /\ LockInv /\ CourseInv /\ SuccessInv /\ WakeInv /\ [Next]_vars => WakeInv'
  BY WakeStep DEF Ground
<1>6. WakeInv => WakeUpPending
  BY DEF WakeInv, JobInv, WakeUpPending
<1>7. BuildInv => TypeInv
  BY DEF BuildInv
<1> QED
  BY <1>1, <1>2, <1>3, <1>4, <1>5, <1>6, <1>7, BuildInvKept, PTL DEF Spec

=============================================================================
