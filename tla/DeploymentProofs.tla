------------------------- MODULE DeploymentProofs -------------------------
(***************************************************************************)
(* Proofs about DeploymentSystem: types, build slots, and the refinement   *)
(* of BuildLifecycle.                                                      *)
(*                                                                         *)
(* The transition an execution commits next depends on the step it is at,  *)
(* so that the types are inductive only with the fact that a rollout is    *)
(* one of a build or of a rollback.  RowStep tells what a step may do to   *)
(* the deployment rows: the proofs about slots and the life cycle start    *)
(* from it.                                                                *)
(***************************************************************************)
EXTENDS DeploymentSystem, SequenceTheorems, FiniteSetTheorems, TLAPS

RolloutStep ==
  \A w \in Workers : At(w, "rollout") => step[w] \in { "deploying", "rolling-back" }

TypeInv == TypeOK /\ RolloutStep

Command == (Steps \union { "cancel", "retry" }) \X Nat

\* A committed transition of d, or its creation.
RowChange(d, to) ==
  /\ RecordEvent(d, to)
  /\ SlotFree(d, to)
  /\ commands' \in [ Deployments -> SUBSET Command ]
  /\ \/ state[d] = "absent" /\ to = "queued"
     \/ CanTransition(state[d], to)
     \/ d \in Rollbacks

\* Delivered outbox rows disappear, and nothing else about the rows changes.
OutboxShrinks ==
  /\ outbox' \subseteq outbox
  /\ UNCHANGED << state, version, commands, reserved >>

RowStep == OutboxShrinks \/ \E d \in Deployments, to \in STATES : RowChange(d, to)

(***************************************************************************)
(* Rows.                                                                   *)
(***************************************************************************)
\* The transaction of a transition, _event included, is a change of one row
\* along an edge of the state machine.
LEMMA CommitChangesRow ==
  ASSUME RowTypeOK, NEW d \in Deployments, NEW to, NEW v, NEW cmd \in Command,
         CanCommit(d, to, v), Commit(d, to, cmd)
  PROVE  RowStep
<1>1. to \in STATES
  BY DEF CanCommit, CanTransition
<1>2. commands' \in [ Deployments -> SUBSET Command ]
  BY DEF RowTypeOK, Commit, Command
<1> QED
  BY <1>1, <1>2 DEF RowStep, RowChange, CanCommit, Commit

\* What the handlers of the API do to the rows.
LEMMA HandlersChangeRow ==
  ASSUME TypeInv, NEW d \in Deployments, Handlers(d)
  PROVE  RowStep
<1> USE DEF TypeInv, TypeOK
<1>1. ASSUME CreateRow(d, "queued")
      PROVE  RowStep
  <2>1. "queued" \in STATES
    BY DEF STATES
  <2> QED
    BY <1>1, <2>1 DEF CreateRow, RowStep, RowChange, RowTypeOK, Command
<1>2. CASE Create(d)
  BY <1>1, <1>2 DEF Create
<1>3. CASE CreateRollback(d)
  BY <1>1, <1>3 DEF CreateRollback
<1>4. CASE RequestCancellation(d)
  <2>1. << "cancel", 0 >> \in Command
    BY DEF Command
  <2>2. CASE UNCHANGED rows
    BY <2>2 DEF rows, RowStep, OutboxShrinks
  <2> QED
    BY <1>4, <2>1, <2>2, CommitChangesRow DEF RequestCancellation
<1>5. ASSUME NEW k \in 1..MaxRetries, Retry(d, k)
      PROVE  RowStep
  <2>1. << "retry", k >> \in Command
    BY DEF Command
  <2>2. CASE UNCHANGED rows
    BY <2>2 DEF rows, RowStep, OutboxShrinks
  <2> QED
    BY <1>5, <2>1, <2>2, CommitChangesRow DEF Retry
<1>6. CASE QueueRollback(d)
  <2>1. d \in Rollbacks
    BY <1>6 DEF QueueRollback, ExecutionTypeOK, RequestType
  <2>2. SlotFree(d, "rollback_queued")
    BY <2>1 DEF SlotFree, TakesSlot
  <2> QED
    BY <1>6, <2>1, <2>2 DEF QueueRollback, RowStep, RowChange, RowTypeOK, Command, STATES
<1>7. CASE CheckLock(d) \/ CallQueue(d) \/ RevokeAccess(d)
  BY <1>7 DEF CheckLock, CallQueue, RevokeAccess, storeVars, rows, RowStep, OutboxShrinks
<1> QED
  BY <1>2, <1>3, <1>4, <1>5, <1>6, <1>7 DEF Handlers

\* A transition of an execution changes one row, or none if it is a duplicate.
LEMMA TransitionChangesRow ==
  ASSUME TypeInv, NEW w \in Workers, Transition(w)
  PROVE  RowStep
<1>1. task[w] \in Deployments /\ CommandId(w) \in Command
  BY DEF TypeInv, TypeOK, ExecutionTypeOK, RowType, CommandId, Command
<1>2. CASE UNCHANGED rows
  BY <1>2 DEF rows, RowStep, OutboxShrinks
<1> QED
  BY <1>1, <1>2, CommitChangesRow DEF Transition, TypeInv, TypeOK

\* The only steps of executions that change rows are transitions.
LEMMA WorkersChangeRow ==
  ASSUME TypeInv, NEW w \in Workers, Execute(w)
  PROVE  RowStep
<1>1. CASE Transition(w)
  BY <1>1, TransitionChangesRow
<1>2. CASE Take(w) \/ Load(w) \/ Reject(w) \/ Admit(w) \/ ReadCurrent(w) \/ RunStage(w)
  BY <1>2 DEF Take, Load, Reject, Admit, ReadCurrent, RunStage, storeVars, rows,
              RowStep, OutboxShrinks
<1>3. CASE BuildImage(w) \/ PublishImage(w) \/ Apply(w)
           \/ ConfirmRollout(w) \/ VerifyRollback(w) \/ StageThrows(w)
  BY <1>3 DEF BuildImage, PublishImage, Apply, ConfirmRollout,
              VerifyRollback, StageThrows, storeVars, rows, RowStep, OutboxShrinks
<1>4. CASE Finish(w) \/ Catch(w) \/ Abandon(w) \/ Release(w) \/ Return(w)
  BY <1>4 DEF Finish, Catch, Abandon, Release, Return, storeVars, rows, RowStep, OutboxShrinks
<1> QED
  BY <1>1, <1>2, <1>3, <1>4 DEF Execute

\* Every step of the system changes the rows by a committed transition, by
\* the delivery of an outbox row, or not at all.
LEMMA EveryStepIsRowStep ==
  ASSUME TypeInv, [Next]_vars
  PROVE  RowStep
<1> USE DEF RowStep, OutboxShrinks, storeVars, rows
<1>1. CASE \E d \in Deployments : Handlers(d)
  BY <1>1, HandlersChangeRow
<1>2. CASE \E d \in Deployments : Queue(d)
  BY <1>2 DEF Queue
<1>3. CASE \E w \in Workers : WorkerStep(w)
  BY <1>3, WorkersChangeRow DEF WorkerStep
<1>4. CASE Dispatcher
  BY <1>4 DEF Dispatcher, DispatchRead, DispatchEnqueue, DispatchMark, DispatcherDies
<1>5. CASE OperationLockExpires
  BY <1>5 DEF OperationLockExpires
<1>6. CASE Failure
  BY <1>6 DEF Failure, Crash, LoseLock, StoreThrows, RequestDies
<1>7. CASE UNCHANGED vars
  BY <1>7 DEF vars
<1> QED
  BY <1>1, <1>2, <1>3, <1>4, <1>5, <1>6, <1>7 DEF Next

\* So the rows keep their types.
LEMMA RowTypeStep ==
  ASSUME TypeInv, [Next]_vars
  PROVE  RowTypeOK'
<1>1. CASE OutboxShrinks
  BY <1>1 DEF OutboxShrinks, TypeInv, TypeOK, RowTypeOK
<1>2. ASSUME NEW d \in Deployments, NEW to \in STATES, RowChange(d, to)
      PROVE  RowTypeOK'
  BY <1>2 DEF RowChange, RecordEvent, SlotsOf, TypeInv, TypeOK, RowTypeOK, Command
<1> QED
  BY <1>1, <1>2, EveryStepIsRowStep DEF RowStep

(***************************************************************************)
(* Control: where an execution goes next.                                  *)
(***************************************************************************)
\* Execution w moves to a point of PC, with a step that fits it.
ControlStep(w) ==
  \E p \in PC, s \in Steps :
    /\ pc'   = [ pc EXCEPT ![w] = p ]
    /\ step' = [ step EXCEPT ![w] = s ]
    /\ p = "rollout" => s \in { "deploying", "rolling-back" }

\* Entering the pipeline with any row that the rollback recovery left.
LEMMA EnterControl ==
  ASSUME NEW w \in Workers, NEW r, Enter(w, r)
  PROVE  ControlStep(w)
  BY DEF Enter, GotoStep, Goto, ControlStep, PC, Steps, RecoverySteps, RollbackSteps, BuildSteps

\* Where a transition leads, whatever row it returned.
LEMMA AfterControl ==
  ASSUME TypeInv, NEW w \in Workers, NEW r, After(w, r)
  PROVE  ControlStep(w)
<1>1. CASE step[w] = "rollback-recovery-queue"
  BY <1>1, EnterControl DEF After
<1>2. CASE step[w] # "rollback-recovery-queue"
  <2>1. step = [ step EXCEPT ![w] = step[w] ] /\ step[w] \in Steps
    BY DEF TypeInv, TypeOK, ExecutionTypeOK
  <2> QED
    BY <1>2, <2>1 DEF After, GotoStep, Goto, ControlStep, PC, Steps, RecoverySteps,
                      RollbackSteps, BuildSteps
<1> QED
  BY <1>1, <1>2

\* Work is done at a step that opened a stage.
LEMMA NextStageControl ==
  ASSUME NEW w \in Workers, NextStage(w),
         step[w] \in { "validating", "testing", "scanning", "building", "build-complete",
                       "pushing", "deploying", "verifying", "rolling-back",
                       "rollback-verifying" }
  PROVE  ControlStep(w)
  BY DEF NextStage, Following, GotoStep, Goto, ControlStep, PC, Steps, RollbackSteps, BuildSteps

\* Every step of an execution keeps to the control points.
LEMMA WorkerControl ==
  ASSUME TypeInv, NEW w \in Workers,
         Execute(w) \/ Crash(w) \/ LoseLock(w) \/ StoreThrows(w)
  PROVE  ControlStep(w)
<1>a. /\ pc   = [ pc EXCEPT ![w] = pc[w] ]
      /\ step = [ step EXCEPT ![w] = step[w] ]
      /\ pc[w] \in PC /\ step[w] \in Steps
      /\ pc[w] = "rollout" => step[w] \in { "deploying", "rolling-back" }
  BY DEF TypeInv, TypeOK, ExecutionTypeOK, RolloutStep, At
<1> USE DEF GotoStep, Goto, ControlStep, At
<1>1. CASE Take(w) \/ Admit(w) \/ ReadCurrent(w) \/ StageThrows(w) \/ Finish(w)
           \/ Abandon(w) \/ Release(w)
  BY <1>a, <1>1 DEF Take, Admit, ReadCurrent, StageThrows, Finish, Abandon, Release, PC
<1>2. CASE Load(w)
  <2>1. CASE Enter(w, Row(task[w]))
    BY <2>1, EnterControl
  <2>2. CASE ~Enter(w, Row(task[w]))
    BY <1>a, <1>2, <2>2 DEF Load, PC, Steps, RecoverySteps
  <2> QED
    BY <2>1, <2>2
<1>3. CASE Transition(w)
  <2>1. CASE \E r : After(w, r)
    BY <2>1, AfterControl
  <2>2. CASE Goto(w, Thrown(w)) /\ UNCHANGED step
    BY <1>a, <2>2 DEF Thrown, PC
  <2> QED
    BY <1>3, <2>1, <2>2 DEF Transition
<1>4. CASE RunStage(w) \/ BuildImage(w) \/ PublishImage(w)
           \/ ConfirmRollout(w) \/ VerifyRollback(w)
  BY <1>a, <1>4, NextStageControl
     DEF RunStage, BuildImage, PublishImage, ConfirmRollout, VerifyRollback
<1>5. CASE Apply(w)
  BY <1>a, <1>5 DEF Apply, PC
<1>6. CASE Reject(w) \/ Catch(w)
  BY <1>a, <1>6 DEF Reject, Catch, PC, Steps, RecoverySteps, RollbackSteps, BuildSteps
<1>7. CASE Return(w) \/ Crash(w)
  BY <1>7 DEF Return, Crash, Reset, PC, Steps, BuildSteps
<1>8. CASE LoseLock(w)
  BY <1>a, <1>8 DEF LoseLock, execution
<1>9. CASE StoreThrows(w)
  BY <1>a, <1>9 DEF StoreThrows, Thrown, PC
<1> QED
  BY <1>1, <1>2, <1>3, <1>4, <1>5, <1>6, <1>7, <1>8, <1>9 DEF Execute

\* What an execution holds: its task, its attempt, the row it read.
Held(w) ==
  /\ task'    \in [ Workers -> Deployments ]
  /\ attempt' \in [ Workers -> Nat ]
  /\ row'     \in [ Workers -> RowType ]

\* Every step of an execution leaves it holding what it should.
LEMMA WorkerHolds ==
  ASSUME TypeInv, NEW w \in Workers,
         Execute(w) \/ Crash(w) \/ LoseLock(w) \/ StoreThrows(w)
  PROVE  Held(w)
<1>a. /\ task    \in [ Workers -> Deployments ] /\ task[w] \in Deployments
      /\ attempt \in [ Workers -> Nat ]
      /\ row     \in [ Workers -> RowType ]
      /\ \A d \in Deployments : Row(d) \in RowType
  BY DEF TypeInv, TypeOK, ExecutionTypeOK, RowTypeOK, ArtifactTypeOK, Row, RowType
<1> USE DEF Held
<1>1. CASE Take(w)
  BY <1>a, <1>1 DEF Take
<1>2. CASE Load(w) \/ Reject(w) \/ ReadCurrent(w) \/ Catch(w)
  BY <1>a, <1>2 DEF Load, Reject, ReadCurrent, Catch
<1>3. CASE Admit(w)
  <2>1. Len(attempts[task[w]]) \in Nat
    BY <1>a DEF TypeInv, TypeOK, ArtifactTypeOK
  <2> QED
    BY <1>a, <1>3, <2>1 DEF Admit
<1>4. CASE Transition(w)
  <2>1. ASSUME NEW r \in RowType, NEW to \in STATES
        PROVE  [ r EXCEPT !.state = to, !.version = @ + 1 ] \in RowType
    <3>1. r.version + 1 \in Nat
      BY DEF RowType
    <3> QED
      BY <3>1 DEF RowType
  <2>2. ASSUME CanCommit(task[w], Target(step[w]), row[w].version)
        PROVE  Target(step[w]) \in STATES
    BY <2>2 DEF CanCommit, CanTransition
  <2>3. UNCHANGED << task, attempt >>
    BY <1>4 DEF Transition
  <2>4. \/ row' = row
        \/ \E r \in RowType : row' = [ row EXCEPT ![w] = r ]
    BY <1>a, <1>4, <2>1, <2>2 DEF Transition
  <2> QED
    BY <1>a, <2>3, <2>4
<1>5. CASE RunStage(w) \/ BuildImage(w) \/ PublishImage(w)
           \/ Apply(w) \/ ConfirmRollout(w) \/ VerifyRollback(w)
  BY <1>a, <1>5 DEF RunStage, BuildImage, PublishImage, Apply,
                    ConfirmRollout, VerifyRollback
<1>6. CASE StageThrows(w) \/ Finish(w) \/ Abandon(w) \/ Release(w) \/ StoreThrows(w)
  BY <1>a, <1>6 DEF StageThrows, Finish, Abandon, Release, StoreThrows
<1>7. CASE Return(w) \/ Crash(w)
  <2>1. NoTask \in Deployments
    BY StoreAssumption DEF NoTask
  <2>2. NoRow \in RowType
    BY DEF NoRow, RowType, Digest, NoDigest
  <2> QED
    BY <1>a, <1>7, <2>1, <2>2 DEF Return, Crash, Reset
<1>8. CASE LoseLock(w)
  BY <1>a, <1>8 DEF LoseLock, execution
<1> QED
  BY <1>1, <1>2, <1>3, <1>4, <1>5, <1>6, <1>7, <1>8 DEF Execute

(***************************************************************************)
(* Artifacts.                                                              *)
(***************************************************************************)
\* The attempts of a deployment stay a sequence of statuses.
LEMMA AttemptsType ==
  ASSUME ArtifactTypeOK, NEW d \in Deployments,
         \/ AddAttempt(d)
         \/ \E k \in Nat, status \in { "completed", "failed" } : FinishAttempt(d, k, status)
  PROVE  attempts' \in [ Deployments -> Seq({ "active", "completed", "failed" }) ]
<1> DEFINE S == { "active", "completed", "failed" }
<1>1. attempts[d] \in Seq(S)
  BY DEF ArtifactTypeOK
<1>2. CASE AddAttempt(d)
  <2>1. Append(attempts[d], "active") \in Seq(S)
    BY <1>1
  <2> QED
    BY <1>2, <2>1 DEF AddAttempt, ArtifactTypeOK
<1>3. ASSUME NEW k \in Nat, NEW status \in { "completed", "failed" },
             FinishAttempt(d, k, status)
      PROVE  attempts' \in [ Deployments -> Seq(S) ]
  <2>1. [ attempts[d] EXCEPT ![k] = status ] \in Seq(S)
    <3>1. CASE k \in 1..Len(attempts[d])
      BY <1>1, <3>1, ExceptSeq
    <3>2. CASE k \notin 1..Len(attempts[d])
      <4>1. [ attempts[d] EXCEPT ![k] = status ] = attempts[d]
        BY <1>1, <3>2
      <4> QED
        BY <1>1, <4>1
    <3> QED
      BY <3>1, <3>2
  <2> QED
    BY <1>3, <2>1 DEF FinishAttempt, ArtifactTypeOK
<1> QED
  BY <1>2, <1>3

\* What executions write about images, attempts, locks and the cluster.
LEMMA WorkerArtifacts ==
  ASSUME TypeInv, NEW w \in Workers, Execute(w)
  PROVE  ArtifactTypeOK'
<1>a. /\ task[w] \in Deployments /\ attempt[w] \in Nat /\ row[w] \in RowType
      /\ ArtifactTypeOK
  BY DEF TypeInv, TypeOK, ExecutionTypeOK
<1>b. row[w].digest \in Digest /\ attempt[w] \in Digest
  BY <1>a DEF RowType, Digest
<1>1. CASE Take(w) \/ Load(w) \/ Reject(w) \/ ReadCurrent(w) \/ Transition(w) \/ RunStage(w)
           \/ StageThrows(w) \/ Catch(w) \/ Return(w)
  BY <1>a, <1>1 DEF Take, Load, Reject, ReadCurrent, Transition, RunStage, StageThrows,
                    Catch, Return, storeVars, artifacts, world, ArtifactTypeOK
<1>2. CASE Admit(w)
  BY <1>a, <1>2, AttemptsType DEF Admit, artifacts, world, ArtifactTypeOK
<1>3. CASE Finish(w) \/ Abandon(w)
  BY <1>a, <1>3, AttemptsType DEF Finish, Abandon, artifacts, world, ArtifactTypeOK
<1>4. CASE BuildImage(w)
  BY <1>a, <1>4 DEF BuildImage, SaveImage, world, ArtifactTypeOK
<1>5. CASE PublishImage(w)
  BY <1>a, <1>b, <1>5 DEF PublishImage, SavePublishedImage, world, ArtifactTypeOK
<1>6. CASE Apply(w)
  BY <1>a, <1>b, <1>6 DEF Apply, storeVars, artifacts, ArtifactTypeOK
<1>7. CASE ConfirmRollout(w) \/ VerifyRollback(w)
  BY <1>a, <1>7 DEF ConfirmRollout, VerifyRollback, SetEndpoint, artifacts, world, ArtifactTypeOK
<1>8. CASE Release(w)
  BY <1>a, <1>8 DEF Release, ReleaseOperationLock, artifacts, world, ArtifactTypeOK
<1> QED
  BY <1>1, <1>2, <1>3, <1>4, <1>5, <1>6, <1>7, <1>8 DEF Execute

\* What requests do to them.
LEMMA HandlerArtifacts ==
  ASSUME TypeInv, NEW d \in Deployments, Handlers(d)
  PROVE  ArtifactTypeOK'
<1>a. ArtifactTypeOK
  BY DEF TypeInv, TypeOK
<1>1. CASE Create(d) \/ CreateRollback(d) \/ CheckLock(d)
           \/ RequestCancellation(d) \/ CallQueue(d)
           \/ \E k \in 1..MaxRetries : Retry(d, k)
  BY <1>a, <1>1 DEF Create, CreateRollback, CheckLock, RequestCancellation,
                    CallQueue, Retry, storeVars, artifacts, world, ArtifactTypeOK
<1>2. CASE QueueRollback(d)
  BY <1>a, <1>2 DEF QueueRollback, world, ArtifactTypeOK, Digest
<1>3. CASE RevokeAccess(d)
  BY <1>a, <1>3 DEF RevokeAccess, storeVars, artifacts, ArtifactTypeOK
<1> QED
  BY <1>1, <1>2, <1>3 DEF Handlers

\* So what a deployment produces keeps its types.
LEMMA ArtifactTypeStep ==
  ASSUME TypeInv, [Next]_vars
  PROVE  ArtifactTypeOK'
<1>a. ArtifactTypeOK
  BY DEF TypeInv, TypeOK
<1> USE DEF storeVars, artifacts, world, ArtifactTypeOK
<1>1. CASE \E d \in Deployments : Handlers(d)
  BY <1>1, HandlerArtifacts
<1>2. CASE \E d \in Deployments : Queue(d)
  BY <1>a, <1>2 DEF Queue
<1>3. CASE \E w \in Workers : WorkerStep(w)
  BY <1>3, WorkerArtifacts DEF WorkerStep
<1>4. CASE Dispatcher
  BY <1>a, <1>4 DEF Dispatcher, DispatchRead, DispatchEnqueue, DispatchMark, DispatcherDies
<1>5. CASE OperationLockExpires
  BY <1>a, <1>5 DEF OperationLockExpires
<1>6. CASE Failure
  BY <1>a, <1>6 DEF Failure, Crash, LoseLock, StoreThrows, RequestDies
<1>7. CASE UNCHANGED vars
  BY <1>a, <1>7 DEF vars
<1> QED
  BY <1>1, <1>2, <1>3, <1>4, <1>5, <1>6, <1>7 DEF Next

(***************************************************************************)
(* The queue.                                                              *)
(***************************************************************************)
\* The calls of the queue keep its types.
LEMMA QueueCallType ==
  ASSUME QueueTypeOK, NEW j \in Jobs,
         Enqueue(j) \/ CancelJob(j) \/ BackoffEnds(j) \/ ReclaimStalled(j)
  PROVE  QueueTypeOK'
  BY DEF QueueTypeOK, Enqueue, CancelJob, BackoffEnds, ReclaimStalled, JobStates

\* What an execution does to the job it took.
LEMMA WorkerQueue ==
  ASSUME TypeInv, NEW w \in Workers,
         Execute(w) \/ Crash(w) \/ LoseLock(w) \/ StoreThrows(w)
  PROVE  QueueTypeOK'
<1>a. QueueTypeOK /\ task[w] \in Jobs
  BY WorkerAssumption DEF TypeInv, TypeOK, ExecutionTypeOK
<1> USE DEF QueueTypeOK, queueVars
<1>1. CASE Take(w)
  BY <1>a, <1>1 DEF Take, TakeJob, JobStates
<1>2. CASE Return(w)
  <2>1. ASSUME NEW outcome \in { "completed", "failed", "delayed" },
               Settle(w, task[w], outcome)
        PROVE  QueueTypeOK'
    BY <1>a, <2>1 DEF Settle, JobStates
  <2> QED
    BY <1>2, <2>1 DEF Return, CompleteJob, FailJob
<1>3. CASE Crash(w) \/ LoseLock(w)
  BY <1>a, <1>3 DEF Crash, LoseLock, DropLock
<1>4. CASE Load(w) \/ Reject(w) \/ Admit(w) \/ ReadCurrent(w) \/ Transition(w) \/ RunStage(w)
           \/ StageThrows(w) \/ Catch(w) \/ StoreThrows(w)
  BY <1>a, <1>4 DEF Load, Reject, Admit, ReadCurrent, Transition, RunStage, StageThrows,
                    Catch, StoreThrows
<1>5. CASE BuildImage(w) \/ PublishImage(w) \/ Apply(w)
           \/ ConfirmRollout(w) \/ VerifyRollback(w) \/ Finish(w) \/ Abandon(w) \/ Release(w)
  BY <1>a, <1>5 DEF BuildImage, PublishImage, Apply, ConfirmRollout,
                    VerifyRollback, Finish, Abandon, Release
<1> QED
  BY <1>1, <1>2, <1>3, <1>4, <1>5 DEF Execute

\* So the queue keeps its types.
LEMMA QueueTypeStep ==
  ASSUME TypeInv, [Next]_vars
  PROVE  QueueTypeOK'
<1>a. QueueTypeOK
  BY DEF TypeInv, TypeOK
<1> USE DEF queueVars
<1>0. CASE UNCHANGED queueVars
  BY <1>a, <1>0 DEF QueueTypeOK
<1>1. ASSUME NEW d \in Deployments, Handlers(d)
      PROVE  QueueTypeOK'
  <2>1. CASE CallQueue(d)
    BY <1>a, <2>1, QueueCallType, WorkerAssumption DEF CallQueue
  <2>2. CASE ~CallQueue(d)
    BY <1>0, <1>1, <2>2
       DEF Handlers, Create, CreateRollback, CheckLock, QueueRollback,
           RequestCancellation, RevokeAccess, Retry
  <2> QED
    BY <2>1, <2>2
<1>2. CASE \E d \in Deployments : Queue(d)
  BY <1>a, <1>2, QueueCallType, WorkerAssumption DEF Queue
<1>3. CASE \E w \in Workers : WorkerStep(w)
  BY <1>3, WorkerQueue DEF WorkerStep
<1>4. CASE Dispatcher
  <2>1. ASSUME NEW x \in deliveries, DispatchEnqueue(x[2])
        PROVE  QueueTypeOK'
    <3>1. x[2][1] \in Jobs
      BY WorkerAssumption DEF TypeInv, TypeOK, ExecutionTypeOK
    <3> QED
      BY <1>a, <2>1, <3>1, QueueCallType DEF DispatchEnqueue
  <2> QED
    BY <1>0, <1>4, <2>1 DEF Dispatcher, DispatchRead, DispatchMark, DispatcherDies
<1>5. CASE OperationLockExpires
  BY <1>0, <1>5 DEF OperationLockExpires
<1>6. CASE Failure
  BY <1>0, <1>6, WorkerQueue DEF Failure, RequestDies
<1>7. CASE UNCHANGED vars
  BY <1>0, <1>7 DEF vars
<1> QED
  BY <1>1, <1>2, <1>3, <1>4, <1>5, <1>6, <1>7 DEF Next

(***************************************************************************)
(* Executions, requests and dispatchers.                                   *)
(***************************************************************************)
ControlOK ==
  /\ pc      \in [ Workers -> PC ]
  /\ task    \in [ Workers -> Deployments ]
  /\ attempt \in [ Workers -> Nat ]
  /\ step    \in [ Workers -> Steps ]
  /\ row     \in [ Workers -> RowType ]
  /\ RolloutStep

InFlightOK ==
  /\ requests   \subseteq RequestType
  /\ deliveries \subseteq { "enqueue", "mark" } \X (Deployments \X Nat)

Moves(w) == Execute(w) \/ Crash(w) \/ LoseLock(w) \/ StoreThrows(w)

\* Nothing but its own steps moves an execution.
LEMMA ExecutionsMove ==
  ASSUME [Next]_vars
  PROVE  UNCHANGED execution \/ \E w \in Workers : Moves(w)
<1> USE DEF Moves
<1>1. CASE \E d \in Deployments : Handlers(d)
  BY <1>1 DEF Handlers, Create, CreateRollback, CheckLock, QueueRollback,
              RequestCancellation, CallQueue, RevokeAccess, Retry
<1>2. CASE \E d \in Deployments : Queue(d)
  BY <1>2 DEF Queue
<1>3. CASE \E w \in Workers : WorkerStep(w)
  BY <1>3 DEF WorkerStep
<1>4. CASE Dispatcher \/ OperationLockExpires
  BY <1>4 DEF Dispatcher, DispatchRead, DispatchEnqueue, DispatchMark, DispatcherDies, OperationLockExpires
<1>5. CASE Failure
  BY <1>5 DEF Failure, RequestDies
<1>6. CASE UNCHANGED vars
  BY <1>6 DEF vars
<1> QED
  BY <1>1, <1>2, <1>3, <1>4, <1>5, <1>6 DEF Next

\* What executions hold and where they stand changes by their own steps.
LEMMA ControlStepOK ==
  ASSUME TypeInv, [Next]_vars
  PROVE  ControlOK'
<1>a. ControlOK
  BY DEF TypeInv, TypeOK, ExecutionTypeOK, ControlOK
<1>0. CASE UNCHANGED execution
  BY <1>a, <1>0 DEF execution, ControlOK, RolloutStep, At
<1>1. ASSUME NEW w \in Workers, Moves(w)
      PROVE  ControlOK'
  <2>1. Held(w) /\ ControlStep(w)
    BY <1>1, WorkerHolds, WorkerControl DEF Moves
  <2> QED
    BY <1>a, <2>1 DEF Held, ControlStep, ControlOK, RolloutStep, At
<1> QED
  BY <1>0, <1>1, ExecutionsMove

\* A request in flight names a deployment; only a rollback's handles the lock.
LEMMA InFlightStep ==
  ASSUME TypeInv, [Next]_vars
  PROVE  InFlightOK'
<1>a. InFlightOK /\ outbox \subseteq Deployments \X Nat
  BY DEF TypeInv, TypeOK, RowTypeOK, ExecutionTypeOK, InFlightOK
<1>b. \A d \in Deployments :
        << "enqueue", d >> \in RequestType /\ << "dequeue", d >> \in RequestType
  BY DEF RequestType
<1> USE DEF InFlightOK
<1>0. CASE UNCHANGED << requests, deliveries >>
  BY <1>a, <1>0
<1>1. ASSUME NEW d \in Deployments, Handlers(d)
      PROVE  InFlightOK'
  <2>1. CASE Create(d) \/ RequestCancellation(d)
             \/ \E k \in 1..MaxRetries : Retry(d, k)
    BY <1>a, <1>b, <2>1 DEF Create, RequestCancellation, Retry, Send
  <2>2. CASE CreateRollback(d)
    BY <1>a, <2>2 DEF CreateRollback, Send, RequestType
  <2>3. CASE CheckLock(d)
    <3>1. d \in Rollbacks
      BY <1>a, <2>3 DEF CheckLock, RequestType
    <3> QED
      BY <1>a, <2>3, <3>1 DEF CheckLock, Proceed, Answer, RequestType
  <2>4. CASE QueueRollback(d)
    BY <1>a, <2>4 DEF QueueRollback, Proceed, RequestType
  <2>5. CASE CallQueue(d) \/ RevokeAccess(d)
    BY <1>a, <2>5 DEF CallQueue, RevokeAccess, Answer
  <2> QED
    BY <1>1, <2>1, <2>2, <2>3, <2>4, <2>5 DEF Handlers
<1>2. CASE (\E d \in Deployments : Queue(d)) \/ (\E w \in Workers : WorkerStep(w))
           \/ OperationLockExpires
  BY <1>0, <1>2 DEF Queue, WorkerStep, OperationLockExpires
<1>3. CASE Dispatcher
  <2>1. ASSUME NEW e \in outbox, DispatchRead(e)
        PROVE  InFlightOK'
    BY <1>a, <2>1 DEF DispatchRead
  <2>2. ASSUME NEW x \in deliveries, DispatchEnqueue(x[2]) \/ DispatchMark(x[2])
        PROVE  InFlightOK'
    BY <1>a, <2>2 DEF DispatchEnqueue, DispatchMark
  <2>3. ASSUME NEW x \in deliveries, DispatcherDies(x)
        PROVE  InFlightOK'
    BY <1>a, <2>3 DEF DispatcherDies
  <2> QED
    BY <1>3, <2>1, <2>2, <2>3 DEF Dispatcher
<1>4. CASE Failure
  BY <1>a, <1>4 DEF Failure, Crash, LoseLock, StoreThrows, RequestDies
<1>5. CASE UNCHANGED vars
  BY <1>0, <1>5 DEF vars
<1> QED
  BY <1>1, <1>2, <1>3, <1>4, <1>5 DEF Next

(***************************************************************************)
(* The theorem.                                                            *)
(***************************************************************************)
\* An empty database, an empty queue and idle executions are well typed.
LEMMA InitTypes ==
  ASSUME Init
  PROVE  TypeInv
<1>1. RowTypeOK
  BY DEF Init, StoreInit, RowTypeOK
<1>2. ArtifactTypeOK
  <2>1. << >> \in Seq({ "active", "completed", "failed" })
    OBVIOUS
  <2> QED
    BY <2>1 DEF Init, StoreInit, WorkerInit, ArtifactTypeOK, Digest, NoDigest
<1>3. QueueTypeOK
  BY DEF Init, QueueInit, QueueTypeOK, JobStates
<1>4. ExecutionTypeOK /\ RolloutStep
  <2>1. NoTask \in Deployments
    BY StoreAssumption DEF NoTask
  <2> QED
    BY <2>1 DEF Init, WorkerInit, ExecutionTypeOK, RolloutStep, At, PC, Steps, BuildSteps,
                RowType, NoRow, Digest, NoDigest
<1> QED
  BY <1>1, <1>2, <1>3, <1>4 DEF TypeInv, TypeOK

\* Every step keeps the types.
LEMMA TypesInductive ==
  ASSUME TypeInv, [Next]_vars
  PROVE  TypeInv'
  BY RowTypeStep, ArtifactTypeStep, QueueTypeStep, ControlStepOK, InFlightStep
     DEF TypeInv, TypeOK, ExecutionTypeOK, ControlOK, InFlightOK

\* For any number of deployments, executions, attempts and retries, the rows,
\* the event log, the attempts, the jobs and the executions of the control
\* plane keep their types.
THEOREM TypesKept == Spec => []TypeInv
<1>1. Init => TypeInv
  BY InitTypes
<1>2. TypeInv /\ [Next]_vars => TypeInv'
  BY TypesInductive
<1> QED
  BY <1>1, <1>2, PTL DEF Spec

\* The type invariant the runs check.
THEOREM TypeCorrect == Spec => []TypeOK
<1>1. TypeInv => TypeOK
  BY DEF TypeInv
<1> QED
  BY <1>1, TypesKept, PTL

-----------------------------------------------------------------------------
(***************************************************************************)
(* BuildsWithinQuota speaks of rows only; what keeps it is that each such  *)
(* row has a reservation and that a reservation is only made while one is  *)
(* free.  That a deployment never has two needs more: no state that holds  *)
(* a slot can be entered twice, and a build never enters rollback_queued,  *)
(* because only executions of rollbacks commit that transition.            *)
(***************************************************************************)
\* Slots are finitely many and within the limit.
SlotsWithinQuota ==
  /\ IsFiniteSet(reserved)
  /\ Cardinality(reserved) <= ConcurrentBuilds

\* A waiting or building deployment has a slot.
HoldsSlot ==
  \A d \in Builds : state[d] \in Holding => SlotsOf(d) # {}


(***************************************************************************)
(* The quota.                                                              *)
(***************************************************************************)
\* A transition never exceeds the limit: a slot is taken only while one is free.
LEMMA SlotsWithinQuotaStep ==
  ASSUME SlotsWithinQuota, RowStep
  PROVE  SlotsWithinQuota'
<1> USE DEF SlotsWithinQuota
<1>1. CASE reserved' \subseteq reserved
  <2>1. IsFiniteSet(reserved') /\ Cardinality(reserved') <= Cardinality(reserved)
    BY <1>1, FS_Subset
  <2>2. Cardinality(reserved') \in Nat /\ Cardinality(reserved) \in Nat
    BY <2>1, FS_CardinalityType
  <2> QED
    BY <2>1, <2>2, StoreAssumption
<1>2. ASSUME NEW d \in Deployments, NEW to, TakesSlot(d, to), SlotFree(d, to), RecordEvent(d, to)
      PROVE  SlotsWithinQuota'
  <2>1. reserved' = reserved \union { << d, version[d] + 1 >> }
    BY <1>2 DEF RecordEvent
  <2>2. Cardinality(reserved) < ConcurrentBuilds
    BY <1>2 DEF SlotFree
  <2>3. Cardinality(reserved) \in Nat
    BY FS_CardinalityType
  <2>4. /\ IsFiniteSet(reserved')
        /\ Cardinality(reserved') \in { Cardinality(reserved), Cardinality(reserved) + 1 }
    BY <2>1, FS_AddElement
  <2> QED
    BY <2>2, <2>3, <2>4, StoreAssumption
<1>3. ASSUME NEW d \in Deployments, NEW to, RowChange(d, to), ~TakesSlot(d, to)
      PROVE  reserved' \subseteq reserved
  BY <1>3 DEF RowChange, RecordEvent, SlotsOf
<1>4. CASE OutboxShrinks
  BY <1>1, <1>4 DEF OutboxShrinks
<1> QED
  BY <1>1, <1>2, <1>3, <1>4 DEF RowStep, RowChange

(***************************************************************************)
(* Builds stay builds.                                                     *)
(***************************************************************************)
\* Only an execution of a rollback commits the steps of rollback recovery.
RecoveryInv ==
  \A w \in Workers :
    /\ At(w, "idle") => step[w] = "validating"
    /\ step[w] \in { "rollback-recovery-fail", "rollback-recovery-queue" }
         => task[w] \in Rollbacks

\* A deployment that builds is never queued as a rollback.
NeverRollsBack == \A d \in Builds : state[d] \notin { "rollback_queued", "rolling_back" }

\* Rollback recovery is entered by Load, for a rollback only.
LEMMA RecoveryStep ==
  ASSUME TypeInv, RecoveryInv, [Next]_vars
  PROVE  RecoveryInv'
<1>0. CASE UNCHANGED execution
  BY <1>0 DEF execution, RecoveryInv, At
<1>1. ASSUME NEW w \in Workers, Moves(w)
      PROVE  RecoveryInv'
  <2> DEFINE Recovery == { "rollback-recovery-fail", "rollback-recovery-queue" }
             Goes(p, s, d) ==
               /\ pc'   = [ pc EXCEPT ![w] = p ]
               /\ step' = [ step EXCEPT ![w] = s ]
               /\ task' = [ task EXCEPT ![w] = d ]
               /\ p = "idle" => s = "validating"
               /\ s \in Recovery => d \in Rollbacks
  <2>a. /\ pc   = [ pc EXCEPT ![w] = pc[w] ]
        /\ step = [ step EXCEPT ![w] = step[w] ]
        /\ task = [ task EXCEPT ![w] = task[w] ]
        /\ At(w, "idle") => step[w] = "validating"
        /\ step[w] \in Recovery => task[w] \in Rollbacks
    BY DEF TypeInv, TypeOK, ExecutionTypeOK, RecoveryInv
  <2>b. ASSUME \E p, s, d : Goes(p, s, d)
        PROVE  RecoveryInv'
    <3>1. PICK p, s, d : Goes(p, s, d)
      BY <2>b
    <3>2. ASSUME NEW v \in Workers
          PROVE  /\ pc'[v]   = IF v = w THEN p ELSE pc[v]
                 /\ step'[v] = IF v = w THEN s ELSE step[v]
                 /\ task'[v] = IF v = w THEN d ELSE task[v]
      BY <3>1 DEF TypeInv, TypeOK, ExecutionTypeOK
    <3> QED
      BY <3>1, <3>2 DEF RecoveryInv, At
  <2>c. ASSUME NEW r, Enter(w, r), UNCHANGED task
        PROVE  \E p, s, d : Goes(p, s, d)
    BY <2>a, <2>c DEF Enter, GotoStep, Goto
  <2> USE DEF GotoStep, Goto, At
  <2>1. CASE Take(w) \/ Admit(w) \/ ReadCurrent(w) \/ StageThrows(w) \/ Apply(w)
    BY <2>a, <2>b, <2>1 DEF Take, Admit, ReadCurrent, StageThrows, Apply
  <2>2. CASE Finish(w) \/ Abandon(w) \/ Release(w)
    BY <2>a, <2>b, <2>2 DEF Finish, Abandon, Release
  <2>3. CASE Load(w)
    <3>1. CASE Enter(w, Row(task[w]))
      BY <1>1, <2>b, <2>3, <2>c, <3>1 DEF Load
    <3>2. CASE ~Enter(w, Row(task[w]))
      <4>1. \/ pc' = [ pc EXCEPT ![w] = "succeeded" ] /\ UNCHANGED step
            \/ pc' = [ pc EXCEPT ![w] = "reject" ] /\ UNCHANGED step
            \/ /\ pc' = [ pc EXCEPT ![w] = "commit" ]
               /\ step' = [ step EXCEPT ![w] = "rollback-recovery-fail" ]
               /\ task[w] \in Rollbacks
        BY <2>3, <3>2 DEF Load
      <4>2. UNCHANGED task
        BY <2>3 DEF Load
      <4> QED
        BY <2>a, <2>b, <4>1, <4>2
    <3> QED
      BY <3>1, <3>2
  <2>4. CASE Transition(w)
    <3>1. UNCHANGED task
      BY <2>4 DEF Transition
    <3>2. CASE step[w] = "rollback-recovery-queue" /\ \E r : After(w, r)
      BY <2>b, <2>c, <3>1, <3>2 DEF After
    <3>3. CASE step[w] # "rollback-recovery-queue" /\ \E r : After(w, r)
      <4>1. PICK p, s : /\ GotoStep(w, p, s) \/ (Goto(w, p) /\ UNCHANGED step)
                        /\ p # "idle"
                        /\ s \in Recovery => step[w] \in Recovery
        BY <3>3 DEF After
      <4>2. CASE GotoStep(w, p, s)
        BY <2>a, <2>b, <3>1, <4>1, <4>2
      <4>3. CASE Goto(w, p) /\ UNCHANGED step
        BY <2>a, <2>b, <3>1, <4>1, <4>3
      <4> QED
        BY <4>1, <4>2, <4>3
    <3>4. CASE Goto(w, Thrown(w)) /\ UNCHANGED step
      BY <2>a, <2>b, <3>1, <3>4 DEF Thrown
    <3>5. (\E r : After(w, r)) \/ (Goto(w, Thrown(w)) /\ UNCHANGED step)
      BY <2>4 DEF Transition
    <3> QED
      BY <3>2, <3>3, <3>4, <3>5
  <2>5. CASE RunStage(w) \/ BuildImage(w) \/ PublishImage(w)
             \/ ConfirmRollout(w) \/ VerifyRollback(w)
    <3>1. step[w] \in { "validating", "testing", "scanning", "building", "build-complete",
                        "pushing", "deploying", "verifying", "rolling-back",
                        "rollback-verifying" }
      BY <2>5 DEF RunStage, BuildImage, PublishImage, ConfirmRollout,
                  VerifyRollback, TypeInv, RolloutStep
    <3>2. NextStage(w) /\ UNCHANGED task
      BY <2>5 DEF RunStage, BuildImage, PublishImage, ConfirmRollout,
                  VerifyRollback
    <3>3. Following(step[w]) \notin Recovery
      BY <3>1 DEF Following
    <3> QED
      BY <2>a, <2>b, <3>2, <3>3 DEF NextStage
  <2>6. CASE Reject(w) \/ Catch(w)
    <3>1. PICK p, s : /\ GotoStep(w, p, s) \/ (Goto(w, p) /\ UNCHANGED step)
                      /\ p # "idle" /\ s \notin Recovery /\ UNCHANGED task
      <4>1. CASE Reject(w)
        BY <4>1 DEF Reject
      <4>2. CASE Catch(w)
        BY <4>2 DEF Catch
      <4> QED
        BY <2>6, <4>1, <4>2
    <3>2. CASE GotoStep(w, p, s)
      BY <2>a, <2>b, <3>1, <3>2
    <3>3. CASE Goto(w, p) /\ UNCHANGED step
      BY <2>a, <2>b, <3>1, <3>3
    <3> QED
      BY <3>1, <3>2, <3>3
  <2>7. CASE Return(w) \/ Crash(w)
    BY <2>b, <2>7 DEF Return, Crash, Reset
  <2>8. CASE LoseLock(w)
    BY <1>0, <2>8 DEF LoseLock
  <2>9. CASE StoreThrows(w)
    BY <2>a, <2>b, <2>9 DEF StoreThrows, Thrown
  <2> QED
    BY <1>1, <2>1, <2>2, <2>3, <2>4, <2>5, <2>6, <2>7, <2>8, <2>9 DEF Moves, Execute
<1> QED
  BY <1>0, <1>1, ExecutionsMove


\* Only the request that creates a rollback and the executions of one queue it.
LEMMA NotQueuedAsRollback ==
  ASSUME TypeInv, RecoveryInv, [Next]_vars,
         NEW d \in Builds, state[d] # "rollback_queued"
  PROVE  state'[d] # "rollback_queued"
<1>a. d \in Deployments /\ d \notin Rollbacks /\ state \in [ Deployments -> STATES \union { "absent" } ]
  BY DEF Builds, TypeInv, TypeOK, RowTypeOK
<1>b. ASSUME NEW e \in Deployments, NEW to, RecordEvent(e, to),
             e = d => to # "rollback_queued"
      PROVE  state'[d] # "rollback_queued"
  BY <1>a, <1>b DEF RecordEvent
<1>0. CASE UNCHANGED state
  BY <1>0
<1>1. ASSUME NEW e \in Deployments, Handlers(e)
      PROVE  state'[d] # "rollback_queued"
  <2>1. CASE Create(e) \/ CreateRollback(e)
    BY <1>b, <2>1 DEF Create, CreateRollback, CreateRow
  <2>2. CASE RequestCancellation(e) \/ \E k \in 1..MaxRetries : Retry(e, k)
    BY <1>0, <1>b, <2>2 DEF RequestCancellation, Retry, Commit, rows
  <2>3. CASE QueueRollback(e)
    <3>1. e \in Rollbacks
      BY <2>3 DEF QueueRollback, TypeInv, TypeOK, ExecutionTypeOK, RequestType
    <3> QED
      BY <1>a, <1>b, <2>3, <3>1 DEF QueueRollback
  <2>4. CASE CheckLock(e) \/ CallQueue(e) \/ RevokeAccess(e)
    BY <1>0, <2>4 DEF CheckLock, CallQueue, RevokeAccess, storeVars, rows
  <2> QED
    BY <1>1, <2>1, <2>2, <2>3, <2>4 DEF Handlers
<1>2. ASSUME NEW w \in Workers, Execute(w)
      PROVE  state'[d] # "rollback_queued"
  <2>1. CASE Transition(w)
    <3>1. task[w] = d => Target(step[w]) # "rollback_queued"
      <4>1. task[w] = d => step[w] \notin { "rollback-recovery-fail", "rollback-recovery-queue" }
        BY <1>a DEF RecoveryInv
      <4>2. step[w] # "rollback-recovery-queue" /\ step[w] \in Steps
            => Target(step[w]) # "rollback_queued"
        BY DEF Target, Steps, RecoverySteps, RollbackSteps, BuildSteps
      <4> QED
        BY <4>1, <4>2 DEF TypeInv, TypeOK, ExecutionTypeOK
    <3>2. task[w] \in Deployments
      BY DEF TypeInv, TypeOK, ExecutionTypeOK
    <3> QED
      BY <1>0, <1>b, <2>1, <3>1, <3>2 DEF Transition, Commit, rows
  <2>2. CASE ~Transition(w)
    BY <1>0, <1>2, <2>2
       DEF Execute, Take, Load, Reject, Admit, ReadCurrent, RunStage, BuildImage,
           PublishImage, Apply, ConfirmRollout, VerifyRollback,
           StageThrows, Finish, Catch, Abandon, Release, Return, storeVars, rows
  <2> QED
    BY <2>1, <2>2
<1>3. CASE (\E e \in Deployments : Queue(e)) \/ Dispatcher \/ OperationLockExpires
           \/ Failure \/ UNCHANGED vars
  BY <1>0, <1>3
     DEF Queue, Dispatcher, DispatchRead, DispatchEnqueue, DispatchMark, DispatcherDies, OperationLockExpires,
         Failure, Crash, LoseLock, StoreThrows, RequestDies, vars, storeVars, rows
<1> QED
  BY <1>1, <1>2, <1>3 DEF Next, WorkerStep

\* A row change, with what is known of it when the row is a build's.
BuildChange(d, to) ==
  /\ RowChange(d, to)
  /\ d \in Builds => to \notin { "rollback_queued", "rolling_back" }

\* So builds stay builds, and every step is such a change.
LEMMA NeverRollsBackStep ==
  ASSUME TypeInv, RecoveryInv, NeverRollsBack, [Next]_vars
  PROVE  /\ NeverRollsBack'
         /\ OutboxShrinks \/ \E d \in Deployments, to \in STATES : BuildChange(d, to)
<1>1. CASE OutboxShrinks
  BY <1>1 DEF OutboxShrinks, NeverRollsBack
<1>2. ASSUME NEW d \in Deployments, NEW to \in STATES, RowChange(d, to)
      PROVE  NeverRollsBack' /\ BuildChange(d, to)
  <2>1. state' = [ state EXCEPT ![d] = to ] /\ state \in [ Deployments -> STATES \union { "absent" } ]
    BY <1>2 DEF RowChange, RecordEvent, TypeInv, TypeOK, RowTypeOK
  <2>2. d \in Builds => to # "rollback_queued"
    BY <2>1, NotQueuedAsRollback DEF NeverRollsBack
  <2>3. d \in Builds => to # "rolling_back"
    <3>1. CanTransition(state[d], "rolling_back") => state[d] = "rollback_queued"
      BY DEF CanTransition, ALLOWED, Interruptible
    <3> QED
      BY <1>2, <3>1 DEF RowChange, NeverRollsBack, Builds
  <2> QED
    BY <1>2, <2>1, <2>2, <2>3 DEF BuildChange, NeverRollsBack, Builds
<1> QED
  BY <1>1, <1>2, EveryStepIsRowStep DEF RowStep

(***************************************************************************)
(* One slot per build.                                                     *)
(***************************************************************************)
\* A build that waits or builds has one slot, a cancelled one may still have
\* it, and none has a slot otherwise.
SlotInv ==
  \A d \in Builds :
    /\ state[d] \in Holding => \E r : SlotsOf(d) = { r }
    /\ state[d] = "cancel_requested" => SlotsOf(d) = {} \/ \E r : SlotsOf(d) = { r }
    /\ SlotsOf(d) # {} => state[d] \in Holding \union { "cancel_requested" }

\* From where a build can enter the states that differ in slots or in phase.
LEMMA BuildEdges ==
  ASSUME NeverRollsBack, NEW d \in Builds, NEW to \in STATES, BuildChange(d, to)
  PROVE  /\ to = "queued" => state[d] \in { "absent", "waiting_for_approval", "failed" }
         /\ to # "waiting_for_approval"
         /\ to \in Holding \ { "queued" } => state[d] \in Holding
         /\ to = "build_complete" => state[d] = "building"
         /\ to \in { "pushing", "deploying", "verifying" } => state[d] \in Delivering
         /\ to = "ready" => state[d] = "verifying"
         /\ to = "cancel_requested" => state[d] \in Holding \union Delivering
<1>1. \/ state[d] = "absent" /\ to = "queued"
      \/ to \in ALLOWED(state[d])
  BY DEF BuildChange, RowChange, CanTransition, Builds
<1>2. state[d] \notin { "rollback_queued", "rolling_back" }
  BY DEF NeverRollsBack
<1> QED
  BY <1>1, <1>2 DEF ALLOWED, Interruptible, Holding, Delivering

\* What a change of d does to the slots of d, and that it leaves others alone.
LEMMA SlotsChange ==
  ASSUME NEW d \in Deployments, NEW to, RecordEvent(d, to), d \notin Rollbacks
  PROVE  /\ to = "queued" => SlotsOf(d)' = SlotsOf(d) \union { << d, version[d] + 1 >> }
         /\ to \in TERMINAL => SlotsOf(d)' = {}
         /\ to \notin QUEUED \union TERMINAL => SlotsOf(d)' = SlotsOf(d)
<1>1. << d, version[d] + 1 >>[1] = d
  OBVIOUS
<1>2. QUEUED \intersect TERMINAL = {}
  BY DEF QUEUED, TERMINAL
<1>3. CASE to \in QUEUED
  <2>1. reserved' = reserved \union { << d, version[d] + 1 >> }
    BY <1>3 DEF RecordEvent, TakesSlot
  <2> QED
    BY <1>1, <1>2, <1>3, <2>1 DEF SlotsOf
<1>4. CASE to \notin QUEUED
  BY <1>4 DEF RecordEvent, TakesSlot, SlotsOf, QUEUED
<1> QED
  BY <1>3, <1>4

\* A change of one deployment leaves the slots of the others alone.
LEMMA OtherSlots ==
  ASSUME NEW d \in Deployments, NEW to, RecordEvent(d, to), NEW e, e # d
  PROVE  SlotsOf(e)' = SlotsOf(e)
<1>1. << d, version[d] + 1 >>[1] # e
  OBVIOUS
<1> QED
  BY <1>1 DEF RecordEvent, SlotsOf

\* Every change of a row keeps the slots of builds in step with their states.
LEMMA SlotInvStep ==
  ASSUME TypeInv, RecoveryInv, NeverRollsBack, SlotInv, [Next]_vars
  PROVE  SlotInv'
<1>1. CASE OutboxShrinks
  BY <1>1 DEF OutboxShrinks, SlotInv, SlotsOf
<1>2. ASSUME NEW d \in Deployments, NEW to \in STATES, BuildChange(d, to)
      PROVE  SlotInv'
  <2>a. /\ state' = [ state EXCEPT ![d] = to ]
        /\ state \in [ Deployments -> STATES \union { "absent" } ]
        /\ RecordEvent(d, to)
    BY <1>2 DEF BuildChange, RowChange, RecordEvent, TypeInv, TypeOK, RowTypeOK
  <2>1. ASSUME NEW e \in Builds, e # d
        PROVE  state'[e] = state[e] /\ SlotsOf(e)' = SlotsOf(e)
    BY <2>a, <2>1, OtherSlots DEF Builds
  <2>2. ASSUME d \in Builds
        PROVE  /\ to \in Holding => \E r : SlotsOf(d)' = { r }
               /\ to = "cancel_requested" => SlotsOf(d)' = {} \/ \E r : SlotsOf(d)' = { r }
               /\ SlotsOf(d)' # {} => to \in Holding \union { "cancel_requested" }
    <3> USE <2>2
    <3>a. d \notin Rollbacks /\ to \notin { "rollback_queued", "rolling_back" }
      BY <1>2 DEF Builds, BuildChange
    <3>b. /\ state[d] \in Holding => \E r : SlotsOf(d) = { r }
          /\ state[d] = "cancel_requested" => SlotsOf(d) = {} \/ \E r : SlotsOf(d) = { r }
          /\ SlotsOf(d) # {} => state[d] \in Holding \union { "cancel_requested" }
      BY DEF SlotInv
    <3>1. CASE to = "queued"
      <4>1. SlotsOf(d) = {}
        BY <1>2, <3>1, <3>b, BuildEdges DEF Holding
      <4>2. SlotsOf(d)' = { << d, version[d] + 1 >> }
        BY <2>a, <3>1, <3>a, <4>1, SlotsChange
      <4> QED
        BY <3>1, <4>2 DEF Holding
    <3>2. CASE to \in TERMINAL
      BY <2>a, <3>2, <3>a, SlotsChange DEF TERMINAL, Holding
    <3>3. CASE to \in (Holding \ { "queued" }) \union { "cancel_requested" }
      <4>1. SlotsOf(d)' = SlotsOf(d)
        BY <2>a, <3>3, <3>a, SlotsChange DEF Holding, QUEUED, TERMINAL
      <4>2. to \in Holding => state[d] \in Holding
        BY <1>2, <3>3, BuildEdges DEF Holding
      <4>3. to = "cancel_requested" => state[d] \in Holding \union Delivering
        BY <1>2, BuildEdges
      <4> QED
        BY <3>3, <3>b, <4>1, <4>2, <4>3 DEF Holding, Delivering
    <3>4. CASE to \in { "waiting_for_approval", "pushing", "deploying", "verifying" }
      <4>1. SlotsOf(d)' = SlotsOf(d)
        BY <2>a, <3>4, <3>a, SlotsChange DEF QUEUED, TERMINAL
      <4>2. state[d] = "absent" \/ state[d] \in Delivering
        BY <1>2, <3>4, BuildEdges
      <4> QED
        BY <3>4, <3>b, <4>1, <4>2 DEF Holding, Delivering
    <3> QED
      BY <3>a, <3>1, <3>2, <3>3, <3>4 DEF STATES, TERMINAL, Holding
  <2>3. ASSUME d \in Builds
        PROVE  state'[d] = to
    BY <2>a
  <2> QED
    BY <2>1, <2>2, <2>3 DEF SlotInv
<1> QED
  BY <1>1, <1>2, NeverRollsBackStep

\* The invariants about slots, inductive together.
BuildInv == TypeInv /\ RecoveryInv /\ NeverRollsBack /\ SlotInv /\ SlotsWithinQuota

\* They hold of every behaviour.
LEMMA BuildInvKept == Spec => []BuildInv
<1>1. Init => BuildInv
  <2>1. ASSUME Init
        PROVE  RecoveryInv /\ NeverRollsBack /\ SlotInv /\ SlotsWithinQuota
    BY <2>1, FS_EmptySet, StoreAssumption
       DEF Init, StoreInit, WorkerInit, RecoveryInv, At, NeverRollsBack, SlotInv, SlotsOf,
           SlotsWithinQuota, Builds, Holding
  <2> QED
    BY <2>1, InitTypes DEF BuildInv
<1>2. BuildInv /\ [Next]_vars => BuildInv'
  BY TypesInductive, RecoveryStep, NeverRollsBackStep, SlotInvStep, EveryStepIsRowStep,
     SlotsWithinQuotaStep DEF BuildInv
<1> QED
  BY <1>1, <1>2, PTL DEF Spec

\* Deployments that hold different slots are no more than the slots.
LEMMA HoldersAreCounted ==
  ASSUME SlotsWithinQuota, HoldsSlot
  PROVE  BuildsWithinQuota
<1> DEFINE Holders == { d \in Builds : state[d] \in Holding }
           Owners  == { r[1] : r \in reserved }
<1>1. IsFiniteSet(Owners) /\ Cardinality(Owners) <= Cardinality(reserved)
  <2>1. [ r \in reserved |-> r[1] ] \in Surjection(reserved, Owners)
    BY DEF Surjection
  <2> QED
    BY <2>1, FS_Surjection DEF SlotsWithinQuota
<1>2. Holders \subseteq Owners
  BY DEF HoldsSlot, SlotsOf
<1>3. Cardinality(Holders) <= Cardinality(Owners)
  BY <1>1, <1>2, FS_Subset
<1>4. Cardinality(Holders) \in Nat /\ Cardinality(Owners) \in Nat /\ Cardinality(reserved) \in Nat
  <2>1. IsFiniteSet(Holders)
    BY <1>1, <1>2, FS_Subset
  <2> QED
    BY <1>1, <2>1, FS_CardinalityType DEF SlotsWithinQuota
<1> QED
  BY <1>1, <1>3, <1>4, StoreAssumption DEF SlotsWithinQuota, BuildsWithinQuota

\* For any number of deployments, executions and requests and whatever
\* fails, retries and creations that race never put more builds to work than
\* the plan's concurrent_builds.
THEOREM QuotaKept == Spec => []BuildsWithinQuota
<1>1. BuildInv => BuildsWithinQuota
  BY HoldersAreCounted DEF BuildInv, SlotInv, HoldsSlot
<1> QED
  BY <1>1, BuildInvKept, PTL

\* For any number of deployments, executions and requests and whatever
\* fails, a build has one slot while it waits or builds, never two, and gives
\* it back when it ends.
THEOREM OneSlotPerBuild == Spec => []SlotPerBuild
<1>1. BuildInv => SlotPerBuild
  <2>1. \A r : Cardinality({ r }) = 1
    BY FS_Singleton
  <2>2. Cardinality({}) = 0
    BY FS_EmptySet
  <2>3. ASSUME BuildInv, NEW d \in Builds
        PROVE  /\ state[d] \in Holding => Cardinality(SlotsOf(d)) = 1
               /\ state[d] = "cancel_requested" => Cardinality(SlotsOf(d)) <= 1
               /\ SlotsOf(d) # {} => state[d] \in Holding \union { "cancel_requested" }
    <3>1. ASSUME NEW r, SlotsOf(d) = { r }
          PROVE  Cardinality(SlotsOf(d)) = 1
      BY <2>1, <3>1
    <3>2. SlotsOf(d) = {} \/ \E r : SlotsOf(d) = { r }
      BY <2>3 DEF BuildInv, SlotInv
    <3> QED
      BY <2>2, <2>3, <3>1, <3>2 DEF BuildInv, SlotInv
  <2> QED
    BY <2>3 DEF SlotPerBuild
<1> QED
  BY <1>1, BuildInvKept, PTL

(***************************************************************************)
(* The life cycle of a build.                                              *)
(***************************************************************************)
\* Nothing exists, so every build is idle.
LEMMA LifecycleInit ==
  ASSUME Init
  PROVE  Lifecycle!Init
  BY DEF Init, StoreInit, Lifecycle!Init, Phase, SlotsOf, Builds, Delivering

\* A change of one build's phase is a move of the life cycle.
LEMMA PhaseMoves ==
  ASSUME NEW d \in Builds, NEW from, NEW to,
         Phase(d) \in from, Phase(d)' = to,
         \A e \in Builds \ { d } : Phase(e)' = Phase(e)
  PROVE  Lifecycle!Move(d, from, to)
  BY DEF Lifecycle!Move

\* The life cycle counts as the store does.
LEMMA SameCardinality ==
  ASSUME NEW S
  PROVE  Lifecycle!Cardinality(S) = Cardinality(S)
  BY DEF Cardinality, Lifecycle!Cardinality

\* A slot that is free for the quota is free for the life cycle.
LEMMA SlotFreeForBuild ==
  ASSUME SlotsWithinQuota, NEW d \in Builds, SlotFree(d, "queued")
  PROVE  Cardinality(Lifecycle!Building) < ConcurrentBuilds
<1> DEFINE Owners == { r[1] : r \in reserved }
<1>1. IsFiniteSet(Owners) /\ Cardinality(Owners) <= Cardinality(reserved)
  <2>1. [ r \in reserved |-> r[1] ] \in Surjection(reserved, Owners)
    BY DEF Surjection
  <2> QED
    BY <2>1, FS_Surjection DEF SlotsWithinQuota
<1>2. Lifecycle!Building \subseteq Owners
  BY DEF Lifecycle!Building, Phase, SlotsOf
<1>3. /\ Cardinality(Lifecycle!Building) <= Cardinality(Owners)
      /\ IsFiniteSet(Lifecycle!Building)
  BY <1>1, <1>2, FS_Subset
<1>4. Cardinality(reserved) < ConcurrentBuilds
  BY DEF SlotFree, TakesSlot, QUEUED, Builds
<1>5. /\ Cardinality(Owners) \in Nat
      /\ Cardinality(reserved) \in Nat
      /\ Cardinality(Lifecycle!Building) \in Nat
  BY <1>1, <1>3, FS_CardinalityType DEF SlotsWithinQuota
<1> QED
  BY <1>1, <1>3, <1>4, <1>5, StoreAssumption

\* A change of a build's row moves it along the life cycle or leaves it.
LEMMA BuildMoves ==
  ASSUME BuildInv, BuildInv', NEW d \in Builds, NEW to \in STATES, BuildChange(d, to),
         \A e \in Builds \ { d } : Phase(e)' = Phase(e)
  PROVE  Lifecycle!Next \/ Phase(d)' = Phase(d)
<1> USE DEF Lifecycle!Next
<1>a. /\ state'[d] = to /\ RecordEvent(d, to) /\ SlotFree(d, to)
      /\ d \in Deployments /\ d \notin Rollbacks
      /\ to \notin { "rollback_queued", "rolling_back" }
  BY DEF BuildChange, RowChange, RecordEvent, BuildInv, TypeInv, TypeOK, RowTypeOK, Builds
<1>b. /\ state[d] \in Holding => SlotsOf(d) # {}
      /\ SlotsOf(d) # {} => state[d] \in Holding \union { "cancel_requested" }
      /\ to \in Holding => SlotsOf(d)' # {}
      /\ SlotsOf(d)' # {} => to \in Holding \union { "cancel_requested" }
  BY <1>a DEF BuildInv, SlotInv
<1>c. NeverRollsBack
  BY DEF BuildInv
<1>1. CASE to = "queued"
  <2>1. Phase(d) = "idle"
    BY <1>1, <1>b, <1>c, BuildEdges DEF Phase, Holding, Delivering
  <2>2. Phase(d)' = "building"
    BY <1>1, <1>b DEF Phase, Holding
  <2>3. Cardinality(Lifecycle!Building) < ConcurrentBuilds
    BY <1>1, <1>a, SlotFreeForBuild DEF BuildInv
  <2>4. Lifecycle!Move(d, { "idle" }, "building")
    BY <2>1, <2>2, PhaseMoves
  <2>5. Lifecycle!Start(d)
    BY <2>3, <2>4, SameCardinality DEF Lifecycle!Start
  <2> QED
    BY <2>5
<1>2. CASE to \in Holding \ { "queued" }
  BY <1>2, <1>b, <1>c, BuildEdges DEF Phase
<1>3. CASE to = "build_complete"
  <2>1. Phase(d) = "building"
    BY <1>3, <1>b, <1>c, BuildEdges DEF Phase, Holding
  <2>2. Phase(d)' = "built"
    BY <1>3, <1>a, <1>b DEF Phase, Holding, Delivering
  <2> QED
    BY <2>1, <2>2, PhaseMoves DEF Lifecycle!Complete
<1>4. CASE to \in { "pushing", "deploying", "verifying" }
  BY <1>4, <1>a, <1>b, <1>c, BuildEdges DEF Phase, Holding, Delivering
<1>5. CASE to = "ready"
  <2>1. Phase(d) = "built"
    BY <1>5, <1>b, <1>c, BuildEdges DEF Phase, Holding, Delivering
  <2>2. Phase(d)' = "delivered"
    BY <1>5, <1>a, <1>b DEF Phase, Holding, Delivering
  <2> QED
    BY <2>1, <2>2, PhaseMoves DEF Lifecycle!Deliver
<1>6. CASE to = "cancel_requested"
  <2>1. SlotsOf(d)' = SlotsOf(d)
    BY <1>6, <1>a, SlotsChange DEF QUEUED, TERMINAL
  <2>2. Phase(d)' \in { "building", "idle" } /\ Phase(d) \in { "building", "built" }
    BY <1>6, <1>a, <1>b, <1>c, BuildEdges DEF Phase, Delivering
  <2>3. Phase(d)' = "building" => Phase(d) = "building"
    BY <1>6, <1>a, <2>1 DEF Phase, Delivering
  <2> QED
    BY <2>2, <2>3, PhaseMoves DEF Lifecycle!Abandon
<1>7. CASE to \in { "failed", "cancelled", "rolled_back", "waiting_for_approval" }
  <2>1. Phase(d)' = "idle"
    BY <1>7, <1>a, <1>b DEF Phase, Holding, Delivering
  <2>2. state[d] # "ready"
    <3>1. ALLOWED("ready") = { "rollback_queued" }
      BY DEF ALLOWED
    <3> QED
      BY <1>7, <1>a, <3>1 DEF BuildChange, RowChange, CanTransition
  <2>3. Phase(d) \in { "building", "built", "idle" }
    BY <2>2 DEF Phase
  <2> QED
    BY <2>1, <2>3, PhaseMoves DEF Lifecycle!Abandon
<1> QED
  BY <1>a, <1>1, <1>2, <1>3, <1>4, <1>5, <1>6, <1>7 DEF STATES, Holding

\* Every step of the control plane is a step of the life cycle, or none.
LEMMA LifecycleStep ==
  ASSUME BuildInv, BuildInv', [Next]_vars
  PROVE  [Lifecycle!Next]_([ d \in Builds |-> Phase(d) ])
<1>1. CASE \A d \in Builds : Phase(d)' = Phase(d)
  BY <1>1
<1>2. CASE OutboxShrinks
  BY <1>1, <1>2 DEF OutboxShrinks, Phase, SlotsOf
<1>3. ASSUME NEW d \in Deployments, NEW to \in STATES, BuildChange(d, to)
      PROVE  [Lifecycle!Next]_([ b \in Builds |-> Phase(b) ])
  <2>1. \A e \in Builds \ { d } : Phase(e)' = Phase(e)
    <3>1. ASSUME NEW e \in Builds, e # d
          PROVE  state'[e] = state[e] /\ SlotsOf(e)' = SlotsOf(e)
      BY <1>3, <3>1, OtherSlots
         DEF BuildChange, RowChange, RecordEvent, BuildInv, TypeInv, TypeOK, RowTypeOK, Builds
    <3> QED
      BY <3>1 DEF Phase
  <2>2. CASE d \in Builds
    BY <1>1, <1>3, <2>1, <2>2, BuildMoves
  <2>3. CASE d \notin Builds
    BY <1>1, <2>1, <2>3
  <2> QED
    BY <2>2, <2>3
<1> QED
  BY <1>2, <1>3, NeverRollsBackStep DEF BuildInv

\* The control plane implements the build life cycle: no interleaving of
\* requests, dispatchers, executions and failures starts a build without a
\* free slot, delivers one that is not complete or restarts a delivered one.
THEOREM LifecycleImplemented == Spec => ImplementsLifecycle
<1>1. Init => Lifecycle!Init
  BY LifecycleInit
<1>2. BuildInv /\ BuildInv' /\ [Next]_vars => [Lifecycle!Next]_([ d \in Builds |-> Phase(d) ])
  BY LifecycleStep
<1> QED
  BY <1>1, <1>2, BuildInvKept, PTL DEF Spec, ImplementsLifecycle, Lifecycle!Spec

=============================================================================
