-------------------------- MODULE DeploymentWorker --------------------------
(***************************************************************************)
(* DeploymentPipeline: what the worker processes do with a deployment job. *)
(* Every action ends where the code awaits the store, a provider or the    *)
(* queue, so that anything may happen between two of them.                 *)
(*                                                                         *)
(* pc[w] is where execution w stands and step[w] is the transition it      *)
(* commits next, or the stage that the last one opened.  A step bears the  *)
(* suffix of its command id.                                               *)
(***************************************************************************)
EXTENDS DeploymentStore, JobQueue

CONSTANTS
  Environment,    \* which of Events happen in the behaviours considered
  MaxExecutions   \* bound: attempts of one deployment

\* What users, administrators and failures do to the system.
Events == { "cancel", "retry", "revoke", "stage throws", "store throws", "crash",
            "lock loss", "request dies", "dispatcher dies", "lock expires" }

ASSUME WorkerAssumption ==
  /\ Jobs = Deployments
  /\ Environment \subseteq Events
  /\ MaxExecutions \in Nat

VARIABLES
  pc,           \* where each execution stands
  task,         \* the deployment it executes
  attempt,      \* the number addAttempt gave it, 0 before
  step,         \* see above
  row,          \* the row it read last
  authorized,   \* whether revalidateDeployment accepts the deployment
  applied       \* the digest the cluster was last told to run for it

execution  == << pc, task, attempt, step, row >>
world      == << authorized, applied >>

PC == { "idle", "load", "commit", "admit", "read", "work", "rollout", "finish",
        "release", "catch", "abandon", "reject", "succeeded", "threw" }

RecoverySteps == { "rollback-recovery-fail", "rollback-recovery-queue",
                   "recovery-fail", "recovery-queue", "authorization-rejected" }

RollbackSteps == { "rolling-back", "rollback-verifying", "rolled-back", "rollback-failed" }

BuildSteps == { "validating", "testing", "scanning", "building", "build-complete",
                "pushing", "deploying", "verifying", "ready", "cancelled", "failed" }

Steps == RecoverySteps \union RollbackSteps \union BuildSteps

\* The state a step commits.
Target(s) ==
  CASE s = "rollback-recovery-queue" -> "rollback_queued"
    [] s = "recovery-queue"          -> "queued"
    [] s = "build-complete"          -> "build_complete"
    [] s = "rolling-back"            -> "rolling_back"
    [] s = "rollback-verifying"      -> "verifying"
    [] s = "rolled-back"             -> "rolled_back"
    [] s \in (RecoverySteps \union { "rollback-failed" })
            \ { "rollback-recovery-queue", "recovery-queue" } -> "failed"
    [] OTHER                         -> s

\* The transition that follows the work of a step.
Following(s) ==
  CASE s = "validating"         -> "testing"
    [] s = "testing"            -> "scanning"
    [] s = "scanning"           -> "building"
    [] s = "building"           -> "build-complete"
    [] s = "build-complete"     -> "pushing"
    [] s = "pushing"            -> "deploying"
    [] s = "deploying"          -> "verifying"
    [] s = "verifying"          -> "ready"
    [] s = "rolling-back"       -> "rollback-verifying"
    [] s = "rollback-verifying" -> "rolled-back"

\* Mutant: a command id without its attempt.
CommandIdOfDeployment(w) ==
  << step[w], IF step[w] \in RecoverySteps THEN row[w].version ELSE 0 >>

\* Recovery commands are numbered by the version they read, others by attempt.
CommandId(w) ==
  << step[w], IF step[w] \in RecoverySteps THEN row[w].version ELSE attempt[w] >>

Interrupted == { "validating", "testing", "scanning", "building", "pushing",
                 "deploying", "verifying" }

NoRow == [ state |-> "absent", version |-> 0, digest |-> NoDigest ]

NoTask == CHOOSE d \in Deployments : TRUE

WorkerInit ==
  /\ pc         = [ w \in Workers |-> "idle" ]
  /\ task       = [ w \in Workers |-> NoTask ]
  /\ attempt    = [ w \in Workers |-> 0 ]
  /\ step       = [ w \in Workers |-> "validating" ]
  /\ row        = [ w \in Workers |-> NoRow ]
  /\ authorized = [ d \in Deployments |-> TRUE ]
  /\ applied    = [ d \in Deployments |-> NoDigest ]

-----------------------------------------------------------------------------
At(w, p)   == pc[w] = p
Goto(w, p) == pc' = [ pc EXCEPT ![w] = p ]

GotoStep(w, p, s) ==
  /\ Goto(w, p)
  /\ step' = [ step EXCEPT ![w] = s ]

Reset(w) ==
  /\ Goto(w, "idle")
  /\ task'    = [ task EXCEPT ![w] = NoTask ]
  /\ attempt' = [ attempt EXCEPT ![w] = 0 ]
  /\ step'    = [ step EXCEPT ![w] = "validating" ]
  /\ row'     = [ row EXCEPT ![w] = NoRow ]

Take(w) ==
  /\ At(w, "idle")
  /\ \E d \in Deployments :
       /\ Len(attempts[d]) < MaxExecutions
       /\ TakeJob(w, d)
       /\ task' = [ task EXCEPT ![w] = d ]
  /\ Goto(w, "load")
  /\ UNCHANGED << attempt, step, row, world, storeVars >>

-----------------------------------------------------------------------------
(***************************************************************************)
(* execute, up to the attempt: settle what an earlier execution left.      *)
(***************************************************************************)
\* What the code does with the row it holds, after the rollback recovery.
Enter(w, r) ==
  IF r.state = "rollback_queued" THEN GotoStep(w, "admit", "rolling-back")
  ELSE IF r.state \in Interrupted THEN GotoStep(w, "commit", "recovery-fail")
  ELSE IF r.state = "failed" THEN GotoStep(w, "commit", "recovery-queue")
  ELSE GotoStep(w, "admit", "validating")

Load(w) ==
  LET d == task[w]
      r == Row(d)
  IN /\ At(w, "load")
     /\ row' = [ row EXCEPT ![w] = r ]
     /\ IF r.state \in { "ready", "rolled_back", "cancelled" }
        THEN Goto(w, "succeeded") /\ UNCHANGED step
        ELSE IF ~authorized[d]
        THEN Goto(w, "reject") /\ UNCHANGED step
        ELSE IF d \in Rollbacks /\ r.state \in { "rolling_back", "verifying" }
        THEN GotoStep(w, "commit", "rollback-recovery-fail")
        ELSE Enter(w, r)
     /\ UNCHANGED << task, attempt, world, storeVars, queueVars >>

\* The catch of a 403 before the attempt: a queued deployment fails for good.
Reject(w) ==
  LET r == Row(task[w])
  IN /\ At(w, "reject")
     /\ row' = [ row EXCEPT ![w] = r ]
     /\ IF r.state \in QUEUED
        THEN GotoStep(w, "commit", "authorization-rejected")
        ELSE Goto(w, "threw") /\ UNCHANGED step
     /\ UNCHANGED << task, attempt, world, storeVars, queueVars >>

\* addAttempt; executeRollback revalidates once more before it.
Admit(w) ==
  LET d == task[w]
  IN /\ At(w, "admit")
     /\ IF step[w] = "rolling-back" /\ ~authorized[d]
        THEN Goto(w, "reject") /\ UNCHANGED << attempt, attempts >>
        ELSE /\ AddAttempt(d)
             /\ attempt' = [ attempt EXCEPT ![w] = Len(attempts[d]) + 1 ]
             /\ Goto(w, IF step[w] = "rolling-back" THEN "commit" ELSE "read")
     /\ UNCHANGED << task, step, row, world, rows, artifacts, opLock, queueVars >>

-----------------------------------------------------------------------------
(***************************************************************************)
(* _transition.  After(w, r) is what follows when it returns row r, be it  *)
(* the new one or, for a command already in the log, the current one.      *)
(***************************************************************************)
After(w, r) ==
  CASE step[w] = "rollback-recovery-fail"  -> GotoStep(w, "commit", "rollback-recovery-queue")
    [] step[w] = "rollback-recovery-queue" -> Enter(w, r)
    [] step[w] = "recovery-fail" ->
         IF r.state = "failed" THEN GotoStep(w, "commit", "recovery-queue")
         ELSE GotoStep(w, "admit", "validating")
    [] step[w] = "recovery-queue"          -> GotoStep(w, "admit", "validating")
    [] step[w] = "authorization-rejected"  -> Goto(w, "threw") /\ UNCHANGED step
    [] step[w] \in { "ready", "rolled-back" } -> Goto(w, "finish") /\ UNCHANGED step
    [] step[w] \in { "cancelled", "failed", "rollback-failed" } ->
         Goto(w, "abandon") /\ UNCHANGED step
    [] OTHER                               -> Goto(w, "work") /\ UNCHANGED step

\* Where an exception of a store call at step[w] takes the execution.
Thrown(w) ==
  IF attempt[w] = 0 \/ step[w] \in { "cancelled", "failed", "rollback-failed" }
  THEN "threw" ELSE "catch"

Transition(w) ==
  LET d  == task[w]
      to == Target(step[w])
  IN /\ At(w, "commit")
     /\ IF Duplicate(d, CommandId(w))
        THEN /\ row' = [ row EXCEPT ![w] = Row(d) ]
             /\ After(w, Row(d))
             /\ UNCHANGED rows
        ELSE IF CanCommit(d, to, row[w].version)
        THEN LET r == [ Row(d) EXCEPT !.state = to, !.version = @ + 1 ]
             IN /\ Commit(d, to, CommandId(w))
                /\ row' = [ row EXCEPT ![w] = r ]
                /\ After(w, r)
        ELSE /\ Goto(w, Thrown(w))
             /\ UNCHANGED << step, row, rows >>
     /\ UNCHANGED << task, attempt, world, artifacts, attempts, opLock, queueVars >>

\* _current before a transition; _advance gives up on a cancelled deployment.
ReadCurrent(w) ==
  LET r == Row(task[w])
  IN /\ At(w, "read")
     /\ row' = [ row EXCEPT ![w] = r ]
     /\ Goto(w, IF r.state = "cancel_requested" /\ step[w] \in Interrupted
                THEN "catch" ELSE "commit")
     /\ UNCHANGED << task, attempt, step, world, storeVars, queueVars >>

-----------------------------------------------------------------------------
(***************************************************************************)
(* The work of a stage, and the reads and commits between two of them.     *)
(***************************************************************************)
NextStage(w) == GotoStep(w, "read", Following(step[w]))

\* checkout and detection, commands, the delivery snapshot, or health.
RunStage(w) ==
  /\ At(w, "work")
  /\ step[w] \in { "validating", "testing", "scanning", "build-complete", "verifying" }
  /\ NextStage(w)
  /\ UNCHANGED << task, attempt, row, world, storeVars, queueVars >>

BuildImage(w) ==
  /\ At(w, "work")
  /\ step[w] = "building"
  /\ SaveImage(task[w], attempt[w])
  /\ NextStage(w)
  /\ UNCHANGED << task, attempt, row, world, rows, attempts, opLock, queueVars >>

PublishImage(w) ==
  /\ At(w, "work")
  /\ step[w] = "pushing"
  /\ SavePublishedImage(task[w], attempt[w])
  /\ NextStage(w)
  /\ UNCHANGED << task, attempt, row, world, rows, attempts, opLock, queueVars >>

\* The build stage revalidates the row it holds, a rollback does not.
Apply(w) ==
  LET d == task[w]
  IN /\ At(w, "work")
     /\ \/ /\ step[w] = "deploying"
           /\ authorized[d]
           /\ applied' = [ applied EXCEPT ![d] = attempt[w] ]
        \/ /\ step[w] = "rolling-back"
           /\ applied' = [ applied EXCEPT ![d] = row[w].digest ]
     /\ Goto(w, "rollout")
     /\ UNCHANGED << task, attempt, step, row, authorized, storeVars, queueVars >>

ConfirmRollout(w) ==
  LET d == task[w]
  IN /\ At(w, "rollout")
     /\ IF step[w] = "deploying"
        THEN SetEndpoint(d, attempt[w])
        ELSE UNCHANGED artifacts
     /\ NextStage(w)
     /\ UNCHANGED << task, attempt, row, world, rows, attempts, opLock, queueVars >>

VerifyRollback(w) ==
  LET d == task[w]
  IN /\ At(w, "work")
     /\ step[w] = "rollback-verifying"
     /\ applied[d] = row[w].digest
     /\ SetEndpoint(d, attempt[w])
     /\ NextStage(w)
     /\ UNCHANGED << task, attempt, row, world, rows, attempts, opLock, queueVars >>

\* The work must throw: the apply of a build is no longer authorized, or the
\* cluster runs another digest than the rollback expects.
MustThrow(w) ==
  /\ At(w, "work")
  /\ \/ step[w] = "deploying" /\ ~authorized[task[w]]
     \/ step[w] = "rollback-verifying" /\ applied[task[w]] # row[w].digest

\* Otherwise a command, a provider or a verification may throw, or the
\* heartbeat aborts a cancelled build.
StageThrows(w) ==
  /\ pc[w] \in { "work", "rollout" }
  /\ \/ MustThrow(w)
     \/ "stage throws" \in Environment
     \/ state[task[w]] = "cancel_requested" /\ step[w] \notin RollbackSteps
  /\ Goto(w, "catch")
  /\ UNCHANGED << task, attempt, step, row, world, storeVars, queueVars >>

-----------------------------------------------------------------------------
(***************************************************************************)
(* The end of an execution: finishAttempt, the catch clauses, the queue.   *)
(***************************************************************************)
Finish(w) ==
  /\ At(w, "finish")
  /\ FinishAttempt(task[w], attempt[w], "completed")
  /\ Goto(w, IF step[w] = "rolled-back" THEN "release" ELSE "succeeded")
  /\ UNCHANGED << task, attempt, step, row, world, rows, artifacts, opLock, queueVars >>

Catch(w) ==
  LET r        == Row(task[w])
      rollback == step[w] \in RollbackSteps
  IN /\ At(w, "catch")
     /\ row' = [ row EXCEPT ![w] = r ]
     /\ IF rollback /\ r.state # "failed"
        THEN GotoStep(w, "commit", "rollback-failed")
        ELSE IF ~rollback /\ r.state = "cancel_requested"
        THEN GotoStep(w, "commit", "cancelled")
        ELSE IF ~rollback /\ r.state \notin { "failed", "build_complete", "ready", "rolled_back" }
        THEN GotoStep(w, "commit", "failed")
        ELSE Goto(w, "abandon") /\ UNCHANGED step
     /\ UNCHANGED << task, attempt, world, storeVars, queueVars >>

Abandon(w) ==
  /\ At(w, "abandon")
  /\ FinishAttempt(task[w], attempt[w], "failed")
  /\ Goto(w, IF step[w] \in RollbackSteps THEN "release" ELSE "threw")
  /\ UNCHANGED << task, attempt, step, row, world, rows, artifacts, opLock, queueVars >>

Release(w) ==
  /\ At(w, "release")
  /\ ReleaseOperationLock(task[w])
  /\ Goto(w, IF step[w] = "rolled-back" THEN "succeeded" ELSE "threw")
  /\ UNCHANGED << task, attempt, step, row, world, rows, artifacts, attempts, queueVars >>

\* The processor returns or throws and BullMQ settles the job.
Return(w) ==
  /\ \/ At(w, "succeeded") /\ CompleteJob(w, task[w])
     \/ At(w, "threw") /\ FailJob(w, task[w])
  /\ Reset(w)
  /\ UNCHANGED << world, storeVars >>

-----------------------------------------------------------------------------
(***************************************************************************)
(* Failures: the process dies; its event loop blocks for longer than the   *)
(* lock lasts; a store call throws.                                        *)
(***************************************************************************)
Crash(w) ==
  /\ "crash" \in Environment
  /\ pc[w] # "idle"
  /\ Reset(w)
  /\ DropLock(w)
  /\ UNCHANGED << job, made, stalled, world, storeVars >>

LoseLock(w) ==
  /\ "lock loss" \in Environment
  /\ \E d \in Deployments : lock[d] = w
  /\ DropLock(w)
  /\ UNCHANGED << job, made, stalled, execution, world, storeVars >>

\* Whatever throws in the catch clause ends it, with the lock kept.
StoreThrows(w) ==
  /\ "store throws" \in Environment
  /\ pc[w] \in { "load", "reject", "admit", "read", "commit", "finish", "release",
                 "catch", "abandon" }
  /\ Goto(w, IF pc[w] \in { "load", "reject", "catch", "abandon" } THEN "threw"
             ELSE IF pc[w] = "release" /\ step[w] # "rolled-back" THEN "threw"
             ELSE Thrown(w))
  /\ UNCHANGED << task, attempt, step, row, world, storeVars, queueVars >>

Execute(w) ==
  \/ Take(w) \/ Load(w) \/ Reject(w) \/ Admit(w) \/ ReadCurrent(w) \/ Transition(w)
  \/ RunStage(w) \/ BuildImage(w) \/ PublishImage(w)
  \/ Apply(w) \/ ConfirmRollout(w) \/ VerifyRollback(w) \/ StageThrows(w)
  \/ Finish(w) \/ Catch(w) \/ Abandon(w) \/ Release(w) \/ Return(w)

=============================================================================
