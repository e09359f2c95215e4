------------------------------ MODULE JobQueue ------------------------------
(***************************************************************************)
(* The BullMQ queue as deployment-queue.js configures and calls it.  A job *)
(* has the id of its deployment, so there is at most one per deployment.   *)
(* BullMQ itself is a library: its part is modelled from these options and *)
(* from the calls the producer and the worker make.                        *)
(***************************************************************************)
EXTENDS Integers

CONSTANTS
  Jobs,              \* job ids: the UUIDs of the deployments
  Workers,           \* concurrent executions of the worker processes
  MaxAttempts,       \* JOB_OPTIONS.attempts
  MaxStalledCount    \* WORKER_OPTIONS.maxStalledCount

ASSUME QueueAssumption ==
  /\ MaxAttempts \in Nat \ {0}
  /\ MaxStalledCount \in Nat

VARIABLES
  job,       \* where BullMQ holds the job
  made,      \* attemptsMade
  stalled,   \* stalledCounter
  lock       \* the execution that renews the job's lock, or NoLock

queueVars == << job, made, stalled, lock >>

JobStates == { "none", "waiting", "delayed", "active", "completed", "failed" }

NoLock == "no lock"

ASSUME LockAssumption == NoLock \notin Workers

QueueInit ==
  /\ job     = [ j \in Jobs |-> "none" ]
  /\ made    = [ j \in Jobs |-> 0 ]
  /\ stalled = [ j \in Jobs |-> 0 ]
  /\ lock    = [ j \in Jobs |-> NoLock ]

\* Mutant: an active job is made to wait again.
EnqueueActive(j) ==
  /\ job' = IF job[j] \in { "none", "failed", "active" }
            THEN [ job EXCEPT ![j] = "waiting" ] ELSE job
  /\ UNCHANGED << made, stalled, lock >>

\* enqueue: add the job, retry it if it failed for good, else leave it.
Enqueue(j) ==
  /\ job' = IF job[j] \in { "none", "failed" }
            THEN [ job EXCEPT ![j] = "waiting" ] ELSE job
  /\ made'    = IF job[j] = "none" THEN [ made EXCEPT ![j] = 0 ] ELSE made
  /\ stalled' = IF job[j] = "none" THEN [ stalled EXCEPT ![j] = 0 ] ELSE stalled
  /\ UNCHANGED lock

\* cancel: only a job that waits is removed.
CancelJob(j) ==
  /\ job' = IF job[j] = "waiting" THEN [ job EXCEPT ![j] = "none" ] ELSE job
  /\ UNCHANGED << made, stalled, lock >>

TakeJob(w, j) ==
  /\ job[j] = "waiting"
  /\ job'  = [ job EXCEPT ![j] = "active" ]
  /\ lock' = [ lock EXCEPT ![j] = w ]
  /\ UNCHANGED << made, stalled >>

\* Mutants: the attempt is given back instead of counted; it is not counted.
SettleGivenBack(w, j, outcome) ==
  IF lock[j] = w
  THEN /\ job'  = [ job EXCEPT ![j] = outcome ]
       /\ made' = [ made EXCEPT ![j] = @ - 1 ]
       /\ lock' = [ lock EXCEPT ![j] = NoLock ]
       /\ UNCHANGED stalled
  ELSE UNCHANGED queueVars

SettleUncounted(w, j, outcome) ==
  IF lock[j] = w
  THEN /\ job'  = [ job EXCEPT ![j] = outcome ]
       /\ lock' = [ lock EXCEPT ![j] = NoLock ]
       /\ UNCHANGED << made, stalled >>
  ELSE UNCHANGED queueVars

\* A finished execution settles the job only while it still holds the lock.
Settle(w, j, outcome) ==
  IF lock[j] = w
  THEN /\ job'  = [ job EXCEPT ![j] = outcome ]
       /\ made' = [ made EXCEPT ![j] = @ + 1 ]
       /\ lock' = [ lock EXCEPT ![j] = NoLock ]
       /\ UNCHANGED stalled
  ELSE UNCHANGED queueVars

CompleteJob(w, j) == Settle(w, j, "completed")

FailJob(w, j) ==
  Settle(w, j, IF made[j] + 1 < MaxAttempts THEN "delayed" ELSE "failed")

\* The exponential backoff of a failed attempt is over.
BackoffEnds(j) ==
  /\ job[j] = "delayed"
  /\ job' = [ job EXCEPT ![j] = "waiting" ]
  /\ UNCHANGED << made, stalled, lock >>

\* The lock is renewed no longer: its holder crashed or was blocked.
DropLock(w) == lock' = [ j \in Jobs |-> IF lock[j] = w THEN NoLock ELSE lock[j] ]

\* Mutants: the lock is not looked at; the stalls are not counted.
ReclaimLocked(j) ==
  /\ job[j] = "active"
  /\ stalled[j] < MaxStalledCount
  /\ stalled' = [ stalled EXCEPT ![j] = @ + 1 ]
  /\ job' = [ job EXCEPT ![j] = "waiting" ]
  /\ UNCHANGED << made, lock >>

ReclaimForEver(j) ==
  /\ job[j] = "active"
  /\ lock[j] = NoLock
  /\ job' = [ job EXCEPT ![j] = "waiting" ]
  /\ UNCHANGED << made, stalled, lock >>

\* The stalled check hands an active job without a lock to another worker.
ReclaimStalled(j) ==
  /\ job[j] = "active"
  /\ lock[j] = NoLock
  /\ stalled' = [ stalled EXCEPT ![j] = @ + 1 ]
  /\ job' = [ job EXCEPT ![j] =
                IF stalled[j] + 1 > MaxStalledCount THEN "failed" ELSE "waiting" ]
  /\ UNCHANGED << made, lock >>

=============================================================================
