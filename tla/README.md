# The deployment control plane in TLA+

Specifications of the control plane of this repository
(`services/control-plane-api`), the TLC configurations that check them on small
instances, and TLAPS proofs of their main invariants for every instance. Source
paths below are relative to `src/services/control-plane-api/src/` unless they
start with `docs/`. `PROJECT.json` maps every definition to the lines it models.

    tlc -workers 2 -config Crashes.cfg MCDeployment.tla     # any run listed below
    tlapm DeploymentProofs.tla                              # any module *Proofs

## 1. Inventory

The repository holds one large stateful program, the control plane, and much that
surrounds it: a web console, two small services, Terraform, Helm, Jenkins and
GitHub workflows. The control plane is a Node.js API process and several worker
processes on one PostgreSQL database and one Redis (BullMQ).

The rows of the table follow the code's own division; `PROJECT.json` says of each
whether it is modelled, in part or not, and why.

| Component | State | Operations | Interacts with |
|---|---|---|---|
| State machine `deployments/state-machine.js` | none | `assertTransition` over 18 states | every writer of a deployment |
| Deployment store `deployments/postgres-store.js` | deployments, events, outbox, attempts, images, operation locks | create, transition, addAttempt, saveImage, createRollback, requestCancellation, ... | quota, API, workers |
| Build quota `billing/postgres.js` | quota_reservations | reserve and release inside `_event` | store |
| Queue `queue/deployment-queue.js` | BullMQ jobs and their locks in Redis | enqueue, cancel, createWorker | API, dispatcher, workers |
| Outbox dispatcher `queue/outbox.js`, `worker/main.js` | outbox rows | read, enqueue, mark, by a timer of every worker process | store, queue |
| Worker `worker/pipeline.js` | an execution: deployment, row, attempt, stage | execute, executeRollback, recovery, catch clauses | store, queue, cluster, registry |
| Authorization of a job `worker/authorization.js` | none | revalidateDeployment | memberships, approvals, targets, secrets |
| API `server.js` | requests in flight | create, cancel, retry, roll back, decide, ... | everything |
| Approvals `approvals/postgres-store.js` | approval_policies, approval_requests, approval_decisions | setPolicy, request, decide, override, cancel, expire, beginExecution, finishExecution | memberships, store, queue |
| Memberships `domain/postgres-repository.js`, `auth/rbac.js` | organization_members | add, assign a role, remove; permissions of roles | approvals, every request |
| Deployment events `server.js`, `deployment-live-view.tsx` | rows of events and log chunks, open streams per user, the dashboard's view | append, list, stream, reconnect, stop | store, browser |
| Previews `previews/`, `git/webhooks.js` | previews with revisions, webhook deliveries, cleanup jobs | open, update, close, expire, verify, clean up | git webhooks, store |
| Domains `previews/postgres-store.js` | custom domains, challenges, routes | claim, verify, activate, remove | previews, DNS, cluster |
| Git connections `git/webhooks.js`, `domain/postgres-repository.js` | installations, repositories, deliveries, git events | claim, connect, enter by hand, disconnect, handle a webhook | GitHub |
| Audit `audit/` | a hash chain of events, exports, a retention | append, verify, export, download, retain | every request |
| Plans and quotas `billing/postgres.js` | subscriptions, overrides, limits, reservations | assign, override, reserve, admit, release, expire | API, store |
| Usage ledger `billing/postgres.js` | usage events and adjustments | record, adjust, total, reconcile | API |
| Cloud connections `byoc/` | connections and targets, validations, credential versions | validate, change, rotate, disable, revoke, recover | API, workers |
| Secrets `secrets/` | references, attachments | validate, rotate, disable, revoke, attach, deploy | API, workers |
| Policy exceptions `policy/postgres-exceptions.js` | an exception with its version and window | request, approve, refresh, revoke, apply | approvals, audit |
| Service configuration `configuration/` | drafts with versions | autosave, recover | console |
| Policy evaluation, drift `policy/` | none | evaluation and comparison of documents | API |
| Framework detection `detection/` | none | scoring of repository files | API |

### What is hard

* A handler commits to PostgreSQL and then calls Redis. Between the two its process
  may die, and a worker may already act. The outbox is to repair that, at least once.
* A deployment is executed by whoever holds its BullMQ job. Processes die, jobs stall
  and are redelivered; a lock may be lost while its execution goes on. A redelivered
  execution first settles what an earlier one left, with compare-and-set transitions
  and a log of command ids.
* Users cancel and retry at any moment; the API changes the same rows and the same jobs.
* Slots of the plan are taken and given back as side effects of those transitions.
* Approvals are read, judged and written back some awaits later, under a version; what
  they rest on (members, roles, policy, the deployment) is changed by others.
* Membership changes lock rows one by one and may wait for, or deadlock with, each other.
* A transaction keeps the `NOW()` of its beginning while it waits for a lock, so that its
  clock is slow for what it then counts or expires. An API process writes times of its own
  clock into rows that a worker compares with the database's.
* Stores read a row, call a provider or GitHub, and write with or without the version they
  read; others rotate, revoke, claim or remove in between.
* Webhooks come late, twice and in another order, and each is recorded before it is handled.
* The dashboard puts rows together that reach it by listings, which may fail or not parse, and
  by streams that break off.

### What makes each component correct

* *Store, quota, worker*: a build slot per deployment that waits or builds, no more
  slots than the plan allows, no success but one, the recorded digest is the running one,
  the cluster is only changed in turn, a rollback never builds.
* *Queue, dispatcher*: one execution of a deployment at a time; what waits is woken up; every
  job ends; every slot comes back.
* *Approvals*: a quorum of different members or an override, still valid when the
  deployment is resumed; a closed request stays closed; pending requests can be decided.
* *Memberships*: an active owner stays.
* *Previews, domains, git*: a revision with its deployment, one live preview, a closing one
  with its job; no claim active that was not proven; what is recorded of an installation
  belongs to one organization, and what was disconnected stays so.
* *Audit*: the chain verifies whoever appends, is a sequence that only grows, and has an event
  for every effect.
* *Plans, quotas, usage*: never above the limit in force, never without a plan, counted once.
* *Connections, secrets, revalidation, exceptions*: active means validated; nothing revoked or
  outdated is deployed; an exception is in force in its window only.
* *Events, drafts*: rows shown once and in order; nothing overwritten unseen.

`PROJECT.json` lists all hazards at their lines, those included that no property covers.

## 2. Modules

    StateMachine            states and edges
      DeploymentStore       rows, events, outbox, build slots, attempts, images
      JobQueue              BullMQ as the code configures and calls it
        DeploymentWorker    executions of builds and rollbacks, step by step
          DeploymentSystem  API handlers, dispatcher, failures, fairness, properties
    BuildLifecycle          the abstract promise that DeploymentSystem implements
    MemberDirectory         what is promised of members; Membership implements it
    Membership              members, their roles, transactions that change them
      Approvals             policies, requests, votes, the resumption
    ApprovalRequests        what is promised of requests; Approvals implements it
    AuditLog                what the audit promises; AuditChain implements it
      AuditChain            transactions that append, export, download, retain
    Quotas, Subscriptions, UsageLedger          billing
    Connections, Secrets, Revalidation          what a deployment depends on
    Previews, Domains, GitConnections           pull requests, hostnames, GitHub
    PolicyExceptions        one exception and the calls about it
    EventStream             from the row of an event to the screen
    Drafts                  a draft and the pages that save it
    MCDeployment, MCQuota, MCApprovals, MCDrafts, MCServices, MCLiveness      instances for TLC
    DeploymentProofs, ExecutionProofs      proofs about deployments
    ApprovalProofs          members and approvals
    ResourceProofs          connections, secrets, revalidation
    BillingProofs           quotas, subscriptions, usage
    TenantProofs            git, domains, exceptions, previews
    LogProofs               audit, events, drafts
    ServicesProofs          the thirteen services of MCServices side by side

**StateMachine, DeploymentStore.** A variable per column that the code reads back. An
operator is one database transaction. The event log is kept as the set of command ids,
which is all that `transition` asks of it; logs and stage events repeat the current
state and change nothing else. `RecordEvent` is `_event`: the outbox row and the slot
belong to the same transaction as the state. A digest is named by the attempt that built it.

**JobQueue.** BullMQ is external: waiting, delayed, active, completed, failed jobs, a lock
per active job, attempts with back-off, and the stalled check. Its constants are the
options of the code; adding an existing job does nothing unless it failed.

**DeploymentWorker.** An execution is at a `pc` with a `step`; every action ends where the
code awaits, so that any other step can come between. `Load`, `Transition`, `ReadCurrent`,
`RunStage`, `BuildImage`, `PublishImage`, `Apply`, `ConfirmRollout`, `Finish`, `Catch`,
`Abandon`, `Release`, `Return` follow `execute` and `executeRollback`. What a stage does
outside (checkout, build, scan, health) is its outcome: it returns or, as `StageThrows`, it
does not; heartbeats and an abort by a cancellation are among those. `Crash`, `LoseLock` and
`StoreThrows` are the failures of a process, of its lock and of a store call.

**DeploymentSystem.** A request is two steps, its commit and its call of the queue, and
remembers in `requests` what it has yet to do; a rollback request has three. A dispatcher is
likewise read, enqueue and mark, several at once. `Environment` selects which events a
configuration considers.

**Membership.** A PATCH or DELETE of a member is a transaction that locks the target's row
and, when an owner would be lost, the owners' rows one after the other; a SELECT ... FOR
UPDATE that waited looks at the row as it is then. `Abort` is a version conflict, a
deadlock's victim or a process that dies. `version` and `authorization_version` move
together and are one variable. A removed member keeps its row. MemberDirectory is the in-memory
repository (`domain/repositories.js`), where a call counts the owners and writes in one step: the row
locks are to have the effect of that.

**Approvals.** The handlers of approvals run inside one transaction each
(`withTransaction` in the constructor of the store), so an operation is a read
(`Read`) of the request, kept in `handlers`, and a write under its version (`Saves`).
The resumption reads, compares, revalidates and writes in further steps. The votes of a
request are read together, and so are the members they belong to. An expiry that `get`
writes inside decide, override or cancel is rolled back by the exception that follows;
only GET and the list keep it (`Close` of "expire"). Votes carry the authorization version
of the voter. `outdated` is a history variable: requests with a vote or a policy that
changed while they were pending. `NumericVersions` says how a store returns
`state_version`: the in-memory store as a number, node-postgres, for a BIGINT, as a
string. Separation of duties is on and the policy's roles and count are constants.
What the resumption checks of targets, secrets and the quota ends it as `Fails` does.
DeploymentSystem covers the deployments that no policy protects.

**ApprovalRequests** is the in-memory store (`approvals/store.js`): a call is one step, a request moves
along `TRANSITIONS`, a vote is of a member who has not voted and is not the requester, and the action
runs once, after an approval or an override. Approvals implements it by its rows (`InMemory`), so
that reads and writes that overlap have the effect of calls one after the other. `Next` asks of a
call that it changes the request, which the proof shows of every call (`CallChanges`).

**AuditLog, AuditChain.** A transaction's events, exports and retention are in its `tx` until it
commits and are gone when it does not; the head's row is locked by the first append. A hash is the
event it is of and the one before it, so that `Verify` compares what `verify` compares. A process
signs with its own key version. AuditLog is the in-memory twin: a sequence without repetition that
grows; AuditChain implements it by the keys of its committed events.

**Quotas, Subscriptions, UsageLedger.** `quotaTx[c].now` is the transaction's `NOW()`. A reservation or an
admission under the advisory lock is one step; the plan is read before it, when the transaction begins.
Subscriptions keeps the rows in the order of assignment; `Assign` ends the row that precedes the new
date as the UPDATE does. UsageLedger records, adjusts, totals and reconciles in transactions that may die.

**Connections, Secrets, Revalidation.** A validation is `ReadForValidation`, `StartValidation`,
`CheckProvider`, `FinishValidation`; the recovery compares the start of an attempt, and the row's
`last_validation_at`, with a grace (`Age` moves it). There are two clocks: the start of an attempt and the
recovery's comparisons are the database's `NOW()`, and `last_validation_at` is the `new Date()` of the API
process that validates (`validatedAt`), which a skew out of `ClockSkews` sets ahead or behind. The n-th attempt
starts at 2n of the database's clock and its process has looked at its own at 2n - 1, before the transaction
begins; the skew decides how the two compare. `usesToken` is a target with a service account's token, the
only kind whose validation reads a credential. Secrets saves over the version that was read (`Revised`), and `CommitAttach` follows reads
of the references one by one. Revalidation takes its snapshot, and later its checks, query by query in
the order of `ChecksOf`; `broken` is a history variable: what was unsound since before the check began.

**Previews, Domains, GitConnections.** Each request and webhook handler remembers what it looked up, and
its write is another step under the conditions of the statement. GitHub's deliveries stay in a set, so
that each may come late and again. Partial unique indexes are guards of the writes (`HostFree`,
`RouteFree`, `OneLive`). `remote` is the installation as GitHub has it, external. A repository's row has two
writers: `InsertReference`, through an installation (`linked`), and `CreateReference`, by hand, for any
organization and without one. The unique number makes either the only row. The activation of a domain is the
transaction, the route's update (`UpdateRoute`) and the two statements of `setDomainStatus`.

**PolicyExceptions.** A call is a read and a commit under the version that was read. `Outcome` is what
a call makes of the row at an instant: refresh, approval or revocation.

**EventStream.** Rows are numbers; the first may be of a deployment that waits for approval ("waiting"), which
the console's schema does not know, so that no page with it parses (`Parses`). A stream is a pass of the route (history, frames, drain) on a timer;
the view lists, follows, lists again after a hole or after a row that is news of the state (`again`), and
starts over when a request fails or a page does not parse (`RestFails`). A connection may be lost at any step, and its slot
is given back by whichever of its ends comes first (`ClosedBy`).

**Drafts.** A page edits, saves on its timer with the version it knows and takes the answer later.
`DurableStore` chooses the PostgreSQL statement or the in-memory store.

## 3. Properties and runs

| Run | What happens | Checked | States |
|---|---|---|---|
| Crashes | 2 workers, crashes, exceptions of stages and store, cancellation, withdrawn access, up to 3 executions | `TypeOK` `OneExecution` `DeliveredDigest` `AppliesInTurn` `ImplementsLifecycle` | 1.8 M |
| Rollback | a rollback with crashes, failing stages, a request that dies between its three steps, an expiring operation lock, the dispatcher | `DeliveredDigest` | 2.8 M |
| Quota | either 2 builds and 1 slot with cancel, retry and failures, or one deployment whose executions lose their locks | `BuildsWithinQuota` `SlotPerBuild` `OneSuccess` | 1.8 M |
| Liveness | deployments whose requests and dispatchers die and stages throw; or validations with crashes, a recovery and clocks that differ; or a stream and its view, whose requests fail | `WakeUpPending` `JobSettles` `SlotReleased`, `ActiveMeansValidated` `RecoversOnlyStale` `ValidationEnds`, `ViewerStops` | 139 k |
| Approvals | 3 users of whom two join, quorum of 2, one request, 2 operations in flight, changes of members, an edit of the policy | `QuorumDecides` `NothingOutdatedResumes` `ImplementsRequests` | 1.3 M |
| Services | thirteen services, one at a time: members, audit, quotas, plans, usage, secrets, revalidation, previews, events, drafts, exceptions, git, domains | `ServicesTypeOK` and the twenty properties below | 627 k |

The properties of run Services, by part:

| Part | Properties |
|---|---|
| members | `LastOwner` `ImplementsDirectory` |
| audit | `AuditVerifies` `EffectsAudited` `ImplementsAuditLog` |
| quotas, plans, usage | `WithinLimit`, `NeverWithoutPlan`, `CountedOnce` |
| secrets, revalidation | `DeploysConfirmed`, `NothingOutdatedRuns` |
| previews | `RevisionsDeployed` `ClosingHasJob` |
| events, drafts | `ShownInOrder` `SlotsCounted`, `NothingOverwritten` |
| exceptions | `InForce` `ReportedOnce` |
| git, domains | `TenantsApart` `DisconnectedForGood`, `ActiveWasProven` |

Each shows that what is checked holds on that instance. Four properties make an exception of what the
code does not keep; TLC refutes each of the first three without it:

* `ViewerStops` excepts a deployment that began by waiting for approval. `PlatformDeploymentStateSchema`
  (`src/frontend/packages/types/src/control-plane.ts:63`) lacks `waiting_for_approval`, the state of such a
  deployment's first row (`deployments/postgres-store.js:90`). Every listing from the beginning throws, so the
  view shows nothing and starts over each second, also once the deployment has ended
  (`deployment-live-view.tsx:109`).
* `ValidationEnds` excepts a validation whose process had a clock ahead, so that `last_validation_at` is later
  than the attempt's start. A recovery may find the attempt old and the row not: it fails the attempt
  (`byoc/postgres-store.js:146`) and leaves the row. As later recoveries look for running attempts only, the row
  is validating until somebody changes, disables or revokes the resource.
* `RecoversOnlyStale` excepts a validation whose process had a clock behind. When an older attempt of the same
  resource, whose process died, is recovered, the young validation is taken for the interrupted one.
* `TenantsApart` speaks of repositories connected through the installation and of recorded events, not of rows
  entered by hand, which any organization may make for any repository (`domain/postgres-repository.js:563`).

The other runs end in a
counterexample, to a sentence of the documents or of the code:

| Run | Sentence | What the code does |
|---|---|---|
| LostWakeUp | `queue/outbox.js`: publication is at least once | A retry while the failed attempt still holds its job enqueues nothing, and the outbox row is marked delivered: the deployment waits for ever and keeps its slot. |
| CancelledInQueue | `docs/DEPLOYMENT_PIPELINE.md:20`: the job's owner leaves cancel_requested | Cancelling a waiting deployment removes its job, the only owner. |
| FailedRollback | `docs/PHASE2-PART4-SAFE-ROLLBACK.md:17`: a failed rollback is failed | The queue's next attempt recovers it to queued and builds it. |
| ApprovedNeverQueued | `server.js:2101`: "Deployment state changed before execution" | A string version is compared with a number by `!==`: with PostgreSQL each approval of an unchanged deployment invalidates its request. |
| LastApprover | `docs/PHASE3-PART3-RELEASE-GOVERNANCE.md:11`: the last eligible approver cannot be removed | The check precedes the transaction, and two demotions pass it together. |
| LostDraft | `docs/SERVICE_DETECTION_CONFIGURATION.md:24`: a stale version is refused | The upsert of the PostgreSQL store refuses every save after the first, also of the only page that has the draft open. |

Each property of a passing run is also tried against a plausible bug, a mutated definition
next to the original (`ReclaimLocked`, `TakesSlotOnce`, `SavesAnyway`, `ReadOwner`, ...),
which must violate it.

### Bounds

* *One part at a time.* Runs Services, Quota and Liveness choose in `Init` which part acts, and
  the others stay as they start. Parts share no variable, so a behaviour of several parts is an
  interleaving of behaviours of each, and a property that reads the state of one part holds of
  it exactly if it holds of that part alone; the states add up instead of multiplying.
* `MaxExecutions`: attempts of a deployment. Two show what a recovery does to what a
  first execution left; Crashes has three, so that a recovery meets one of a recovery.
  The two builds of Quota have one each, as the second starts over from the same states of the quota.
* `MaxAttempts`, `MaxStalledCount`: 2 and 1 instead of 3 and 2, the least with a repetition.
* `MaxRetries`: Idempotency-Keys of retries; one is used twice, which is the duplicate.
* `MaxDispatchers`: dispatchers in flight. 0 where delivery by the handler is enough. A dispatcher
  that dies is left to run Liveness, since its death leaves the row as it was.
* `MaxChanges`: changes of member rows; two take a role away and give it back.
* `MaxPolicyVersion`: 2, one edit. `MaxHandlers`: 2, the least for a race; the resumption of
  one and a vote, cancellation or expiry by the other.
* In Services two of everything that acts side by side, the least for a race: writers of the chain,
  transactions, handlers, connections, pages, calls, requests. Two key versions are a rotation of
  the audit's key; two plan limits let the limit fall below what is used. `MaxQuotaTime` 1 with a `Ttl` of 1
  is one expiry under a slow clock; `MaxSubTime` 3 orders three assignments in any way.
  `MaxSecretVersion` 3 is two changes after the creation, `MaxRenewals` 2 a withdrawal and a
  renewal. `MaxEvents` 3 is more than a page and the log's limit together. One pull request
  with two commits is opened, closed and deployed by a user, whose key may be used for either commit.
  GitConnections has one webhook and one request of an organization in flight, beside single statements
  of any organization (`CreateReference`, `DisconnectRepository`) and either of them dying: a race of a
  handler with a request, and of each with the statements. Two of each are left to the theorems
  `TenantsKeptApart`, `StaysDisconnected` and `DeliveriesActOnce`.
* `ClockSkews` in Liveness: one process is in time or 2 behind, the other in time or 2 ahead. An attempt
  starts 1 after its process has looked at its clock and 2 after the attempt before, so a process that is 2 ahead writes
  a time after its attempt's start, and one that is 2 behind a time before the previous start. `MaxVersion` 3 is a change, a rotation or a
  revocation before and during a validation; more versions are left to `ActiveWasValidated`.
* One deployment where the property is about one: deployments share only the quota (run
  Quota) and the operation lock. Two deployments of one service: section 6.

`CHECK_DEADLOCK FALSE`: the system is at rest when nobody asks for anything. Symmetry is
used for workers, for those who join in Approvals, and in Services for what acts side by side and for the rows and persons it acts
on, and never in a run that checks liveness.

### Fairness

`WF(WorkerStep(w))`: a live worker process runs on and an idle one takes jobs. `WF(Queue(d))`:
BullMQ promotes delayed jobs and checks for stalled ones. `WF(DispatchRead)`,
`SF(DispatchEnqueue)`, `SF(DispatchMark)`: the timer in `worker/main.js` starts dispatchers
again and again, and while each may die anywhere, not each of them dies at the same
place. Nothing is assumed of users, of API processes or of failures. The liveness properties
make an exception of `AtBound`, where only the bound on executions stops the model. `SlotReleased` is
checked without crashes since it does not hold with them: a job that stalls too often is a
dead letter and its deployment keeps its slot in a working state (listed as a hazard).

Connections: `WF(Recovers)` and `WF(Age)`, since the worker repeats its recovery on a timer and time
passes; nothing is assumed of the requests that validate. EventStream: `WF(ServeStream(c))` and
`WF(Follow)`, the timers and pending requests of the server and of the page; that a connection is
opened, stays up or is ever refused is not assumed. `SF(CheckEnded)`: the view's requests may fail again and
again (`RestFails`), but one that is made for ever is answered in the end; without it a server that never
answers keeps the view waiting. No listing is assumed to parse. In MCLiveness each condition holds while its part acts.

## 4. Proofs

For every value of the constants, from the assumptions named `...Assumption`:

| Theorem | States | Argument |
|---|---|---|
| `TypeCorrect` (DeploymentProofs) | `Spec => []TypeOK` | `TypeInv`: the types and the step an execution's rollout can be at |
| `QuotaKept` (DeploymentProofs) | `[]BuildsWithinQuota` | `SlotsWithinQuota`, `HoldsSlot`: whatever waits or builds has a reservation, and one is made only while one is free |
| `OneSlotPerBuild` (DeploymentProofs) | `[]SlotPerBuild` | `BuildInv`: besides `SlotInv`, a build is never queued as a rollback (`NeverRollsBack`), since only executions of rollbacks commit that (`RecoveryInv`) |
| `LifecycleImplemented` (DeploymentProofs) | `Spec => Lifecycle!Spec` | every step is one of the life cycle or leaves `Phase` alone |
| `OneExecutionKept` (ExecutionProofs) | `[]OneExecution` if no lock is lost | `LockInv`: whoever executes holds its job's lock |
| `DeliveredDigestKept`, `AppliesInTurnKept` (ExecutionProofs) | `[]DeliveredDigest`, `AppliesInTurn`, if no lock is lost | `CourseInv`: what an execution at each step has built, published, applied and recorded, and the states its deployment can be in then |
| `OneSuccessKept` (ExecutionProofs) | `[]OneSuccess`, in every environment | `SuccessInv`: the log has one "ready" at most, after which the state stays, and who finishes an attempt as completed has committed it for that attempt |
| `NoLostWakeUp` (ExecutionProofs) | `[]WakeUpPending` if `Undisturbed` | `WakeInv`: the execution of a build that waits is before its first stage and has the row in hand (`CarryInv`), every active job has one, a dispatcher marks only what has a job (`JobInv`), only the cancelled are dequeued (`KnownInv`, `LoggedInv`) |
| `LastOwnerStays` (ApprovalProofs) | `MembershipSpec => []LastOwner` | `OwnerInv`: locks exclude each other, and the owners a change has counted are locked by it |
| `QuorumIsNeeded`, `OutdatedStops`, `ClosedStaysClosed` (ApprovalProofs) | `[]QuorumDecides`, `[]NothingOutdatedResumes`, `NeverRevived` | `ApprovalInv`: what an operation holds is the request as it is or an older version; what is outdated shows in a version (`Stale`) until the resumption looks |
| `RequestsImplemented` (ApprovalProofs) | `Spec => ImplementsRequests` | a write that passes the version check is on the request as it was read, and what the operation then found is the abstract guard: an undecided state, a vote of another member, a transition that `TRANSITIONS` has |
| `DirectoryImplemented` (ApprovalProofs) | `MembershipSpec => ImplementsDirectory` | `OwnerInv`: the write of a change that takes an owner away comes while it holds the rows of the owners it has counted, so there is another one |
| `MembersAsSpecified` (ApprovalProofs) | `Spec => MembershipSpec` | every step of Approvals is one of Membership or leaves members alone |
| `ActiveWasValidated`, `RevokedStaysRevoked`, `RecoveryLeavesTheYoung` (ResourceProofs) | `[]ActiveMeansValidated`, `RevokedForGood`, `RecoversOnlyStale` | `ConnInv`: a request that holds the row's version holds its configuration, and one that is about to finish has checked it (`ValidatorKnows`, `AdminKnows`); a row is not stale whose time is not before that of a read which is not (`HorizonTyped`), for any skews |
| `OnlyConfirmedIsDeployed` (ResourceProofs) | `[]DeploysConfirmed` | `SecretInv`: every row and every copy of one is `Confirmed` |
| `NothingOutdatedIsRun` (ResourceProofs) | `[]NothingOutdatedRuns` | `RevalidationInv`: whatever was unsound before the check began is still to be checked (`StillToCheck`), or the check has failed |
| `QuotaKept`, `ReservationsEndOnce` (BillingProofs) | `[]WithinLimit`, `NeverTakenBack` | `QuotaInv`: a transaction's clock is not ahead (`TxSound`), and what counts now counted then |
| `UsageCountedOnce` (BillingProofs) | `[]CountedOnce` | `LedgerInv`: keys of two open transactions differ (`KeysApart`), an adjustment's event is there |
| `AlwaysSomePlan` (BillingProofs) | `[]NeverWithoutPlan` | `SubInv`: each subscription ends when the next one begins, the last never |
| `TenantsKeptApart`, `StaysDisconnected` (TenantProofs) | `[]TenantsApart`, `DisconnectedForGood` | `GitInv`: neither the organization of the installation nor that of the repository's row ever changes, whoever entered it, so what handlers and requests know of them stays true (`HookKnows`, `GitKnows`) |
| `DeliveriesActOnce` (TenantProofs) | `[]ActedOnce` | `ActedInv`: a handler that acts is the only one with its delivery, which is recorded |
| `DomainsProven`, `HostnamesOwned` (TenantProofs) | `[]ActiveWasProven`, `[]OneOwner` | `DomainInv`: a request that may make a claim active has read it proven, and what is proven stays so |
| `RevisionsAlwaysDeployed`, `ClosingAlwaysHasJob` (TenantProofs) | `[]RevisionsDeployed`, `[]ClosingHasJob` | `PreviewInv`: a key names one deployment and one revision, of its trust and its commit (`KeyedInv`); one preview of a pull request is live and its status agrees with its job (`PreviewRowsInv`) |
| `AuditAlwaysVerifies`, `EffectsAlwaysAudited` (LogProofs) | `[]AuditVerifies`, `[]EffectsAudited` | `AuditInv`: the committed events are a chain up to the head and those of the head's lock holder continue it (`Chain`); a transaction's effects and events agree (`TxOK`), and two transactions share neither the lock of the head nor that of an export or the policy (`Apart`) |
| `AuditLogImplemented` (LogProofs) | `AuditSpec => ImplementsAuditLog` | `AuditInv` and `ChainCounted`: there are as many events as the head's sequence says, so a commit extends the log and nothing else changes it |
| `RowsShownInOrder`, `StreamsCounted` (LogProofs) | `[]ShownInOrder`, `[]SlotsCounted` | `StreamInv`: whatever a stream sends is a row that exists, and a listing begins with the row after the view's cursor and has no hole (`ViewInv`); a slot per connection not closed (`OpenInv`) |
| `NothingIsOverwritten` (LogProofs) | `[]NothingOverwritten` | `DraftInv`: a page and its saves carry versions the page has seen |
| `ExceptionsInForce`, `ExceptionsReported` (TenantProofs) | `[]InForce`, `[]ReportedOnce` | `ExceptionInv`: a call with the row's version has read the row, and an outcome is one step of the row's life (`NextOf`) |
| `SecretsTyped`, `RevalidationTyped` (ResourceProofs), `QuotasTyped`, `LedgerTyped`, `PlansTyped` (BillingProofs), `GitTyped`, `DomainsTyped`, `ExceptionsTyped`, `PreviewsTyped` (TenantProofs), `DraftsTyped`, `StreamsTyped`, `AuditsTyped` (LogProofs), `MembersTyped` (ServicesProofs) | `[]...TypeOK` of each component | the component's invariant and what it leaves open: an append more than the bound at most (`AppendsCounted`), rows within the bound (`RowsBounded`), revisions of previews that exist (`RevisionsOwned`), totals that are numbers |
| `ServicesTypeCorrect` (ServicesProofs) | `ServicesSpec => []ServicesTypeOK` | a step of one service leaves the others alone, so that each runs as it does by itself (`ServicesRunAlone`) |
| `ServicesSound`, `ServicesForGood` (ServicesProofs) | the invariants and action properties of run Services, but those of members, of the run's own specification | the same, and the theorems above |

The inductive invariants of the safety properties were TLC invariants before they were proved. None of the properties is
inductive: `SlotPerBuild`, for one, does not say that no build enters rollback_queued, which
takes no slot, and `QuorumDecides` does not say that
the votes an operation has counted are still those of the request. The proofs have a lemma
per group of actions; `StepKeeps` (ApprovalProofs) and `OnlyOne` (ApprovalProofs) say once
what a step leaves alone.

The assumptions are those of the constants: finite sets where something is counted, bounds that are
naturals, windows that end after they begin, "none" being no organization, member or key, and a first
owner, and clock skews that are integers. `OneExecution`, `DeliveredDigest` and `AppliesInTurn` are proved under the assumption that
`Environment` has no "lock loss"; with it two executions do overlap, and `OneSuccess`, the quota and the
life cycle are what holds all the same, for every `Environment`. `WakeUpPending` is proved for every
`Environment` without "crash", "lock loss", "store throws" and "retry" (`Undisturbed`), cancellations
included. None of the four can be left out of the assumption: with any one of them TLC finds a build that waits with
neither a job nor a row. Run LostWakeUp is the retry; in the other three the job's attempts or stalls are
used up before the build has begun (hazard at `queue/deployment-queue.js:10`). `ActedOnce`, `OneOwner`,
`RevokedForGood`, `NeverRevived` and `NeverTakenBack` are stated in their modules and proved, without a run
of their own; run Approvals checks `ImplementsRequests`, which implies `NeverRevived`.

The proofs changed one module. In Previews, `RevisionsDeployed` said that every revision is deployed with
its own commit, and no run refuted it while a configuration had one commit for users' requests. The
invariant it needs is false: a user's key that was first used for a commit with a revision, and then for
another commit, finds the deployment of the first one, since deployments are idempotent by key
(`deployments/postgres-store.js:63`) and revisions by key or commit (`previews/postgres-store.js:50`). Run
Services now has two commits, and the property says what holds: the commit is the revision's own unless a
user's key made it.

Every invariant and every action property of a passing run is a theorem, with the assumptions above.
Only model-checked: all liveness (`JobSettles`, `SlotReleased`, `ValidationEnds`, `ViewerStops`), which
with fairness and ENABLED is out of TLAPS' reach.

Two notes on what carries the proofs. A total of the usage ledger is a fold over a set
(`MapThenSumSet`), and there is no induction rule with an operator to instantiate here; that a total is a
number is proved from the fold's own equation and the least size at which it could fail to be one
(`TotalIsNumber`). And refinement is proved of the rows as the abstract specification sees them: `Items` and
`Directory` map what is committed, so that what a transaction has in flight is a stutter.

## 5. What is not modelled

* Commands, checkouts, images, scans, health checks and cluster objects: their outcome only.
* The build-only variant of the pipeline without a registry: `worker/main.js` always
  passes the providers.
* Reads that a handler makes and then repeats with a transition (`requestCancellation`,
  `retry`) are one step: the transition compares the version again.
* `addAttempt` counts and inserts in one step; the loser of that race throws.
* `addAttempt`'s race, the constant command id of a cancellation (a second one, after a retry, changes
  nothing in the row), the check for an active operation that POST deployments makes outside its
  transaction and a policy that is disabled between its read and the transaction are in the
  actions' guards only as far as one request goes.
* Approvals of rollbacks and of exceptions, `finishExecution` of an action that failed, invitations.
* Previews: quotas, hostnames and the routes of previews; that a failed cleanup is never tried again, that
  a user's key used again for another commit keeps the first deployment and that a delivery whose handler died is lost are behaviours of the model about which no property is stated.
* Domains and GitConnections: that a late write brings a removed claim or route back, that a repository's row
  which one organization entered by hand keeps the organization of the installation from connecting it, that a disconnected repository
  cannot be connected again and that a late "unsuspend" makes a suspended row active are behaviours
  of the model too; what is stated holds in spite of them.
* Revalidation: the worker also refuses a production deployment without any approval once a policy asks for one,
  and one whose requester may no longer deploy (`worker/authorization.js:5`, `:33`). PolicyExceptions: an exception whose approval was invalidated is refused as well. In both the code is
  stricter than the model.
* EventStream: the limit of streams per organization is a connection that fails (`ConnectFails`); a connection that is lost while the first pass drains keeps its slot until a timer.
* Drafts: the copy that a page keeps in the browser's storage; validation and promotion.
* Audit: `audit_outbox`, which nothing reads, queries and the masking of fields. Billing: cost
  allocation and estimates, which are sums over rows.
* Policy evaluation, drift, detection, redaction and the rollback policy are pure functions of
  documents; sessions, tokens and the repository's CRUD are single statements.
* The in-memory stores are the development twins of the PostgreSQL ones, which production
  refuses; most of the console, Terraform, Helm and pipelines are declarative or clients. They are the
  greater part of the repository's lines, and why the map covers an eighth of them.

## 6. Plan

Done, in this order: deployments (store, queue, worker, API), the build life cycle, memberships,
approvals; then audit, quotas, plans, usage, connections, secrets, revalidation, previews, events,
drafts, exceptions, git and domains; and the proofs of section 4. What is left:

1. **Operations**: several deployments of one service and environment, operation locks taken
   outside the transaction that checks them, release of the lock. Two rollbacks at once and the dead
   letter of three crashes are in the model already, where TLC finds both; what is missing is
   a statement the code keeps.
2. **Proofs**: abstract specifications of the quota and of a stream, and that Quotas and
   EventStream implement them.
3. **Invitations** beside membership changes, and approvals of rollbacks and of exceptions with
   `finishExecution`.
4. **Detection**: the scoring as operators against a reference over bounded inputs.
