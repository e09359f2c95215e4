------------------------------ MODULE Previews ------------------------------
(***************************************************************************)
(* The previews of one pull request: provider events that GitHub delivers  *)
(* in any order and may repeat, requests, the reconciler that removes what *)
(* is closed or expired (GitHubWebhookService, PreviewController,          *)
(* PreviewReconciler, PostgresPreviewStore).                               *)
(*                                                                         *)
(* A handler reads the live preview before its transaction; a cleanup and  *)
(* a verification call Kubernetes between reading and writing.             *)
(***************************************************************************)
EXTENDS Integers, Sequences, FiniteSets

CONSTANTS
  PrEvents,       \* delivery |-> [action, commit]
  PrCommits,      \* commits of the pull request
  ManualKeys,     \* idempotency keys of previews that users create
  PrHandlers,     \* requests that handle a delivery or verify a preview
  Cleaners,       \* runs of the reconciler
  MaxPreviews     \* bound: previews that are created one after another

ASSUME PreviewAssumption ==
  /\ MaxPreviews \in Nat
  /\ DOMAIN PrEvents \intersect ManualKeys = { }
  /\ \A e \in DOMAIN PrEvents : PrEvents[e].action \in { "deploy", "close" }

VARIABLES
  forkedPr,      \* the pull request comes from a fork, per signed metadata
  delivered,     \* git_webhook_deliveries
  previewDeployments, \* deployments by their idempotency key
  previews,      \* preview_instances in the order of creation
  revisions,     \* preview_revisions
  handler,       \* what each request does
  cleaner        \* what each run of the reconciler does

previewVars == << forkedPr, delivered, previewDeployments, previews, revisions, handler, cleaner >>

IdleHandler == [ step |-> "idle", key |-> "none", current |-> 0, revision |-> { } ]
IdleCleaner == [ step |-> "idle", preview |-> 0 ]

PreviewInit ==
  /\ forkedPr \in BOOLEAN
  /\ delivered = { } /\ previewDeployments = { }
  /\ previews = << >> /\ revisions = { }
  /\ handler = [ h \in PrHandlers |-> IdleHandler ]
  /\ cleaner = [ c \in Cleaners |-> IdleCleaner ]

\* The instances whose lifecycle_status is not removed, the oldest first.
LivePreviews == { p \in DOMAIN previews : previews[p].status # "removed" }
EventPreview == IF LivePreviews = { } THEN 0
                ELSE CHOOSE p \in LivePreviews : \A q \in LivePreviews : p <= q

\* preview_live_pr_idx: an update that makes a second instance live fails.
OneLive(rows) == \A p, q \in DOMAIN rows :
  rows[p].status # "removed" /\ rows[q].status # "removed" => p = q

Write(p, row) == LET rows == [ previews EXCEPT ![p] = row ]
                 IN  IF OneLive(rows) THEN rows ELSE previews

-----------------------------------------------------------------------------
\* handle: the delivery is recorded by a statement of its own, once, and then
\* the controller reads the live preview. A repeated delivery goes no further.
ReceiveDelivery(h, e) ==
  /\ handler[h].step = "idle" /\ e \notin delivered
  /\ delivered' = delivered \union { e }
  /\ handler' = [ handler EXCEPT ![h] = [ IdleHandler EXCEPT !.step = "event", !.key = e ] ]
  /\ UNCHANGED << forkedPr, previewDeployments, previews, revisions, cleaner >>

ReadEventPreview(h) ==
  /\ handler[h].step = "event"
  /\ handler' = [ handler EXCEPT ![h].step = PrEvents[handler[h].key].action,
                                 ![h].current = EventPreview ]
  /\ UNCHANGED << forkedPr, delivered, previewDeployments, previews, revisions, cleaner >>

\* The deployment of a key is created once; a fork's takes no secrets along.
DeploymentOf(key, commit, fork) == [ key |-> key, commit |-> commit, untrusted |-> fork, ready |-> FALSE ]
\* Mutant: a request that is repeated deploys again.
WithAnotherDeployment(key, commit, fork) ==
  previewDeployments \union { DeploymentOf(key, commit, fork) }

WithDeployment(key, commit, fork) ==
  IF \E d \in previewDeployments : d.key = key THEN previewDeployments
  ELSE previewDeployments \union { DeploymentOf(key, commit, fork) }

\* store.create under the pull request's advisory lock: the live instance or a
\* new one, the revision of its commit or a new one. The instance is building.
Instance(p) == IF p \in DOMAIN previews THEN previews[p]
               ELSE [ status |-> "building", active |-> { }, job |-> "none", expired |-> FALSE ]

RevisionOf(p, key, commit, fork) ==
  LET same == { r \in revisions : r.preview = p /\ r.commit = commit }
  IN  IF same # { } THEN same
      ELSE { [ preview |-> p, commit |-> commit, key |-> key, deployment |-> key,
               untrusted |-> fork, status |-> "pending" ] }

TargetPreview == IF LivePreviews = { } THEN Len(previews) + 1 ELSE EventPreview

CreateRevision(key, commit, fork) ==
  LET p   == TargetPreview
      rev == RevisionOf(p, key, commit, fork)
      row == [ Instance(p) EXCEPT !.active = rev, !.status = "building" ]
  IN  /\ previewDeployments' = WithDeployment(key, commit, fork)
      /\ IF \E r \in revisions : r.key = key THEN UNCHANGED << previews, revisions >>
         ELSE /\ p <= MaxPreviews
              /\ previews' = IF p \in DOMAIN previews THEN [ previews EXCEPT ![p] = row ]
                             ELSE Append(previews, row)
              /\ revisions' = revisions \union rev

\* opened, reopened, synchronize: one transaction for the deployment and the
\* revision.
Deploy(h) ==
  /\ handler[h].step = "deploy"
  /\ CreateRevision(handler[h].key, PrEvents[handler[h].key].commit, forkedPr)
  /\ handler' = [ handler EXCEPT ![h] = IdleHandler ]
  /\ UNCHANGED << forkedPr, delivered, cleaner >>

CreateManual(key, commit) ==
  /\ CreateRevision(key, commit, FALSE)
  /\ UNCHANGED << forkedPr, delivered, handler, cleaner >>

\* Mutant: an instance is closed again though its job has completed.
ScheduledAgain(row) == [ row EXCEPT !.status = "closing", !.job = IF @ = "none" THEN "pending" ELSE @ ]

\* scheduleCleanup: one job per instance for ever; one that has completed
\* changes nothing.
Scheduled(row) ==
  IF row.job = "completed" THEN row
  ELSE [ row EXCEPT !.status = "closing", !.job = IF @ = "none" THEN "pending" ELSE @ ]

\* closed, merged: the instance that was read, if any.
Close(h) ==
  LET p == handler[h].current
  IN  /\ handler[h].step = "close"
      /\ previews' = IF p = 0 THEN previews ELSE Write(p, Scheduled(previews[p]))
      /\ handler' = [ handler EXCEPT ![h] = IdleHandler ]
      /\ UNCHANGED << forkedPr, delivered, previewDeployments, revisions, cleaner >>

\* DELETE previews/:id, for any instance.
DeletePreview(p) ==
  /\ previews' = Write(p, Scheduled(previews[p]))
  /\ UNCHANGED << forkedPr, delivered, previewDeployments, revisions, handler, cleaner >>

\* The process dies or the transaction fails.
HandlerDies(h) ==
  /\ handler[h].step # "idle" /\ handler' = [ handler EXCEPT ![h] = IdleHandler ]
  /\ UNCHANGED << forkedPr, delivered, previewDeployments, previews, revisions, cleaner >>

-----------------------------------------------------------------------------
\* POST verify: the active revision's deployment is ready, then Kubernetes and
\* the HTTP verifier are asked, then markReady takes the revision that is
\* active by then and asks nothing of the instance's state.
StartVerify(h, p) ==
  /\ handler[h].step = "idle" /\ previews[p].status # "removed"
  /\ \E d \in previewDeployments, r \in previews[p].active : d.key = r.deployment /\ d.ready
  /\ handler' = [ handler EXCEPT ![h] = [ IdleHandler EXCEPT !.step = "verify", !.current = p ] ]
  /\ UNCHANGED << forkedPr, delivered, previewDeployments, previews, revisions, cleaner >>

MarkedReady(rows) == { [ r EXCEPT !.status = "ready" ] : r \in rows }

MarkReady(h) ==
  LET p     == handler[h].current
      act   == { r \in revisions : \E a \in previews[p].active : r.preview = p /\ r.commit = a.commit }
      ready == Write(p, [ previews[p] EXCEPT !.status = "ready" ])
  IN  /\ handler[h].step = "verify"
      /\ previews' = ready
      /\ revisions' = IF ready[p].status = "ready" THEN (revisions \ act) \union MarkedReady(act)
                      ELSE revisions
      /\ handler' = [ handler EXCEPT ![h] = IdleHandler ]
      /\ UNCHANGED << forkedPr, delivered, previewDeployments, cleaner >>

\* The worker brings a deployment to ready.
DeploymentReady(d) ==
  /\ ~d.ready
  /\ previewDeployments' = (previewDeployments \ { d }) \union { [ d EXCEPT !.ready = TRUE ] }
  /\ UNCHANGED << forkedPr, delivered, previews, revisions, handler, cleaner >>

-----------------------------------------------------------------------------
\* expires_at passes; due schedules what has expired and is not being closed,
\* and hands out the jobs that are pending or to be retried.
ExpirePreview(p) ==
  /\ ~previews[p].expired /\ previews' = [ previews EXCEPT ![p].expired = TRUE ]
  /\ UNCHANGED << forkedPr, delivered, previewDeployments, revisions, handler, cleaner >>

ScheduleExpired(p) ==
  /\ previews[p].expired /\ previews[p].status \notin { "removed", "closing" }
  /\ previews' = Write(p, Scheduled(previews[p]))
  /\ UNCHANGED << forkedPr, delivered, previewDeployments, revisions, handler, cleaner >>

TakeJob(c, p) ==
  /\ cleaner[c].step = "idle" /\ previews[p].job \in { "pending", "retry" }
  /\ cleaner' = [ cleaner EXCEPT ![c] = [ step |-> "clean", preview |-> p ] ]
  /\ UNCHANGED << forkedPr, delivered, previewDeployments, previews, revisions, handler >>

Completed(row) == [ row EXCEPT !.job = "completed", !.status = "removed" ]

\* cleanupComplete, when all that the preview owns is deleted.
CompleteCleanup(c) ==
  /\ cleaner[c].step = "clean"
  /\ previews' = [ previews EXCEPT ![cleaner[c].preview] = Completed(@) ]
  /\ cleaner' = [ cleaner EXCEPT ![c] = IdleCleaner ]
  /\ UNCHANGED << forkedPr, delivered, previewDeployments, revisions, handler >>

\* cleanupFailed: to be retried, or given up after the finalizer's deadline.
FailCleanup(c) ==
  /\ cleaner[c].step = "clean"
  /\ \E job \in { "retry", "failed" } :
       previews' = [ previews EXCEPT ![cleaner[c].preview].job = job ]
  /\ cleaner' = [ cleaner EXCEPT ![c] = IdleCleaner ]
  /\ UNCHANGED << forkedPr, delivered, previewDeployments, revisions, handler >>

CleanerDies(c) ==
  /\ cleaner[c].step = "clean" /\ cleaner' = [ cleaner EXCEPT ![c] = IdleCleaner ]
  /\ UNCHANGED << forkedPr, delivered, previewDeployments, previews, revisions, handler >>

PreviewNext ==
  \/ \E h \in PrHandlers :
       \/ \E e \in DOMAIN PrEvents : ReceiveDelivery(h, e)
       \/ ReadEventPreview(h) \/ Deploy(h) \/ Close(h) \/ MarkReady(h) \/ HandlerDies(h)
       \/ \E p \in DOMAIN previews : StartVerify(h, p)
  \/ \E k \in ManualKeys, commit \in PrCommits : CreateManual(k, commit)
  \/ \E d \in previewDeployments : DeploymentReady(d)
  \/ \E p \in DOMAIN previews : DeletePreview(p) \/ ExpirePreview(p) \/ ScheduleExpired(p)
  \/ \E c \in Cleaners : \/ \E p \in DOMAIN previews : TakeJob(c, p)
                         \/ CompleteCleanup(c) \/ FailCleanup(c) \/ CleanerDies(c)

PreviewSpec == PreviewInit /\ [][PreviewNext]_previewVars

-----------------------------------------------------------------------------
PreviewTypeOK ==
  /\ delivered \subseteq DOMAIN PrEvents
  /\ \A p \in DOMAIN previews :
       /\ previews[p].status \in { "building", "ready", "closing", "removed" }
       /\ previews[p].job \in { "none", "pending", "retry", "completed", "failed" }
  /\ \A r \in revisions : r.preview \in DOMAIN previews /\ r.status \in { "pending", "ready" }
  /\ \A h \in PrHandlers : handler[h].step \in { "idle", "event", "deploy", "close", "verify" }
  /\ \A c \in Cleaners : cleaner[c].step \in { "idle", "clean" }

\* Out of order, repeated and concurrent events give a revision a deployment of
\* its own trust and, for what the provider delivers, of its own commit, and each
\* key at most one of either (recordWebhookDelivery, _deploy, create). A user's
\* key keeps the deployment of the commit it was first used for: used again for
\* another commit after it named one that had a revision, it deploys the first.
RevisionsDeployed ==
  /\ \A r \in revisions : \E d \in previewDeployments :
       /\ d.key = r.deployment /\ d.untrusted = r.untrusted
       /\ d.commit = r.commit \/ r.key \in ManualKeys
  /\ \A r, s \in revisions : (r.key = s.key \/ (r.preview = s.preview /\ r.commit = s.commit)) => r = s
  /\ \A d, e \in previewDeployments : d.key = e.key => d = e

\* What is being closed has a job that is not completed, and what is removed has
\* had one: no preview waits for a cleanup that nobody knows of, though two
\* reconcilers may work on one job (scheduleCleanup, due, cleanupFailed).
ClosingHasJob ==
  \A p \in DOMAIN previews :
    /\ previews[p].status = "closing" => previews[p].job \in { "pending", "retry", "failed" }
    /\ previews[p].status = "removed" => previews[p].job # "none"

=============================================================================
