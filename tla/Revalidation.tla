---------------------------- MODULE Revalidation ----------------------------
(***************************************************************************)
(* What a deployment depends on between its acceptance and its rollout:    *)
(* the actor's access, the project and the service, the deployment target, *)
(* a secret reference and the approval. All of them change under other     *)
(* requests while the deployment is accepted, waits, is queued and builds. *)
(* The API takes a snapshot of them one after another before it creates    *)
(* the deployment; the worker checks them one after another, each with a   *)
(* query of its own, when it claims the job and again before it applies    *)
(* (revalidateDeployment).                                                 *)
(***************************************************************************)
EXTENDS Integers, Sequences

CONSTANTS
  Protected,     \* whether a policy asks for an approval
  MaxRenewals,   \* bound: versions of what the deployment depends on
  MaxClaims      \* bound: jobs of the deployment

ASSUME RevalidationAssumption ==
  Protected \subseteq BOOLEAN /\ MaxRenewals \in Nat /\ MaxClaims \in Nat

VARIABLES
  dependency,    \* what the deployment depends on: usable now, and its version
  protected,     \* the policy asks for an approval of this deployment
  accepted,      \* the versions that the deployment's snapshot holds
  stage,         \* how far the deployment is
  checking,      \* what the check in progress has still to look at
  claims,        \* jobs that began
  broken         \* unusable to the deployment ever since the check began

revalidationVars == << dependency, protected, accepted, stage, checking, claims, broken >>

\* Mutant: the references are not looked at again.
ChecksWithoutSecret(withApproval) ==
  IF withApproval THEN << "access", "resource", "target", "approval" >>
  ELSE << "access", "resource", "target" >>

\* In the order of the worker's checks.
ChecksOf(withApproval) ==
  IF withApproval THEN << "access", "resource", "target", "secret", "approval" >>
  ELSE << "access", "resource", "target", "secret" >>

Dependencies == { "access", "resource", "target", "secret", "approval" }

\* Of these the snapshot keeps a version: credential_version,
\* reference_version, and those of the policy and the approvers.
Versioned == { "target", "secret", "approval" }

RevalidationInit ==
  /\ dependency = [ k \in Dependencies |-> [ usable |-> k # "approval", version |-> 1 ] ]
  /\ protected \in Protected
  /\ accepted = [ k \in Dependencies |-> 0 ]
  /\ stage = "new" /\ checking = << >> /\ claims = 0 /\ broken = { }

\* What the worker demands: the thing is usable and, where the snapshot has a
\* version, it is that one.
Sound(k, thing) == thing.usable /\ (k \in Versioned => thing.version = accepted[k])

Unsound(things) ==
  { k \in Dependencies : ~Sound(k, things[k]) } \ IF protected THEN { } ELSE { "approval" }

-----------------------------------------------------------------------------
\* POST deployments: access, then the target, then the secrets, each of which
\* must be usable and leaves its version in the snapshot, then the insert.
Accepting == [ new |-> "access", access |-> "resource", resource |-> "target", target |-> "secret" ]

AcceptNext ==
  /\ stage \in DOMAIN Accepting
  /\ LET k == Accepting[stage]
     IN  IF dependency[k].usable
         THEN /\ stage' = k
              /\ accepted' = [ accepted EXCEPT ![k] = dependency[k].version ]
         ELSE stage' = "refused" /\ UNCHANGED accepted
  /\ UNCHANGED << dependency, protected, checking, claims, broken >>

CreateDeployment ==
  /\ stage = "secret"
  /\ stage' = IF protected THEN "waiting" ELSE "queued"
  /\ UNCHANGED << dependency, protected, accepted, checking, claims, broken >>

\* The deciding vote: the request keeps the version of its policy, and the
\* resumption looks at the target and at the references before it queues.
ResumeApproved ==
  /\ stage = "waiting"
  /\ IF dependency["target"].usable /\ Sound("secret", dependency["secret"])
     THEN /\ stage' = "queued"
          /\ accepted' = [ accepted EXCEPT !["approval"] = dependency["approval"].version ]
          /\ dependency' = [ dependency EXCEPT !["approval"].usable = TRUE ]
     ELSE UNCHANGED << stage, accepted, dependency >>
  /\ UNCHANGED << protected, checking, claims, broken >>

-----------------------------------------------------------------------------
\* execute: the first check, and the second one before the rollout.
BeginCheck(from, to) ==
  /\ stage = from /\ stage' = to
  /\ checking' = ChecksOf(protected)
  /\ broken' = Unsound(dependency)

ClaimJob == /\ claims < MaxClaims /\ claims' = claims + 1
         /\ BeginCheck("queued", "claiming")
         /\ UNCHANGED << dependency, protected, accepted >>

BeforeApply == /\ BeginCheck("building", "authorizing")
               /\ UNCHANGED << dependency, protected, accepted, claims >>

\* One query of revalidateDeployment: what it demands of k.
Passes(k) == Sound(k, dependency[k])

CheckNext ==
  /\ checking # << >>
  /\ IF Passes(Head(checking))
     THEN checking' = Tail(checking) /\ UNCHANGED stage
     ELSE checking' = << >> /\ stage' = "failed"
  /\ UNCHANGED << dependency, protected, accepted, claims, broken >>

Checked ==
  /\ checking = << >>
  /\ \/ stage = "claiming" /\ stage' = "building"
     \/ stage = "authorizing" /\ stage' = "applied"
  /\ UNCHANGED << dependency, protected, accepted, checking, claims, broken >>

\* Another failure, and a retry, which keeps the snapshot.
StageFails == /\ stage \in { "building", "applied" } /\ stage' = "failed"
              /\ UNCHANGED << dependency, protected, accepted, checking, claims, broken >>
RetryDeployment == /\ stage = "failed" /\ stage' = "queued"
                   /\ UNCHANGED << dependency, protected, accepted, checking, claims, broken >>

-----------------------------------------------------------------------------
\* Other requests: something is disabled, removed or withdrawn; it is usable
\* again; or it is rotated, edited, and so of another version. The approval
\* becomes usable only through the vote.
Becomes(k, thing) ==
  /\ dependency' = [ dependency EXCEPT ![k] = thing ]
  /\ broken' = broken \intersect Unsound(dependency')
  /\ UNCHANGED << protected, accepted, stage, checking, claims >>

Withdraw(k) == /\ dependency[k].usable
               /\ Becomes(k, [ dependency[k] EXCEPT !.usable = FALSE ])
Restore(k)  == /\ k # "approval" /\ ~dependency[k].usable
               /\ Becomes(k, [ dependency[k] EXCEPT !.usable = TRUE ])
Renew(k)    == /\ k \in Versioned /\ dependency[k].version < MaxRenewals
               /\ Becomes(k, [ dependency[k] EXCEPT !.version = @ + 1, !.usable = @ /\ k = "approval" ])

RevalidationNext ==
  \/ AcceptNext \/ CreateDeployment \/ ResumeApproved
  \/ ClaimJob \/ BeforeApply \/ CheckNext \/ Checked \/ StageFails \/ RetryDeployment
  \/ \E k \in Dependencies : Withdraw(k) \/ Restore(k) \/ Renew(k)

RevalidationSpec == RevalidationInit /\ [][RevalidationNext]_revalidationVars

-----------------------------------------------------------------------------
RevalidationTypeOK ==
  /\ dependency \in [ Dependencies -> [ usable : BOOLEAN, version : Nat ] ]
  /\ accepted \in [ Dependencies -> Nat ] /\ protected \in BOOLEAN
  /\ stage \in Dependencies \union { "new", "refused", "waiting", "queued", "claiming",
                                     "building", "authorizing", "applied", "failed" }
  /\ checking \in Seq(Dependencies) /\ claims \in 0 .. MaxClaims
  /\ broken \subseteq Dependencies

\* Nothing is built, and nothing rolled out, when what the deployment was
\* accepted with was withdrawn, rotated or edited before the check began and
\* so remained until its end, though every query sees another moment
\* (revalidateDeployment).
NothingOutdatedRuns == stage \in { "building", "applied" } => broken = { }

=============================================================================
