------------------------------ MODULE Approvals ------------------------------
(***************************************************************************)
(* PostgresApprovalStore and the handlers that use it: a policy protects   *)
(* production deployments, such a deployment waits for approval, members   *)
(* vote, and the vote that completes the quorum resumes the deployment.    *)
(*                                                                         *)
(* Every operation reads the request, its votes and the memberships it     *)
(* needs, and writes the request afterwards if its version is still the    *)
(* one it read; between the two it is in flight.                           *)
(***************************************************************************)
EXTENDS Membership

CONSTANTS
  Approvals,         \* approval requests, one for each protected deployment
  Requester,         \* the member who deploys
  EligibleRoles,     \* the policy's eligible_roles ...
  RequiredCount,     \* ... and required_count
  NumericVersions,   \* whether a store returns state_version as a number: the
                     \* in-memory one does; node-postgres, for BIGINT, does not
  MaxPolicyVersion,  \* bound: changes of the policy
  MaxHandlers        \* bound: operations in flight

ASSUME ApprovalAssumption ==
  /\ IsFiniteSet(Approvals)
  /\ Requester \in Users
  /\ EligibleRoles \subseteq ROLES
  /\ RequiredCount \in Nat \ { 0 }
  /\ NumericVersions \in BOOLEAN
  /\ MaxPolicyVersion \in Nat /\ MaxHandlers \in Nat

VARIABLES
  policy,       \* approval_policies: version and enabled
  deployment,   \* deployments.current_state
  approval,     \* approval_requests with the votes of approval_decisions
  late,         \* requests whose expires_at has passed
  handlers,     \* operations in flight
  outdated      \* history: requests with a voter or a policy that changed
                \* while they were pending

vars == << membershipVars, policy, deployment, approval, late, handlers, outdated >>

\* What is left of a request once nothing can be done with it.
FinalStates == { "rejected", "expired", "cancelled", "invalidated", "consumed" }

RequestStates == { "absent", "pending", "approved", "overridden" } \union FinalStates

Unexpired == { "pending", "approved", "overridden" }

NoApproval == [ state |-> "absent", version |-> 0, votes |-> {}, overridden |-> FALSE,
                policyVersion |-> 0 ]

Vote == [ user : Users, authorization : Nat ]

Request == [ state : RequestStates, version : Nat, votes : SUBSET Vote,
             overridden : BOOLEAN, policyVersion : Nat ]

Handler == [ op : { "create", "approve", "reject", "override", "cancel", "expire",
                    "resume", "invalidate", "begin", "consume" },
             of : Approvals, item : Request, votes : SUBSET Vote ]

\* An operation holds the request it has read and the vote that it casts.
Operation(op, a) == [ op |-> op, of |-> a, item |-> approval[a], votes |-> {} ]

Ballot(u, a) ==
  [ Operation("approve", a) EXCEPT !.votes = { [ user |-> u, authorization |-> version[u] ] } ]

Init ==
  /\ MembershipInit
  /\ policy     = [ version |-> 1, enabled |-> TRUE ]
  /\ deployment = [ a \in Approvals |-> "absent" ]
  /\ approval   = [ a \in Approvals |-> NoApproval ]
  /\ late       = {}
  /\ handlers   = {}
  /\ outdated   = {}

Starts(h) == Cardinality(handlers) < MaxHandlers /\ handlers' = handlers \union { h }

Ends(h) == handlers' = handlers \ { h }

Resumes(h, op) == handlers' = (handlers \ { h }) \union { Operation(op, h.of) }

-----------------------------------------------------------------------------
(***************************************************************************)
(* POST deployments looks for a policy and then opens the transaction that *)
(* creates the deployment and, if there is a policy still, its request.    *)
(***************************************************************************)
FindPolicy(a) ==
  /\ deployment[a] = "absent"
  /\ policy.enabled
  /\ Starts(Operation("create", a))
  /\ UNCHANGED << membershipVars, policy, deployment, approval, late, outdated >>

CreateProtected(h) ==
  LET a == h.of
  IN /\ h.op = "create"
     /\ deployment[a] = "absent"
     /\ Allowed(Requester, "deployment:production")
     /\ Allowed(Requester, "approval:request")
     /\ deployment' = [ deployment EXCEPT ![a] = "waiting_for_approval" ]
     /\ approval'   = IF policy.enabled
                      THEN [ approval EXCEPT ![a] =
                             [ NoApproval EXCEPT !.state = "pending", !.version = 1,
                                                 !.policyVersion = policy.version ] ]
                      ELSE approval
     /\ Ends(h)
     /\ UNCHANGED << membershipVars, policy, late, outdated >>

-----------------------------------------------------------------------------
(***************************************************************************)
(* What decide, override, cancel and a GET read, and why they go on.       *)
(***************************************************************************)
VotersOf(a) == { v.user : v \in approval[a].votes }

Eligible(u) == active[u] /\ role[u] \in EligibleRoles

MayVote(u, a) == u # Requester /\ Eligible(u) /\ u \notin VotersOf(a)

Goes(op, u, a) ==
  CASE op \in { "approve", "reject" } ->
         /\ Allowed(u, "approval:decide")
         /\ approval[a].state = "pending" /\ a \notin late
         /\ MayVote(u, a)
    [] op = "override" ->
         /\ Allowed(u, "approval:override")
         /\ approval[a].state = "pending" /\ a \notin late
    [] op = "cancel" ->
         /\ Allowed(u, "policy:read")
         /\ u = Requester \/ Allowed(u, "approval_policy:manage")
         /\ approval[a].state = "pending" /\ a \notin late
    [] op = "expire" ->
         /\ Allowed(u, "policy:read")
         /\ approval[a].state \in Unexpired /\ a \in late

Read(op, u, a) ==
  /\ Goes(op, u, a)
  /\ Starts(IF op = "approve" THEN Ballot(u, a) ELSE Operation(op, a))
  /\ UNCHANGED << membershipVars, policy, deployment, approval, late, outdated >>

\* Mutant: _save does not look at the version.
SavesAnyway(h) == approval[h.of].state # "absent"

\* _save: the version is still the one that was read.
Saves(h) == approval[h.of].version = h.item.version

Saved(item, to) == [ item EXCEPT !.state = to, !.version = @ + 1 ]

SaveAs(h, to) ==
  /\ Saves(h)
  /\ approval' = [ approval EXCEPT ![h.of] = Saved(h.item, to) ]

(***************************************************************************)
(* decide saves the request and inserts the vote in one transaction; its   *)
(* handler goes on with the resumption when the quorum is reached.         *)
(***************************************************************************)
Approve(h) ==
  LET a      == h.of
      quorum == Cardinality(h.item.votes \union h.votes) >= RequiredCount
  IN /\ h.op = "approve"
     /\ Saves(h)
     /\ approval' = [ approval EXCEPT ![a] =
          [ Saved(h.item, IF quorum THEN "approved" ELSE "pending")
              EXCEPT !.votes = approval[a].votes \union h.votes ] ]
     /\ IF quorum THEN Resumes(h, "resume") ELSE Ends(h)
     /\ outdated' = IF \A v \in h.votes : version[v.user] = v.authorization THEN outdated
                     ELSE outdated \union { a }
     /\ UNCHANGED << membershipVars, policy, deployment, late >>

Override(h) ==
  /\ h.op = "override"
  /\ Saves(h)
  /\ approval' = [ approval EXCEPT ![h.of] =
       [ Saved(h.item, "overridden") EXCEPT !.overridden = TRUE ] ]
  /\ Resumes(h, "resume")
  /\ UNCHANGED << membershipVars, policy, deployment, late, outdated >>

\* reject, cancel, _expire and invalidate close the request.
ClosedBy(op) ==
  CASE op = "reject" -> "rejected"
    [] op = "cancel" -> "cancelled"
    [] op = "expire" -> "expired"
    [] op = "invalidate" -> "invalidated"

Close(h) ==
  /\ h.op \in { "reject", "cancel", "expire", "invalidate" }
  /\ SaveAs(h, ClosedBy(h.op))
  /\ Ends(h)
  /\ UNCHANGED << membershipVars, policy, deployment, late, outdated >>

-----------------------------------------------------------------------------
(***************************************************************************)
(* The resumption, by the handler of the decision.  It compares the state  *)
(* version of the deployment with the one in the request by identity, so   *)
(* that a string never equals a number.                                    *)
(***************************************************************************)
Unchanged(a) == deployment[a] = "waiting_for_approval" /\ NumericVersions

Resume(h) ==
  LET a == h.of
  IN /\ h.op = "resume"
     /\ Allowed(Requester, "deployment:production")
     /\ IF Unchanged(a) THEN Resumes(h, "begin")
        ELSE IF approval[a].state \in Unexpired /\ a \notin late
        THEN Resumes(h, "invalidate")
        ELSE Ends(h)
     /\ UNCHANGED << membershipVars, policy, deployment, approval, late, outdated >>

\* Mutant: the voters still have an eligible role, whatever happened meanwhile.
StillEligible(a) == \A u \in VotersOf(a) : Eligible(u)

StillAuthorized(a) ==
  \A v \in approval[a].votes : Eligible(v.user) /\ version[v.user] = v.authorization

\* beginExecution up to its write.  What it finds changed it invalidates, and
\* the exception that follows rolls that back with the whole resumption.
BeginExecution(h) ==
  LET a == h.of
  IN /\ h.op = "begin"
     /\ IF /\ Allowed(Requester, "policy:read")
           /\ approval[a].state \in { "approved", "overridden" } /\ a \notin late
           /\ policy.enabled /\ policy.version = approval[a].policyVersion
           /\ StillAuthorized(a)
        THEN Resumes(h, "consume")
        ELSE Ends(h)
     /\ UNCHANGED << membershipVars, policy, deployment, approval, late, outdated >>

\* The rest of the transaction: executing, queued, consumed.
Consume(h) ==
  /\ h.op = "consume"
  /\ deployment[h.of] = "waiting_for_approval"
  /\ SaveAs(h, "consumed")
  /\ deployment' = [ deployment EXCEPT ![h.of] = "queued" ]
  /\ Ends(h)
  /\ UNCHANGED << membershipVars, policy, late, outdated >>

\* An operation throws, finds its version gone or its process dies: what it
\* has not committed is rolled back.
Fails(h) ==
  /\ Ends(h)
  /\ UNCHANGED << membershipVars, policy, deployment, approval, late, outdated >>

-----------------------------------------------------------------------------
Expires(a) ==
  /\ approval[a].state \in Unexpired
  /\ late' = late \union { a }
  /\ UNCHANGED << membershipVars, policy, deployment, approval, handlers, outdated >>

Pending == { a \in Approvals : approval[a].state = "pending" }

\* setPolicy, which validatePolicy lets through if enough members are eligible.
SetPolicy(enabled) ==
  /\ policy.version < MaxPolicyVersion
  /\ \E u \in Users : Allowed(u, "approval_policy:manage")
  /\ Cardinality({ u \in Users : Eligible(u) }) >= RequiredCount
  /\ policy' = [ version |-> policy.version + 1, enabled |-> enabled ]
  /\ outdated' = outdated \union Pending
  /\ UNCHANGED << membershipVars, deployment, approval, late, handlers >>

\* assertApproverChangeSafe, which the handlers of memberships call first.
ApproverChangeSafe(u, to) ==
  \A a \in Pending :
    approval[a].policyVersion = policy.version =>
      Cardinality({ m \in Users : Eligible(m) /\ (m # u \/ to \in EligibleRoles) }) >= RequiredCount

ChangeMembership(c) ==
  \/ /\ \/ \E u \in Users, to \in GrantedRoles \union { "removed" } :
              ApproverChangeSafe(u, to) /\ BeginChange(c, u, to)
        \/ LockTarget(c) \/ LockOwner(c) \/ CountOwners(c) \/ Abort(c)
     /\ UNCHANGED << policy, deployment, approval, late, handlers, outdated >>
  \/ /\ UpdateMember(c)
     /\ outdated' = outdated \union { a \in Pending : change[c].target \in VotersOf(a) }
     /\ UNCHANGED << policy, deployment, approval, late, handlers >>

JoinOrganization ==
  /\ \E u \in Users, to \in GrantedRoles : AddMember(u, to)
  /\ UNCHANGED << policy, deployment, approval, late, handlers, outdated >>

-----------------------------------------------------------------------------
Reads(a) ==
  \/ FindPolicy(a)
  \/ \E u \in Users, op \in { "approve", "reject", "override", "cancel", "expire" } : Read(op, u, a)

Proceeds(h) ==
  \/ CreateProtected(h) \/ Approve(h) \/ Override(h) \/ Close(h)
  \/ Resume(h) \/ BeginExecution(h) \/ Consume(h) \/ Fails(h)

Next ==
  \/ \E a \in Approvals : Reads(a) \/ Expires(a)
  \/ \E h \in handlers : Proceeds(h)
  \/ \E enabled \in BOOLEAN : SetPolicy(enabled)
  \/ \E c \in Changes : ChangeMembership(c)
  \/ JoinOrganization

Spec == Init /\ [][Next]_vars

-----------------------------------------------------------------------------
\* The types of the tables and of what is in flight.
TypeOK ==
  /\ MembershipTypeOK
  /\ policy     \in [ version : Nat, enabled : BOOLEAN ]
  /\ deployment \in [ Approvals -> { "absent", "waiting_for_approval", "queued" } ]
  /\ approval   \in [ Approvals -> Request ]
  /\ late       \subseteq Approvals
  /\ handlers   \subseteq Handler
  /\ outdated   \subseteq Approvals

\* Concurrent votes are all counted: a request is pending as long as votes
\* are missing, and goes on with a quorum of different members or an override.
QuorumDecides ==
  \A a \in Approvals :
    /\ approval[a].state = "pending" => Cardinality(VotersOf(a)) < RequiredCount
    /\ approval[a].state = "approved" => Cardinality(VotersOf(a)) >= RequiredCount
    /\ deployment[a] = "queued" =>
         Cardinality(VotersOf(a)) >= RequiredCount \/ approval[a].overridden

\* A deployment is not resumed on a vote whose member was demoted, promoted
\* or removed, or under a policy that was edited, before the quorum was there.
NothingOutdatedResumes == \A a \in outdated : deployment[a] # "queued"

\* Rejected, expired, cancelled, invalidated and consumed requests are not
\* revived, whatever was in flight when they were closed.
NeverRevived ==
  [][ \A a \in Approvals :
        approval[a].state \in FinalStates => approval'[a] = approval[a] ]_vars

\* The reason the handler gives for an invalidation: "Deployment state
\* changed before execution".
InvalidatedMeansChanged ==
  \A a \in Approvals :
    approval[a].state = "invalidated" => deployment[a] # "waiting_for_approval"

\* "Pending approvals prevent removal or demotion of the last eligible
\* approver."
ApproverRemains ==
  \A a \in Pending : Cardinality({ u \in Users : Eligible(u) }) >= RequiredCount

\* The requests as MemoryApprovalStore would keep them.
StoredRequest(a) ==
  [ state |-> approval[a].state, approvals |-> VotersOf(a),
    override |-> IF approval[a].overridden THEN "given" ELSE "none" ]

InMemory == INSTANCE ApprovalRequests WITH
  Requests <- Approvals, Voters <- Users \ { Requester },
  item     <- [ a \in Approvals |-> StoredRequest(a) ],
  executed <- { a \in Approvals : deployment[a] = "queued" }

\* The store on PostgreSQL does what the in-memory one does: whatever is in
\* flight between its reads and its writes, each write is one call of decide,
\* override, cancel, invalidate, _expire or the execution of the action, on
\* the request as it is then; no one votes twice or on a request of his own.
ImplementsRequests == InMemory!Spec

=============================================================================
