----------------------------- MODULE Membership -----------------------------
(***************************************************************************)
(* The members of one organization: PATCH, DELETE and POST memberships.    *)
(*                                                                         *)
(* A change of a role and a removal are transactions of several statements *)
(* that lock rows with SELECT ... FOR UPDATE: the target's first and, when *)
(* an owner would be lost, then those of the owners one after the other.   *)
(* A statement that waited for a lock sees the row as it is then.          *)
(***************************************************************************)
EXTENDS Integers, FiniteSets

CONSTANTS
  Users,
  Owners, Approvers,   \* members that the organization starts with
  GrantedRoles,        \* the roles that requests assign
  Changes,             \* names of concurrent PATCH and DELETE requests
  MaxChanges           \* bound: changes of membership rows

\* The roles that matter here, and "none" for a user without a row.
ROLES == { "owner", "admin", "security_admin", "platform_engineer", "operator",
           "developer", "approver", "auditor", "viewer" }

ASSUME MembershipAssumption ==
  /\ IsFiniteSet(Users)
  /\ Owners \subseteq Users /\ Owners # {}
  /\ Approvers \subseteq Users \ Owners
  /\ GrantedRoles \subseteq ROLES
  /\ MaxChanges \in Nat

VARIABLES
  role, active,   \* organization_members.role, .status = 'active'
  version,        \* .version and .authorization_version, that move together
  change          \* what each PATCH or DELETE request does

membershipVars == << role, active, version, change >>

\* Who has which permission: ROLE_PERMISSIONS.
Permits(permission) ==
  CASE permission = "membership:assign"      -> { "owner", "admin" }
    [] permission = "approval:request"       ->
         { "owner", "admin", "platform_engineer", "developer", "operator" }
    [] permission = "deployment:production"  ->
         { "owner", "admin", "platform_engineer", "operator" }
    [] permission = "policy:read"            ->
         { "owner", "admin", "security_admin", "approver", "auditor" }
    [] permission = "approval:decide"        -> { "owner", "approver" }
    [] permission = "approval:override"      -> { "owner" }
    [] permission = "approval_policy:manage" -> { "owner", "security_admin" }

\* requireAccess.
Allowed(u, permission) == active[u] /\ role[u] \in Permits(permission)

ActiveOwners == { u \in Users : active[u] /\ role[u] = "owner" }

-----------------------------------------------------------------------------
(***************************************************************************)
(* A change: whom it is about, the role it assigns or "removed", the       *)
(* version its client saw, the rows it has locked, the owners' rows it has *)
(* yet to lock and those that it found to be owners.                       *)
(***************************************************************************)
NoChange == [ phase |-> "idle", target |-> CHOOSE u \in Users : TRUE, to |-> "removed",
              expected |-> 0, held |-> {}, unread |-> {}, found |-> {} ]

ChangeType == [ phase : { "idle", "target", "owners", "update" }, target : Users,
                to : GrantedRoles \union { "removed" }, expected : Nat,
                held : SUBSET Users, unread : SUBSET Users, found : SUBSET Users ]

MembershipInit ==
  /\ role    = [ u \in Users |-> IF u \in Owners THEN "owner"
                                 ELSE IF u \in Approvers THEN "approver" ELSE "none" ]
  /\ active  = [ u \in Users |-> u \in Owners \union Approvers ]
  /\ version = [ u \in Users |-> 1 ]
  /\ change  = [ c \in Changes |-> NoChange ]

End(c) == change' = [ change EXCEPT ![c] = NoChange ]

Lockable(c, u) == \A b \in Changes \ { c } : u \notin change[b].held

\* The checks that the handlers make before they open a transaction.
BeginChange(c, u, to) ==
  /\ change[c].phase = "idle"
  /\ role[u] # "none"
  /\ \E actor \in Users :
       /\ Allowed(actor, "membership:assign")
       /\ to # "removed" => actor # u
       /\ to = "owner" => role[actor] = "owner"
  /\ change' = [ change EXCEPT ![c] =
       [ NoChange EXCEPT !.phase = "target", !.target = u, !.to = to, !.expected = version[u] ] ]
  /\ UNCHANGED << role, active, version >>

LosesOwner(c) == role[change[c].target] = "owner" /\ change[c].to # "owner"

\* removeMembership looks at status and version here, assignRole does not.
LockTarget(c) ==
  LET u == change[c].target
  IN /\ change[c].phase = "target"
     /\ Lockable(c, u)
     /\ IF change[c].to = "removed" /\ (~active[u] \/ version[u] # change[c].expected)
        THEN End(c)
        ELSE change' = [ change EXCEPT
               ![c].phase  = IF LosesOwner(c) THEN "owners" ELSE "update",
               ![c].held   = { u },
               ![c].unread = IF LosesOwner(c) THEN ActiveOwners ELSE {} ]
     /\ UNCHANGED << role, active, version >>

\* Mutant: the owners are counted without locking them.
ReadOwner(c) ==
  /\ change[c].phase = "owners"
  /\ \E u \in change[c].unread :
       change' = [ change EXCEPT ![c].unread = @ \ { u },
                                 ![c].found = @ \union ({ u } \intersect ActiveOwners) ]
  /\ UNCHANGED << role, active, version >>

LockOwner(c) ==
  /\ change[c].phase = "owners"
  /\ \E u \in change[c].unread :
       /\ Lockable(c, u)
       /\ change' = [ change EXCEPT ![c].unread = @ \ { u },
                                    ![c].held = @ \union { u },
                                    ![c].found = @ \union ({ u } \intersect ActiveOwners) ]
  /\ UNCHANGED << role, active, version >>

\* The final active owner stays.
CountOwners(c) ==
  /\ change[c].phase = "owners"
  /\ change[c].unread = {}
  /\ IF Cardinality(change[c].found) <= 1 THEN End(c)
     ELSE change' = [ change EXCEPT ![c].phase = "update" ]
  /\ UNCHANGED << role, active, version >>

\* The UPDATE and the COMMIT.
Commits(c) ==
  /\ change[c].phase = "update"
  /\ version[change[c].target] = change[c].expected
  /\ Cardinality({ x \in Users \X (1..MaxChanges) : x[2] < version[x[1]] }) < MaxChanges

UpdateMember(c) ==
  LET u  == change[c].target
      to == change[c].to
  IN /\ Commits(c)
     /\ role'    = IF to = "removed" THEN role ELSE [ role EXCEPT ![u] = to ]
     /\ active'  = IF to = "removed" THEN [ active EXCEPT ![u] = FALSE ] ELSE active
     /\ version' = [ version EXCEPT ![u] = @ + 1 ]
     /\ End(c)

\* A rollback: a version conflict, a deadlock's victim, a process that dies.
Abort(c) ==
  /\ change[c].phase # "idle"
  /\ End(c)
  /\ UNCHANGED << role, active, version >>

\* addMembership.
AddMember(u, to) ==
  /\ role[u] = "none"
  /\ \E actor \in Users :
       /\ Allowed(actor, "membership:assign")
       /\ to \in { "owner", "admin", "security_admin" } => role[actor] = "owner"
  /\ role'   = [ role EXCEPT ![u] = to ]
  /\ active' = [ active EXCEPT ![u] = TRUE ]
  /\ UNCHANGED << version, change >>

-----------------------------------------------------------------------------
ChangeStep(c) ==
  \/ \E u \in Users, to \in GrantedRoles \union { "removed" } : BeginChange(c, u, to)
  \/ LockTarget(c) \/ LockOwner(c) \/ CountOwners(c) \/ UpdateMember(c) \/ Abort(c)

MembershipNext ==
  \/ \E c \in Changes : ChangeStep(c)
  \/ \E u \in Users, to \in GrantedRoles : AddMember(u, to)

MembershipSpec == MembershipInit /\ [][MembershipNext]_membershipVars

-----------------------------------------------------------------------------
\* The types of the rows and of the changes under way.
MembershipTypeOK ==
  /\ role    \in [ Users -> ROLES \union { "none" } ]
  /\ active  \in [ Users -> BOOLEAN ]
  /\ version \in [ Users -> Nat ]
  /\ change  \in [ Changes -> ChangeType ]

\* An organization keeps an active owner, whoever demotes and removes
\* whom at the same time.
LastOwner == ActiveOwners # {}

Directory == INSTANCE MemberDirectory

\* The transactions with their locks do what the in-memory repository does in
\* one step: a row is written as if nobody else had counted or written since.
ImplementsDirectory == Directory!Spec

=============================================================================
