SPECIFICATION Spec
CONSTANTS
 Users = {u1, u2, u3}
 Owners = {u1}
 Approvers = {u2, u3}
 GrantedRoles = {"approver", "operator"}
 Changes = {c1, c2}
 MaxChanges = 2
 Approvals = {a1}
 Requester = u1
 EligibleRoles = {"approver"}
 RequiredCount = 1
 NumericVersions = TRUE
 MaxPolicyVersion = 1
 MaxHandlers = 2
CHECK_DEADLOCK FALSE
INVARIANTS ApproverRemains
