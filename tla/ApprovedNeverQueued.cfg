SPECIFICATION Spec
CONSTANTS
 Users = {u1, u2, u3}
 Owners = {u1}
 Approvers = {u2}
 GrantedRoles = {"approver", "operator"}
 Changes = {c1}
 MaxChanges = 2
 Approvals = {a1}
 Requester = u1
 EligibleRoles = {"approver"}
 RequiredCount = 2
 NumericVersions = FALSE
 MaxPolicyVersion = 2
 MaxHandlers = 2
CHECK_DEADLOCK FALSE
INVARIANTS InvalidatedMeansChanged
