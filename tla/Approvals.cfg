SPECIFICATION Spec
CONSTANTS
 Users = {u1, u2, u3}
 Owners = {u1}
 Approvers = {}
 GrantedRoles = {"approver", "operator"}
 Changes = {c1}
 MaxChanges = 2
 Approvals = {a1}
 Requester = u1
 EligibleRoles = {"approver"}
 RequiredCount = 2
 NumericVersions = TRUE
 MaxPolicyVersion = 2
 MaxHandlers = 2
SYMMETRY Interchangeable
CHECK_DEADLOCK FALSE
INVARIANTS QuorumDecides NothingOutdatedResumes
PROPERTIES ImplementsRequests
