SPECIFICATION ServicesSpec
CONSTANTS
 Users = {u1, u2, u3}
 Owners = {u1, u2}
 Approvers = {}
 GrantedRoles = {"owner", "viewer"}
 Changes = {p1, p2}
 MaxChanges = 2
 AuditWriters = {p1, p2}
 AuditKeys = {k1}
 KeyVersions = {1, 2}
 MaxRetention = 1
 MaxAppends = 2
 Operations = {o1, o2}
 Admissions = {o1}
 QuotaClients = {p1, p2}
 PlanLimits = {1, 2}
 Ttl = 1
 MaxQuotaTime = 1
 Plans <- MCPlans
 OverrideValues = {2}
 MaxSubTime = 3
 MaxAssignments = 3
 MaxOverrides = 1
 Sources = {d1}
 Corrections = {x1}
 LedgerClients = {p1, p2}
 Quantities = {1}
 MaxLedgerTime = 1
 References = {r1}
 SecretClients = {p1, p2}
 MaxSecretVersion = 3
 MaxAttachments = 1
 Protected = {TRUE, FALSE}
 MaxRenewals = 2
 MaxClaims = 2
 PrEvents <- MCPrEvents
 PrCommits = {"c1", "c2"}
 ManualKeys = {m1}
 PrHandlers = {p1, p2}
 Cleaners = {j1}
 MaxPreviews = 2
 StreamIds = {p1, p2}
 ChunkSizes = {1}
 MaxLogBytes = 1
 MaxStreams = 1
 PageSize = 1
 MaxEvents = 3
 Pages = {z1, z2}
 DurableStore = FALSE
 MaxDraftVersion = 3
 MaxEdits = 1
 Members = {z1, z2}
 ExceptionCalls = {p1, p2}
 Windows <- MCWindows
 MaxExceptionTime = 2
 Tenants = {z1, z2}
 Hooks <- MCHooks
 HookHandlers = {f1}
 GitRequests = {f1}
 Claims = {z1, z2}
 DomainRequests = {p1, p2}
SYMMETRY Interchangeable
CHECK_DEADLOCK FALSE
INVARIANTS ServicesTypeOK LastOwner AuditVerifies EffectsAudited WithinLimit NeverWithoutPlan CountedOnce DeploysConfirmed NothingOutdatedRuns RevisionsDeployed ClosingHasJob ShownInOrder SlotsCounted NothingOverwritten InForce ReportedOnce TenantsApart ActiveWasProven
PROPERTIES ImplementsDirectory ImplementsAuditLog DisconnectedForGood
