SPECIFICATION SpecEither
CONSTANTS
 Deployments = {d1, d2}
 Jobs = {d1, d2}
 Single = d1
 Rollbacks = {}
 ConcurrentBuilds = 1
 Workers = {w1, w2}
 MaxAttempts = 1
 MaxStalledCount = 1
 MaxExecutions = 2
 MaxRetries = 0
 MaxDispatchers = 0
 Environment = {"cancel", "lock loss", "stage throws", "revoke"}
SYMMETRY Interchangeable
CHECK_DEADLOCK FALSE
INVARIANTS BuildsWithinQuota SlotPerBuild OneSuccess
