SPECIFICATION Spec
CONSTANTS
 Deployments = {d1}
 Jobs = {d1}
 Rollbacks = {}
 ConcurrentBuilds = 1
 Workers = {w1}
 MaxAttempts = 3
 MaxStalledCount = 2
 MaxExecutions = 3
 MaxRetries = 0
 MaxDispatchers = 1
 Environment = {"cancel"}
SYMMETRY Interchangeable
CHECK_DEADLOCK FALSE
INVARIANTS CancellationHasOwner
