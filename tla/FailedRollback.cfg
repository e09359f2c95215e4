SPECIFICATION Spec
CONSTANTS
 Deployments = {d1}
 Jobs = {d1}
 Rollbacks = {d1}
 ConcurrentBuilds = 1
 Workers = {w1}
 MaxAttempts = 3
 MaxStalledCount = 2
 MaxExecutions = 3
 MaxRetries = 0
 MaxDispatchers = 1
 Environment = {"stage throws"}
SYMMETRY Interchangeable
CHECK_DEADLOCK FALSE
INVARIANTS RollbackNeverBuilds
