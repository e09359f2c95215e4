SPECIFICATION Spec
CONSTANTS
 Deployments = {d1}
 Jobs = {d1}
 Rollbacks = {d1}
 ConcurrentBuilds = 1
 Workers = {w1}
 MaxAttempts = 2
 MaxStalledCount = 1
 MaxExecutions = 2
 MaxRetries = 0
 MaxDispatchers = 1
 Environment = {"crash", "lock expires", "stage throws", "request dies"}
CHECK_DEADLOCK FALSE
INVARIANTS DeliveredDigest
