SPECIFICATION Spec
CONSTANTS
 Deployments = {d1}
 Jobs = {d1}
 Rollbacks = {}
 ConcurrentBuilds = 1
 Workers = {w1, w2}
 MaxAttempts = 2
 MaxStalledCount = 1
 MaxExecutions = 3
 MaxRetries = 0
 MaxDispatchers = 0
 Environment = {"cancel", "crash", "stage throws", "store throws", "revoke"}
SYMMETRY Interchangeable
CHECK_DEADLOCK FALSE
INVARIANTS TypeOK OneExecution DeliveredDigest
PROPERTIES AppliesInTurn ImplementsLifecycle
