SPECIFICATION Spec
CONSTANTS
 Deployments = {d1}
 Jobs = {d1}
 Rollbacks = {}
 ConcurrentBuilds = 1
 Workers = {w1}
 MaxAttempts = 3
 MaxStalledCount = 2
 MaxExecutions = 3
 MaxRetries = 1
 MaxDispatchers = 1
 Environment = {"stage throws", "retry"}
SYMMETRY Interchangeable
CHECK_DEADLOCK FALSE
INVARIANTS DeliveredMeansQueued
