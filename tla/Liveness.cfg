SPECIFICATION LivenessSpec
CONSTANTS
 Deployments = {d1}
 Jobs = {d1}
 Rollbacks = {}
 ConcurrentBuilds = 1
 Workers = {w1}
 MaxAttempts = 2
 MaxStalledCount = 1
 MaxExecutions = 2
 MaxRetries = 0
 MaxDispatchers = 1
 Environment = {"request dies", "dispatcher dies", "stage throws", "revoke"}
 Validators = {v1, v2}
 Admins = {a1}
 MaxValidations = 2
 MaxVersion = 3
 ClockSkews <- MCSkews
 StreamIds = {s1}
 ChunkSizes = {1, 2}
 MaxLogBytes = 1
 MaxStreams = 1
 PageSize = 1
 MaxEvents = 3
CHECK_DEADLOCK FALSE
INVARIANTS WakeUpPending ActiveMeansValidated
PROPERTIES JobSettles SlotReleased RecoversOnlyStale ValidationEnds ViewerStops
