SPECIFICATION MCSpec
CONSTANTS
  Actors = {ann, bob}
  Models = {m1}
  Versions = {v1, v2}
  ApprovalIds = {a1}
  None = None
  Requests = {r1}
  JobIds = {j1, j2}
  MaxCalls = 10
  MaxRestarts = 1
  MaxCallsBeside = 2
  NumJobs = 2
  Retries = 1
  LookBack = 2
  LastTime = 4
  MaxSchedulerRestarts = 1
  MinInterval = 2
  Threshold = 3
  Periods = 2
  Window = 2
  Reports <- Limits
  Histories <- Weeks
  MaxDay = 3
  MaxTrainings = 3
SYMMETRY Symmetry
INVARIANT OneProductionPerModel
INVARIANT ProductionIsAudited
INVARIANT RequestTakesTwo
INVARIANT CacheAgreesWithStore
INVARIANT LoopIsBounded
INVARIANT OneRunPerFire
INVARIANT NothingLeftDue
CHECK_DEADLOCK FALSE
