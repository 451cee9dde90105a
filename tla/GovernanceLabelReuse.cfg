SPECIFICATION Spec
CONSTANTS
  Callers = {c1}
  ActorTypes = {"service"}
  Versions = {v1}
  Requests = {r1, r2}
  Params = {p1, p2}
  ValidParams = {p1, p2}
  ApprovalIds = {a1}
  None = None
  MaxRuns = 0
  MaxCrashes = 0
INVARIANT ValidatedMeansDerived
CHECK_DEADLOCK FALSE
