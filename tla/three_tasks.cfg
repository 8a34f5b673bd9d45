\* A schedule whose tasks retry and follow up on each other, with three task names,
\* always-skip and crashes. Finished tasks are deleted, and their names used again.
CONSTANTS
  None = None
  o1 = o1
  o2 = o2
  t1 = t1
  t2 = t2
  t3 = t3

  Ops = {o1, o2}
  Tasks = {t1, t2, t3}
  StoreKind = "sql"
  LeaseTime = 1
  MaxAge = 1
  RetryDelays <- OneRetry
  Creations = {"start","finish"}
  Skips = {TRUE}
  NextActions = {"queue"}
  Retries <- RetryTask
  Period = 1
  Responses = {"running", "completed", "failed", "unknown", "rejected"}
  Results = {"completed", "failed", "unknown"}
  MaxNotices = 1
  MaxCrashes = 2
  MaxFaults = 0
  CanDisable = FALSE
  CanDelete = TRUE
SPECIFICATION Spec
SYMMETRY Names
INVARIANT AtMostOnePending
INVARIANT NoOverlap
PROPERTY TasksKeepTheirLife
