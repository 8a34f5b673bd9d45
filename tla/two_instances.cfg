\* Two instances poll the same tasks and hear of the same finishes; nothing fails.
CONSTANTS
  None = None
  o1 = o1
  o2 = o2
  t1 = t1
  t2 = t2

  Ops = {o1, o2}
  Tasks = {t1, t2}
  StoreKind = "sql"
  LeaseTime = 1
  MaxAge = 1
  RetryDelays <- NoRetry
  Creations = {"new"}
  Skips = {TRUE}
  NextActions = {"queue"}
  Retries <- NoRetryTask
  Period = 1
  Responses = {"running"}
  Results = {"completed"}
  MaxNotices = 2
  MaxCrashes = 0
  MaxFaults = 0
  CanDisable = FALSE
  CanDelete = FALSE
SPECIFICATION Spec
INVARIANT HealthyNotPastured
CHECK_DEADLOCK FALSE
