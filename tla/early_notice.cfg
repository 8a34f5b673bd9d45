\* The finish is announced before the answer of startJob; nothing fails.
CONSTANTS
  None = None
  o1 = o1
  o2 = o2
  t1 = t1
  t2 = t2

  Ops = {o1, o2}
  Tasks = {t1, t2}
  StoreKind = "sql"
  LeaseTime = 1
  MaxAge = 1
  RetryDelays <- OneRetry
  Creations = {"new"}
  Skips = {TRUE}
  NextActions = {"queue"}
  Retries <- NoRetryTask
  Period = 1
  Responses = {"running"}
  Results = {"completed"}
  MaxNotices = 1
  MaxCrashes = 0
  MaxFaults = 0
  CanDisable = FALSE
  CanDelete = FALSE
SPECIFICATION Spec
INVARIANT FinishIsAwaited
CHECK_DEADLOCK FALSE
