\* Handlers that outlive their lease and are overtaken by repairs, a crash, and one
\* store call that is rejected or whose answer is lost.
CONSTANTS
  None = None
  o1 = o1
  o2 = o2
  o3 = o3
  t1 = t1


  Ops = {o1, o2, o3}
  Tasks = {t1}
  StoreKind = "sql"
  LeaseTime = 1
  MaxAge = 2
  RetryDelays <- OneRetry
  Creations = {"finish"}
  Skips = {TRUE}
  NextActions = {"queue"}
  Retries <- NoRetryTask
  Period = 1
  Responses = {"running", "completed", "rejected"}
  Results = {"completed", "failed"}
  MaxNotices = 1
  MaxCrashes = 1
  MaxFaults = 1
  CanDisable = FALSE
  CanDelete = TRUE
SPECIFICATION Spec
SYMMETRY Names
INVARIANT StartedOnce
INVARIANT RecordIsTrue
PROPERTY TasksKeepTheirLife
CHECK_DEADLOCK FALSE
PROPERTY HandlersAdvance
