\* Handlers that finish within the lease time, a crash, a store call that is rejected or
\* whose answer is lost, a user who disables the schedule, finish notices delivered twice.
CONSTANTS
  None = None
  o1 = o1
  o2 = o2
  o3 = o3
  t1 = t1
  t2 = t2
  Ops = {o1, o2, o3}
  Tasks = {t1, t2}
  StoreKind = "sql"
  LeaseTime = 1
  MaxAge = 1
  RetryDelays <- OneRetry
  Creations = {"finish"}
  Skips = {FALSE}
  NextActions = {"queue","disable","invalid"}
  Retries <- NoRetryTask
  Period = 1
  Responses = {"running", "did-not-start", "rejected"}
  Results = {"completed"}
  MaxNotices = 2
  MaxCrashes = 1
  MaxFaults = 1
  CanDisable = TRUE
  CanDelete = FALSE
SPECIFICATION Spec
SYMMETRY Names
INVARIANT TypeOK
INVARIANT LeaseExclusive
PROPERTY TasksChangeUnderLease
PROPERTY LeaseIsLock
