\* Every lease comes to an end and every due task is taken up, with a handler that dies.
CONSTANTS
  None = None
  o1 = o1
  o2 = o2
  t1 = t1
  t2 = t2

  Ops = {o1, o2}
  Tasks = {t1, t2}
  StoreKind = "sql"
  LeaseTime = 1
  MaxAge = 1
  RetryDelays <- NoRetry
  Creations = {"finish"}
  Skips = {TRUE}
  NextActions = {"queue"}
  Retries <- NoRetryTask
  Period = 1
  Responses = {"running", "rejected"}
  Results = {"completed"}
  MaxNotices = 1
  MaxCrashes = 1
  MaxFaults = 0
  CanDisable = FALSE
  CanDelete = FALSE
SPECIFICATION FairSpec
PROPERTY LeaseReleased
PROPERTY DueTaskTaken
