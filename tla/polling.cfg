\* Two poll loops, two handlers with one retry, and a stop at any time.
CONSTANTS
  None = None
  p1 = p1
  p2 = p2
  w1 = w1
  w2 = w2
  Loops = {p1, p2}
  Workers = {w1, w2}
  PollTimes <- TwoTimes
  RetryDelays <- OneRetry
  WaitSeconds = 3
  MaxCallbacks = 4
SPECIFICATION FairSpec
INVARIANT PollingTypeOK
INVARIANT LoopContinues
INVARIANT QuietAfterResolve
INVARIANT StopInTime
PROPERTY StopDrains
PROPERTY StopSettles
PROPERTY PollsForever
PROPERTY HandlersSettle
