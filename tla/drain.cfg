\* A stop while a handler that a poll began is at work.
CONSTANTS
  None = None
  p1 = p1
  p2 = p2
  w1 = w1
  w2 = w2
  Loops = {p1, p2}
  Workers = {w1, w2}
  PollTimes <- TwoTimes
  RetryDelays <- OneRetry
  WaitSeconds = 3
  MaxCallbacks = 4
SPECIFICATION Spec
PROPERTY DrainedWhenResolved
