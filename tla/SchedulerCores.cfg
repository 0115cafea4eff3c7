SPECIFICATION Spec
CONSTANTS
  s1 = s1
  s2 = s2
  s3 = s3
  a = a
  b = b
  c = c
  d = d
  None = None
  Sched = {s1, s2}
  Task = {a, b, c}
  Core = {k1, k2}
  Children <- FanOutChildren
  OutputSize <- FanOutSizes
  Submissions <- WorstCase
  DataSizeThreshold = 1
  WorkStealingOn = FALSE
  PollIntervalStart = 1
  PollIntervalUb = 1
  Policy = "MDL"
INVARIANT EveryTaskInOnePlace
