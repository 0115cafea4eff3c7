SPECIFICATION FairSpec
CONSTANTS
  s1 = s1
  s2 = s2
  s3 = s3
  a = a
  b = b
  c = c
  d = d
  None = None
  Sched = {s1, s2}
  Task = {a, b, c}
  Core = {k1}
  Children <- FanInChildren
  OutputSize <- FanInSizes
  Submissions <- BothOrders
  DataSizeThreshold = 1
  WorkStealingOn = FALSE
  PollIntervalStart = 1
  PollIntervalUb = 1
  Policy = "MDL"
PROPERTIES
  CompletesDag
  EverySchedulerStops
