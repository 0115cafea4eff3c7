SPECIFICATION FairSpec
CONSTANTS
  s1 = s1
  s2 = s2
  s3 = s3
  a = a
  b = b
  c = c
  d = d
  None = None
  Sched = {s1}
  Task = {a, b, c, d}
  Core = {k1, k2}
  Children <- TwoQueuesChildren
  OutputSize <- TwoQueuesSizes
  Submissions <- WorstCaseFour
  DataSizeThreshold = 1
  WorkStealingOn = FALSE
  PollIntervalStart = 1
  PollIntervalUb = 1
  Policy = "FLWS"
INVARIANTS
  EveryTaskInOnePlace
PROPERTY CompletesDag
