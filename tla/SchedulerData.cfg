SPECIFICATION Spec
CONSTANTS
  s1 = s1
  s2 = s2
  s3 = s3
  a = a
  b = b
  c = c
  d = d
  None = None
  Sched = {s1, s2}
  Task = {a, b, c, d}
  Core = {k1}
  Children <- JoinChildren
  OutputSize <- JoinSizes
  Submissions <- BestCase
  DataSizeThreshold = 1
  WorkStealingOn = FALSE
  PollIntervalStart = 1
  PollIntervalUb = 1
  Policy = "MDL"
INVARIANTS
  TypeOK
  EveryTaskInOnePlace
  ReadyAfterParents
  NoLostNotification
  InputsAvailable
  StopOnlyWhenFinished
  EveryFinishCountedOnce
PROPERTIES
  RecordsOnlyProgress
  RunsDag
