SPECIFICATION Spec
CONSTANTS
  s1 = s1
  s2 = s2
  s3 = s3
  a = a
  b = b
  c = c
  d = d
  None = None
  Sched = {s1, s2}
  Task = {a, b}
  Core = {k1}
  Children <- Bag
  OutputSize <- NoOutput
  Submissions <- WorstCaseBag
  DataSizeThreshold = 1
  WorkStealingOn = TRUE
  PollIntervalStart = 1
  PollIntervalUb = 4
  Policy = "MLB"
INVARIANT StealsAtUpperBound
