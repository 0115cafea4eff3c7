SPECIFICATION Spec
CONSTANTS
  s1 = s1
  s2 = s2
  s3 = s3
  SchedulerVec <- TwoSchedulers
  Client = {c1}
  NumTaskPerClient = 2
  NumAllTask = 2
  SubmitMode = "bestcase"
INVARIANT NoTaskRefused
CHECK_DEADLOCK FALSE
