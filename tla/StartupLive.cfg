SPECIFICATION Spec
CONSTANTS
  s1 = s1
  s2 = s2
  s3 = s3
  SchedulerVec <- TwoSchedulers
  Client = {c1, c2}
  NumTaskPerClient = 1
  NumAllTask = 2
  SubmitMode = "worstcase"
INVARIANT TasksRecvBarrier
PROPERTY EverySchedulerStarts
CHECK_DEADLOCK FALSE
