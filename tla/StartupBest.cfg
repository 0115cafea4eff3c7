SPECIFICATION Spec
CONSTANTS
  s1 = s1
  s2 = s2
  s3 = s3
  SchedulerVec <- ThreeSchedulers
  Client = {c1, c2}
  NumTaskPerClient = 2
  NumAllTask = 4
  SubmitMode = "bestcase"
INVARIANTS
  TypeOK
  RegistrationBarrier
  ReceiptsCounted
  TasksRecvBarrier
CHECK_DEADLOCK FALSE
