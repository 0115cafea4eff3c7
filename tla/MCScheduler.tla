---------------------------- MODULE MCScheduler ----------------------------
(***************************************************************************)
(* Small deployments of MatrixScheduler for TLC: two or three schedulers   *)
(* and the task graphs that make the threads of several schedulers meet.   *)
(***************************************************************************)
EXTENDS MatrixScheduler, TLC

CONSTANTS s1, s2, s3, a, b, c, d

\* Two parents on different schedulers, then two children of the pair.
JoinChildren == a :> {c, d} @@ b :> {c, d} @@ c :> {} @@ d :> {}

\* The output of a exceeds the threshold of 1 by itself, that of b does not.
JoinSizes == a :> 2 @@ b :> 1 @@ c :> 0 @@ d :> 0

\* submit_task_bc: task i goes to scheduler i modulo the number of schedulers.
BestCase == {s1 :> <<a, c>> @@ s2 :> <<b, d>>}

\* The client's own records: no output size, so no task is bound to its data.
NoOutput == [t \in Task |-> 0]

\* One join; submit_task_wc sends all tasks to one scheduler, the other steals.
FanInChildren == a :> {c} @@ b :> {c} @@ c :> {}
FanInSizes == a :> 2 @@ b :> 1 @@ c :> 0
BothOrders == {s1 :> <<a, c>> @@ s2 :> <<b>>, s1 :> <<c, a>> @@ s2 :> <<b>>}
WorstCase == {s1 :> <<a, b, c>> @@ s2 :> <<>>}

\* Independent tasks, all on one scheduler.
Bag == [t \in Task |-> {}]
WorstCaseBag == {s1 :> q @@ s2 :> <<>> : q \in {<<a, b>>, <<b, a>>}}

\* With both orders of submission nothing tells the tasks of a bag apart.
TaskSymmetry == Permutations(Task)

\* Two children bound to one producer: its local queue grows past one task.
FanOutChildren == a :> {b, c} @@ b :> {} @@ c :> {}
FanOutSizes == a :> 2 @@ b :> 0 @@ c :> 0

\* The same, and a task anybody may run: both ready queues of one scheduler
\* are in use.
TwoQueuesChildren == a :> {b, c} @@ b :> {} @@ c :> {} @@ d :> {}
TwoQueuesSizes == a :> 2 @@ b :> 0 @@ c :> 0 @@ d :> 0
WorstCaseFour == {[s \in Sched |-> IF s = s1 THEN <<a, b, c, d>> ELSE <<>>]}
=============================================================================
