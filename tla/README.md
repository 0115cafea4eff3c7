# MATRIX and ZHT: a TLA+ verification project

The repository collects several distributed programming systems. Its own
program is MATRIX v2 (`src/matrix/matrix/matrix_v2-master/matrix/src`), a
distributed scheduler that runs DAGs of tasks over a hash table, ZHT
(`.../ZHT/src`). This directory holds TLA+ models of MATRIX and of the part of
ZHT it relies on, the TLC configurations that check them, and TLAPS proofs.
Charm++, Legion, Sparrow, Swift, the Hadoop word count and the protocol buffer
libraries are upstream code that MATRIX does not call; they are listed in
`PROJECT.json` and not modelled.

Paths below are relative to `src/matrix/matrix/matrix_v2-master/`; `stub` is
`matrix/src/scheduler_stub.cpp`.

## 1. The system

| Part | State | Operations that change it | Talks to |
|---|---|---|---|
| Scheduler, worker threads (`stub`, `scheduler.cpp`) | wait, stealing (`wsQueue`), local and complete queue; `localData`; `running`; two counters of finished tasks; what each thread holds | `checking_ready_task`, `executing_task`, `checking_complete_task`, `recording_stat`, `workstealing`, `localQueue_monitor` | ZHT, other schedulers |
| Scheduler, server (`matrix_epoll_server.cpp`, `stub`) | the event queue | `recv_task_from_client`, `send_load`, `send_task`, `recv_pushing_task`, `send_data` | clients, other schedulers |
| Startup (`scheduler.cpp`, `util.cpp`) | ZHT counters "number of scheduler registered", "num tasks recv", "num tasks done" | `regist`, `wait_all_scheduler`, `wait_all_task_recv`, `fork_es_thread` | ZHT |
| Client (`client.cpp`, `client_stub.cpp`) | the batches left to send | `init_task`, `submit_task` (best and worst case), `do_monitoring` | ZHT, schedulers |
| Workload generators (`util.cpp`) | none (pure) | `gen_dag_adjlist`, `gen_dag_indegree`, ... | client |
| Codecs and framing (`util.cpp`, `matrix_tcp_proxy_stub.cpp`) | none (pure), socket buffers | `value_to_str`, `taskmsg_to_str`, `mm_to_str`, `send_big`, `recv_mul` | all |
| ZHT server (`ZHT/src/HTWorker.cpp`, `EpollServer.cpp`) | the table | lookup, insert, append, remove, compare_swap, state change callback | ZHT clients |
| ZHT storage NoVoHT (`ZHT/src/novoht.cpp`) | chains, log file | put, remove, append, resize, rewriting of the log | ZHT server |
| ZHT client (`ZHT/src/cpp_zhtclient.cpp`, ...) | socket cache | requests, split transfer of large messages | ZHT server |

What makes it hard:

* up to six kinds of threads per scheduler, four shared queues with a mutex
  each, and size tests outside the mutex;
* one process-wide `sockMutex`, held across whole requests to ZHT and to peers,
  taken while `numTaskFinMutex` is held;
* records in ZHT that several schedulers update with compare_swap on values
  they read earlier;
* tasks that move between processes: stolen, pushed to their data, or migrated
  between queues by a monitor; nobody keeps a copy while a task travels;
* termination decided by one shared counter to which every scheduler adds
  differences it computed earlier;
* startup barriers on records that are created while others already poll them.

`PROJECT.json` lists the hazards line by line with the properties that cover
them, or the reason why none does yet.

## 2. Modules

| Module | Models |
|---|---|
| `MatrixScheduler` | All schedulers from the opening of the task barrier to the end: worker threads, server requests, the ZHT records and the counter they share. |
| `DagExecution` | The abstract promise: every task of the DAG is run once, by one scheduler, after its parents; all of them are run. `MatrixScheduler` implements it under the mapping `Dag`: a task is started when an executing thread holds it and finished when its output is in `localData`. |
| `Startup` | Registration, both barriers, opening of the servers, submission by the clients. Its final states are the initial states (`Submissions`) of `MatrixScheduler`. |
| `MCScheduler`, `MCStartup` | Task graphs, submissions and membership lists for TLC. |
| `MatrixSchedulerProofs` | Type correctness, what every step leaves alone and what it does, progress of the records. |
| `SchedulerDataProofs` | Every input is where its record says. |
| `TaskPlacesProofs` | No task is lost or duplicated. |

### MatrixScheduler and the code

Each thread is a record with a program point; an action is one critical
section, one ZHT request or one request to a peer.

| Code | Actions | Program points |
|---|---|---|
| `checking_ready_task`, `check_a_ready_task`, `task_ready_process` | `CheckNotReady`, `CheckReady`, `ReadyToSteal`, `ReadyLocal`, `PushTask`, `CrtExit` | `crt`: idle, ready, push, exit |
| `recv_pushing_task` (server) | `RecvPushingTask` | |
| `executing_task`, `exec_a_task` | `ExecChoose`, `ExecPopLocal`, `ExecPopWs`, `ExecLookup`, `FetchHere`, `RequireData`, `ReceiveData`, `ExecRun`, `ExecComplete`, `ExecCount`, `ExecExit` | `exec`: idle, local, ws, lookup, fetch, recv, stored, count, exit |
| `checking_complete_task`, `notify_children` | `CctPop`, `CctLookupChild`, `CctSwap`, `CctRetry`, `CctExit` | `cct`: idle, notify, swap, retry, exit |
| `recording_stat` | `RsLookup`, `RsLock`, `RsAdd`, `RsRetry` | `rs`: poll, lock, add, retry, exit |
| `workstealing`, `choose_neigh`, `find_most_loaded_neigh`, `steal_task`, `recv_task_from_scheduler`; `send_load`, `send_task` (server) | `WsEnter`, `WsStart`, `WsQuery`, `WsNothing`, `WsSteal`, `WsReceive`, `WsReset`, `WsExit` | `ws`: head, idle, query, recv, exit |
| `localQueue_monitor` | `LqmTake`, `LqmPut` | `lqm`: the private vector |

Decisions a reader may want to question:

* `sockMutex` is the predicate `SockFree`: a thread that is inside an exchange
  (push, recv, retry) holds it, and an exchange that is one step needs it free.
  The build has no optimisation (`-g`), so `running`, which is not atomic, is
  really read again in every loop.
* ZHT serves requests with one thread, so lookup, insert and compare_swap are
  one step each.
* A ready queue is a set: `HighPriorityByDataSize` orders it by data length,
  smallest on top. `PopsFirst` allows every order of equal lengths. In the same
  way `MaxInputs` allows every input of the largest size, because the order of
  the parallel lists depends on which parent was faster.
* The inputs of a task are fetched in any order; the code uses the list order,
  which is itself arbitrary.
* `crt`, `exec` and `cct` may exit whenever `running` is cleared. The code also
  tests that its queue is empty, but before or after the flag and without the
  mutex; `StopOnlyWhenFinished` shows that the test makes no difference.
* A stealing thread tests `running` only at the head of its outer loop (`head`),
  which it reaches when it finds ready tasks of its own, and leaves for good
  when the interval reaches its bound. A thread that keeps stealing does not
  look at the flag.
* `RsLock` separates the two mutexes of `recording_stat`: from there to the end
  of the report no executing thread can count a task.
* `localQueue_monitor` computes how many tasks fit from the measured
  throughput; the model lets any non-empty proper part remain. The thread
  exists under the policy `FLWS`, the name `scheduler.cpp:46` compares with;
  `README.md:122` calls the policy FLDS.
* `outputsize` is a field of the task record. The generators of the repository
  never set it, and then no task is bound to its data; the data-aware paths are
  exercised with records that carry one.
* A task message is its identifier: the other fields do not change after
  submission, except the data length, which `DataLength` computes from the
  final record.
* Some actions merge steps of the code. `PushTask` and `RequireData` test the
  cache and take `sockMutex` at once, and `ReceiveData` releases `sockMutex` and
  caches the data at once. In the code a copy may be cached between such a test
  and the request; the task is then pushed to the producer, or the data fetched
  again under the same name, although a copy is here. Both are exchanges the
  model has, only with an empty cache. `RecvPushingTask` is the push at the
  receiver together with the acknowledgement; in the code the pusher holds
  `sockMutex` a little longer. A load query is always answered (`WsQuery`).
* Left out: the status record for display and the timing log (no scheduler
  reads them), the sleep of the monitor, failed connections between schedulers
  (a failed `send_first` in a push, a data request, a load query or a steal:
  stub 843, 655, 449 and 531). A push that fails loses its task in the code, so
  what is said below about tasks holds as long as connections do not fail.

### Startup and the code

`InsertRecords`, `LookupRegistered` and `SwapRegistered` are `regist`;
`WaitAllScheduler` and `WaitAllTaskRecv` the barriers in `util.cpp`;
`ForkServer` and `Listen` the start of the epoll server; `RecvTasks`,
`LookupRecv` and `SwapRecv` are `recv_task_from_client`; `ClientWait`,
`SubmitBatch` and `ClientMonitor` the client. Tasks are only counted. A missing
record reads as 0 (`str_to_num` of an empty string), and compare_swap of a
missing key fails, because the request carries `^` for an empty value and the
server compares it with the empty one. A poll that sees nothing new is no step.
`ClientWait` includes the inserts of the client's task records, which nobody
reads before the client submits; `RecvTasks` queues the packages of one batch
together, since they are counted together afterwards. `TypeOK` gives every
counter its range (registrations, receipts, queued tasks), not just its type.

## 3. Model checking

| Run | Instance | Checks |
|---|---|---|
| `sched_data` | 2 schedulers, 4 tasks, two joins over data above the threshold | `TypeOK`, `EveryTaskInOnePlace`, `ReadyAfterParents`, `NoLostNotification`, `InputsAvailable`, `StopOnlyWhenFinished`, `EveryFinishCountedOnce`, `RecordsOnlyProgress`, refinement `RunsDag` |
| `sched_steal` | 2 schedulers, 2 tasks submitted to one of them, interval 1, 2, 4 | `EveryTaskInOnePlace`, `RunsDag` |
| `sched_cores` | 2 schedulers with 2 executing threads, a task with two children: unlocked size tests, then a race for the mutex | `EveryTaskInOnePlace` |
| `sched_monitor` | policy FLWS without stealing, 1 scheduler with 2 executing threads, a task with two children that read its large output (local queue) and an independent task (stealing queue), fairness | `EveryTaskInOnePlace`, `CompletesDag` |
| `sched_live` | 2 schedulers, a join, both orders in the wait queue, fairness | `CompletesDag`, `EverySchedulerStops` |
| `startup_barriers` | 3 schedulers, 2 clients, best case | `TypeOK`, `RegistrationBarrier`, `ReceiptsCounted`, `TasksRecvBarrier` |
| `startup_live` | 2 schedulers, 2 clients, worst case, fairness | `TasksRecvBarrier`, `EverySchedulerStarts` |

`EveryFinishCountedOnce` is the conservation law behind termination: finished
tasks = shared count + differences not yet reported + tasks a thread has still
to count. It is checked where two schedulers report at once, so that reports
fail, are computed again and are given up. Concurrent notifications of one child
(`NoLostNotification`) are checked in `sched_data` only, where a child has two
parents on two schedulers. `sched_steal` has no edges: there `RunsDag` says that
no task is run twice, and that tasks run after their parents is checked in
`sched_data`.

Three runs show a disagreement between the code and its comments:

* `startup_refused`: the comment on `regist` says that registration ensures
  "that all the schedulers are running"; a client can get through the barrier
  before a server listens, and `submit_task_wc` then drops the batch.
* `steal_load`: the comment in `send_task` defines the load as ready tasks minus
  idle cores; the code halves the number of ready tasks.
* `steal_bound`: the comment on `workstealing` says a scheduler steals when the
  interval has reached its upper bound; the code stops stealing then.

Bounds. Two schedulers are enough for every exchange between a scheduler and a
peer, and for two parents to race for one record; four tasks give two joins and
therefore two records with two concurrent writers. The stealing instance has
two tasks because half of one task is none: the thief gets a task only while
the victim has both, and an empty answer otherwise. The interval bound of 4
lets it fail twice and leave. Its tasks have no edges and no data and are
submitted in either order, so they are interchangeable and the run uses that
symmetry. With two schedulers a thief asks one neighbour;
three schedulers (two neighbours) are planned. A deadlock is checked in all
scheduler runs; in `Startup` everyone polls at the end, so the check is off.

Fairness. Every thread is scheduled (the operating system does that), and a
thread that waits for `sockMutex` again and again is granted it now and then:
strong fairness per thread, since other threads take and release the mutex in
between. The monitor owes weak fairness of `LqmPut` only. Liveness with work
stealing is not checked: the state space is too large for TLC. The monitor is
checked on one scheduler for the same reason; what it touches (two queues that
the executing threads take from) is local to a scheduler. That a migrated task
is stolen afterwards is not in that run; the proofs of section 4 cover stealing
and migration together.

Each property is also checked against a mutant of the code (`PROJECT.json`),
written next to the action it changes: a dropped task, an unconditional insert
instead of compare_swap, a failed report taken for a report, and so on.

## 4. Proofs

The proofs take one named assumption about the constants,
`SchedulerAssumption`: finite non-empty sets, `None` is neither a task nor a
scheduler, thread names differ from the names of the queues, sizes are natural
numbers, and every task was received exactly once (what `Startup` ends with).
The number of schedulers, threads and tasks and the DAG are arbitrary.

They also rest on what the model leaves out (section 2): connections between
schedulers do not fail, and neither do schedulers. `NoTaskLostOrDuplicated`, and
`EveryTaskInOnePlace` in the runs, depend on it most: `task_ready_process` treats
a push whose connection failed like one that was acknowledged (stub 843), and
that task would be in no queue.

| Theorem | States |
|---|---|
| `TypeCorrect` | `Spec => []TypeOK` |
| `RecordsProgress` | `Spec => RecordsOnlyProgress` |
| `InputsAlwaysAvailable` | `Spec => []InputsAvailable` |
| `NoTaskLostOrDuplicated` | `Spec => []EveryTaskInOnePlace` |

* `TypeOK` is not inductive: `CctSwap` writes a record under the name
  `cct[s].child`, which has to be a task at that point. `Typed` adds, per
  thread, what it holds at each program point (`CrtOK`, `ExecOK`, `CctOK`,
  `WsOK`). One lemma per thread shows that its steps keep `Typed`.
* `Frames` and the lemmas named `...Effect` restate every step without record
  updates; later proofs use them instead of the definitions of the actions.
* `RecordsOnlyProgress` follows because only `CctSwap` writes a record
  (`RecordStep`), and only over the value it is built on.
* `InputsAvailable` needs the way an output takes: it is stored before its item
  is queued (`ExecData`), the item keeps naming it in the queue and in the
  notifier (`QueuedItems`, `NotifierItem`), the record gets it from there
  (`RecordInputs`), and `localData` only grows (`LocalDataGrows`). `DataInv` is
  the conjunction.
* `EveryTaskInOnePlace` is split into `OnePlace` (one scheduler and one kind of
  place) and `NoRepeats` (no wait queue lists a task twice). Every step leaves
  all places alone (`StayOnePlace`) or moves a set of tasks from one place to
  another (`Moves`, `MoveOnePlace`); one lemma per thread says which. It needs
  `DataInv`: a task counts as done when its output is stored and no thread holds
  it, so a thread that lets go of a task must have stored its output, and a
  fetched copy must carry the name of another scheduler.

Out of the prover's reach and left to TLC: liveness, and the two properties of
the shared count (`EveryFinishCountedOnce`, `StopOnlyWhenFinished`), which need
induction over a sum.

## 5. What is modelled and what is not

Modelled: the schedulers and the startup. Partly: the ZHT operations the
schedulers use (one atomic step each), the epoll server (one request at a
time), the configuration (the CONSTANTS), the client's monitoring (it only
polls). Not modelled yet: section 6. Not modelled for good: generated protocol
buffer code, transports that are not part of the build, upstream systems.

## 6. Plan

1. `MatrixScheduler`: a failed connection during a push, a steal or a data
   request; stealing with three schedulers.
2. `ZHT`: lookup, insert, append, remove, compare_swap and the state change
   callback of `HTWorker`, with a client whose reply is lost and who tries
   again; refinement of an atomic map.
3. `NoVoHT`: put, remove, append, resize, the log and its rewriting, crash and
   restart; the table after a restart against an abstract map.
4. `DagGenerators`: `gen_dag_adjlist` and `gen_dag_indegree` against a reference
   definition over bounded arguments.
5. `Codecs` and framing: the token formats of `Value`, `TaskMsg` and
   `MatrixMsg`, integer widths, `send_big` and `recv_mul`.
6. Proofs: `NoLostNotification`, `ReadyAfterParents` and
   the refinement `RunsDag` for every instance; the barriers of `Startup`.
