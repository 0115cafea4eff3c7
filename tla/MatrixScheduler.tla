-------------------------- MODULE MatrixScheduler --------------------------
(***************************************************************************)
(* The MATRIX schedulers from the moment the barrier wait_all_task_recv    *)
(* opens: every task sits in one wait queue and its record is in ZHT.  A   *)
(* scheduler is a process with six kinds of threads (scheduler.cpp, main)  *)
(*   crt   checking_ready_task      cct  checking_complete_task            *)
(*   exec  executing_task           rs   recording_stat                    *)
(*   ws    workstealing             lqm  localQueue_monitor                *)
(* and the epoll server, which answers one request of another scheduler at *)
(* a time.  A step is one critical section, one ZHT request or one request *)
(* to a peer; the process-wide sockMutex is held over a whole exchange.    *)
(***************************************************************************)
EXTENDS Integers, FiniteSets, Sequences

CONSTANTS
  Sched,              \* the schedulers of the membership list
  Task,               \* the submitted tasks
  Core,               \* the executing threads of one scheduler
  Children,           \* the DAG: the children list of every task's record
  OutputSize,         \* the outputsize field of every task's record
  Submissions,        \* the wait queues the barrier can leave behind
  DataSizeThreshold,
  WorkStealingOn,
  PollIntervalStart,
  PollIntervalUb,
  Policy,
  None                \* no task, no scheduler

\* Where a scheduler can hold a task, besides the hands of an executing thread.
PlaceKind == {"wait", "crt", "ws", "local", "lqm", "steal", "done"}

Parents(t) == {p \in Task : t \in Children[p]}

\* The sets are those of one deployment, and every task was received once.
ASSUME SchedulerAssumption ==
  /\ IsFiniteSet(Sched) /\ Sched # {}
  /\ IsFiniteSet(Task) /\ None \notin Task \cup Sched
  /\ Core \cap PlaceKind = {}
  /\ Children \in [Task -> SUBSET Task]
  /\ OutputSize \in [Task -> Nat]
  /\ DataSizeThreshold \in Nat
  /\ WorkStealingOn \in BOOLEAN
  /\ PollIntervalStart \in Nat \ {0} /\ PollIntervalUb \in Nat
  /\ \A q \in Submissions :
       /\ q \in [Sched -> Seq(Task)]
       /\ \A t \in Task : \E s \in Sched : \E i \in 1..Len(q[s]) : q[s][i] = t
       /\ \A r, s \in Sched : \A i \in 1..Len(q[r]), j \in 1..Len(q[s]) :
            q[r][i] = q[s][j] => r = s /\ i = j

NumAllTask == Cardinality(Task)

\* A scheduler that is alone never steals, whatever its configuration says.
StealingOn == WorkStealingOn /\ Cardinality(Sched) # 1

\* (int)(sqrt(n) + 0.5), without the square root.
NumNeigh ==
  CHOOSE k \in 0..Cardinality(Sched) :
    k*k - k < Cardinality(Sched) /\ Cardinality(Sched) <= k*k + k

\* The key of a task's output: get_id() and the task id, concatenated.
DataName == Sched \X Task

\* One entry of the parallel lists parents, datanamelist and datasize.
Input == [host : Sched, name : DataName, size : Nat]

\* The fields of a task's record that the schedulers change.
Record == [indegree : Int, inputs : SUBSET Input, alldatasize : Nat]

NoRecord == [indegree |-> 0, inputs |-> {}, alldatasize |-> 0]

CmpQueueItem == [task : Task, key : DataName, dataSize : Nat]

NoItem == [task |-> None]

VARIABLES
  rec,            \* ZHT: the record of every task
  numTasksDone,   \* ZHT: the counter "num tasks done"
  waitQueue,
  wsQueue,
  localQueue,
  completeQueue,
  localData,      \* the keys of the map localData
  running,
  numTaskFin,
  prevNumTaskFin,
  crt,
  exec,
  cct,
  rs,
  ws,
  lqm             \* vecMigrated: the tasks between the two ready queues

zht      == <<rec, numTasksDone>>
queues   == <<waitQueue, wsQueue, localQueue, completeQueue>>
counters == <<running, numTaskFin, prevNumTaskFin>>
vars     == <<zht, queues, localData, counters, crt, exec, cct, rs, ws, lqm>>

-----------------------------------------------------------------------------
(* Thread states.                                                          *)

CrtIdle  == [pc |-> "idle", task |-> None, value |-> NoRecord, dest |-> None]
ExecIdle == [pc |-> "idle", task |-> None, todo |-> {}, name |-> None,
             found |-> TRUE]
CctIdle  == [pc |-> "idle", item |-> NoItem, todo |-> {}, child |-> None,
             seen |-> NoRecord]
RsPoll   == [pc |-> "poll", seen |-> 0]
WsIdle(interval) ==
  [pc |-> "idle", interval |-> interval, todo |-> {}, maxLoad |-> -1,
   victim |-> None, got |-> {}]
WsHead   == [WsIdle(PollIntervalStart) EXCEPT !.pc = "head"]

CrtState == [pc : {"idle", "ready", "push", "exit"}, task : Task \cup {None},
             value : Record, dest : Sched \cup {None}]
ExecState == [pc : {"idle", "local", "ws", "lookup", "fetch", "recv", "stored",
                    "count", "exit"},
              task : Task \cup {None}, todo : SUBSET Input,
              name : DataName \cup {None}, found : BOOLEAN]
CctState == [pc : {"idle", "notify", "swap", "retry", "exit"},
             item : CmpQueueItem \cup {NoItem}, todo : SUBSET Task,
             child : Task \cup {None}, seen : Record]
RsState == [pc : {"poll", "lock", "add", "retry", "exit"}, seen : Int]
WsState == [pc : {"head", "idle", "query", "recv", "exit"}, interval : Nat,
            todo : SUBSET Sched, maxLoad : Int, victim : Sched \cup {None},
            got : SUBSET Task]

\* sockMutex of scheduler s is free: no thread of s is inside an exchange.
SockFree(s) ==
  /\ crt[s].pc # "push"
  /\ \A c \in Core : exec[s][c].pc # "recv"
  /\ cct[s].pc # "retry"
  /\ rs[s].pc # "retry"
  /\ ws[s].pc # "recv"

\* The entries task_ready_process may settle on: those of the largest size.
MaxInputs(inputs) == {m \in inputs : \A i \in inputs : i.size <= m.size}

\* The datalength a task carries once it is ready; its record is final then.
DataLength(t) ==
  IF rec[t].alldatasize <= DataSizeThreshold
  THEN rec[t].alldatasize
  ELSE (CHOOSE m \in MaxInputs(rec[t].inputs) : TRUE).size

\* T is what Cardinality(T) pops of the priority queue Q can return:
\* HighPriorityByDataSize puts the smallest datalength on top.
PopsFirst(Q, T) ==
  /\ T \subseteq Q
  /\ \A t \in T, u \in Q \ T : DataLength(t) <= DataLength(u)

-----------------------------------------------------------------------------
Init ==
  /\ rec = [t \in Task |-> [NoRecord EXCEPT !.indegree = Cardinality(Parents(t))]]
  /\ numTasksDone = 0
  /\ waitQueue \in Submissions
  /\ wsQueue = [s \in Sched |-> {}]
  /\ localQueue = [s \in Sched |-> {}]
  /\ completeQueue = [s \in Sched |-> <<>>]
  /\ localData = [s \in Sched |-> {}]
  /\ running = [s \in Sched |-> TRUE]
  /\ numTaskFin = [s \in Sched |-> 0]
  /\ prevNumTaskFin = [s \in Sched |-> 0]
  /\ crt = [s \in Sched |-> CrtIdle]
  /\ exec = [s \in Sched |-> [c \in Core |-> ExecIdle]]
  /\ cct = [s \in Sched |-> CctIdle]
  /\ rs = [s \in Sched |-> RsPoll]
  /\ ws = [s \in Sched |-> WsHead]
  /\ lqm = [s \in Sched |-> {}]

-----------------------------------------------------------------------------
(* checking_ready_task and check_a_ready_task.                             *)

\* Mutant: a task that is not ready is not put back.
CheckDropsTask(s) ==
  /\ crt[s].pc = "idle" /\ waitQueue[s] # <<>> /\ SockFree(s)
  /\ rec[Head(waitQueue[s])].indegree # 0
  /\ waitQueue' = [waitQueue EXCEPT ![s] = Tail(@)]
  /\ UNCHANGED <<zht, wsQueue, localQueue, completeQueue, localData, counters,
                 crt, exec, cct, rs, ws, lqm>>

\* Mutant: a task that is not ready is put back where it was.
CheckSameAgain(s) ==
  /\ crt[s].pc = "idle" /\ waitQueue[s] # <<>> /\ SockFree(s)
  /\ rec[Head(waitQueue[s])].indegree # 0
  /\ UNCHANGED vars

\* The task at the front still waits for a parent: to the back of the queue.
CheckNotReady(s) ==
  /\ crt[s].pc = "idle" /\ waitQueue[s] # <<>> /\ SockFree(s)
  /\ rec[Head(waitQueue[s])].indegree # 0
  /\ waitQueue' = [waitQueue EXCEPT ![s] = Append(Tail(@), Head(@))]
  /\ UNCHANGED <<zht, wsQueue, localQueue, completeQueue, localData, counters,
                 crt, exec, cct, rs, ws, lqm>>

\* Mutant: the last parent is not waited for.
CheckReadyEarly(s) ==
  /\ crt[s].pc = "idle" /\ waitQueue[s] # <<>> /\ SockFree(s)
  /\ rec[Head(waitQueue[s])].indegree <= 1
  /\ crt' = [crt EXCEPT ![s] = [pc |-> "ready", task |-> Head(waitQueue[s]),
                                value |-> rec[Head(waitQueue[s])], dest |-> None]]
  /\ waitQueue' = [waitQueue EXCEPT ![s] = Tail(@)]
  /\ UNCHANGED <<zht, wsQueue, localQueue, completeQueue, localData, counters,
                 exec, cct, rs, ws, lqm>>

CheckReady(s) ==
  /\ crt[s].pc = "idle" /\ waitQueue[s] # <<>> /\ SockFree(s)
  /\ rec[Head(waitQueue[s])].indegree = 0
  /\ crt' = [crt EXCEPT ![s] = [pc |-> "ready", task |-> Head(waitQueue[s]),
                                value |-> rec[Head(waitQueue[s])], dest |-> None]]
  /\ waitQueue' = [waitQueue EXCEPT ![s] = Tail(@)]
  /\ UNCHANGED <<zht, wsQueue, localQueue, completeQueue, localData, counters,
                 exec, cct, rs, ws, lqm>>

\* task_ready_process: so little input that any scheduler may run the task.
LittleInput(s) == crt[s].value.alldatasize <= DataSizeThreshold

\* The input m of a task was produced at s or is cached there.
InputHere(s, m) == m.host = s \/ m.name \in localData[s]

\* Flag 0.
ReadyToSteal(s) ==
  /\ crt[s].pc = "ready" /\ LittleInput(s)
  /\ wsQueue' = [wsQueue EXCEPT ![s] = @ \cup {crt[s].task}]
  /\ crt' = [crt EXCEPT ![s] = CrtIdle]
  /\ UNCHANGED <<zht, waitQueue, localQueue, completeQueue, localData, counters,
                 exec, cct, rs, ws, lqm>>

\* Flag 1: the largest input is here.
ReadyLocal(s) ==
  /\ crt[s].pc = "ready" /\ ~LittleInput(s)
  /\ \E m \in MaxInputs(crt[s].value.inputs) : InputHere(s, m)
  /\ localQueue' = [localQueue EXCEPT ![s] = @ \cup {crt[s].task}]
  /\ crt' = [crt EXCEPT ![s] = CrtIdle]
  /\ UNCHANGED <<zht, waitQueue, wsQueue, completeQueue, localData, counters,
                 exec, cct, rs, ws, lqm>>

\* Flag 2: send the task to the producer of the largest input.
PushTask(s) ==
  /\ crt[s].pc = "ready" /\ SockFree(s) /\ ~LittleInput(s)
  /\ \E m \in MaxInputs(crt[s].value.inputs) :
       /\ ~InputHere(s, m)
       /\ crt' = [crt EXCEPT ![s] = [@ EXCEPT !.pc = "push", !.dest = m.host]]
  /\ UNCHANGED <<zht, queues, localData, counters, exec, cct, rs, ws, lqm>>

\* recv_pushing_task at the producer; its acknowledgement frees the pusher.
RecvPushingTask(s) ==
  /\ crt[s].pc = "push"
  /\ localQueue' = [localQueue EXCEPT ![crt[s].dest] = @ \cup {crt[s].task}]
  /\ crt' = [crt EXCEPT ![s] = CrtIdle]
  /\ UNCHANGED <<zht, waitQueue, wsQueue, completeQueue, localData, counters,
                 exec, cct, rs, ws, lqm>>

CrtExit(s) ==
  /\ crt[s].pc = "idle" /\ ~running[s]
  /\ crt' = [crt EXCEPT ![s] = [@ EXCEPT !.pc = "exit"]]
  /\ UNCHANGED <<zht, queues, localData, counters, exec, cct, rs, ws, lqm>>
-----------------------------------------------------------------------------
(* executing_task and exec_a_task.                                         *)

\* The unlocked size tests choose a queue, the local one first.
ExecChoose(s, c) ==
  /\ exec[s][c].pc = "idle"
  /\ \/ /\ localQueue[s] # {}
        /\ exec' = [exec EXCEPT ![s][c] = [@ EXCEPT !.pc = "local"]]
     \/ /\ localQueue[s] = {} /\ wsQueue[s] # {}
        /\ exec' = [exec EXCEPT ![s][c] = [@ EXCEPT !.pc = "ws"]]
  /\ UNCHANGED <<zht, queues, localData, counters, crt, cct, rs, ws, lqm>>

\* Mutant: top() without pop().
ExecTopLocal(s, c) ==
  /\ exec[s][c].pc = "local"
  /\ \E t \in localQueue[s] :
       /\ PopsFirst(localQueue[s], {t})
       /\ exec' = [exec EXCEPT ![s][c] = [@ EXCEPT !.pc = "lookup", !.task = t]]
  /\ UNCHANGED <<zht, queues, localData, counters, crt, cct, rs, ws, lqm>>

\* The queue is tested again under its mutex; it may be empty by now.
ExecPopLocal(s, c) ==
  /\ exec[s][c].pc = "local"
  /\ \/ \E t \in localQueue[s] :
          /\ PopsFirst(localQueue[s], {t})
          /\ localQueue' = [localQueue EXCEPT ![s] = @ \ {t}]
          /\ exec' = [exec EXCEPT ![s][c] = [@ EXCEPT !.pc = "lookup", !.task = t]]
     \/ /\ localQueue[s] = {}
        /\ exec' = [exec EXCEPT ![s][c] = ExecIdle]
        /\ UNCHANGED localQueue
  /\ UNCHANGED <<zht, waitQueue, wsQueue, completeQueue, localData, counters,
                 crt, cct, rs, ws, lqm>>

ExecPopWs(s, c) ==
  /\ exec[s][c].pc = "ws"
  /\ \/ \E t \in wsQueue[s] :
          /\ PopsFirst(wsQueue[s], {t})
          /\ wsQueue' = [wsQueue EXCEPT ![s] = @ \ {t}]
          /\ exec' = [exec EXCEPT ![s][c] = [@ EXCEPT !.pc = "lookup", !.task = t]]
     \/ /\ wsQueue[s] = {}
        /\ exec' = [exec EXCEPT ![s][c] = ExecIdle]
        /\ UNCHANGED wsQueue
  /\ UNCHANGED <<zht, waitQueue, localQueue, completeQueue, localData, counters,
                 crt, cct, rs, ws, lqm>>

\* The record names the inputs; those of size 0 are not fetched.
ExecLookup(s, c) ==
  /\ exec[s][c].pc = "lookup" /\ SockFree(s)
  /\ exec' = [exec EXCEPT ![s][c] =
       [@ EXCEPT !.pc = "fetch",
                 !.todo = {i \in rec[exec[s][c].task].inputs : i.size > 0}]]
  /\ UNCHANGED <<zht, queues, localData, counters, crt, cct, rs, ws, lqm>>

\* An input produced here, or cached here, is read under ldMutex.
FetchHere(s, c) ==
  /\ exec[s][c].pc = "fetch"
  /\ \E i \in exec[s][c].todo :
       /\ InputHere(s, i)
       /\ exec' = [exec EXCEPT ![s][c] =
            [@ EXCEPT !.todo = exec[s][c].todo \ {i}]]
  /\ UNCHANGED <<zht, queues, localData, counters, crt, cct, rs, ws, lqm>>

\* "scheduler require data": the peer's server looks the name up and answers.
RequireData(s, c) ==
  /\ exec[s][c].pc = "fetch" /\ SockFree(s)
  /\ \E i \in exec[s][c].todo :
       /\ ~InputHere(s, i)
       /\ exec' = [exec EXCEPT ![s][c] =
            [@ EXCEPT !.pc = "recv", !.todo = exec[s][c].todo \ {i},
                      !.name = i.name, !.found = i.name \in localData[i.host]]]
  /\ UNCHANGED <<zht, queues, localData, counters, crt, cct, rs, ws, lqm>>

\* Whatever the peer answered is cached under the name of the input.
ReceiveData(s, c) ==
  /\ exec[s][c].pc = "recv"
  /\ localData' = [localData EXCEPT ![s] = @ \cup {exec[s][c].name}]
  /\ exec' = [exec EXCEPT ![s][c] =
       [@ EXCEPT !.pc = "fetch", !.name = None, !.found = TRUE]]
  /\ UNCHANGED <<zht, queues, counters, crt, cct, rs, ws, lqm>>

\* Mutant: the output is not stored.
ExecForgetsOutput(s, c) ==
  /\ exec[s][c].pc = "fetch" /\ exec[s][c].todo = {}
  /\ exec' = [exec EXCEPT ![s][c] = [@ EXCEPT !.pc = "stored"]]
  /\ UNCHANGED <<zht, queues, localData, counters, crt, cct, rs, ws, lqm>>

\* Run the command, then store its output.
ExecRun(s, c) ==
  /\ exec[s][c].pc = "fetch" /\ exec[s][c].todo = {}
  /\ localData' = [localData EXCEPT ![s] = @ \cup {<<s, exec[s][c].task>>}]
  /\ exec' = [exec EXCEPT ![s][c] = [@ EXCEPT !.pc = "stored"]]
  /\ UNCHANGED <<zht, queues, counters, crt, cct, rs, ws, lqm>>

\* Mutant: the key of the output is the task id alone.
ExecKeyWithoutHost(s, c) ==
  /\ exec[s][c].pc = "stored"
  /\ completeQueue' =
       [completeQueue EXCEPT ![s] =
          Append(@, [task |-> exec[s][c].task, key |-> exec[s][c].task,
                     dataSize |-> OutputSize[exec[s][c].task]])]
  /\ exec' = [exec EXCEPT ![s][c] = [@ EXCEPT !.pc = "count"]]
  /\ UNCHANGED <<zht, waitQueue, wsQueue, localQueue, localData, counters, crt,
                 cct, rs, ws, lqm>>

ExecComplete(s, c) ==
  /\ exec[s][c].pc = "stored"
  /\ completeQueue' =
       [completeQueue EXCEPT ![s] =
          Append(@, [task |-> exec[s][c].task, key |-> <<s, exec[s][c].task>>,
                     dataSize |-> OutputSize[exec[s][c].task]])]
  /\ exec' = [exec EXCEPT ![s][c] = [@ EXCEPT !.pc = "count"]]
  /\ UNCHANGED <<zht, waitQueue, wsQueue, localQueue, localData, counters, crt,
                 cct, rs, ws, lqm>>

\* recording_stat holds numTaskFinMutex from "add" until it has reported.
ExecCount(s, c) ==
  /\ exec[s][c].pc = "count" /\ rs[s].pc \notin {"add", "retry"}
  /\ numTaskFin' = [numTaskFin EXCEPT ![s] = @ + 1]
  /\ exec' = [exec EXCEPT ![s][c] = ExecIdle]
  /\ UNCHANGED <<zht, queues, localData, running, prevNumTaskFin, crt, cct, rs,
                 ws, lqm>>

ExecExit(s, c) ==
  /\ exec[s][c].pc = "idle" /\ ~running[s]
  /\ exec' = [exec EXCEPT ![s][c] = [@ EXCEPT !.pc = "exit"]]
  /\ UNCHANGED <<zht, queues, localData, counters, crt, cct, rs, ws, lqm>>
-----------------------------------------------------------------------------
(* checking_complete_task and notify_children.                             *)

\* The record a parent's completion turns v into.
Notified(v, s, item) ==
  [indegree    |-> v.indegree - 1,
   inputs      |-> v.inputs \cup
                     {[host |-> s, name |-> item.key, size |-> item.dataSize]},
   alldatasize |-> v.alldatasize + item.dataSize]

\* Take the next completed task and look its children up.
CctPop(s) ==
  /\ cct[s].pc = "idle" /\ completeQueue[s] # <<>> /\ SockFree(s)
  /\ LET item == Head(completeQueue[s]) IN
       cct' = IF Children[item.task] = {}
              THEN cct
              ELSE [cct EXCEPT ![s] = [@ EXCEPT !.pc = "notify", !.item = item,
                                                !.todo = Children[item.task]]]
  /\ completeQueue' = [completeQueue EXCEPT ![s] = Tail(@)]
  /\ UNCHANGED <<zht, waitQueue, wsQueue, localQueue, localData, counters, crt,
                 exec, rs, ws, lqm>>

CctLookupChild(s) ==
  /\ cct[s].pc = "notify" /\ SockFree(s)
  /\ \E child \in cct[s].todo :
       cct' = [cct EXCEPT ![s] =
                 [@ EXCEPT !.pc = "swap", !.child = child,
                           !.todo = cct[s].todo \ {child}, !.seen = rec[child]]]
  /\ UNCHANGED <<zht, queues, localData, counters, crt, exec, rs, ws, lqm>>

\* sockMutex is taken for the first attempt and kept for the others.
Swapping(s) == cct[s].pc = "retry" \/ (cct[s].pc = "swap" /\ SockFree(s))

\* Mutant: the record is written without comparing.
CctBlindInsert(s) ==
  /\ Swapping(s)
  /\ rec' = [rec EXCEPT ![cct[s].child] = Notified(cct[s].seen, s, cct[s].item)]
  /\ cct' = [cct EXCEPT ![s] =
               IF @.todo = {} THEN CctIdle
               ELSE [@ EXCEPT !.pc = "notify", !.child = None, !.seen = NoRecord]]
  /\ UNCHANGED <<numTasksDone, queues, localData, counters, crt, exec, rs, ws,
                 lqm>>

\* compare_swap of the child's record finds the value the update is based on.
CctSwap(s) ==
  /\ Swapping(s)
  /\ rec[cct[s].child] = cct[s].seen
  /\ rec' = [rec EXCEPT ![cct[s].child] = Notified(cct[s].seen, s, cct[s].item)]
  /\ cct' = [cct EXCEPT ![s] =
               IF @.todo = {} THEN CctIdle
               ELSE [@ EXCEPT !.pc = "notify", !.child = None, !.seen = NoRecord]]
  /\ UNCHANGED <<numTasksDone, queues, localData, counters, crt, exec, rs, ws,
                 lqm>>

\* Another parent was faster: take the value it left and try again.
CctRetry(s) ==
  /\ Swapping(s)
  /\ rec[cct[s].child] # cct[s].seen
  /\ cct' = [cct EXCEPT ![s] =
               [@ EXCEPT !.pc = "retry", !.seen = rec[cct[s].child]]]
  /\ UNCHANGED <<zht, queues, localData, counters, crt, exec, rs, ws, lqm>>

\* The queue was seen empty before the flag was: it may have filled since.
CctExit(s) ==
  /\ cct[s].pc = "idle" /\ ~running[s]
  /\ cct' = [cct EXCEPT ![s] = [@ EXCEPT !.pc = "exit"]]
  /\ UNCHANGED <<zht, queues, localData, counters, crt, exec, rs, ws, lqm>>

-----------------------------------------------------------------------------
(* recording_stat.                                                         *)

\* Mutant: the last task is not waited for.
RsStopsEarly(s) ==
  /\ rs[s].pc = "poll" /\ SockFree(s)
  /\ \/ /\ numTasksDone >= NumAllTask - 1
        /\ running' = [running EXCEPT ![s] = FALSE]
        /\ rs' = [rs EXCEPT ![s] = [@ EXCEPT !.pc = "exit"]]
     \/ /\ numTasksDone < NumAllTask - 1
        /\ rs' = [rs EXCEPT ![s] = [pc |-> "lock", seen |-> numTasksDone]]
        /\ UNCHANGED running
  /\ UNCHANGED <<zht, queues, localData, numTaskFin, prevNumTaskFin, crt, exec,
                 cct, ws, lqm>>

RsLookup(s) ==
  /\ rs[s].pc = "poll" /\ SockFree(s)
  /\ \/ /\ numTasksDone = NumAllTask
        /\ running' = [running EXCEPT ![s] = FALSE]
        /\ rs' = [rs EXCEPT ![s] = [@ EXCEPT !.pc = "exit"]]
     \/ /\ numTasksDone # NumAllTask
        /\ rs' = [rs EXCEPT ![s] = [pc |-> "lock", seen |-> numTasksDone]]
        /\ UNCHANGED running
  /\ UNCHANGED <<zht, queues, localData, numTaskFin, prevNumTaskFin, crt, exec,
                 cct, ws, lqm>>

\* numTaskFinMutex, which the executing threads need to count a task.
RsLock(s) ==
  /\ rs[s].pc = "lock"
  /\ rs' = [rs EXCEPT ![s] = [@ EXCEPT !.pc = "add"]]
  /\ UNCHANGED <<zht, queues, localData, counters, crt, exec, cct, ws, lqm>>

\* sockMutex is taken second; both are kept while retrying.
Reporting(s) == rs[s].pc = "retry" \/ (rs[s].pc = "add" /\ SockFree(s))

\* compare_swap adds what this scheduler finished since its last report.
RsAdd(s) ==
  /\ Reporting(s)
  /\ numTasksDone = rs[s].seen
  /\ numTasksDone' = rs[s].seen + (numTaskFin[s] - prevNumTaskFin[s])
  /\ prevNumTaskFin' = [prevNumTaskFin EXCEPT ![s] = numTaskFin[s]]
  /\ rs' = [rs EXCEPT ![s] = RsPoll]
  /\ UNCHANGED <<rec, queues, localData, running, numTaskFin, crt, exec, cct, ws,
                 lqm>>

\* Mutant: a failed report counts as a report.
RsForgetsReport(s) ==
  /\ Reporting(s)
  /\ numTasksDone # rs[s].seen
  /\ prevNumTaskFin' = [prevNumTaskFin EXCEPT ![s] = numTaskFin[s]]
  /\ rs' = [rs EXCEPT ![s] = RsPoll]
  /\ UNCHANGED <<zht, queues, localData, running, numTaskFin, crt, exec, cct, ws,
                 lqm>>

\* Another scheduler reported first; if that completed the count, give up.
RsRetry(s) ==
  /\ Reporting(s)
  /\ numTasksDone # rs[s].seen
  /\ \/ /\ numTasksDone = NumAllTask
        /\ prevNumTaskFin' = [prevNumTaskFin EXCEPT ![s] = numTaskFin[s]]
        /\ rs' = [rs EXCEPT ![s] = RsPoll]
     \/ /\ numTasksDone # NumAllTask
        /\ rs' = [rs EXCEPT ![s] = [pc |-> "retry", seen |-> numTasksDone]]
        /\ UNCHANGED prevNumTaskFin
  /\ UNCHANGED <<zht, queues, localData, running, numTaskFin, crt, exec, cct, ws,
                 lqm>>
-----------------------------------------------------------------------------
(* workstealing.                                                           *)

\* Both ready queues are empty: choose_neigh draws distinct neighbours.
WsStart(s) ==
  /\ ws[s].pc = "idle" /\ ws[s].interval < PollIntervalUb
  /\ localQueue[s] = {} /\ wsQueue[s] = {}
  /\ \E neigh \in SUBSET (Sched \ {s}) :
       /\ Cardinality(neigh) = NumNeigh
       /\ ws' = [ws EXCEPT ![s] = [@ EXCEPT !.pc = "query", !.todo = neigh]]
  /\ UNCHANGED <<zht, queues, localData, counters, crt, exec, cct, rs, lqm>>

\* find_most_loaded_neigh: one "query load" to the server of a neighbour.
WsQuery(s) ==
  /\ ws[s].pc = "query" /\ SockFree(s)
  /\ \E n \in ws[s].todo :
       LET load == Cardinality(wsQueue[n])
           more == ws[s].maxLoad < load
       IN ws' = [ws EXCEPT ![s] =
                  [@ EXCEPT !.todo = ws[s].todo \ {n},
                            !.maxLoad = IF more THEN load ELSE ws[s].maxLoad,
                            !.victim = IF more THEN n ELSE ws[s].victim]]
  /\ UNCHANGED <<zht, queues, localData, counters, crt, exec, cct, rs, lqm>>

\* steal_task returns at once when no neighbour has a ready task.
WsNothing(s) ==
  /\ ws[s].pc = "query" /\ ws[s].todo = {} /\ ws[s].maxLoad <= 0
  /\ ws' = [ws EXCEPT ![s] = WsIdle(2 * @.interval)]
  /\ UNCHANGED <<zht, queues, localData, counters, crt, exec, cct, rs, lqm>>

\* Mutant: the victim sends its tasks and keeps them.
WsCopies(s) ==
  /\ ws[s].pc = "query" /\ ws[s].todo = {} /\ ws[s].maxLoad > 0 /\ SockFree(s)
  /\ LET v == ws[s].victim IN
     \E T \in SUBSET wsQueue[v] :
       /\ Cardinality(T) = Cardinality(wsQueue[v]) \div 2
       /\ PopsFirst(wsQueue[v], T)
       /\ ws' = [ws EXCEPT ![s] = [@ EXCEPT !.pc = "recv", !.got = T]]
  /\ UNCHANGED <<zht, queues, localData, counters, crt, exec, cct, rs, lqm>>

\* "steal task": send_task at the victim pops half of what its queue holds now.
WsSteal(s) ==
  /\ ws[s].pc = "query" /\ ws[s].todo = {} /\ ws[s].maxLoad > 0 /\ SockFree(s)
  /\ LET v == ws[s].victim IN
     \E T \in SUBSET wsQueue[v] :
       /\ Cardinality(T) = Cardinality(wsQueue[v]) \div 2
       /\ PopsFirst(wsQueue[v], T)
       /\ wsQueue' = [wsQueue EXCEPT ![v] = @ \ T]
       /\ ws' = [ws EXCEPT ![s] = [@ EXCEPT !.pc = "recv", !.got = T]]
  /\ UNCHANGED <<zht, waitQueue, localQueue, completeQueue, localData, counters,
                 crt, exec, cct, rs, lqm>>

\* recv_task_from_scheduler; an empty answer doubles the polling interval.
WsReceive(s) ==
  /\ ws[s].pc = "recv"
  /\ wsQueue' = [wsQueue EXCEPT ![s] = @ \cup ws[s].got]
  /\ ws' = [ws EXCEPT ![s] = WsIdle(IF @.got = {} THEN 2 * @.interval
                                    ELSE PollIntervalStart)]
  /\ UNCHANGED <<zht, waitQueue, localQueue, completeQueue, localData, counters,
                 crt, exec, cct, rs, lqm>>

\* The scheduler has ready tasks: the interval starts over, and the flag is
\* read at the head of the outer loop.
WsReset(s) ==
  /\ ws[s].pc = "idle" /\ ws[s].interval < PollIntervalUb
  /\ localQueue[s] # {} \/ wsQueue[s] # {}
  /\ ws' = [ws EXCEPT ![s] = WsHead]
  /\ UNCHANGED <<zht, queues, localData, counters, crt, exec, cct, rs, lqm>>

WsEnter(s) ==
  /\ StealingOn
  /\ ws[s].pc = "head" /\ running[s]
  /\ ws' = [ws EXCEPT ![s] = [@ EXCEPT !.pc = "idle"]]
  /\ UNCHANGED <<zht, queues, localData, counters, crt, exec, cct, rs, lqm>>

\* The flag is cleared, or too many attempts have failed.
WsExit(s) ==
  /\ StealingOn
  /\ \/ ws[s].pc = "head" /\ ~running[s]
     \/ ws[s].pc = "idle" /\ ws[s].interval >= PollIntervalUb
  /\ ws' = [ws EXCEPT ![s] = [@ EXCEPT !.pc = "exit"]]
  /\ UNCHANGED <<zht, queues, localData, counters, crt, exec, cct, rs, lqm>>

-----------------------------------------------------------------------------
(* localQueue_monitor, forked under the policy "FLWS" only.  maxSize comes *)
(* from the measured throughput: any size, but 0 before a task finished.   *)

LqmTake(s) ==
  /\ Policy = "FLWS" /\ running[s] /\ lqm[s] = {} /\ numTaskFin[s] > 0
  /\ \E remain \in SUBSET localQueue[s] :
       /\ remain # {} /\ remain # localQueue[s]
       /\ PopsFirst(localQueue[s], remain)
       /\ lqm' = [lqm EXCEPT ![s] = localQueue[s] \ remain]
       /\ localQueue' = [localQueue EXCEPT ![s] = remain]
  /\ UNCHANGED <<zht, waitQueue, wsQueue, completeQueue, localData, counters,
                 crt, exec, cct, rs, ws>>

\* Mutant: the migrated tasks replace the queue.
LqmReplaces(s) ==
  /\ lqm[s] # {}
  /\ wsQueue' = [wsQueue EXCEPT ![s] = lqm[s]]
  /\ lqm' = [lqm EXCEPT ![s] = {}]
  /\ UNCHANGED <<zht, waitQueue, localQueue, completeQueue, localData, counters,
                 crt, exec, cct, rs, ws>>

LqmPut(s) ==
  /\ lqm[s] # {}
  /\ wsQueue' = [wsQueue EXCEPT ![s] = @ \cup lqm[s]]
  /\ lqm' = [lqm EXCEPT ![s] = {}]
  /\ UNCHANGED <<zht, waitQueue, localQueue, completeQueue, localData, counters,
                 crt, exec, cct, rs, ws>>

-----------------------------------------------------------------------------
CheckingReadyTask(s) ==
  \/ CheckNotReady(s) \/ CheckReady(s) \/ ReadyToSteal(s) \/ ReadyLocal(s)
  \/ PushTask(s) \/ RecvPushingTask(s) \/ CrtExit(s)

ExecutingTask(s, c) ==
  \/ ExecChoose(s, c) \/ ExecPopLocal(s, c) \/ ExecPopWs(s, c)
  \/ ExecLookup(s, c) \/ FetchHere(s, c) \/ RequireData(s, c)
  \/ ReceiveData(s, c) \/ ExecRun(s, c) \/ ExecComplete(s, c)
  \/ ExecCount(s, c) \/ ExecExit(s, c)

CheckingCompleteTask(s) ==
  CctPop(s) \/ CctLookupChild(s) \/ CctSwap(s) \/ CctRetry(s) \/ CctExit(s)

RecordingStat(s) == RsLookup(s) \/ RsLock(s) \/ RsAdd(s) \/ RsRetry(s)

Workstealing(s) ==
  \/ WsEnter(s) \/ WsStart(s) \/ WsQuery(s) \/ WsNothing(s) \/ WsSteal(s)
  \/ WsReceive(s) \/ WsReset(s) \/ WsExit(s)

LocalQueueMonitor(s) == LqmTake(s) \/ LqmPut(s)

\* Every thread has left its loop; main sleeps and the server waits.
Exited(s) ==
  /\ crt[s].pc = "exit" /\ cct[s].pc = "exit" /\ rs[s].pc = "exit"
  /\ \A c \in Core : exec[s][c].pc = "exit"
  /\ StealingOn => ws[s].pc = "exit"
  /\ lqm[s] = {}

Halted == (\A s \in Sched : Exited(s)) /\ UNCHANGED vars

Next ==
  \/ \E s \in Sched :
       \/ CheckingReadyTask(s) \/ CheckingCompleteTask(s) \/ RecordingStat(s)
       \/ Workstealing(s) \/ LocalQueueMonitor(s)
       \/ \E c \in Core : ExecutingTask(s, c)
  \/ Halted

\* Every thread keeps being scheduled, and every thread that waits for
\* sockMutex again and again is granted it now and then.
Fairness ==
  \A s \in Sched :
    /\ SF_vars(CheckingReadyTask(s))
    /\ SF_vars(CheckingCompleteTask(s))
    /\ SF_vars(RecordingStat(s))
    /\ SF_vars(Workstealing(s))
    /\ WF_vars(LqmPut(s))
    /\ \A c \in Core : SF_vars(ExecutingTask(s, c))

Spec == Init /\ [][Next]_vars

FairSpec == Spec /\ Fairness
-----------------------------------------------------------------------------
(* Where a task is, and what has become of it.                             *)

\* The output of t is in the map of the scheduler that ran it.
Finished(t) == \E s \in Sched : <<s, t>> \in localData[s]

Place == Sched \X (PlaceKind \cup Core)

\* Task t is held by scheduler s in queue, thread or hands k.
Holds(s, k, t) ==
  \/ k = "wait"  /\ \E i \in DOMAIN waitQueue[s] : waitQueue[s][i] = t
  \/ k = "crt"   /\ crt[s].task = t
  \/ k = "ws"    /\ t \in wsQueue[s]
  \/ k = "local" /\ t \in localQueue[s]
  \/ k = "lqm"   /\ t \in lqm[s]
  \/ k = "steal" /\ t \in ws[s].got
  \/ k \in Core  /\ exec[s][k].task = t
  \/ /\ k = "done" /\ <<s, t>> \in localData[s]
     /\ \A c \in Core : exec[s][c].task # t

\* The parent p still has to decrement the indegree of its child t.
Pending(p, t) ==
  \E s \in Sched :
    \/ \E c \in Core : exec[s][c].task = p /\ exec[s][c].pc = "stored"
    \/ \E i \in DOMAIN completeQueue[s] : completeQueue[s][i].task = p
    \/ cct[s].item.task = p /\ (t \in cct[s].todo \/ t = cct[s].child)

\* The parent p has decremented the indegree of t and listed its output.
HasNotified(p, t) == \E i \in rec[t].inputs : i.name[2] = p

\* The schedulers that took t out of a ready queue to execute it.
Runners(t) ==
  {s \in Sched : <<s, t>> \in localData[s] \/ \E c \in Core : exec[s][c].task = t}

Dag == INSTANCE DagExecution
         WITH ran <- [t \in Task |-> Runners(t)],
              finished <- {t \in Task : Finished(t)}

-----------------------------------------------------------------------------
(* Properties.                                                             *)

\* Every variable keeps the shape the code gives it.
TypeOK ==
  /\ rec \in [Task -> Record]
  /\ numTasksDone \in Int
  /\ waitQueue \in [Sched -> Seq(Task)]
  /\ wsQueue \in [Sched -> SUBSET Task]
  /\ localQueue \in [Sched -> SUBSET Task]
  /\ completeQueue \in [Sched -> Seq(CmpQueueItem)]
  /\ localData \in [Sched -> SUBSET DataName]
  /\ running \in [Sched -> BOOLEAN]
  /\ numTaskFin \in [Sched -> Nat]
  /\ prevNumTaskFin \in [Sched -> Nat]
  /\ crt \in [Sched -> CrtState]
  /\ exec \in [Sched -> [Core -> ExecState]]
  /\ cct \in [Sched -> CctState]
  /\ rs \in [Sched -> RsState]
  /\ ws \in [Sched -> WsState]
  /\ lqm \in [Sched -> SUBSET Task]

\* No task is ever lost or duplicated while it moves between queues, threads
\* and schedulers: stealing, pushing and migrating hand it over, and at every
\* moment exactly one of them holds it.
EveryTaskInOnePlace ==
  /\ \A t \in Task : \E p \in Place :
       Holds(p[1], p[2], t) /\ \A q \in Place : Holds(q[1], q[2], t) => q = p
  /\ \A s \in Sched : \A i, j \in DOMAIN waitQueue[s] :
       waitQueue[s][i] = waitQueue[s][j] => i = j

\* A task that has left the wait queues has only finished parents, however the
\* notifications of different schedulers interleave.
ReadyAfterParents ==
  \A t \in Task :
    (\A s \in Sched : ~Holds(s, "wait", t)) => \A p \in Parents(t) : Finished(p)

\* Every finished parent either has decremented the indegree of a child or
\* will: concurrent compare_swap updates of one record lose no decrement and
\* apply none twice.
NoLostNotification ==
  \A t \in Task :
    /\ \A p \in Parents(t) :
         Finished(p) => (HasNotified(p, t) <=> ~Pending(p, t))
    /\ rec[t].indegree = Cardinality({p \in Parents(t) : ~HasNotified(p, t)})

\* An input named in a record is in the map of the scheduler the record names,
\* so exec_a_task never dereferences a missing entry and no peer is ever
\* answered that its data is missing.
InputsAvailable ==
  /\ \A t \in Task : \A i \in rec[t].inputs : i.name \in localData[i.host]
  /\ \A s \in Sched, c \in Core : exec[s][c].found

\* A scheduler stops its threads only when every task has finished and every
\* notification has been delivered; the items it leaves in its complete queue
\* have nobody to notify.
StopOnlyWhenFinished ==
  \A s \in Sched : ~running[s] =>
    \A t \in Task : Finished(t) /\ rec[t].indegree = 0

\* Every finished task is counted once: it is in the shared count, in the
\* difference its scheduler has still to report, or in the hands of a thread
\* that has still to count it.  So the count never runs ahead of the tasks, and
\* no report is lost when a compare_swap fails or a retry is given up.
EveryFinishCountedOnce ==
  LET unreported == UNION {{s} \X ((prevNumTaskFin[s] + 1)..numTaskFin[s]) : s \in Sched}
      uncounted  == {p \in Sched \X Core : exec[p[1]][p[2]].pc \in {"stored", "count"}}
  IN  numTasksDone + Cardinality(unreported) + Cardinality(uncounted)
        = Cardinality({t \in Task : Finished(t)})

\* No step of any thread takes a decrement or an input of a record back.
RecordsOnlyProgress ==
  [][\A t \in Task : /\ rec'[t].indegree <= rec[t].indegree
                     /\ rec[t].inputs \subseteq rec'[t].inputs]_rec

\* The threads of all schedulers together run the DAG the way the client
\* expects: a thread that takes a task starts it, storing its output finishes
\* it, and every other step leaves the execution alone.
RunsDag == Dag!Safe

\* Under the fairness of the threads the whole DAG is run.
CompletesDag == Dag!Spec

\* The comment in send_task: a victim hands over half of its load, the ready
\* tasks minus its idle cores.
StealsHalfOfLoad ==
  [][\A s \in Sched : ws[s].pc = "query" /\ ws'[s].pc = "recv" =>
       LET v == ws[s].victim
           idle == {c \in Core : exec[v][c].task = None}
           load == Cardinality(wsQueue[v]) - Cardinality(idle)
       IN  Cardinality(ws'[s].got) = IF load > 0 THEN load \div 2 ELSE 0]_ws

\* The comment on workstealing: a scheduler that is still processing tasks,
\* whose ready queues are empty and whose interval has reached the upper bound
\* does work stealing.
StealsAtUpperBound ==
  \A s \in Sched :
    running[s] /\ localQueue[s] = {} /\ wsQueue[s] = {}
      /\ ws[s].interval >= PollIntervalUb => ws[s].pc # "exit"

\* Every scheduler eventually learns that all tasks are done and stops.
EverySchedulerStops == <>[](\A s \in Sched : Exited(s))
=============================================================================
