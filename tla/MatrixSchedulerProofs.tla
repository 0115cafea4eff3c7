----------------------- MODULE MatrixSchedulerProofs -----------------------
(***************************************************************************)
(* Proofs about MatrixScheduler, for any number of schedulers, threads and *)
(* tasks and any DAG.                                                      *)
(***************************************************************************)
EXTENDS MatrixScheduler, FiniteSetTheorems, TLAPS

-----------------------------------------------------------------------------
(* Type correctness.  TypeOK alone is not inductive: what a thread holds   *)
(* depends on where it is.                                                 *)

CrtOK(e) ==
  /\ e \in CrtState
  /\ e.pc \in {"ready", "push"} => e.task \in Task
  /\ e.pc \in {"idle", "exit"} => e.task = None
  /\ e.pc = "push" => e.dest \in Sched

CrtShape == \A s \in Sched : CrtOK(crt[s])

ExecOK(e) ==
  /\ e \in ExecState
  /\ e.pc \in {"lookup", "fetch", "recv", "stored", "count"} => e.task \in Task
  /\ e.pc \in {"idle", "local", "ws", "exit"} => e.task = None
  /\ e.pc = "recv" => e.name \in DataName

ExecShape == \A s \in Sched, c \in Core : ExecOK(exec[s][c])

CctOK(e) ==
  /\ e \in CctState
  /\ e.pc \in {"notify", "swap", "retry"} => e.item \in CmpQueueItem
  /\ e.pc \in {"idle", "exit"} => e.item = NoItem /\ e.todo = {} /\ e.child = None
  /\ e.pc \in {"swap", "retry"} => e.child \in Task
  /\ e.pc = "notify" => e.child = None

CctShape == \A s \in Sched : CctOK(cct[s])

WsOK(e) ==
  /\ e \in WsState
  /\ e.pc = "query" /\ e.maxLoad > 0 => e.victim \in Sched
  /\ e.pc \in {"head", "idle", "exit"} => e.maxLoad = -1
  /\ e.pc # "recv" => e.got = {}

WsShape == \A s \in Sched : WsOK(ws[s])

Typed == TypeOK /\ CrtShape /\ ExecShape /\ CctShape /\ WsShape

\* A set of tasks is finite and has a number of elements.
LEMMA TaskSets ==
  ASSUME NEW T \in SUBSET Task
  PROVE  IsFiniteSet(T) /\ Cardinality(T) \in Nat
  BY SchedulerAssumption, FS_Subset, FS_CardinalityType

\* The states the threads start from.
LEMMA IdleStates ==
  /\ NoRecord \in Record
  /\ CrtIdle \in CrtState /\ ExecIdle \in ExecState /\ CctIdle \in CctState
  /\ RsPoll \in RsState
  /\ \A n \in Nat : WsIdle(n) \in WsState
  /\ WsHead \in WsState /\ WsHead.maxLoad = -1 /\ WsHead.got = {}
  /\ WsHead.pc = "head"
<1>1. NoRecord \in Record
  BY DEF NoRecord, Record
<1>2. PollIntervalStart \in Nat
  BY SchedulerAssumption
<1>3. /\ WsHead \in WsState /\ WsHead.maxLoad = -1 /\ WsHead.got = {}
      /\ WsHead.pc = "head"
  BY <1>2 DEF WsHead, WsIdle, WsState
<1> QED
  BY <1>1, <1>3 DEF CrtIdle, CrtState, ExecIdle, ExecState, CctIdle, CctState,
                    RsPoll, RsState, WsIdle, WsState

\* The initial state has the types and shapes.
LEMMA InitTyped == Init => Typed
<1> SUFFICES ASSUME Init PROVE Typed
  OBVIOUS
<1>1. rec \in [Task -> Record]
  <2>1. ASSUME NEW t \in Task
        PROVE  [NoRecord EXCEPT !.indegree = Cardinality(Parents(t))] \in Record
    <3>1. Cardinality(Parents(t)) \in Nat
      BY TaskSets DEF Parents
    <3> QED
      BY <3>1 DEF NoRecord, Record
  <2> QED
    BY <2>1 DEF Init
<1>2. waitQueue \in [Sched -> Seq(Task)]
  BY SchedulerAssumption DEF Init
<1>4. /\ crt \in [Sched -> CrtState] /\ exec \in [Sched -> [Core -> ExecState]]
      /\ cct \in [Sched -> CctState] /\ rs \in [Sched -> RsState]
  BY IdleStates DEF Init
<1>5. ws \in [Sched -> WsState]
  BY IdleStates DEF Init
<1>6. completeQueue \in [Sched -> Seq(CmpQueueItem)]
  BY DEF Init
<1>a. /\ numTasksDone \in Int /\ running \in [Sched -> BOOLEAN]
      /\ numTaskFin \in [Sched -> Nat] /\ prevNumTaskFin \in [Sched -> Nat]
  BY DEF Init
<1>b. /\ wsQueue \in [Sched -> SUBSET Task] /\ localQueue \in [Sched -> SUBSET Task]
      /\ localData \in [Sched -> SUBSET DataName] /\ lqm \in [Sched -> SUBSET Task]
  BY DEF Init
<1>7. TypeOK
  BY <1>1, <1>2, <1>4, <1>5, <1>6, <1>a, <1>b DEF TypeOK
<1>8. CrtShape /\ CctShape /\ WsShape
  <2>1. CctOK(CctIdle)
    BY IdleStates DEF CctOK, CctIdle
  <2>2. WsOK(WsHead)
    BY IdleStates DEF WsOK
  <2> QED
    BY <2>1, <2>2, IdleStates DEF Init, CrtShape, CrtOK, CctShape, WsShape, CrtIdle
<1>9. ExecShape
  BY IdleStates DEF Init, ExecShape, ExecOK, ExecIdle
<1> QED
  BY <1>7, <1>8, <1>9 DEF Typed

\* The steps of checking_ready_task and of recv_pushing_task keep the types.
LEMMA CheckingReadyTaskTyped ==
  ASSUME Typed, NEW s \in Sched, CheckingReadyTask(s)
  PROVE  Typed'
<1> USE DEF zht, queues, counters
<1> DEFINE e == crt[s]
<1>a. CrtOK(e)
  BY DEF Typed, CrtShape
<1>b. ASSUME NEW f, CrtOK(f), crt' = [crt EXCEPT ![s] = f]
      PROVE  crt' \in [Sched -> CrtState] /\ CrtShape'
  BY <1>b DEF Typed, TypeOK, CrtShape, CrtOK
<1>c. CrtOK(CrtIdle)
  BY IdleStates DEF CrtOK, CrtIdle
<1> HIDE DEF e
<1>1. CASE CheckNotReady(s)
  BY <1>1 DEF CheckNotReady, Typed, TypeOK, CrtShape, ExecShape, CctShape, WsShape
<1>2. CASE CheckReady(s)
  <2> DEFINE t == Head(waitQueue[s])
  <2>1. t \in Task /\ waitQueue' \in [Sched -> Seq(Task)] /\ rec[t] \in Record
    BY <1>2 DEF CheckReady, Typed, TypeOK
  <2>2. crt' = [crt EXCEPT ![s] = [pc |-> "ready", task |-> t, value |-> rec[t],
                                   dest |-> None]]
    BY <1>2 DEF CheckReady
  <2> HIDE DEF t
  <2>3. CrtOK([pc |-> "ready", task |-> t, value |-> rec[t], dest |-> None])
    BY <2>1 DEF CrtOK, CrtState
  <2>4. crt' \in [Sched -> CrtState] /\ CrtShape'
    BY <1>b, <2>2, <2>3
  <2> QED
    BY <1>2, <2>1, <2>4 DEF CheckReady, Typed, TypeOK, ExecShape, CctShape, WsShape
<1>3. CASE ReadyToSteal(s) \/ ReadyLocal(s)
  <2>1. e.task \in Task
    BY <1>a, <1>3 DEF ReadyToSteal, ReadyLocal, CrtOK, e
  <2>2. wsQueue' \in [Sched -> SUBSET Task] /\ localQueue' \in [Sched -> SUBSET Task]
    <3>1. wsQueue \in [Sched -> SUBSET Task] /\ localQueue \in [Sched -> SUBSET Task]
      BY DEF Typed, TypeOK
    <3>2. CASE ReadyToSteal(s)
      BY <2>1, <3>1, <3>2 DEF ReadyToSteal, e
    <3>3. CASE ReadyLocal(s)
      BY <2>1, <3>1, <3>3 DEF ReadyLocal, e
    <3> QED
      BY <1>3, <3>2, <3>3
  <2>3. crt' \in [Sched -> CrtState] /\ CrtShape'
    BY <1>b, <1>c, <1>3 DEF ReadyToSteal, ReadyLocal
  <2> QED
    BY <1>3, <2>2, <2>3 DEF ReadyToSteal, ReadyLocal, Typed, TypeOK, ExecShape,
                            CctShape, WsShape
<1>4. CASE PushTask(s)
  <2>1. PICK m \in MaxInputs(e.value.inputs) :
          crt' = [crt EXCEPT ![s] = [e EXCEPT !.pc = "push", !.dest = m.host]]
    BY <1>4 DEF PushTask, e
  <2>2. m.host \in Sched
    BY <1>a, <2>1 DEF MaxInputs, CrtOK, CrtState, Record, Input
  <2>3. CrtOK([e EXCEPT !.pc = "push", !.dest = m.host])
    BY <1>a, <1>4, <2>2 DEF PushTask, CrtOK, CrtState, e
  <2>4. crt' \in [Sched -> CrtState] /\ CrtShape'
    BY <1>b, <2>1, <2>3
  <2> QED
    BY <1>4, <2>4 DEF PushTask, Typed, TypeOK, ExecShape, CctShape, WsShape
<1>5. CASE RecvPushingTask(s)
  <2>1. e.task \in Task /\ e.dest \in Sched
    BY <1>a, <1>5 DEF RecvPushingTask, CrtOK, e
  <2>2. localQueue' \in [Sched -> SUBSET Task]
    BY <1>5, <2>1 DEF RecvPushingTask, Typed, TypeOK, e
  <2>3. crt' \in [Sched -> CrtState] /\ CrtShape'
    BY <1>b, <1>c, <1>5 DEF RecvPushingTask
  <2> QED
    BY <1>5, <2>2, <2>3 DEF RecvPushingTask, Typed, TypeOK, ExecShape, CctShape,
                            WsShape
<1>6. CASE CrtExit(s)
  <2>1. CrtOK([e EXCEPT !.pc = "exit"])
    BY <1>a, <1>6 DEF CrtExit, CrtOK, CrtState, e
  <2>2. crt' \in [Sched -> CrtState] /\ CrtShape'
    BY <1>b, <1>6, <2>1 DEF CrtExit, e
  <2> QED
    BY <1>6, <2>2 DEF CrtExit, Typed, TypeOK, ExecShape, CctShape, WsShape
<1> QED
  BY <1>1, <1>2, <1>3, <1>4, <1>5, <1>6 DEF CheckingReadyTask

\* Storing one well-formed thread state keeps the others well formed.
LEMMA ExecUpdate ==
  ASSUME Typed, NEW s \in Sched, NEW c \in Core, NEW e, ExecOK(e),
         exec' = [exec EXCEPT ![s][c] = e]
  PROVE  exec' \in [Sched -> [Core -> ExecState]] /\ ExecShape'
<1>1. exec \in [Sched -> [Core -> ExecState]] /\ ExecShape
  BY DEF Typed, TypeOK
<1>2. exec' \in [Sched -> [Core -> ExecState]]
  BY <1>1 DEF ExecOK
<1>3. ASSUME NEW r \in Sched, NEW d \in Core
      PROVE  ExecOK(exec'[r][d])
  <2>1. exec'[r][d] = IF r = s /\ d = c THEN e ELSE exec[r][d]
    BY <1>1
  <2> QED
    BY <1>1, <2>1 DEF ExecShape
<1>4. ExecShape'
  BY <1>3 DEF ExecShape
<1> QED
  BY <1>2, <1>4

\* The steps of executing_task and exec_a_task keep the types.
LEMMA ExecutingTaskTyped ==
  ASSUME Typed, NEW s \in Sched, NEW c \in Core, ExecutingTask(s, c)
  PROVE  Typed'
<1> USE DEF zht, queues, counters
<1> DEFINE e == exec[s][c]
<1>a. ExecOK(e)
  BY DEF Typed, ExecShape
<1>b. ASSUME NEW f, ExecOK(f), exec' = [exec EXCEPT ![s][c] = f]
      PROVE  exec' \in [Sched -> [Core -> ExecState]] /\ ExecShape'
  BY <1>b, ExecUpdate
<1>c. ExecOK(ExecIdle)
  BY IdleStates DEF ExecOK, ExecIdle
<1> HIDE DEF e
<1>1. CASE ExecChoose(s, c)
  <2>1. PICK q \in {"local", "ws"} :
          exec' = [exec EXCEPT ![s][c] = [@ EXCEPT !.pc = q]]
    BY <1>1 DEF ExecChoose
  <2>2. ExecOK([e EXCEPT !.pc = q])
    BY <1>a, <1>1 DEF ExecChoose, ExecOK, ExecState, e
  <2>3. exec' \in [Sched -> [Core -> ExecState]] /\ ExecShape'
    BY <1>b, <2>1, <2>2 DEF e
  <2> QED
    BY <1>1, <2>3 DEF ExecChoose, Typed, TypeOK, CrtShape, CctShape, WsShape
<1>2. CASE ExecPopLocal(s, c)
  <2>1. CASE localQueue[s] = {}
    <3>1. exec' = [exec EXCEPT ![s][c] = ExecIdle] /\ UNCHANGED localQueue
      BY <1>2, <2>1 DEF ExecPopLocal
    <3> QED
      BY <1>2, <1>b, <1>c, <3>1 DEF ExecPopLocal, Typed, TypeOK, CrtShape, CctShape, WsShape
  <2>2. CASE localQueue[s] # {}
    <3>1. PICK t \in localQueue[s] :
            /\ localQueue' = [localQueue EXCEPT ![s] = @ \ {t}]
            /\ exec' = [exec EXCEPT ![s][c] = [@ EXCEPT !.pc = "lookup", !.task = t]]
      BY <1>2, <2>2 DEF ExecPopLocal
    <3>2. t \in Task /\ localQueue' \in [Sched -> SUBSET Task]
      BY <3>1 DEF Typed, TypeOK
    <3>3. ExecOK([e EXCEPT !.pc = "lookup", !.task = t])
      BY <1>a, <3>2 DEF ExecOK, ExecState
    <3>4. exec' \in [Sched -> [Core -> ExecState]] /\ ExecShape'
      BY <1>b, <3>1, <3>3 DEF e
    <3> QED
      BY <1>2, <3>2, <3>4 DEF ExecPopLocal, Typed, TypeOK, CrtShape, CctShape, WsShape
  <2> QED
    BY <2>1, <2>2
<1>3. CASE ExecPopWs(s, c)
  <2>1. CASE wsQueue[s] = {}
    <3>1. exec' = [exec EXCEPT ![s][c] = ExecIdle] /\ UNCHANGED wsQueue
      BY <1>3, <2>1 DEF ExecPopWs
    <3> QED
      BY <1>3, <1>b, <1>c, <3>1 DEF ExecPopWs, Typed, TypeOK, CrtShape, CctShape, WsShape
  <2>2. CASE wsQueue[s] # {}
    <3>1. PICK t \in wsQueue[s] :
            /\ wsQueue' = [wsQueue EXCEPT ![s] = @ \ {t}]
            /\ exec' = [exec EXCEPT ![s][c] = [@ EXCEPT !.pc = "lookup", !.task = t]]
      BY <1>3, <2>2 DEF ExecPopWs
    <3>2. t \in Task /\ wsQueue' \in [Sched -> SUBSET Task]
      BY <3>1 DEF Typed, TypeOK
    <3>3. ExecOK([e EXCEPT !.pc = "lookup", !.task = t])
      BY <1>a, <3>2 DEF ExecOK, ExecState
    <3>4. exec' \in [Sched -> [Core -> ExecState]] /\ ExecShape'
      BY <1>b, <3>1, <3>3 DEF e
    <3> QED
      BY <1>3, <3>2, <3>4 DEF ExecPopWs, Typed, TypeOK, CrtShape, CctShape, WsShape
  <2> QED
    BY <2>1, <2>2
<1>4. CASE ExecLookup(s, c)
  <2> DEFINE todo == {i \in rec[e.task].inputs : i.size > 0}
  <2>1. e.task \in Task
    BY <1>a, <1>4 DEF ExecLookup, ExecOK, e
  <2>2. todo \in SUBSET Input
    BY <2>1 DEF Typed, TypeOK, Record
  <2>3. exec' = [exec EXCEPT ![s][c] = [e EXCEPT !.pc = "fetch", !.todo = todo]]
    BY <1>4 DEF ExecLookup, e
  <2> HIDE DEF todo
  <2>4. ExecOK([e EXCEPT !.pc = "fetch", !.todo = todo])
    BY <1>a, <2>1, <2>2 DEF ExecOK, ExecState
  <2>5. exec' \in [Sched -> [Core -> ExecState]] /\ ExecShape'
    BY <1>b, <2>3, <2>4
  <2> QED
    BY <1>4, <2>5 DEF ExecLookup, Typed, TypeOK, CrtShape, CctShape, WsShape
<1>5. CASE FetchHere(s, c)
  <2>1. PICK i \in e.todo : exec' = [exec EXCEPT ![s][c] = [e EXCEPT !.todo = e.todo \ {i}]]
    BY <1>5 DEF FetchHere, e
  <2>2. ExecOK([e EXCEPT !.todo = e.todo \ {i}])
    <3>1. e.todo \ {i} \in SUBSET Input
      BY <1>a DEF ExecOK, ExecState
    <3>2. [e EXCEPT !.todo = e.todo \ {i}] \in ExecState
      BY <1>a, <3>1 DEF ExecOK, ExecState
    <3> QED
      BY <1>a, <3>2 DEF ExecOK, ExecState
  <2>3. exec' \in [Sched -> [Core -> ExecState]] /\ ExecShape'
    BY <1>b, <2>1, <2>2
  <2> QED
    BY <1>5, <2>3 DEF FetchHere, Typed, TypeOK, CrtShape, CctShape, WsShape
<1>6. CASE RequireData(s, c)
  <2>1. PICK i \in e.todo :
          exec' = [exec EXCEPT ![s][c] =
                     [e EXCEPT !.pc = "recv", !.todo = e.todo \ {i}, !.name = i.name,
                               !.found = i.name \in localData[i.host]]]
    BY <1>6 DEF RequireData, e
  <2>2. i.name \in DataName
    <3>1. e.todo \in SUBSET Input
      BY <1>a DEF ExecOK, ExecState
    <3> QED
      BY <2>1, <3>1 DEF Input
  <2> DEFINE b == i.name \in localData[i.host]
  <2>3. b \in BOOLEAN
    OBVIOUS
  <2>4. e.task \in Task
    BY <1>a, <1>6 DEF RequireData, ExecOK, e
  <2> HIDE DEF b
  <2>5. ExecOK([e EXCEPT !.pc = "recv", !.todo = e.todo \ {i}, !.name = i.name, !.found = b])
    BY <1>a, <2>2, <2>3, <2>4 DEF ExecOK, ExecState
  <2>6. exec' \in [Sched -> [Core -> ExecState]] /\ ExecShape'
    BY <1>b, <2>1, <2>5 DEF b
  <2> QED
    BY <1>6, <2>6 DEF RequireData, Typed, TypeOK, CrtShape, CctShape, WsShape
<1>7. CASE ReceiveData(s, c)
  <2>1. e.task \in Task /\ e.name \in DataName
    BY <1>a, <1>7 DEF ReceiveData, ExecOK, e
  <2>2. localData' \in [Sched -> SUBSET DataName]
    BY <1>7, <2>1 DEF ReceiveData, Typed, TypeOK, e
  <2>3. ExecOK([e EXCEPT !.pc = "fetch", !.name = None, !.found = TRUE])
    BY <1>a, <2>1 DEF ExecOK, ExecState
  <2>4. exec' \in [Sched -> [Core -> ExecState]] /\ ExecShape'
    BY <1>b, <1>7, <2>3 DEF ReceiveData, e
  <2> QED
    BY <1>7, <2>2, <2>4 DEF ReceiveData, Typed, TypeOK, CrtShape, CctShape, WsShape
<1>8. CASE ExecRun(s, c)
  <2>1. e.task \in Task
    BY <1>a, <1>8 DEF ExecRun, ExecOK, e
  <2>2. localData' \in [Sched -> SUBSET DataName]
    BY <1>8, <2>1 DEF ExecRun, Typed, TypeOK, DataName, e
  <2>3. ExecOK([e EXCEPT !.pc = "stored"])
    BY <1>a, <2>1 DEF ExecOK, ExecState
  <2>4. exec' \in [Sched -> [Core -> ExecState]] /\ ExecShape'
    BY <1>b, <1>8, <2>3 DEF ExecRun, e
  <2> QED
    BY <1>8, <2>2, <2>4 DEF ExecRun, Typed, TypeOK, CrtShape, CctShape, WsShape
<1>9. CASE ExecComplete(s, c)
  <2> DEFINE item == [task |-> e.task, key |-> <<s, e.task>>,
                      dataSize |-> OutputSize[e.task]]
  <2>1. e.task \in Task
    BY <1>a, <1>9 DEF ExecComplete, ExecOK, e
  <2>2. item \in CmpQueueItem
    BY <2>1, SchedulerAssumption DEF DataName, CmpQueueItem
  <2>3. completeQueue' = [completeQueue EXCEPT ![s] = Append(@, item)]
    BY <1>9 DEF ExecComplete, e
  <2> HIDE DEF item
  <2>4. completeQueue' \in [Sched -> Seq(CmpQueueItem)]
    BY <2>2, <2>3 DEF Typed, TypeOK
  <2>5. ExecOK([e EXCEPT !.pc = "count"])
    BY <1>a, <2>1 DEF ExecOK, ExecState
  <2>6. exec' \in [Sched -> [Core -> ExecState]] /\ ExecShape'
    BY <1>b, <1>9, <2>5 DEF ExecComplete, e
  <2> QED
    BY <1>9, <2>4, <2>6 DEF ExecComplete, Typed, TypeOK, CrtShape, CctShape, WsShape
<1>10. CASE ExecCount(s, c)
  <2>1. numTaskFin' \in [Sched -> Nat]
    BY <1>10 DEF ExecCount, Typed, TypeOK
  <2>2. exec' \in [Sched -> [Core -> ExecState]] /\ ExecShape'
    BY <1>b, <1>c, <1>10 DEF ExecCount
  <2> QED
    BY <1>10, <2>1, <2>2 DEF ExecCount, Typed, TypeOK, CrtShape, CctShape, WsShape
<1>11. CASE ExecExit(s, c)
  <2>1. ExecOK([e EXCEPT !.pc = "exit"])
    BY <1>a, <1>11 DEF ExecExit, ExecOK, ExecState, e
  <2>2. exec' \in [Sched -> [Core -> ExecState]] /\ ExecShape'
    BY <1>b, <1>11, <2>1 DEF ExecExit, e
  <2> QED
    BY <1>11, <2>2 DEF ExecExit, Typed, TypeOK, CrtShape, CctShape, WsShape
<1> QED
  BY <1>1, <1>2, <1>3, <1>4, <1>5, <1>6, <1>7, <1>8, <1>9, <1>10, <1>11
     DEF ExecutingTask

\* The steps of checking_complete_task and notify_children keep the types.
LEMMA CheckingCompleteTaskTyped ==
  ASSUME Typed, NEW s \in Sched, CheckingCompleteTask(s)
  PROVE  Typed'
<1> USE DEF zht, queues, counters
<1> DEFINE e == cct[s]
<1>a. CctOK(e)
  BY DEF Typed, CctShape
<1>b. ASSUME NEW f, CctOK(f), cct' = [cct EXCEPT ![s] = f]
      PROVE  cct' \in [Sched -> CctState] /\ CctShape'
  BY <1>b DEF Typed, TypeOK, CctShape, CctOK
<1>c. CctOK(CctIdle)
  BY IdleStates DEF CctOK, CctIdle
<1>d. rec \in [Task -> Record]
  BY DEF Typed, TypeOK
<1> HIDE DEF e
<1>1. CASE CctPop(s)
  <2> DEFINE item == Head(completeQueue[s])
  <2>1. /\ completeQueue' \in [Sched -> Seq(CmpQueueItem)]
        /\ item \in CmpQueueItem
    BY <1>1 DEF CctPop, Typed, TypeOK
  <2>2. item.task \in Task /\ Children[item.task] \in SUBSET Task
    BY <2>1, SchedulerAssumption DEF CmpQueueItem
  <2> HIDE DEF item
  <2>3. CctOK([e EXCEPT !.pc = "notify", !.item = item, !.todo = Children[item.task]])
    BY <1>a, <1>1, <2>1, <2>2 DEF CctPop, CctOK, CctState, e
  <2>4. CASE cct' = cct
    BY <1>1, <2>1, <2>4 DEF CctPop, Typed, TypeOK, CrtShape, ExecShape, CctShape,
                            WsShape
  <2>5. CASE cct' = [cct EXCEPT ![s] = [e EXCEPT !.pc = "notify", !.item = item,
                                                 !.todo = Children[item.task]]]
    <3>1. cct' \in [Sched -> CctState] /\ CctShape'
      BY <1>b, <2>3, <2>5
    <3> QED
      BY <1>1, <2>1, <3>1 DEF CctPop, Typed, TypeOK, CrtShape, ExecShape, WsShape
  <2> QED
    BY <1>1, <2>4, <2>5 DEF CctPop, item, e
<1>2. CASE CctLookupChild(s)
  <2>1. PICK child \in e.todo :
          cct' = [cct EXCEPT ![s] = [e EXCEPT !.pc = "swap", !.child = child,
                                              !.todo = e.todo \ {child},
                                              !.seen = rec[child]]]
    BY <1>2 DEF CctLookupChild, e
  <2>2. child \in Task /\ rec[child] \in Record /\ e.todo \ {child} \in SUBSET Task
    BY <1>a, <1>d, <2>1 DEF CctOK, CctState
  <2>3. CctOK([e EXCEPT !.pc = "swap", !.child = child, !.todo = e.todo \ {child},
                        !.seen = rec[child]])
    BY <1>a, <1>2, <2>2 DEF CctLookupChild, CctOK, CctState, e
  <2>4. cct' \in [Sched -> CctState] /\ CctShape'
    BY <1>b, <2>1, <2>3
  <2> QED
    BY <1>2, <2>4 DEF CctLookupChild, Typed, TypeOK, CrtShape, ExecShape, WsShape
<1>3. CASE CctSwap(s)
  <2>1. e.child \in Task /\ e.item \in CmpQueueItem /\ e.seen \in Record
    BY <1>a, <1>3 DEF CctSwap, Swapping, CctOK, CctState, e
  <2>2. Notified(e.seen, s, e.item) \in Record
    BY <2>1 DEF Notified, Record, CmpQueueItem, Input
  <2>3. rec' \in [Task -> Record]
    BY <1>3, <1>d, <2>2 DEF CctSwap, e
  <2>4. CctOK([e EXCEPT !.pc = "notify", !.child = None, !.seen = NoRecord])
    BY <1>a, <2>1, IdleStates DEF CctOK, CctState
  <2>5. cct' \in [Sched -> CctState] /\ CctShape'
    <3>1. PICK f : CctOK(f) /\ cct' = [cct EXCEPT ![s] = f]
      BY <1>3, <1>c, <2>4 DEF CctSwap, e
    <3> QED
      BY <1>b, <3>1
  <2> QED
    BY <1>3, <2>3, <2>5 DEF CctSwap, Typed, TypeOK, CrtShape, ExecShape, WsShape
<1>4. CASE CctRetry(s)
  <2>1. e.child \in Task /\ e.item \in CmpQueueItem
    BY <1>a, <1>4 DEF CctRetry, Swapping, CctOK, e
  <2>2. rec[e.child] \in Record
    BY <1>d, <2>1
  <2>3. CctOK([e EXCEPT !.pc = "retry", !.seen = rec[e.child]])
    BY <1>a, <2>1, <2>2 DEF CctOK, CctState
  <2>4. cct' \in [Sched -> CctState] /\ CctShape'
    BY <1>b, <1>4, <2>3 DEF CctRetry, e
  <2> QED
    BY <1>4, <2>4 DEF CctRetry, Typed, TypeOK, CrtShape, ExecShape, WsShape
<1>5. CASE CctExit(s)
  <2>1. CctOK([e EXCEPT !.pc = "exit"])
    BY <1>a, <1>5 DEF CctExit, CctOK, CctState, e
  <2>2. cct' \in [Sched -> CctState] /\ CctShape'
    BY <1>b, <1>5, <2>1 DEF CctExit, e
  <2> QED
    BY <1>5, <2>2 DEF CctExit, Typed, TypeOK, CrtShape, ExecShape, WsShape
<1> QED
  BY <1>1, <1>2, <1>3, <1>4, <1>5 DEF CheckingCompleteTask

\* The steps of recording_stat keep the types.
LEMMA RecordingStatTyped ==
  ASSUME Typed, NEW s \in Sched, RecordingStat(s)
  PROVE  Typed'
<1> USE DEF zht, queues, counters
<1>a. /\ rs \in [Sched -> RsState] /\ numTasksDone \in Int
      /\ numTaskFin \in [Sched -> Nat] /\ prevNumTaskFin \in [Sched -> Nat]
      /\ running \in [Sched -> BOOLEAN]
  BY DEF Typed, TypeOK
<1>b. /\ rs' \in [Sched -> RsState] /\ numTasksDone' \in Int
      /\ numTaskFin' \in [Sched -> Nat] /\ prevNumTaskFin' \in [Sched -> Nat]
      /\ running' \in [Sched -> BOOLEAN]
  <2>1. CASE RsLookup(s)
    <3>1. CASE numTasksDone = NumAllTask
      <4>1. [rs[s] EXCEPT !.pc = "exit"] \in RsState
        BY <1>a DEF RsState
      <4>2. rs' = [rs EXCEPT ![s] = [rs[s] EXCEPT !.pc = "exit"]]
        BY <2>1, <3>1 DEF RsLookup
      <4>3. rs' \in [Sched -> RsState]
        BY <1>a, <4>1, <4>2
      <4> QED
        BY <1>a, <2>1, <3>1, <4>3 DEF RsLookup
    <3>2. CASE numTasksDone # NumAllTask
      BY <1>a, <2>1, <3>2 DEF RsLookup, RsState
    <3> QED
      BY <3>1, <3>2
  <2>2. CASE RsLock(s)
    BY <1>a, <2>2 DEF RsLock, RsState
  <2>3. CASE RsAdd(s)
    BY <1>a, <2>3, IdleStates DEF RsAdd, RsState
  <2>4. CASE RsRetry(s)
    BY <1>a, <2>4, IdleStates DEF RsRetry, RsState
  <2> QED
    BY <2>1, <2>2, <2>3, <2>4 DEF RecordingStat
<1>c. UNCHANGED <<rec, queues, localData, crt, exec, cct, ws, lqm>>
  BY DEF RecordingStat, RsLookup, RsLock, RsAdd, RsRetry
<1> QED
  BY <1>b, <1>c DEF Typed, TypeOK, CrtShape, ExecShape, CctShape, WsShape

\* The steps of workstealing, and of the victim's server, keep the types.
LEMMA WorkstealingTyped ==
  ASSUME Typed, NEW s \in Sched, Workstealing(s)
  PROVE  Typed'
<1> USE DEF zht, queues, counters
<1> DEFINE e == ws[s]
<1>a. WsOK(e)
  BY DEF Typed, WsShape
<1>b. ASSUME NEW f, WsOK(f), ws' = [ws EXCEPT ![s] = f]
      PROVE  ws' \in [Sched -> WsState] /\ WsShape'
  BY <1>b DEF Typed, TypeOK, WsShape, WsOK
<1>c. ASSUME NEW n \in Nat PROVE WsOK(WsIdle(n))
  BY IdleStates DEF WsOK, WsIdle
<1>d. PollIntervalStart \in Nat
  BY SchedulerAssumption
<1>e. wsQueue \in [Sched -> SUBSET Task]
  BY DEF Typed, TypeOK
<1> HIDE DEF e
<1>1. CASE WsStart(s)
  <2>1. PICK neigh \in SUBSET (Sched \ {s}) :
          ws' = [ws EXCEPT ![s] = [e EXCEPT !.pc = "query", !.todo = neigh]]
    BY <1>1 DEF WsStart, e
  <2>2. WsOK([e EXCEPT !.pc = "query", !.todo = neigh])
    <3>1. e.maxLoad = -1 /\ e.got = {} /\ neigh \in SUBSET Sched
      BY <1>a, <1>1, <2>1 DEF WsStart, WsOK, e
    <3>2. ~(e.maxLoad > 0)
      BY <3>1
    <3>3. [e EXCEPT !.pc = "query", !.todo = neigh] \in WsState
      BY <1>a, <3>1 DEF WsOK, WsState
    <3> QED
      BY <1>a, <3>1, <3>2, <3>3 DEF WsOK, WsState
  <2>3. ws' \in [Sched -> WsState] /\ WsShape'
    BY <1>b, <2>1, <2>2
  <2> QED
    BY <1>1, <2>3 DEF WsStart, Typed, TypeOK, CrtShape, ExecShape, CctShape
<1>2. CASE WsQuery(s)
  <2>1. PICK n \in e.todo :
          ws' = [ws EXCEPT ![s] =
                   [e EXCEPT !.todo = e.todo \ {n},
                             !.maxLoad = IF e.maxLoad < Cardinality(wsQueue[n])
                                         THEN Cardinality(wsQueue[n]) ELSE e.maxLoad,
                             !.victim = IF e.maxLoad < Cardinality(wsQueue[n])
                                        THEN n ELSE e.victim]]
    BY <1>2 DEF WsQuery, e
  <2>2. n \in Sched /\ e.todo \ {n} \in SUBSET Sched
    BY <1>a, <2>1 DEF WsOK, WsState
  <2> DEFINE load == Cardinality(wsQueue[n])
             m == IF e.maxLoad < load THEN load ELSE e.maxLoad
             v == IF e.maxLoad < load THEN n ELSE e.victim
  <2>3. load \in Nat
    BY <1>e, <2>2, TaskSets
  <2>4. ws' = [ws EXCEPT ![s] = [e EXCEPT !.todo = e.todo \ {n}, !.maxLoad = m,
                                          !.victim = v]]
    BY <2>1
  <2>5. e.pc = "query"
    BY <1>2 DEF WsQuery, e
  <2> HIDE DEF load
  <2>6. m \in Int /\ v \in Sched \cup {None} /\ (m > 0 => v \in Sched)
    BY <1>a, <2>2, <2>3, <2>5 DEF WsOK, WsState
  <2> HIDE DEF m, v
  <2>7. WsOK([e EXCEPT !.todo = e.todo \ {n}, !.maxLoad = m, !.victim = v])
    BY <1>a, <2>2, <2>5, <2>6 DEF WsOK, WsState
  <2>8. ws' \in [Sched -> WsState] /\ WsShape'
    BY <1>b, <2>4, <2>7
  <2> QED
    BY <1>2, <2>8 DEF WsQuery, Typed, TypeOK, CrtShape, ExecShape, CctShape
<1>3. CASE WsNothing(s)
  <2>1. 2 * e.interval \in Nat
    BY <1>a DEF WsOK, WsState
  <2>2. ws' \in [Sched -> WsState] /\ WsShape'
    BY <1>b, <1>c, <1>3, <2>1 DEF WsNothing, e
  <2> QED
    BY <1>3, <2>2 DEF WsNothing, Typed, TypeOK, CrtShape, ExecShape, CctShape
<1>4. CASE WsSteal(s)
  <2>1. e.victim \in Sched
    BY <1>a, <1>4 DEF WsSteal, WsOK, e
  <2>2. PICK T \in SUBSET wsQueue[e.victim] :
          /\ wsQueue' = [wsQueue EXCEPT ![e.victim] = @ \ T]
          /\ ws' = [ws EXCEPT ![s] = [e EXCEPT !.pc = "recv", !.got = T]]
    BY <1>4 DEF WsSteal, e
  <2>3. T \in SUBSET Task /\ wsQueue' \in [Sched -> SUBSET Task]
    BY <1>e, <2>1, <2>2
  <2>4. WsOK([e EXCEPT !.pc = "recv", !.got = T])
    BY <1>a, <2>3 DEF WsOK, WsState
  <2>5. ws' \in [Sched -> WsState] /\ WsShape'
    BY <1>b, <2>2, <2>4
  <2> QED
    BY <1>4, <2>3, <2>5 DEF WsSteal, Typed, TypeOK, CrtShape, ExecShape, CctShape
<1>5. CASE WsReceive(s)
  <2> DEFINE n == IF e.got = {} THEN 2 * e.interval ELSE PollIntervalStart
  <2>1. n \in Nat /\ e.got \in SUBSET Task
    BY <1>a, <1>d DEF WsOK, WsState
  <2>2. ws' = [ws EXCEPT ![s] = WsIdle(n)]
    BY <1>5 DEF WsReceive, e
  <2> HIDE DEF n
  <2>3. ws' \in [Sched -> WsState] /\ WsShape'
    BY <1>b, <1>c, <2>1, <2>2
  <2>4. wsQueue' \in [Sched -> SUBSET Task]
    BY <1>5, <1>e, <2>1 DEF WsReceive, e
  <2> QED
    BY <1>5, <2>3, <2>4 DEF WsReceive, Typed, TypeOK, CrtShape, ExecShape, CctShape
<1>6. CASE WsReset(s)
  <2>1. WsOK(WsHead)
    BY IdleStates DEF WsOK
  <2>2. ws' \in [Sched -> WsState] /\ WsShape'
    BY <1>b, <1>6, <2>1 DEF WsReset, e
  <2> QED
    BY <1>6, <2>2 DEF WsReset, Typed, TypeOK, CrtShape, ExecShape, CctShape
<1>7. CASE WsExit(s)
  <2>1. WsOK([e EXCEPT !.pc = "exit"])
    BY <1>a, <1>7 DEF WsExit, WsOK, WsState, e
  <2>2. ws' \in [Sched -> WsState] /\ WsShape'
    BY <1>b, <1>7, <2>1 DEF WsExit, e
  <2> QED
    BY <1>7, <2>2 DEF WsExit, Typed, TypeOK, CrtShape, ExecShape, CctShape
<1>8. CASE WsEnter(s)
  <2>1. WsOK([e EXCEPT !.pc = "idle"])
    BY <1>a, <1>8 DEF WsEnter, WsOK, WsState, e
  <2>2. ws' \in [Sched -> WsState] /\ WsShape'
    BY <1>b, <1>8, <2>1 DEF WsEnter, e
  <2> QED
    BY <1>8, <2>2 DEF WsEnter, Typed, TypeOK, CrtShape, ExecShape, CctShape
<1> QED
  BY <1>1, <1>2, <1>3, <1>4, <1>5, <1>6, <1>7, <1>8 DEF Workstealing

\* The steps of localQueue_monitor keep the types.
LEMMA LocalQueueMonitorTyped ==
  ASSUME Typed, NEW s \in Sched, LocalQueueMonitor(s)
  PROVE  Typed'
<1> USE DEF zht, queues, counters
<1>1. /\ lqm' \in [Sched -> SUBSET Task] /\ wsQueue' \in [Sched -> SUBSET Task]
      /\ localQueue' \in [Sched -> SUBSET Task]
  <2>1. /\ lqm \in [Sched -> SUBSET Task] /\ wsQueue \in [Sched -> SUBSET Task]
        /\ localQueue \in [Sched -> SUBSET Task]
    BY DEF Typed, TypeOK
  <2>2. CASE LqmTake(s)
    <3>1. PICK remain \in SUBSET localQueue[s] :
            /\ lqm' = [lqm EXCEPT ![s] = localQueue[s] \ remain]
            /\ localQueue' = [localQueue EXCEPT ![s] = remain]
      BY <2>2 DEF LqmTake
    <3>2. remain \in SUBSET Task /\ localQueue[s] \ remain \in SUBSET Task
      BY <2>1
    <3> QED
      BY <2>1, <2>2, <3>1, <3>2 DEF LqmTake
  <2>3. CASE LqmPut(s)
    BY <2>1, <2>3 DEF LqmPut
  <2> QED
    BY <2>2, <2>3 DEF LocalQueueMonitor
<1> QED
  BY <1>1 DEF LocalQueueMonitor, LqmTake, LqmPut, Typed, TypeOK, CrtShape,
              ExecShape, CctShape, WsShape

\* Every step of the system keeps the types.
LEMMA NextTyped ==
  ASSUME Typed, [Next]_vars
  PROVE  Typed'
<1>1. CASE UNCHANGED vars
  BY <1>1 DEF vars, zht, queues, counters, Typed, TypeOK, CrtShape, ExecShape,
              CctShape, WsShape
<1>2. CASE Next
  BY <1>1, <1>2, CheckingReadyTaskTyped, ExecutingTaskTyped,
     CheckingCompleteTaskTyped, RecordingStatTyped, WorkstealingTyped,
     LocalQueueMonitorTyped DEF Next, Halted
<1> QED
  BY <1>1, <1>2

\* What a thread holds always fits where it is.
LEMMA AlwaysTyped == Spec => []Typed
<1>1. Init => Typed
  BY InitTyped
<1>2. Typed /\ [Next]_vars => Typed'
  BY NextTyped
<1> QED
  BY <1>1, <1>2, PTL DEF Spec

\* Type correctness of the schedulers: whatever the threads of all schedulers
\* interleave to, every queue holds tasks, every record keeps its fields and no
\* thread uses a task, a destination, a victim or an item it does not have.
THEOREM TypeCorrect == Spec => []TypeOK
<1>1. Typed => TypeOK
  BY DEF Typed
<1> QED
  BY <1>1, AlwaysTyped, PTL

-----------------------------------------------------------------------------
(* What the steps leave alone.                                             *)

\* What the steps of each thread leave alone.
LEMMA Frames ==
  ASSUME NEW s \in Sched
  PROVE
    /\ CheckingReadyTask(s) =>
         UNCHANGED <<rec, numTasksDone, completeQueue, localData, counters, exec,
                     cct, rs, ws, lqm>>
    /\ RecordingStat(s) =>
         UNCHANGED <<rec, queues, localData, crt, exec, cct, ws, lqm>>
    /\ Workstealing(s) =>
         UNCHANGED <<rec, numTasksDone, waitQueue, localQueue, completeQueue,
                     localData, counters, crt, exec, cct, rs, lqm>>
    /\ LocalQueueMonitor(s) =>
         UNCHANGED <<rec, numTasksDone, waitQueue, completeQueue, localData,
                     counters, crt, exec, cct, rs, ws>>
    /\ CheckingCompleteTask(s) =>
         UNCHANGED <<numTasksDone, waitQueue, wsQueue, localQueue, localData,
                     counters, crt, exec, rs, ws, lqm>>
    /\ \A c \in Core : ExecutingTask(s, c) =>
         UNCHANGED <<rec, numTasksDone, waitQueue, running, prevNumTaskFin, crt,
                     cct, rs, ws, lqm>>
<1> USE DEF zht, queues, counters
<1>1. ASSUME CheckingReadyTask(s)
      PROVE  UNCHANGED <<rec, numTasksDone, completeQueue, localData, counters,
                         exec, cct, rs, ws, lqm>>
  <2>1. CASE CheckNotReady(s)
    BY <2>1 DEF CheckNotReady
  <2>2. CASE CheckReady(s)
    BY <2>2 DEF CheckReady
  <2>3. CASE ReadyToSteal(s)
    BY <2>3 DEF ReadyToSteal
  <2>4. CASE ReadyLocal(s)
    BY <2>4 DEF ReadyLocal
  <2>5. CASE PushTask(s)
    BY <2>5 DEF PushTask
  <2>6. CASE RecvPushingTask(s)
    BY <2>6 DEF RecvPushingTask
  <2>7. CASE CrtExit(s)
    BY <2>7 DEF CrtExit
  <2> QED
    BY <1>1, <2>1, <2>2, <2>3, <2>4, <2>5, <2>6, <2>7 DEF CheckingReadyTask
<1>2. ASSUME RecordingStat(s)
      PROVE  UNCHANGED <<rec, queues, localData, crt, exec, cct, ws, lqm>>
  <2>1. CASE RsLookup(s)
    BY <2>1 DEF RsLookup
  <2>2. CASE RsLock(s)
    BY <2>2 DEF RsLock
  <2>3. CASE RsAdd(s)
    BY <2>3 DEF RsAdd
  <2>4. CASE RsRetry(s)
    BY <2>4 DEF RsRetry
  <2> QED
    BY <1>2, <2>1, <2>2, <2>3, <2>4 DEF RecordingStat
<1>3. ASSUME Workstealing(s)
      PROVE  UNCHANGED <<rec, numTasksDone, waitQueue, localQueue, completeQueue,
                         localData, counters, crt, exec, cct, rs, lqm>>
  <2>1. CASE WsStart(s)
    BY <2>1 DEF WsStart
  <2>2. CASE WsQuery(s)
    BY <2>2 DEF WsQuery
  <2>3. CASE WsNothing(s)
    BY <2>3 DEF WsNothing
  <2>4. CASE WsSteal(s)
    BY <2>4 DEF WsSteal
  <2>5. CASE WsReceive(s)
    BY <2>5 DEF WsReceive
  <2>6. CASE WsReset(s)
    BY <2>6 DEF WsReset
  <2>7. CASE WsExit(s)
    BY <2>7 DEF WsExit
  <2>8. CASE WsEnter(s)
    BY <2>8 DEF WsEnter
  <2> QED
    BY <1>3, <2>1, <2>2, <2>3, <2>4, <2>5, <2>6, <2>7, <2>8 DEF Workstealing
<1>4. ASSUME LocalQueueMonitor(s)
      PROVE  UNCHANGED <<rec, numTasksDone, waitQueue, completeQueue, localData,
                         counters, crt, exec, cct, rs, ws>>
  <2>1. CASE LqmTake(s)
    BY <2>1 DEF LqmTake
  <2>2. CASE LqmPut(s)
    BY <2>2 DEF LqmPut
  <2> QED
    BY <1>4, <2>1, <2>2 DEF LocalQueueMonitor
<1>5. ASSUME CheckingCompleteTask(s)
      PROVE  UNCHANGED <<numTasksDone, waitQueue, wsQueue, localQueue, localData,
                         counters, crt, exec, rs, ws, lqm>>
  <2>1. CASE CctPop(s)
    BY <2>1 DEF CctPop
  <2>2. CASE CctLookupChild(s)
    BY <2>2 DEF CctLookupChild
  <2>3. CASE CctSwap(s)
    BY <2>3 DEF CctSwap
  <2>4. CASE CctRetry(s)
    BY <2>4 DEF CctRetry
  <2>5. CASE CctExit(s)
    BY <2>5 DEF CctExit
  <2> QED
    BY <1>5, <2>1, <2>2, <2>3, <2>4, <2>5 DEF CheckingCompleteTask
<1>6. ASSUME NEW c \in Core, ExecutingTask(s, c)
      PROVE  UNCHANGED <<rec, numTasksDone, waitQueue, running, prevNumTaskFin, crt,
                         cct, rs, ws, lqm>>
  <2>1. CASE ExecChoose(s, c)
    BY <2>1 DEF ExecChoose
  <2>2. CASE ExecPopLocal(s, c)
    BY <2>2, Zenon DEF ExecPopLocal
  <2>3. CASE ExecPopWs(s, c)
    BY <2>3, Zenon DEF ExecPopWs
  <2>4. CASE ExecLookup(s, c)
    BY <2>4 DEF ExecLookup
  <2>5. CASE FetchHere(s, c)
    BY <2>5 DEF FetchHere
  <2>6. CASE RequireData(s, c)
    BY <2>6 DEF RequireData
  <2>7. CASE ReceiveData(s, c)
    BY <2>7 DEF ReceiveData
  <2>8. CASE ExecRun(s, c)
    BY <2>8 DEF ExecRun
  <2>9. CASE ExecComplete(s, c)
    BY <2>9 DEF ExecComplete
  <2>10. CASE ExecCount(s, c)
    BY <2>10 DEF ExecCount
  <2>11. CASE ExecExit(s, c)
    BY <2>11 DEF ExecExit
  <2> QED
    BY <1>6, <2>1, <2>2, <2>3, <2>4, <2>5, <2>6, <2>7, <2>8, <2>9, <2>10, <2>11 DEF ExecutingTask
<1> QED
  BY <1>1, <1>2, <1>3, <1>4, <1>5, <1>6

(* What each step of an executing thread does.                             *)

\* One executing thread's state becomes f; nothing else of exec changes.
ExecBecomes(s, c, f) == exec' = [exec EXCEPT ![s][c] = f]

ExecElsewhere(s, c) ==
  \A r \in Sched, d \in Core : r # s \/ d # c => exec'[r][d] = exec[r][d]

KeepsTask(s, c) ==
  exec'[s][c].task = exec[s][c].task /\ exec'[s][c].found = exec[s][c].found

\* An assignment to one thread's state is seen there and nowhere else.
LEMMA ExecAt ==
  ASSUME Typed, NEW s \in Sched, NEW c \in Core, NEW f, ExecBecomes(s, c, f)
  PROVE  exec'[s][c] = f /\ ExecElsewhere(s, c)
<1>1. exec \in [Sched -> [Core -> ExecState]]
  BY DEF Typed, TypeOK
<1> QED
  BY <1>1 DEF ExecBecomes, ExecElsewhere

\* executing_task chooses a queue.
LEMMA ExecChooseEffect ==
  ASSUME Typed, NEW s \in Sched, NEW c \in Core, ExecChoose(s, c)
  PROVE  /\ exec[s][c].pc = "idle" /\ exec'[s][c].pc \in {"local", "ws"}
         /\ KeepsTask(s, c) /\ exec'[s][c].todo = exec[s][c].todo
         /\ ExecElsewhere(s, c)
         /\ UNCHANGED <<wsQueue, localQueue, completeQueue, localData, numTaskFin>>
<1> USE DEF zht, queues, counters
<1> DEFINE e == exec[s][c]
<1>1. e \in ExecState
  BY DEF Typed, TypeOK
<1>2. PICK q \in {"local", "ws"} : ExecBecomes(s, c, [e EXCEPT !.pc = q])
  BY DEF ExecChoose, ExecBecomes
<1>3. exec'[s][c] = [e EXCEPT !.pc = q] /\ ExecElsewhere(s, c)
  BY <1>2, ExecAt
<1> QED
  BY <1>1, <1>3 DEF ExecChoose, ExecState, KeepsTask

\* executing_task takes a task from localQueue, or finds it empty.
LEMMA ExecPopLocalEffect ==
  ASSUME Typed, NEW s \in Sched, NEW c \in Core, ExecPopLocal(s, c)
  PROVE  /\ exec[s][c].pc = "local"
         /\ \/ exec'[s][c] = ExecIdle /\ UNCHANGED localQueue
            \/ /\ exec'[s][c].task \in localQueue[s] /\ exec'[s][c].pc = "lookup"
               /\ exec'[s][c].todo = exec[s][c].todo
               /\ exec'[s][c].found = exec[s][c].found
               /\ localQueue'[s] = localQueue[s] \ {exec'[s][c].task}
               /\ \A r \in Sched \ {s} : localQueue'[r] = localQueue[r]
         /\ ExecElsewhere(s, c)
         /\ UNCHANGED <<wsQueue, completeQueue, localData, numTaskFin>>
<1> USE DEF zht, queues, counters
<1> DEFINE e == exec[s][c]
<1>1. e \in ExecState /\ localQueue \in [Sched -> SUBSET Task]
  BY DEF Typed, TypeOK
<1>2. /\ e.pc = "local"
      /\ UNCHANGED <<wsQueue, completeQueue, localData, numTaskFin>>
  BY Zenon DEF ExecPopLocal
<1>3. CASE localQueue[s] = {}
  <2>1. ExecBecomes(s, c, ExecIdle) /\ UNCHANGED localQueue
    BY <1>3 DEF ExecPopLocal, ExecBecomes
  <2>2. exec'[s][c] = ExecIdle /\ ExecElsewhere(s, c)
    BY <2>1, ExecAt
  <2> QED
    BY <1>2, <2>1, <2>2
<1>4. CASE localQueue[s] # {}
  <2>1. PICK t \in localQueue[s] :
          /\ localQueue' = [localQueue EXCEPT ![s] = @ \ {t}]
          /\ exec' = [exec EXCEPT ![s][c] = [@ EXCEPT !.pc = "lookup", !.task = t]]
    BY <1>4 DEF ExecPopLocal
  <2>2. /\ exec'[s][c] = [e EXCEPT !.pc = "lookup", !.task = t]
        /\ ExecElsewhere(s, c)
    BY <2>1, ExecAt DEF ExecBecomes
  <2>3. /\ exec'[s][c].pc = "lookup" /\ exec'[s][c].task = t
        /\ exec'[s][c].todo = e.todo /\ exec'[s][c].found = e.found
    BY <1>1, <2>2 DEF ExecState
  <2>4. /\ localQueue'[s] = localQueue[s] \ {t}
        /\ \A r \in Sched \ {s} : localQueue'[r] = localQueue[r]
    BY <1>1, <2>1
  <2> QED
    BY <1>2, <2>2, <2>3, <2>4
<1> QED
  BY <1>3, <1>4

\* executing_task takes a task from wsQueue, or finds it empty.
LEMMA ExecPopWsEffect ==
  ASSUME Typed, NEW s \in Sched, NEW c \in Core, ExecPopWs(s, c)
  PROVE  /\ exec[s][c].pc = "ws"
         /\ \/ exec'[s][c] = ExecIdle /\ UNCHANGED wsQueue
            \/ /\ exec'[s][c].task \in wsQueue[s] /\ exec'[s][c].pc = "lookup"
               /\ exec'[s][c].todo = exec[s][c].todo
               /\ exec'[s][c].found = exec[s][c].found
               /\ wsQueue'[s] = wsQueue[s] \ {exec'[s][c].task}
               /\ \A r \in Sched \ {s} : wsQueue'[r] = wsQueue[r]
         /\ ExecElsewhere(s, c)
         /\ UNCHANGED <<localQueue, completeQueue, localData, numTaskFin>>
<1> USE DEF zht, queues, counters
<1> DEFINE e == exec[s][c]
<1>1. e \in ExecState /\ wsQueue \in [Sched -> SUBSET Task]
  BY DEF Typed, TypeOK
<1>2. /\ e.pc = "ws"
      /\ UNCHANGED <<localQueue, completeQueue, localData, numTaskFin>>
  BY Zenon DEF ExecPopWs
<1>3. CASE wsQueue[s] = {}
  <2>1. ExecBecomes(s, c, ExecIdle) /\ UNCHANGED wsQueue
    BY <1>3 DEF ExecPopWs, ExecBecomes
  <2>2. exec'[s][c] = ExecIdle /\ ExecElsewhere(s, c)
    BY <2>1, ExecAt
  <2> QED
    BY <1>2, <2>1, <2>2
<1>4. CASE wsQueue[s] # {}
  <2>1. PICK t \in wsQueue[s] :
          /\ wsQueue' = [wsQueue EXCEPT ![s] = @ \ {t}]
          /\ exec' = [exec EXCEPT ![s][c] = [@ EXCEPT !.pc = "lookup", !.task = t]]
    BY <1>4 DEF ExecPopWs
  <2>2. /\ exec'[s][c] = [e EXCEPT !.pc = "lookup", !.task = t]
        /\ ExecElsewhere(s, c)
    BY <2>1, ExecAt DEF ExecBecomes
  <2>3. /\ exec'[s][c].pc = "lookup" /\ exec'[s][c].task = t
        /\ exec'[s][c].todo = e.todo /\ exec'[s][c].found = e.found
    BY <1>1, <2>2 DEF ExecState
  <2>4. /\ wsQueue'[s] = wsQueue[s] \ {t}
        /\ \A r \in Sched \ {s} : wsQueue'[r] = wsQueue[r]
    BY <1>1, <2>1
  <2> QED
    BY <1>2, <2>2, <2>3, <2>4
<1> QED
  BY <1>3, <1>4

\* exec_a_task reads the inputs of its task from the record.
LEMMA ExecLookupEffect ==
  ASSUME Typed, NEW s \in Sched, NEW c \in Core, ExecLookup(s, c)
  PROVE  /\ exec[s][c].pc = "lookup" /\ exec'[s][c].pc = "fetch" /\ KeepsTask(s, c)
         /\ exec'[s][c].todo \subseteq rec[exec[s][c].task].inputs
         /\ ExecElsewhere(s, c)
         /\ UNCHANGED <<wsQueue, localQueue, completeQueue, localData, numTaskFin>>
<1> USE DEF zht, queues, counters
<1> DEFINE e == exec[s][c]
           todo == {i \in rec[e.task].inputs : i.size > 0}
<1>1. e \in ExecState
  BY DEF Typed, TypeOK
<1>2. ExecBecomes(s, c, [e EXCEPT !.pc = "fetch", !.todo = todo])
  BY DEF ExecLookup, ExecBecomes
<1>3. /\ exec'[s][c] = [e EXCEPT !.pc = "fetch", !.todo = todo]
      /\ ExecElsewhere(s, c)
  BY <1>2, ExecAt
<1>4. /\ e.pc = "lookup"
      /\ UNCHANGED <<wsQueue, localQueue, completeQueue, localData, numTaskFin>>
  BY DEF ExecLookup
<1>5. todo \subseteq rec[e.task].inputs
  OBVIOUS
<1> HIDE DEF todo
<1>6. exec'[s][c].pc = "fetch" /\ exec'[s][c].todo = todo /\ KeepsTask(s, c)
  BY <1>1, <1>3 DEF ExecState, KeepsTask
<1> QED
  BY <1>3, <1>4, <1>5, <1>6

\* exec_a_task reads an input it has itself.
LEMMA FetchHereEffect ==
  ASSUME Typed, NEW s \in Sched, NEW c \in Core, FetchHere(s, c)
  PROVE  /\ exec[s][c].pc = "fetch" /\ exec'[s][c].pc = "fetch" /\ KeepsTask(s, c)
         /\ exec'[s][c].todo \subseteq exec[s][c].todo
         /\ ExecElsewhere(s, c)
         /\ UNCHANGED <<wsQueue, localQueue, completeQueue, localData, numTaskFin>>
<1> USE DEF zht, queues, counters
<1> DEFINE e == exec[s][c]
<1>1. e \in ExecState
  BY DEF Typed, TypeOK
<1>2. PICK i \in e.todo :
          /\ exec' = [exec EXCEPT ![s][c] =
                        [e EXCEPT !.todo = e.todo \ {i}]]
  BY DEF FetchHere
<1>3. /\ exec'[s][c] = [e EXCEPT !.todo = e.todo \ {i}]
      /\ ExecElsewhere(s, c)
  BY <1>2, ExecAt DEF ExecBecomes
<1>4. /\ e.pc = "fetch"
      /\ UNCHANGED <<wsQueue, localQueue, completeQueue, localData, numTaskFin>>
  BY DEF FetchHere
<1> QED
  BY <1>1, <1>2, <1>3, <1>4 DEF ExecState, KeepsTask, FetchHere

\* exec_a_task asks a peer for an input.
LEMMA RequireDataEffect ==
  ASSUME Typed, NEW s \in Sched, NEW c \in Core, RequireData(s, c)
  PROVE  /\ exec[s][c].pc = "fetch" /\ exec'[s][c].pc = "recv"
         /\ exec'[s][c].task = exec[s][c].task
         /\ \E i \in exec[s][c].todo :
              /\ i.host # s /\ exec'[s][c].todo = exec[s][c].todo \ {i}
              /\ exec'[s][c].name = i.name
              /\ exec'[s][c].found = (i.name \in localData[i.host])
         /\ ExecElsewhere(s, c)
         /\ UNCHANGED <<wsQueue, localQueue, completeQueue, localData, numTaskFin>>
<1> USE DEF zht, queues, counters
<1> DEFINE e == exec[s][c]
<1>1. e \in ExecState
  BY DEF Typed, TypeOK
<1>2. PICK i \in e.todo :
          /\ i.host # s
          /\ exec' = [exec EXCEPT ![s][c] =
                        [e EXCEPT !.pc = "recv", !.todo = e.todo \ {i},
                !.name = i.name, !.found = i.name \in localData[i.host]]]
  BY DEF RequireData, InputHere
<1>3. /\ exec'[s][c] = [e EXCEPT !.pc = "recv", !.todo = e.todo \ {i},
                !.name = i.name, !.found = i.name \in localData[i.host]]
      /\ ExecElsewhere(s, c)
  BY <1>2, ExecAt DEF ExecBecomes
<1> DEFINE b == i.name \in localData[i.host]
<1>4. /\ e.pc = "fetch"
      /\ UNCHANGED <<wsQueue, localQueue, completeQueue, localData, numTaskFin>>
  BY DEF RequireData
<1>5. exec'[s][c] = [e EXCEPT !.pc = "recv", !.todo = e.todo \ {i}, !.name = i.name,
                              !.found = b]
  BY <1>3
<1> HIDE DEF b
<1>6. /\ exec'[s][c].pc = "recv" /\ exec'[s][c].task = e.task
      /\ exec'[s][c].todo = e.todo \ {i} /\ exec'[s][c].name = i.name
      /\ exec'[s][c].found = b
  BY <1>1, <1>5 DEF ExecState
<1> QED
  BY <1>2, <1>3, <1>4, <1>6 DEF b

\* exec_a_task caches what the peer answered.
LEMMA ReceiveDataEffect ==
  ASSUME Typed, NEW s \in Sched, NEW c \in Core, ReceiveData(s, c)
  PROVE  /\ exec[s][c].pc = "recv" /\ exec'[s][c].pc = "fetch"
         /\ exec'[s][c].task = exec[s][c].task /\ exec'[s][c].todo = exec[s][c].todo
         /\ exec'[s][c].found
         /\ localData'[s] = localData[s] \cup {exec[s][c].name}
         /\ \A r \in Sched \ {s} : localData'[r] = localData[r]
         /\ ExecElsewhere(s, c)
         /\ UNCHANGED <<wsQueue, localQueue, completeQueue, numTaskFin>>
<1> USE DEF zht, queues, counters
<1> DEFINE e == exec[s][c]
<1>1. e \in ExecState
      /\ localData \in [Sched -> SUBSET DataName]
  BY DEF Typed, TypeOK
<1>2. ExecBecomes(s, c, [e EXCEPT !.pc = "fetch", !.name = None, !.found = TRUE])
  BY DEF ReceiveData, ExecBecomes
<1>3. /\ exec'[s][c] = [e EXCEPT !.pc = "fetch", !.name = None, !.found = TRUE]
      /\ ExecElsewhere(s, c)
  BY <1>2, ExecAt
<1>4. /\ e.pc = "recv"
      /\ UNCHANGED <<wsQueue, localQueue, completeQueue, numTaskFin>>
  BY DEF ReceiveData
<1>5. /\ localData'[s] = localData[s] \cup {exec[s][c].name}
      /\ \A r \in Sched \ {s} : localData'[r] = localData[r]
  BY <1>1 DEF ReceiveData
<1> QED
  BY <1>1, <1>3, <1>4, <1>5 DEF ExecState, KeepsTask

\* exec_a_task runs its task and stores the output.
LEMMA ExecRunEffect ==
  ASSUME Typed, NEW s \in Sched, NEW c \in Core, ExecRun(s, c)
  PROVE  /\ exec[s][c].pc = "fetch" /\ exec'[s][c].pc = "stored" /\ KeepsTask(s, c)
         /\ exec'[s][c].todo = exec[s][c].todo
         /\ localData'[s] = localData[s] \cup {<<s, exec[s][c].task>>}
         /\ \A r \in Sched \ {s} : localData'[r] = localData[r]
         /\ ExecElsewhere(s, c)
         /\ UNCHANGED <<wsQueue, localQueue, completeQueue, numTaskFin>>
<1> USE DEF zht, queues, counters
<1> DEFINE e == exec[s][c]
<1>1. e \in ExecState
      /\ localData \in [Sched -> SUBSET DataName]
  BY DEF Typed, TypeOK
<1>2. ExecBecomes(s, c, [e EXCEPT !.pc = "stored"])
  BY DEF ExecRun, ExecBecomes
<1>3. /\ exec'[s][c] = [e EXCEPT !.pc = "stored"]
      /\ ExecElsewhere(s, c)
  BY <1>2, ExecAt
<1>4. /\ e.pc = "fetch"
      /\ UNCHANGED <<wsQueue, localQueue, completeQueue, numTaskFin>>
  BY DEF ExecRun
<1>5. /\ localData'[s] = localData[s] \cup {<<s, exec[s][c].task>>}
      /\ \A r \in Sched \ {s} : localData'[r] = localData[r]
  BY <1>1 DEF ExecRun
<1> QED
  BY <1>1, <1>3, <1>4, <1>5 DEF ExecState, KeepsTask

\* exec_a_task queues the completed task for its children.
LEMMA ExecCompleteEffect ==
  ASSUME Typed, NEW s \in Sched, NEW c \in Core, ExecComplete(s, c)
  PROVE  /\ exec[s][c].pc = "stored" /\ exec'[s][c].pc = "count" /\ KeepsTask(s, c)
         /\ exec'[s][c].todo = exec[s][c].todo
         /\ completeQueue'[s] = Append(completeQueue[s],
              [task |-> exec[s][c].task, key |-> <<s, exec[s][c].task>>,
               dataSize |-> OutputSize[exec[s][c].task]])
         /\ \A r \in Sched \ {s} : completeQueue'[r] = completeQueue[r]
         /\ ExecElsewhere(s, c)
         /\ UNCHANGED <<wsQueue, localQueue, localData, numTaskFin>>
<1> USE DEF zht, queues, counters
<1> DEFINE e == exec[s][c]
<1>1. e \in ExecState
      /\ completeQueue \in [Sched -> Seq(CmpQueueItem)]
  BY DEF Typed, TypeOK
<1>2. ExecBecomes(s, c, [e EXCEPT !.pc = "count"])
  BY DEF ExecComplete, ExecBecomes
<1>3. /\ exec'[s][c] = [e EXCEPT !.pc = "count"]
      /\ ExecElsewhere(s, c)
  BY <1>2, ExecAt
<1>4. /\ e.pc = "stored"
      /\ UNCHANGED <<wsQueue, localQueue, localData, numTaskFin>>
  BY DEF ExecComplete
<1>5. /\ completeQueue'[s] = Append(completeQueue[s],
              [task |-> exec[s][c].task, key |-> <<s, exec[s][c].task>>,
               dataSize |-> OutputSize[exec[s][c].task]])
      /\ \A r \in Sched \ {s} : completeQueue'[r] = completeQueue[r]
  BY <1>1 DEF ExecComplete
<1> QED
  BY <1>1, <1>3, <1>4, <1>5 DEF ExecState, KeepsTask

\* exec_a_task counts its task and is idle again.
LEMMA ExecCountEffect ==
  ASSUME Typed, NEW s \in Sched, NEW c \in Core, ExecCount(s, c)
  PROVE  /\ exec[s][c].pc = "count" /\ exec'[s][c] = ExecIdle
         /\ ExecElsewhere(s, c)
         /\ UNCHANGED <<wsQueue, localQueue, completeQueue, localData>>
<1> USE DEF zht, queues, counters
<1> DEFINE e == exec[s][c]
<1>1. e \in ExecState
  BY DEF Typed, TypeOK
<1>2. ExecBecomes(s, c, ExecIdle)
  BY DEF ExecCount, ExecBecomes
<1>3. /\ exec'[s][c] = ExecIdle
      /\ ExecElsewhere(s, c)
  BY <1>2, ExecAt
<1>4. /\ e.pc = "count"
      /\ UNCHANGED <<wsQueue, localQueue, completeQueue, localData>>
  BY DEF ExecCount
<1> QED
  BY <1>1, <1>3, <1>4 DEF ExecState, KeepsTask, ExecCount

\* executing_task leaves its loop.
LEMMA ExecExitEffect ==
  ASSUME Typed, NEW s \in Sched, NEW c \in Core, ExecExit(s, c)
  PROVE  /\ exec[s][c].pc = "idle" /\ exec'[s][c].pc = "exit" /\ KeepsTask(s, c)
         /\ exec'[s][c].todo = exec[s][c].todo
         /\ ExecElsewhere(s, c)
         /\ UNCHANGED <<wsQueue, localQueue, completeQueue, localData, numTaskFin>>
<1> USE DEF zht, queues, counters
<1> DEFINE e == exec[s][c]
<1>1. e \in ExecState
  BY DEF Typed, TypeOK
<1>2. ExecBecomes(s, c, [e EXCEPT !.pc = "exit"])
  BY DEF ExecExit, ExecBecomes
<1>3. /\ exec'[s][c] = [e EXCEPT !.pc = "exit"]
      /\ ExecElsewhere(s, c)
  BY <1>2, ExecAt
<1>4. /\ e.pc = "idle"
      /\ UNCHANGED <<wsQueue, localQueue, completeQueue, localData, numTaskFin>>
  BY DEF ExecExit
<1> QED
  BY <1>1, <1>3, <1>4 DEF ExecState, KeepsTask, ExecExit

-----------------------------------------------------------------------------
(* What each step of checking_complete_task does.                          *)

CctBecomes(s, f) == cct' = [cct EXCEPT ![s] = f]

CctElsewhere(s) == \A r \in Sched \ {s} : cct'[r] = cct[r]

KeepsItem(s) ==
  cct'[s].item = cct[s].item /\ cct'[s].todo = cct[s].todo /\ cct'[s].child = cct[s].child

\* An assignment to one scheduler's notifier is seen there and nowhere else.
LEMMA CctAt ==
  ASSUME Typed, NEW s \in Sched, NEW f, CctBecomes(s, f)
  PROVE  cct'[s] = f /\ CctElsewhere(s)
  BY DEF Typed, TypeOK, CctBecomes, CctElsewhere

\* checking_complete_task takes the next item; a leaf of the DAG is dropped.
LEMMA CctPopEffect ==
  ASSUME Typed, NEW s \in Sched, CctPop(s)
  PROVE  /\ cct[s].pc = "idle" /\ completeQueue[s] # <<>>
         /\ completeQueue'[s] = Tail(completeQueue[s])
         /\ \A r \in Sched \ {s} : completeQueue'[r] = completeQueue[r]
         /\ \/ Children[Head(completeQueue[s]).task] = {} /\ cct'[s] = cct[s]
            \/ /\ cct'[s].pc = "notify" /\ cct'[s].item = Head(completeQueue[s])
               /\ cct'[s].todo = Children[Head(completeQueue[s]).task]
               /\ cct'[s].child = cct[s].child
         /\ CctElsewhere(s)
         /\ UNCHANGED rec
<1> USE DEF zht, queues, counters
<1> DEFINE e == cct[s]
           item == Head(completeQueue[s])
           f == [e EXCEPT !.pc = "notify", !.item = item, !.todo = Children[item.task]]
<1>1. e \in CctState /\ completeQueue \in [Sched -> Seq(CmpQueueItem)]
  BY DEF Typed, TypeOK
<1>2. /\ e.pc = "idle" /\ completeQueue[s] # <<>> /\ UNCHANGED rec
      /\ completeQueue' = [completeQueue EXCEPT ![s] = Tail(@)]
  BY DEF CctPop
<1>3. /\ completeQueue'[s] = Tail(completeQueue[s])
      /\ \A r \in Sched \ {s} : completeQueue'[r] = completeQueue[r]
  BY <1>1, <1>2
<1>4. CASE Children[item.task] = {}
  <2>1. cct' = cct
    BY <1>4 DEF CctPop
  <2> QED
    BY <1>2, <1>3, <1>4, <2>1 DEF CctElsewhere
<1>5. CASE Children[item.task] # {}
  <2>1. CctBecomes(s, f)
    BY <1>5 DEF CctPop, CctBecomes
  <2>2. cct'[s] = f /\ CctElsewhere(s)
    BY <2>1, CctAt
  <2> HIDE DEF item
  <2>3. f.pc = "notify" /\ f.item = item /\ f.todo = Children[item.task] /\ f.child = e.child
    BY <1>1 DEF CctState
  <2> QED
    BY <1>2, <1>3, <2>2, <2>3 DEF item
<1> QED
  BY <1>4, <1>5

\* notify_children reads the record of the next child.
LEMMA CctLookupChildEffect ==
  ASSUME Typed, NEW s \in Sched, CctLookupChild(s)
  PROVE  /\ cct[s].pc = "notify" /\ cct'[s].pc = "swap"
         /\ cct'[s].item = cct[s].item
         /\ cct'[s].child \in cct[s].todo
         /\ cct'[s].todo = cct[s].todo \ {cct'[s].child}
         /\ CctElsewhere(s)
         /\ UNCHANGED <<rec, completeQueue>>
<1> USE DEF zht, queues, counters
<1> DEFINE e == cct[s]
<1>1. e \in CctState
  BY DEF Typed, TypeOK
<1>2. e.pc = "notify" /\ UNCHANGED <<rec, completeQueue>>
  BY DEF CctLookupChild
<1>3. PICK child \in e.todo :
        cct' = [cct EXCEPT ![s] = [e EXCEPT !.pc = "swap", !.child = child,
                                            !.todo = e.todo \ {child},
                                            !.seen = rec[child]]]
  BY DEF CctLookupChild
<1> DEFINE f == [e EXCEPT !.pc = "swap", !.child = child, !.todo = e.todo \ {child},
                          !.seen = rec[child]]
<1>4. cct'[s] = f /\ CctElsewhere(s)
  BY <1>3, CctAt DEF CctBecomes
<1>5. f.pc = "swap" /\ f.item = e.item /\ f.child = child /\ f.todo = e.todo \ {child}
  BY <1>1 DEF CctState
<1> QED
  BY <1>2, <1>3, <1>4, <1>5

\* compare_swap writes the child's record: one decrement and one input more.
LEMMA CctSwapEffect ==
  ASSUME Typed, NEW s \in Sched, CctSwap(s)
  PROVE  /\ cct[s].pc \in {"swap", "retry"} /\ cct[s].child \in Task
         /\ rec'[cct[s].child] = Notified(rec[cct[s].child], s, cct[s].item)
         /\ \A t \in Task \ {cct[s].child} : rec'[t] = rec[t]
         /\ \/ cct[s].todo = {} /\ cct'[s] = CctIdle
            \/ /\ cct'[s].pc = "notify" /\ cct'[s].item = cct[s].item
               /\ cct'[s].todo = cct[s].todo /\ cct'[s].child = None
         /\ CctElsewhere(s)
         /\ UNCHANGED completeQueue
<1> USE DEF zht, queues, counters
<1> DEFINE e == cct[s]
           f == [e EXCEPT !.pc = "notify", !.child = None, !.seen = NoRecord]
<1>1. e \in CctState /\ rec \in [Task -> Record]
  BY DEF Typed, TypeOK
<1>2. e.pc \in {"swap", "retry"} /\ UNCHANGED completeQueue
  BY DEF CctSwap, Swapping
<1>3. e.child \in Task
  BY <1>2 DEF Typed, CctShape, CctOK
<1>4. /\ rec'[e.child] = Notified(rec[e.child], s, e.item)
      /\ \A t \in Task \ {e.child} : rec'[t] = rec[t]
  BY <1>1, <1>3 DEF CctSwap
<1>5. CASE e.todo = {}
  <2>1. cct'[s] = CctIdle /\ CctElsewhere(s)
    BY <1>5, CctAt DEF CctSwap, CctBecomes
  <2> QED
    BY <1>2, <1>3, <1>4, <1>5, <2>1
<1>6. CASE e.todo # {}
  <2>1. CctBecomes(s, f)
    BY <1>6 DEF CctSwap, CctBecomes
  <2>2. cct'[s] = f /\ CctElsewhere(s)
    BY <2>1, CctAt
  <2>3. f.pc = "notify" /\ f.item = e.item /\ f.todo = e.todo /\ f.child = None
    BY <1>1 DEF CctState
  <2> QED
    BY <1>2, <1>3, <1>4, <2>2, <2>3
<1> QED
  BY <1>5, <1>6

\* compare_swap fails and returns the value another parent left.
LEMMA CctRetryEffect ==
  ASSUME Typed, NEW s \in Sched, CctRetry(s)
  PROVE  /\ cct[s].pc \in {"swap", "retry"} /\ cct'[s].pc = "retry"
         /\ KeepsItem(s) /\ CctElsewhere(s)
         /\ UNCHANGED <<rec, completeQueue>>
<1> USE DEF zht, queues, counters
<1> DEFINE e == cct[s]
           f == [e EXCEPT !.pc = "retry", !.seen = rec[e.child]]
<1>1. e \in CctState
  BY DEF Typed, TypeOK
<1>2. CctBecomes(s, f) /\ e.pc \in {"swap", "retry"} /\ UNCHANGED <<rec, completeQueue>>
  BY DEF CctRetry, Swapping, CctBecomes
<1>3. cct'[s] = f /\ CctElsewhere(s)
  BY <1>2, CctAt
<1> QED
  BY <1>1, <1>2, <1>3 DEF CctState, KeepsItem

\* checking_complete_task leaves its loop.
LEMMA CctExitEffect ==
  ASSUME Typed, NEW s \in Sched, CctExit(s)
  PROVE  /\ cct[s].pc = "idle" /\ cct'[s].pc = "exit"
         /\ KeepsItem(s) /\ CctElsewhere(s)
         /\ UNCHANGED <<rec, completeQueue>>
<1> USE DEF zht, queues, counters
<1> DEFINE e == cct[s]
           f == [e EXCEPT !.pc = "exit"]
<1>1. e \in CctState
  BY DEF Typed, TypeOK
<1>2. CctBecomes(s, f) /\ e.pc = "idle" /\ UNCHANGED <<rec, completeQueue>>
  BY DEF CctExit, CctBecomes
<1>3. cct'[s] = f /\ CctElsewhere(s)
  BY <1>2, CctAt
<1> QED
  BY <1>1, <1>2, <1>3 DEF CctState, KeepsItem

-----------------------------------------------------------------------------
(* The records and the data they name.                                     *)

\* Only the compare_swap of notify_children writes a record.
LEMMA RecordStep ==
  ASSUME Next
  PROVE  UNCHANGED rec \/ \E s \in Sched : CctSwap(s)
<1>1. CASE Halted
  BY <1>1 DEF Halted, vars, zht
<1>2. ASSUME NEW s \in Sched, CheckingCompleteTask(s)
      PROVE  UNCHANGED rec \/ CctSwap(s)
  <2>1. CASE CctPop(s)
    BY <2>1 DEF CctPop, zht
  <2>2. CASE CctLookupChild(s)
    BY <2>2 DEF CctLookupChild, zht
  <2>3. CASE CctRetry(s)
    BY <2>3 DEF CctRetry, zht
  <2>4. CASE CctExit(s)
    BY <2>4 DEF CctExit, zht
  <2> QED
    BY <1>2, <2>1, <2>2, <2>3, <2>4 DEF CheckingCompleteTask
<1> QED
  BY <1>1, <1>2, Frames DEF Next

\* A notification takes one from the indegree and adds one input.
LEMMA NotifiedFields ==
  ASSUME NEW v, NEW s, NEW item
  PROVE  /\ Notified(v, s, item).indegree = v.indegree - 1
         /\ Notified(v, s, item).inputs = v.inputs \cup
              {[host |-> s, name |-> item.key, size |-> item.dataSize]}
  BY DEF Notified

\* A record loses no decrement and no input: the update that compare_swap
\* applies is built on the value it compares with.
THEOREM RecordsProgress == Spec => RecordsOnlyProgress
<1>1. ASSUME Typed, Next
      PROVE  \A t \in Task : /\ rec'[t].indegree <= rec[t].indegree
                             /\ rec[t].inputs \subseteq rec'[t].inputs
  <2>1. rec \in [Task -> Record]
    BY <1>1 DEF Typed, TypeOK
  <2>2. \A t \in Task : rec[t].indegree \in Int
    BY <2>1 DEF Record
  <2>3. CASE UNCHANGED rec
    BY <2>2, <2>3
  <2>4. ASSUME NEW s \in Sched, CctSwap(s), NEW t \in Task
        PROVE  /\ rec'[t].indegree <= rec[t].indegree
               /\ rec[t].inputs \subseteq rec'[t].inputs
    <3>1. CASE t = cct[s].child
      <4>1. rec'[t] = Notified(rec[t], s, cct[s].item)
        BY <2>1, <2>4, <3>1 DEF CctSwap
      <4>2. rec'[t].indegree = rec[t].indegree - 1
        BY <4>1, NotifiedFields
      <4>3. rec[t].inputs \subseteq rec'[t].inputs
        BY <4>1, NotifiedFields
      <4> QED
        BY <2>2, <4>2, <4>3
    <3>2. CASE t # cct[s].child
      <4>1. rec'[t] = rec[t]
        BY <2>1, <2>4, <3>2 DEF CctSwap
      <4> QED
        BY <2>2, <4>1
    <3> QED
      BY <3>1, <3>2
  <2> QED
    BY <1>1, <2>3, <2>4, RecordStep
<1>2. ASSUME Typed, [Next]_vars
      PROVE  [\A t \in Task : /\ rec'[t].indegree <= rec[t].indegree
                              /\ rec[t].inputs \subseteq rec'[t].inputs]_rec
  BY <1>1, <1>2 DEF vars, zht
<1> QED
  BY <1>2, AlwaysTyped, PTL DEF Spec, RecordsOnlyProgress
=============================================================================
