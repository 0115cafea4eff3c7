------------------------ MODULE SchedulerDataProofs ------------------------
(***************************************************************************)
(* Proofs about the outputs the schedulers keep in localData: whatever a   *)
(* record, a queue or a thread names as an input is where it says.         *)
(***************************************************************************)
EXTENDS MatrixSchedulerProofs

\* An entry of a record, or of a fetch list, names the scheduler that keeps it.
Available(i) == i.name \in localData[i.host] /\ i.name[1] = i.host

\* A completed task of scheduler s, on its way to the children.
Stored(s, item) == item.key = <<s, item.task>> /\ item.key \in localData[s]

RecordInputs == \A t \in Task : \A i \in rec[t].inputs : Available(i)

QueuedItems ==
  \A s \in Sched : \A k \in DOMAIN completeQueue[s] : Stored(s, completeQueue[s][k])

NotifierItem ==
  \A s \in Sched : cct[s].pc \in {"notify", "swap", "retry"} => Stored(s, cct[s].item)

\* What an executing thread has stored, has still to fetch, and is receiving.
ExecData(s, c) ==
  /\ exec[s][c].pc \in {"stored", "count"} => <<s, exec[s][c].task>> \in localData[s]
  /\ \A i \in exec[s][c].todo : Available(i)
  /\ exec[s][c].found
  /\ exec[s][c].pc = "recv" => exec[s][c].name[1] # s

DataInv ==
  /\ RecordInputs
  /\ QueuedItems
  /\ NotifierItem
  /\ \A s \in Sched, c \in Core : ExecData(s, c)

-----------------------------------------------------------------------------

\* Nothing is inherited from an earlier execution.
LEMMA InitData ==
  ASSUME Init
  PROVE  DataInv
<1>1. RecordInputs
  BY DEF Init, RecordInputs, NoRecord
<1>2. QueuedItems
  BY DEF Init, QueuedItems
<1>3. NotifierItem
  BY DEF Init, NotifierItem, CctIdle
<1>4. \A s \in Sched, c \in Core : ExecData(s, c)
  BY DEF Init, ExecData, ExecIdle
<1> QED
  BY <1>1, <1>2, <1>3, <1>4 DEF DataInv

\* The map localData only grows: nothing is evicted or erased while tasks run.
LEMMA LocalDataGrows ==
  ASSUME Typed, [Next]_vars, NEW s \in Sched
  PROVE  localData[s] \subseteq localData'[s]
<1>1. CASE UNCHANGED vars
  BY <1>1 DEF vars
<1>2. ASSUME NEW r \in Sched, NEW c \in Core, ExecutingTask(r, c)
      PROVE  localData[s] \subseteq localData'[s]
  <2>1. CASE ExecRun(r, c) \/ ReceiveData(r, c)
    BY <2>1, ExecRunEffect, ReceiveDataEffect
  <2>2. CASE ~(ExecRun(r, c) \/ ReceiveData(r, c))
    BY <1>2, <2>2, ExecChooseEffect, ExecPopLocalEffect, ExecPopWsEffect,
       ExecLookupEffect, FetchHereEffect, RequireDataEffect, ExecCompleteEffect,
       ExecCountEffect, ExecExitEffect DEF ExecutingTask
  <2> QED
    BY <2>1, <2>2
<1> QED
  BY <1>1, <1>2, Frames DEF Next, Halted

\* What was available, or stored, stays so.
LEMMA StaysAvailable ==
  ASSUME Typed, [Next]_vars
  PROVE  /\ \A i \in Input : Available(i) => Available(i)'
         /\ \A s \in Sched : \A item : Stored(s, item) => Stored(s, item)'
<1>1. \A i \in Input : i.host \in Sched
  BY DEF Input
<1> QED
  BY <1>1, LocalDataGrows DEF Available, Stored

\* The entries and items the invariant speaks of have their types.
LEMMA DataTypes ==
  ASSUME Typed
  PROVE  /\ \A t \in Task : rec[t].inputs \subseteq Input
         /\ \A s \in Sched, c \in Core : exec[s][c].todo \subseteq Input
<1>1. \A t \in Task : rec[t] \in Record
  BY DEF Typed, TypeOK
<1>2. \A s \in Sched, c \in Core : exec[s][c] \in ExecState
  BY DEF Typed, TypeOK
<1> QED
  BY <1>1, <1>2 DEF Record, ExecState

\* A step that leaves records, items and fetch lists alone keeps the invariant.
LEMMA DataUnchanged ==
  ASSUME Typed, DataInv, [Next]_vars
  PROVE  /\ UNCHANGED rec => RecordInputs'
         /\ UNCHANGED completeQueue => QueuedItems'
         /\ UNCHANGED cct => NotifierItem'
         /\ \A s \in Sched, c \in Core :
              exec'[s][c] = exec[s][c] => ExecData(s, c)'
<1>1. UNCHANGED rec => RecordInputs'
  BY StaysAvailable, DataTypes DEF DataInv, RecordInputs
<1>2. UNCHANGED completeQueue => QueuedItems'
  BY StaysAvailable DEF DataInv, QueuedItems
<1>3. UNCHANGED cct => NotifierItem'
  BY StaysAvailable DEF DataInv, NotifierItem
<1>4. ASSUME NEW s \in Sched, NEW c \in Core, exec'[s][c] = exec[s][c]
      PROVE  ExecData(s, c)'
  <2>1. ExecData(s, c)
    BY DEF DataInv
  <2>2. \A i \in exec[s][c].todo : Available(i)'
    BY <2>1, StaysAvailable, DataTypes DEF ExecData
  <2> QED
    BY <1>4, <2>1, <2>2, LocalDataGrows DEF ExecData
<1> QED
  BY <1>1, <1>2, <1>3, <1>4

\* executing_task: an output is stored before the item that announces it is
\* queued, and a fetch list comes from a record.
LEMMA ExecutingTaskData ==
  ASSUME Typed, DataInv, NEW s \in Sched, NEW c \in Core, ExecutingTask(s, c)
  PROVE  DataInv'
<1> DEFINE e == exec[s][c]
           f == exec'[s][c]
<1>a. [Next]_vars
  BY DEF Next
<1>b. ExecData(s, c) /\ e.todo \subseteq Input
  BY DataTypes DEF DataInv
<1>c. RecordInputs' /\ NotifierItem'
  BY <1>a, DataUnchanged, Frames
<1>d. UNCHANGED completeQueue => QueuedItems'
  BY <1>a, DataUnchanged
<1>e. localData[s] \subseteq localData'[s]
  BY <1>a, LocalDataGrows
<1>f. \A i \in Input : Available(i) => Available(i)'
  BY <1>a, StaysAvailable
<1>g. ExecElsewhere(s, c) /\ ExecData(s, c)' => \A r \in Sched, d \in Core : ExecData(r, d)'
  BY <1>a, DataUnchanged DEF ExecElsewhere
<1>1. CASE ExecChoose(s, c)
  <2>1. ExecData(s, c)'
    BY <1>b, <1>f, <1>1, ExecChooseEffect DEF ExecData, KeepsTask
  <2> QED
    BY <1>c, <1>d, <1>g, <1>1, <2>1, ExecChooseEffect DEF DataInv
<1>2. CASE ExecPopLocal(s, c)
  <2>1. ExecData(s, c)'
    BY <1>b, <1>f, <1>2, ExecPopLocalEffect DEF ExecData, ExecIdle
  <2> QED
    BY <1>c, <1>d, <1>g, <1>2, <2>1, ExecPopLocalEffect DEF DataInv
<1>3. CASE ExecPopWs(s, c)
  <2>1. ExecData(s, c)'
    BY <1>b, <1>f, <1>3, ExecPopWsEffect DEF ExecData, ExecIdle
  <2> QED
    BY <1>c, <1>d, <1>g, <1>3, <2>1, ExecPopWsEffect DEF DataInv
<1>4. CASE ExecLookup(s, c)
  <2>1. e.task \in Task
    BY <1>4, ExecLookupEffect DEF Typed, ExecShape, ExecOK
  <2>2. \A i \in rec[e.task].inputs : i \in Input /\ Available(i)
    BY <2>1, DataTypes DEF DataInv, RecordInputs
  <2>3. ExecData(s, c)'
    BY <1>b, <1>f, <1>4, <2>2, ExecLookupEffect DEF ExecData, KeepsTask
  <2> QED
    BY <1>c, <1>d, <1>g, <1>4, <2>3, ExecLookupEffect DEF DataInv
<1>5. CASE FetchHere(s, c)
  <2>1. ExecData(s, c)'
    BY <1>b, <1>f, <1>5, FetchHereEffect DEF ExecData, KeepsTask
  <2> QED
    BY <1>c, <1>d, <1>g, <1>5, <2>1, FetchHereEffect DEF DataInv
<1>6. CASE RequireData(s, c)
  <2>1. PICK i \in e.todo :
          /\ i.host # s /\ f.todo = e.todo \ {i} /\ f.name = i.name
          /\ f.found = (i.name \in localData[i.host])
    BY <1>6, RequireDataEffect
  <2>2. Available(i)
    BY <1>b, <2>1 DEF ExecData
  <2>3. ExecData(s, c)'
    <3>1. f.found /\ f.name[1] # s
      BY <2>1, <2>2 DEF Available
    <3>2. \A j \in f.todo : Available(j)'
      BY <1>b, <1>f, <2>1 DEF ExecData
    <3> QED
      BY <1>6, <3>1, <3>2, RequireDataEffect DEF ExecData
  <2> QED
    BY <1>c, <1>d, <1>g, <1>6, <2>3, RequireDataEffect DEF DataInv
<1>7. CASE ReceiveData(s, c)
  <2>1. ExecData(s, c)'
    BY <1>b, <1>f, <1>7, ReceiveDataEffect DEF ExecData
  <2> QED
    BY <1>c, <1>d, <1>g, <1>7, <2>1, ReceiveDataEffect DEF DataInv
<1>8. CASE ExecRun(s, c)
  <2>1. ExecData(s, c)'
    BY <1>b, <1>f, <1>8, ExecRunEffect DEF ExecData, KeepsTask
  <2> QED
    BY <1>c, <1>d, <1>g, <1>8, <2>1, ExecRunEffect DEF DataInv
<1>9. CASE ExecComplete(s, c)
  <2>1. ExecData(s, c)'
    BY <1>b, <1>e, <1>f, <1>9, ExecCompleteEffect DEF ExecData, KeepsTask
  <2> DEFINE item == [task |-> e.task, key |-> <<s, e.task>>,
                      dataSize |-> OutputSize[e.task]]
  <2>2. Stored(s, item)
    BY <1>b, <1>9, ExecCompleteEffect DEF ExecData, Stored
  <2>3. ASSUME NEW r \in Sched, NEW k \in DOMAIN completeQueue'[r]
        PROVE  Stored(r, completeQueue'[r][k])
    <3>1. \A q \in DOMAIN completeQueue[r] : Stored(r, completeQueue[r][q])
      BY DEF DataInv, QueuedItems
    <3>2. completeQueue[r] \in Seq(CmpQueueItem)
      BY DEF Typed, TypeOK
    <3>3. CASE r = s
      <4>1. completeQueue'[s] = Append(completeQueue[s], item)
        BY <1>9, ExecCompleteEffect
      <4> HIDE DEF item
      <4>2. \/ /\ k \in DOMAIN completeQueue[s]
               /\ completeQueue'[s][k] = completeQueue[s][k]
            \/ completeQueue'[s][k] = item
        BY <2>3, <3>2, <3>3, <4>1
      <4> QED
        BY <2>2, <3>1, <3>3, <4>2
    <3>4. CASE r # s
      <4>1. completeQueue'[r] = completeQueue[r]
        BY <1>9, <3>4, ExecCompleteEffect
      <4> QED
        BY <2>3, <3>1, <4>1
    <3> QED
      BY <3>3, <3>4
  <2>4. QueuedItems'
    BY <1>9, <2>3, ExecCompleteEffect DEF QueuedItems, Stored
  <2> QED
    BY <1>c, <1>g, <1>9, <2>1, <2>4, ExecCompleteEffect DEF DataInv
<1>10. CASE ExecCount(s, c)
  <2>1. ExecData(s, c)'
    BY <1>10, ExecCountEffect DEF ExecData, ExecIdle
  <2> QED
    BY <1>c, <1>d, <1>g, <1>10, <2>1, ExecCountEffect DEF DataInv
<1>11. CASE ExecExit(s, c)
  <2>1. ExecData(s, c)'
    BY <1>b, <1>f, <1>11, ExecExitEffect DEF ExecData, KeepsTask
  <2> QED
    BY <1>c, <1>d, <1>g, <1>11, <2>1, ExecExitEffect DEF DataInv
<1> QED
  BY <1>1, <1>2, <1>3, <1>4, <1>5, <1>6, <1>7, <1>8, <1>9, <1>10, <1>11
     DEF ExecutingTask

\* checking_complete_task: an input enters a record from an item that is stored.
LEMMA CheckingCompleteTaskData ==
  ASSUME Typed, DataInv, NEW s \in Sched, CheckingCompleteTask(s)
  PROVE  DataInv'
<1>a. [Next]_vars
  BY DEF Next
<1>b. \A r \in Sched, c \in Core : ExecData(r, c)'
  BY <1>a, DataUnchanged, Frames
<1>c. UNCHANGED localData
  BY Frames
<1>d. /\ UNCHANGED rec => RecordInputs'
      /\ UNCHANGED completeQueue => QueuedItems'
  BY <1>a, DataUnchanged
<1>e. /\ \A r \in Sched \ {s} : cct'[r] = cct[r]
      /\ cct'[s].pc \in {"notify", "swap", "retry"} => Stored(s, cct'[s].item)
      => NotifierItem'
  BY <1>c DEF DataInv, NotifierItem, Stored
<1>f. cct[s].pc \in {"notify", "swap", "retry"} => Stored(s, cct[s].item)
  BY DEF DataInv, NotifierItem
<1>1. CASE CctPop(s)
  <2>1. completeQueue[s] \in Seq(CmpQueueItem)
    BY DEF Typed, TypeOK
  <2>2. Stored(s, Head(completeQueue[s]))
    <3>1. 1 \in DOMAIN completeQueue[s]
      BY <1>1, <2>1, CctPopEffect
    <3> QED
      BY <2>1, <3>1 DEF DataInv, QueuedItems
  <2>3. NotifierItem'
    BY <1>1, <1>e, <1>f, <2>2, CctPopEffect DEF CctElsewhere
  <2>4. ASSUME NEW r \in Sched, NEW k \in DOMAIN completeQueue'[r]
        PROVE  Stored(r, completeQueue'[r][k])
    <3>1. \A q \in DOMAIN completeQueue[r] : Stored(r, completeQueue[r][q])
      BY DEF DataInv, QueuedItems
    <3>2. CASE r = s
      <4> DEFINE q == completeQueue[s]
      <4>1. q # <<>> /\ completeQueue'[s] = Tail(q)
        BY <1>1, CctPopEffect
      <4>2. k \in DOMAIN Tail(q)
        BY <2>4, <3>2, <4>1
      <4> HIDE DEF q
      <4>3. k + 1 \in DOMAIN q /\ Tail(q)[k] = q[k + 1]
        BY <2>1, <4>1, <4>2 DEF q
      <4> QED
        BY <3>1, <3>2, <4>1, <4>3 DEF q
    <3>3. CASE r # s
      BY <1>1, <2>4, <3>1, <3>3, CctPopEffect
    <3> QED
      BY <3>2, <3>3
  <2>5. QueuedItems'
    BY <1>c, <2>4 DEF QueuedItems, Stored
  <2> QED
    BY <1>1, <1>b, <1>d, <2>3, <2>5, CctPopEffect DEF DataInv
<1>2. CASE CctLookupChild(s)
  <2>1. NotifierItem'
    BY <1>2, <1>e, <1>f, CctLookupChildEffect DEF CctElsewhere
  <2> QED
    BY <1>2, <1>b, <1>d, <2>1, CctLookupChildEffect DEF DataInv
<1>3. CASE CctSwap(s)
  <2>a. Stored(s, cct[s].item) /\ CctElsewhere(s)
    BY <1>3, <1>f, CctSwapEffect
  <2>b. cct'[s].pc = "idle" \/ cct'[s].item = cct[s].item
    BY <1>3, CctSwapEffect DEF CctIdle
  <2>1. NotifierItem'
    BY <1>e, <2>a, <2>b DEF CctElsewhere
  <2>2. ASSUME NEW t \in Task, NEW i \in rec'[t].inputs
        PROVE  Available(i)
    <3>1. \A j \in rec[t].inputs : Available(j)
      BY DEF DataInv, RecordInputs
    <3>2. CASE t = cct[s].child
      <4> DEFINE j == [host |-> s, name |-> cct[s].item.key, size |-> cct[s].item.dataSize]
      <4>1. rec'[t].inputs = rec[t].inputs \cup {j}
        <5>1. rec'[t] = Notified(rec[t], s, cct[s].item)
          BY <1>3, <3>2, CctSwapEffect
        <5> QED
          BY <5>1, NotifiedFields
      <4>2. Available(j)
        <5>1. j.host = s /\ j.name = cct[s].item.key
          OBVIOUS
        <5> HIDE DEF j
        <5> QED
          BY <2>a, <5>1 DEF Stored, Available
      <4> QED
        BY <2>2, <3>1, <4>1, <4>2
    <3>3. CASE t # cct[s].child
      BY <1>3, <2>2, <3>1, <3>3, CctSwapEffect
    <3> QED
      BY <3>2, <3>3
  <2>3. RecordInputs'
    BY <1>c, <2>2 DEF RecordInputs, Available
  <2> QED
    BY <1>3, <1>b, <1>d, <2>1, <2>3, CctSwapEffect DEF DataInv
<1>4. CASE CctRetry(s)
  <2>1. NotifierItem'
    BY <1>4, <1>e, <1>f, CctRetryEffect DEF CctElsewhere, KeepsItem
  <2> QED
    BY <1>4, <1>b, <1>d, <2>1, CctRetryEffect DEF DataInv
<1>5. CASE CctExit(s)
  <2>1. NotifierItem'
    BY <1>5, <1>e, CctExitEffect DEF CctElsewhere
  <2> QED
    BY <1>5, <1>b, <1>d, <2>1, CctExitEffect DEF DataInv
<1> QED
  BY <1>1, <1>2, <1>3, <1>4, <1>5 DEF CheckingCompleteTask

\* The invariant holds in every reachable state.
LEMMA AlwaysData == Spec => [](Typed /\ DataInv)
<1>1. Init => Typed /\ DataInv
  BY InitTyped, InitData
<1>2. ASSUME Typed, DataInv, [Next]_vars
      PROVE  DataInv'
  <2>1. UNCHANGED <<rec, completeQueue, cct, exec>> => DataInv'
    BY <1>2, DataUnchanged DEF DataInv
  <2>2. CASE UNCHANGED vars
    BY <2>1, <2>2 DEF vars, zht, queues
  <2>3. CASE Halted
    BY <2>1, <2>3 DEF Halted, vars, zht, queues
  <2>4. ASSUME NEW s \in Sched,
               \/ CheckingReadyTask(s) \/ RecordingStat(s) \/ Workstealing(s)
               \/ LocalQueueMonitor(s)
        PROVE  DataInv'
    BY <2>1, <2>4, Frames DEF queues
  <2> QED
    BY <1>2, <2>2, <2>3, <2>4, ExecutingTaskData, CheckingCompleteTaskData DEF Next
<1>3. Typed /\ DataInv /\ [Next]_vars => (Typed /\ DataInv)'
  BY <1>2, NextTyped
<1> QED
  BY <1>1, <1>3, PTL DEF Spec

\* An input named in a record is in the map of the scheduler the record names,
\* so exec_a_task never dereferences a missing entry and no peer is ever
\* answered that its data is missing, whatever the number of schedulers and
\* however stealing, pushing and notifying interleave.
THEOREM InputsAlwaysAvailable == Spec => []InputsAvailable
<1>1. DataInv => InputsAvailable
  BY DEF DataInv, RecordInputs, Available, ExecData, InputsAvailable
<1> QED
  BY <1>1, AlwaysData, PTL
=============================================================================
