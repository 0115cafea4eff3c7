------------------------------ MODULE Startup ------------------------------
(***************************************************************************)
(* From the first process to the moment the schedulers start their worker  *)
(* threads: registration in ZHT (regist), the two barriers                 *)
(* (wait_all_scheduler, wait_all_task_recv), the servers of the schedulers *)
(* and the submission of the clients.  A step is one ZHT request, one      *)
(* connection of a client or one local action.  Tasks are only counted.    *)
(***************************************************************************)
EXTENDS Integers, Sequences, FiniteSetsExt

CONSTANTS
  SchedulerVec,       \* the membership list, scheduler 0 first
  Client,
  NumTaskPerClient,
  NumAllTask,
  SubmitMode

Sched == {SchedulerVec[i] : i \in 1..Len(SchedulerVec)}

ASSUME StartupAssumption ==
  /\ SchedulerVec \in Seq(Sched) /\ Cardinality(Sched) = Len(SchedulerVec)
  /\ SchedulerVec # <<>> /\ IsFiniteSet(Client)
  /\ NumTaskPerClient \in Nat
  /\ NumAllTask = NumTaskPerClient * Cardinality(Client)

First == SchedulerVec[1]

\* The value of a key nobody has inserted yet; read as a number it is 0.
Absent == -1

Number(value) == IF value = Absent THEN 0 ELSE value

VARIABLES
  registered,    \* ZHT: "number of scheduler registered"
  done,          \* ZHT: "num tasks done"
  recv,          \* ZHT: "num tasks recv"
  main,          \* the main thread of every scheduler
  listening,     \* the schedulers whose server socket is open
  eventQueue,    \* the batches each server has accepted
  handler,       \* the thread that processes the batches
  waitQueue,     \* the number of tasks in each wait queue
  client         \* the clients: what is left of their submission

vars == <<registered, done, recv, main, listening, eventQueue, handler,
          waitQueue, client>>

HandlerIdle == [pc |-> "idle", count |-> 0, seen |-> Absent]

\* Mutant: a missing record compares equal to the empty value.
SwapsMissing(stored, seen) == stored = seen

\* compare_swap of a missing key fails: the request carries "^" for the empty
\* value, the server compares it with the empty one.
Swaps(stored, seen) == stored # Absent /\ stored = seen

Init ==
  /\ registered = Absent /\ done = Absent /\ recv = Absent
  /\ main = [s \in Sched |-> [pc |-> IF s = First THEN "insert" ELSE "lookup",
                              seen |-> Absent]]
  /\ listening = {}
  /\ eventQueue = [s \in Sched |-> <<>>]
  /\ handler = [s \in Sched |-> HandlerIdle]
  /\ waitQueue = [s \in Sched |-> 0]
  /\ client = [c \in Client |-> [pc |-> "wait", batches |-> <<>>, refused |-> 0]]

-----------------------------------------------------------------------------
(* main of a scheduler.                                                    *)

\* Scheduler 0 inserts the three records one after the other.
InsertRecords(s) ==
  /\ main[s].pc \in {"insert", "insertDone", "insertRecv"}
  /\ \/ /\ main[s].pc = "insert"
        /\ registered' = 1
        /\ main' = [main EXCEPT ![s].pc = "insertDone"]
        /\ UNCHANGED <<done, recv>>
     \/ /\ main[s].pc = "insertDone"
        /\ done' = 0
        /\ main' = [main EXCEPT ![s].pc = "insertRecv"]
        /\ UNCHANGED <<registered, recv>>
     \/ /\ main[s].pc = "insertRecv"
        /\ recv' = 0
        /\ main' = [main EXCEPT ![s].pc = "waitSchedulers"]
        /\ UNCHANGED <<registered, done>>
  /\ UNCHANGED <<listening, eventQueue, handler, waitQueue, client>>

\* The others wait for the record of scheduler 0.
LookupRegistered(s) ==
  /\ main[s].pc = "lookup" /\ registered # Absent
  /\ main' = [main EXCEPT ![s] = [pc |-> "swap", seen |-> registered]]
  /\ UNCHANGED <<registered, done, recv, listening, eventQueue, handler,
                 waitQueue, client>>

\* Mutant: the increment is written without comparing.
BlindRegister(s) ==
  /\ main[s].pc = "swap"
  /\ registered' = main[s].seen + 1
  /\ main' = [main EXCEPT ![s].pc = "waitSchedulers"]
  /\ UNCHANGED <<done, recv, listening, eventQueue, handler, waitQueue, client>>

SwapRegistered(s) ==
  /\ main[s].pc = "swap"
  /\ \/ /\ Swaps(registered, main[s].seen)
        /\ registered' = main[s].seen + 1
        /\ main' = [main EXCEPT ![s].pc = "waitSchedulers"]
     \/ /\ ~Swaps(registered, main[s].seen)
        /\ main' = [main EXCEPT ![s].seen = registered]
        /\ UNCHANGED registered
  /\ UNCHANGED <<done, recv, listening, eventQueue, handler, waitQueue, client>>

\* wait_all_scheduler of a scheduler.
WaitAllScheduler(s) ==
  /\ main[s].pc = "waitSchedulers" /\ registered = Cardinality(Sched)
  /\ main' = [main EXCEPT ![s].pc = "fork"]
  /\ UNCHANGED <<registered, done, recv, listening, eventQueue, handler,
                 waitQueue, client>>

\* fork_es_thread: the new thread opens the socket in its own time.
ForkServer(s) ==
  /\ main[s].pc = "fork"
  /\ main' = [main EXCEPT ![s].pc = "waitTasks"]
  /\ UNCHANGED <<registered, done, recv, listening, eventQueue, handler,
                 waitQueue, client>>

Listen(s) ==
  /\ main[s].pc \in {"waitTasks", "started"} /\ s \notin listening
  /\ listening' = listening \cup {s}
  /\ UNCHANGED <<registered, done, recv, main, eventQueue, handler, waitQueue,
                 client>>

\* Mutant: the tasks of one client are enough.
WaitOneClient(s) ==
  /\ main[s].pc = "waitTasks" /\ Number(recv) >= NumTaskPerClient
  /\ main' = [main EXCEPT ![s].pc = "started"]
  /\ UNCHANGED <<registered, done, recv, listening, eventQueue, handler,
                 waitQueue, client>>

WaitAllTaskRecv(s) ==
  /\ main[s].pc = "waitTasks" /\ Number(recv) = NumAllTask
  /\ main' = [main EXCEPT ![s].pc = "started"]
  /\ UNCHANGED <<registered, done, recv, listening, eventQueue, handler,
                 waitQueue, client>>
-----------------------------------------------------------------------------
(* recv_task_from_client in the server of a scheduler.                     *)

\* A batch without a task is dropped; the others are queued, then counted.
RecvTasks(s) ==
  /\ handler[s].pc = "idle" /\ eventQueue[s] # <<>>
  /\ eventQueue' = [eventQueue EXCEPT ![s] = Tail(@)]
  /\ LET count == Head(eventQueue[s]) IN
       /\ waitQueue' = [waitQueue EXCEPT ![s] = @ + count]
       /\ handler' = IF count = 0 THEN handler
                     ELSE [handler EXCEPT ![s].pc = "lookup", ![s].count = count]
  /\ UNCHANGED <<registered, done, recv, main, listening, client>>

LookupRecv(s) ==
  /\ handler[s].pc = "lookup"
  /\ handler' = [handler EXCEPT ![s].pc = "swap", ![s].seen = recv]
  /\ UNCHANGED <<registered, done, recv, main, listening, eventQueue, waitQueue,
                 client>>

\* Mutant: a failed compare_swap is not repeated.
SwapRecvOnce(s) ==
  /\ handler[s].pc = "swap"
  /\ recv' = IF Swaps(recv, handler[s].seen)
             THEN handler[s].seen + handler[s].count ELSE recv
  /\ handler' = [handler EXCEPT ![s] = HandlerIdle]
  /\ UNCHANGED <<registered, done, main, listening, eventQueue, waitQueue, client>>

\* Mutant: the loop goes on after the compare_swap succeeded.
SwapRecvAgain(s) ==
  /\ handler[s].pc = "swap"
  /\ recv' = IF Swaps(recv, handler[s].seen)
             THEN handler[s].seen + handler[s].count ELSE recv
  /\ handler' = [handler EXCEPT ![s].seen = recv']
  /\ UNCHANGED <<registered, done, main, listening, eventQueue, waitQueue, client>>

\* While the record is missing the loop reads it again and again.
SwapRecv(s) ==
  /\ handler[s].pc = "swap"
  /\ \/ /\ Swaps(recv, handler[s].seen)
        /\ recv' = handler[s].seen + handler[s].count
        /\ handler' = [handler EXCEPT ![s] = HandlerIdle]
     \/ /\ ~Swaps(recv, handler[s].seen) /\ handler[s].seen # recv
        /\ handler' = [handler EXCEPT ![s].seen = recv]
        /\ UNCHANGED recv
  /\ UNCHANGED <<registered, done, main, listening, eventQueue, waitQueue, client>>

-----------------------------------------------------------------------------
(* main of a client.                                                       *)

\* submit_task_bc: task i goes to scheduler i modulo their number.
BestCase ==
  [i \in 1..Len(SchedulerVec) |->
     [to |-> SchedulerVec[i],
      count |-> Cardinality({j \in 0..(NumTaskPerClient - 1) :
                               j % Len(SchedulerVec) = i - 1})]]

\* All tasks go to one scheduler, drawn at random.
WorstCase(s) == <<[to |-> s, count |-> NumTaskPerClient]>>

\* wait_all_scheduler of a client; the records of its tasks are in ZHT before
\* it submits the first one.
ClientWait(c) ==
  /\ client[c].pc = "wait" /\ registered = Cardinality(Sched)
  /\ \/ /\ SubmitMode = "bestcase"
        /\ client' = [client EXCEPT ![c].pc = "submit", ![c].batches = BestCase]
     \/ /\ SubmitMode = "worstcase"
        /\ \E s \in Sched :
             client' = [client EXCEPT ![c].pc = "submit", ![c].batches = WorstCase(s)]
  /\ UNCHANGED <<registered, done, recv, main, listening, eventQueue, handler,
                 waitQueue>>

\* submit_task_wc for the next batch: it returns when it cannot connect.
SubmitBatch(c) ==
  /\ client[c].pc = "submit" /\ client[c].batches # <<>>
  /\ LET batch == Head(client[c].batches) IN
       \/ /\ batch.to \in listening
          /\ eventQueue' = [eventQueue EXCEPT ![batch.to] = Append(@, batch.count)]
          /\ client' = [client EXCEPT ![c].batches = Tail(@)]
       \/ /\ batch.to \notin listening
          /\ client' = [client EXCEPT ![c].batches = Tail(@),
                                      ![c].refused = @ + batch.count]
          /\ UNCHANGED eventQueue
  /\ UNCHANGED <<registered, done, recv, main, listening, handler, waitQueue>>

ClientMonitor(c) ==
  /\ client[c].pc = "submit" /\ client[c].batches = <<>>
  /\ client' = [client EXCEPT ![c].pc = "monitor"]
  /\ UNCHANGED <<registered, done, recv, main, listening, eventQueue, handler,
                 waitQueue>>

-----------------------------------------------------------------------------
Main(s) ==
  \/ InsertRecords(s) \/ LookupRegistered(s) \/ SwapRegistered(s)
  \/ WaitAllScheduler(s) \/ ForkServer(s) \/ WaitAllTaskRecv(s)

Handler(s) == RecvTasks(s) \/ LookupRecv(s) \/ SwapRecv(s)

ClientMain(c) == ClientWait(c) \/ SubmitBatch(c) \/ ClientMonitor(c)

Next ==
  \/ \E s \in Sched : Main(s) \/ Listen(s) \/ Handler(s)
  \/ \E c \in Client : ClientMain(c)

\* The operating system runs every thread; ZHT answers every request.
Fairness ==
  /\ \A s \in Sched : WF_vars(Main(s)) /\ WF_vars(Listen(s)) /\ WF_vars(Handler(s))
  /\ \A c \in Client : WF_vars(ClientMain(c))

Spec == Init /\ [][Next]_vars /\ Fairness
-----------------------------------------------------------------------------
(* Properties.                                                             *)

Queued == MapThenSumSet(LAMBDA s : waitQueue[s], Sched)

Uncounted == MapThenSumSet(LAMBDA s : handler[s].count, Sched)

\* Every variable keeps the shape the code gives it, and every counter its
\* range: as many registrations as schedulers, no more receipts and no more
\* queued tasks than were submitted, batches no larger than a client's share.
TypeOK ==
  LET Share == 0..NumTaskPerClient
      Receipts == 0..NumAllTask \cup {Absent}
      Registrations == 1..Cardinality(Sched) \cup {Absent}
  IN
  /\ registered \in Registrations /\ done \in {0, Absent} /\ recv \in Receipts
  /\ main \in [Sched -> [pc : {"insert", "insertDone", "insertRecv", "lookup",
                               "swap", "waitSchedulers", "fork", "waitTasks",
                               "started"},
                         seen : Registrations]]
  /\ listening \subseteq Sched
  /\ eventQueue \in [Sched -> Seq(Share)]
  /\ handler \in [Sched -> [pc : {"idle", "lookup", "swap"}, count : Share,
                            seen : Receipts]]
  /\ waitQueue \in [Sched -> 0..NumAllTask]
  /\ client \in [Client -> [pc : {"wait", "submit", "monitor"},
                            batches : Seq([to : Sched, count : Share]),
                            refused : Share]]

\* Whoever has passed wait_all_scheduler knows that every scheduler has
\* registered: concurrent compare_swap increments lose none and count none
\* twice, although scheduler 0 overwrites the record without looking.
RegistrationBarrier ==
  /\ Number(registered) = Cardinality({s \in Sched : main[s].pc \notin
                            {"insert", "lookup", "swap"}})
  /\ \A s \in Sched : main[s].pc \in {"fork", "waitTasks", "started"} =>
       registered = Cardinality(Sched)

\* "num tasks recv" counts every queued batch once, also when a server
\* receives tasks before scheduler 0 has inserted the record.
ReceiptsCounted == Number(recv) + Uncounted = Queued

\* Once a scheduler starts its worker threads every task is in a wait queue
\* and no server will touch a wait queue again: checking_ready_task uses the
\* queue without wqMutex.
TasksRecvBarrier ==
  (\E s \in Sched : main[s].pc = "started") =>
    /\ Queued = NumAllTask
    /\ \A s \in Sched : \A i \in 1..Len(eventQueue[s]) : eventQueue[s][i] = 0

\* Unless a client was refused, every scheduler starts and every client gets
\* to its monitoring.
EverySchedulerStarts ==
  [](\A c \in Client : client[c].refused = 0) =>
    <>[](/\ \A s \in Sched : main[s].pc = "started" /\ s \in listening
         /\ \A c \in Client : client[c].pc = "monitor")

\* What the registration is there for: when a client moves forward all the
\* schedulers are running, so none of its tasks is refused.
NoTaskRefused == \A c \in Client : client[c].refused = 0
=============================================================================
