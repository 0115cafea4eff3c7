------------------------- MODULE TaskPlacesProofs -------------------------
(***************************************************************************)
(* Proof that no task is lost or duplicated: every step leaves every task  *)
(* where it is, or moves a set of tasks from one place to another.         *)
(***************************************************************************)
EXTENDS SchedulerDataProofs

Kind == PlaceKind \cup Core

\* Scheduler r holds t in place k, and nobody else does anywhere.
OnlyAt(t, r, k) ==
  /\ Holds(r, k, t)
  /\ \A s \in Sched, l \in Kind : Holds(s, l, t) => s = r /\ l = k

OnePlace == \A t \in Task : \E r \in Sched, k \in Kind : OnlyAt(t, r, k)

Lists(q, t) == \E i \in DOMAIN q : q[i] = t

NoRepeat(q) == \A i, j \in DOMAIN q : q[i] = q[j] => i = j

\* No wait queue lists a task twice.
NoRepeats == \A s \in Sched : NoRepeat(waitQueue[s])

\* After the step, scheduler r holds t in place k.
WillHold(r, k, t) == Holds(r, k, t)'

\* A step that leaves the tasks in place k of scheduler r alone.
SameAt(r, k) == \A t \in Task : WillHold(r, k, t) <=> Holds(r, k, t)

AllSame == \A r \in Sched, k \in Kind : SameAt(r, k)

\* A step that moves the tasks T from place k of scheduler r to place l of s.
Moves(T, r, k, s, l) ==
  /\ r # s \/ k # l
  /\ \A t \in T : Holds(r, k, t)
  /\ \A t \in Task : WillHold(r, k, t) <=> Holds(r, k, t) /\ t \notin T
  /\ \A t \in Task : WillHold(s, l, t) <=> Holds(s, l, t) \/ t \in T
  /\ \A q \in Sched, m \in Kind :
       (q # r \/ m # k) /\ (q # s \/ m # l) => SameAt(q, m)

-----------------------------------------------------------------------------

\* The invariant in terms of schedulers and kinds of places.
LEMMA Places == EveryTaskInOnePlace <=> OnePlace /\ NoRepeats
<1>1. \A p : p \in Place <=> \E r \in Sched, k \in Kind : p = <<r, k>>
  BY DEF Place, Kind
<1>2. ASSUME NEW t \in Task
      PROVE  (\E p \in Place : /\ Holds(p[1], p[2], t)
                               /\ \A q \in Place : Holds(q[1], q[2], t) => q = p)
             <=> \E r \in Sched, k \in Kind : OnlyAt(t, r, k)
  <2>1. ASSUME NEW p \in Place, Holds(p[1], p[2], t),
               \A q \in Place : Holds(q[1], q[2], t) => q = p
        PROVE  \E r \in Sched, k \in Kind : OnlyAt(t, r, k)
    <3>1. PICK r \in Sched, k \in Kind : p = <<r, k>>
      BY <1>1
    <3>2. ASSUME NEW s \in Sched, NEW l \in Kind, Holds(s, l, t)
          PROVE  s = r /\ l = k
      <4>1. <<s, l>> \in Place /\ <<s, l>>[1] = s /\ <<s, l>>[2] = l
        BY <1>1
      <4>2. <<s, l>> = p
        BY <2>1, <3>2, <4>1
      <4> QED
        BY <3>1, <4>2
    <3> QED
      BY <2>1, <3>1, <3>2 DEF OnlyAt
  <2>2. ASSUME NEW r \in Sched, NEW k \in Kind, OnlyAt(t, r, k)
        PROVE  \E p \in Place : /\ Holds(p[1], p[2], t)
                                /\ \A q \in Place : Holds(q[1], q[2], t) => q = p
    <3>1. <<r, k>> \in Place /\ <<r, k>>[1] = r /\ <<r, k>>[2] = k
      BY <1>1
    <3>2. ASSUME NEW q \in Place, Holds(q[1], q[2], t)
          PROVE  q = <<r, k>>
      <4>1. PICK s \in Sched, l \in Kind : q = <<s, l>>
        BY <1>1
      <4>2. Holds(s, l, t)
        BY <3>2, <4>1
      <4> QED
        BY <2>2, <4>1, <4>2 DEF OnlyAt
    <3> QED
      BY <2>2, <3>1, <3>2 DEF OnlyAt
  <2> QED
    BY <2>1, <2>2
<1> QED
  BY <1>2 DEF EveryTaskInOnePlace, OnePlace, NoRepeats, NoRepeat

\* A step that leaves every place alone keeps every task in one place.
LEMMA StayOnePlace ==
  ASSUME OnePlace, AllSame
  PROVE  OnePlace'
<1> SUFFICES ASSUME NEW t \in Task
             PROVE  \E r \in Sched, k \in Kind : OnlyAt(t, r, k)'
  BY DEF OnePlace, Kind
<1>1. PICK r \in Sched, k \in Kind : OnlyAt(t, r, k)
  BY DEF OnePlace
<1> QED
  BY <1>1 DEF OnlyAt, AllSame, SameAt, WillHold, Kind

\* A step that moves some tasks keeps every task in one place.
LEMMA MoveOnePlace ==
  ASSUME OnePlace, NEW T \in SUBSET Task, NEW r \in Sched, NEW k \in Kind,
         NEW s \in Sched, NEW l \in Kind, Moves(T, r, k, s, l)
  PROVE  OnePlace'
<1> SUFFICES ASSUME NEW t \in Task
             PROVE  \E q \in Sched, m \in Kind : OnlyAt(t, q, m)'
  BY DEF OnePlace, Kind
<1>1. PICK q \in Sched, m \in Kind : OnlyAt(t, q, m)
  BY DEF OnePlace
<1>2. CASE t \in T
  <2>1. q = r /\ m = k
    BY <1>1, <1>2 DEF OnlyAt, Moves
  <2>2. OnlyAt(t, s, l)'
    BY <1>1, <1>2, <2>1 DEF OnlyAt, Moves, SameAt, WillHold, Kind
  <2> QED
    BY <2>2
<1>3. CASE t \notin T
  <2>1. OnlyAt(t, q, m)'
    BY <1>1, <1>3 DEF OnlyAt, Moves, SameAt, WillHold, Kind
  <2> QED
    BY <2>1
<1> QED
  BY <1>2, <1>3

-----------------------------------------------------------------------------
(* The places one by one.                                                  *)

\* The tasks in a wait queue, before and after a step.
LEMMA InWait ==
  ASSUME NEW s \in Sched, NEW t \in Task
  PROVE  /\ Holds(s, "wait", t) <=> Lists(waitQueue[s], t)
         /\ WillHold(s, "wait", t) <=> Lists(waitQueue'[s], t)
  BY SchedulerAssumption DEF WillHold, Holds, PlaceKind, Lists

\* The task checking_ready_task has in its hands.
LEMMA InCrt ==
  ASSUME NEW s \in Sched, NEW t \in Task
  PROVE  /\ Holds(s, "crt", t) <=> crt[s].task = t
         /\ WillHold(s, "crt", t) <=> crt'[s].task = t
  BY SchedulerAssumption DEF WillHold, Holds, PlaceKind

\* The tasks in a queue that others may steal from.
LEMMA InWs ==
  ASSUME NEW s \in Sched, NEW t \in Task
  PROVE  /\ Holds(s, "ws", t) <=> t \in wsQueue[s]
         /\ WillHold(s, "ws", t) <=> t \in wsQueue'[s]
  BY SchedulerAssumption DEF WillHold, Holds, PlaceKind

\* The tasks in a local queue.
LEMMA InLocal ==
  ASSUME NEW s \in Sched, NEW t \in Task
  PROVE  /\ Holds(s, "local", t) <=> t \in localQueue[s]
         /\ WillHold(s, "local", t) <=> t \in localQueue'[s]
  BY SchedulerAssumption DEF WillHold, Holds, PlaceKind

\* The tasks localQueue_monitor is migrating.
LEMMA InLqm ==
  ASSUME NEW s \in Sched, NEW t \in Task
  PROVE  /\ Holds(s, "lqm", t) <=> t \in lqm[s]
         /\ WillHold(s, "lqm", t) <=> t \in lqm'[s]
  BY SchedulerAssumption DEF WillHold, Holds, PlaceKind

\* The tasks a thief is receiving.
LEMMA InSteal ==
  ASSUME NEW s \in Sched, NEW t \in Task
  PROVE  /\ Holds(s, "steal", t) <=> t \in ws[s].got
         /\ WillHold(s, "steal", t) <=> t \in ws'[s].got
  BY SchedulerAssumption DEF WillHold, Holds, PlaceKind

\* The task an executing thread has in its hands.
LEMMA InExec ==
  ASSUME NEW s \in Sched, NEW t \in Task, NEW c \in Core
  PROVE  /\ Holds(s, c, t) <=> exec[s][c].task = t
         /\ WillHold(s, c, t) <=> exec'[s][c].task = t
  BY SchedulerAssumption DEF WillHold, Holds, PlaceKind

\* The tasks whose output a scheduler keeps.
LEMMA InDone ==
  ASSUME NEW s \in Sched, NEW t \in Task
  PROVE  /\ Holds(s, "done", t) <=> (/\ <<s, t>> \in localData[s]
             /\ \A c \in Core : exec[s][c].task # t)
         /\ WillHold(s, "done", t) <=> (/\ <<s, t>> \in localData'[s]
             /\ \A c \in Core : exec'[s][c].task # t)
  BY SchedulerAssumption DEF WillHold, Holds, PlaceKind

\* A place whose variable does not change keeps its tasks.
LEMMA SameWhen ==
  ASSUME NEW s \in Sched
  PROVE  /\ waitQueue'[s] = waitQueue[s] => SameAt(s, "wait")
         /\ crt'[s].task = crt[s].task => SameAt(s, "crt")
         /\ wsQueue'[s] = wsQueue[s] => SameAt(s, "ws")
         /\ localQueue'[s] = localQueue[s] => SameAt(s, "local")
         /\ lqm'[s] = lqm[s] => SameAt(s, "lqm")
         /\ ws'[s].got = ws[s].got => SameAt(s, "steal")
         /\ \A c \in Core : exec'[s][c].task = exec[s][c].task => SameAt(s, c)
         /\ /\ localData'[s] = localData[s]
            /\ \A c \in Core : exec'[s][c].task = exec[s][c].task
            => SameAt(s, "done")
<1>1. waitQueue'[s] = waitQueue[s] => SameAt(s, "wait")
  BY InWait DEF SameAt
<1>2. crt'[s].task = crt[s].task => SameAt(s, "crt")
  BY InCrt DEF SameAt
<1>3. wsQueue'[s] = wsQueue[s] => SameAt(s, "ws")
  BY InWs DEF SameAt
<1>4. localQueue'[s] = localQueue[s] => SameAt(s, "local")
  BY InLocal DEF SameAt
<1>5. lqm'[s] = lqm[s] => SameAt(s, "lqm")
  BY InLqm DEF SameAt
<1>6. ws'[s].got = ws[s].got => SameAt(s, "steal")
  BY InSteal DEF SameAt
<1>7. ASSUME NEW c \in Core, exec'[s][c].task = exec[s][c].task
      PROVE  SameAt(s, c)
  BY <1>7, InExec DEF SameAt
<1>8. ASSUME localData'[s] = localData[s],
             \A c \in Core : exec'[s][c].task = exec[s][c].task
      PROVE  SameAt(s, "done")
  BY <1>8, InDone, Zenon DEF SameAt
<1> QED
  BY <1>1, <1>2, <1>3, <1>4, <1>5, <1>6, <1>7, <1>8

\* The kinds of places.
LEMMA Kinds ==
  /\ {"wait", "crt", "ws", "local", "lqm", "steal", "done"} \subseteq Kind
  /\ Core \subseteq Kind
  /\ \A k \in Kind : k \in PlaceKind \/ k \in Core
  /\ \A c \in Core : c \notin PlaceKind
  BY SchedulerAssumption DEF Kind, PlaceKind

\* A step that changes no place's variable leaves every place alone.
LEMMA SameEverywhere ==
  ASSUME \A s \in Sched : /\ waitQueue'[s] = waitQueue[s]
                          /\ crt'[s].task = crt[s].task
                          /\ wsQueue'[s] = wsQueue[s]
                          /\ localQueue'[s] = localQueue[s]
                          /\ lqm'[s] = lqm[s]
                          /\ ws'[s].got = ws[s].got
                          /\ localData'[s] = localData[s]
                          /\ \A c \in Core : exec'[s][c].task = exec[s][c].task
  PROVE  AllSame
  BY SameWhen DEF AllSame, Kind, PlaceKind

-----------------------------------------------------------------------------
(* Wait queues.                                                            *)

\* Taking the front of a queue removes that task and no other.
LEMMA TakeFront ==
  ASSUME NEW q \in Seq(Task), q # <<>>, NoRepeat(q)
  PROVE  /\ Head(q) \in Task /\ Lists(q, Head(q)) /\ NoRepeat(Tail(q))
         /\ Tail(q) \in Seq(Task)
         /\ \A t \in Task : Lists(Tail(q), t) <=> Lists(q, t) /\ t # Head(q)
<1>1. /\ Len(q) \in Nat /\ Len(q) > 0 /\ DOMAIN q = 1..Len(q)
      /\ Tail(q) \in Seq(Task) /\ Head(q) \in Task /\ Head(q) = q[1]
      /\ DOMAIN Tail(q) = 1..(Len(q) - 1)
  OBVIOUS
<1>2. \A i \in DOMAIN Tail(q) : Tail(q)[i] = q[i + 1] /\ i + 1 \in DOMAIN q
  BY <1>1
<1>3. \A i, j \in DOMAIN Tail(q) : Tail(q)[i] = Tail(q)[j] => i = j
  BY <1>1, <1>2 DEF NoRepeat
<1>4. ASSUME NEW t \in Task, Lists(Tail(q), t)
      PROVE  Lists(q, t) /\ t # Head(q)
  <2>1. PICK i \in DOMAIN Tail(q) : Tail(q)[i] = t
    BY <1>4 DEF Lists
  <2>2. i + 1 \in DOMAIN q /\ q[i + 1] = t /\ i + 1 # 1 /\ 1 \in DOMAIN q
    BY <1>1, <1>2, <2>1
  <2> QED
    BY <1>1, <2>2 DEF Lists, NoRepeat
<1>5. ASSUME NEW t \in Task, Lists(q, t), t # Head(q)
      PROVE  Lists(Tail(q), t)
  <2>1. PICK i \in DOMAIN q : q[i] = t
    BY <1>5 DEF Lists
  <2>2. i - 1 \in DOMAIN Tail(q) /\ (i - 1) + 1 = i
    BY <1>1, <1>5, <2>1
  <2>3. Tail(q)[i - 1] = t
    BY <1>2, <2>1, <2>2
  <2> QED
    BY <2>2, <2>3 DEF Lists
<1>6. Lists(q, Head(q))
  BY <1>1 DEF Lists
<1> QED
  BY <1>1, <1>3, <1>4, <1>5, <1>6 DEF NoRepeat

\* Putting a task at the back adds that task and no other.
LEMMA PutBack ==
  ASSUME NEW q \in Seq(Task), NEW u \in Task, NoRepeat(q), ~Lists(q, u)
  PROVE  /\ NoRepeat(Append(q, u))
         /\ \A t \in Task : Lists(Append(q, u), t) <=> Lists(q, t) \/ t = u
<1> DEFINE p == Append(q, u)
<1>1. /\ Len(q) \in Nat /\ DOMAIN q = 1..Len(q) /\ DOMAIN p = 1..(Len(q) + 1)
      /\ p[Len(q) + 1] = u
      /\ \A i \in 1..Len(q) : p[i] = q[i]
  OBVIOUS
<1> HIDE DEF p
<1>2. \A i \in DOMAIN p : i \in DOMAIN q \/ i = Len(q) + 1
  BY <1>1
<1>3. \A i \in DOMAIN q : p[i] # u /\ i \in DOMAIN p /\ p[i] = q[i]
  BY <1>1 DEF Lists
<1>4. NoRepeat(p)
  BY <1>1, <1>2, <1>3 DEF NoRepeat
<1>5. Len(q) + 1 \in DOMAIN p
  BY <1>1
<1>6. \A t \in Task : Lists(p, t) <=> Lists(q, t) \/ t = u
  BY <1>1, <1>2, <1>3, <1>5 DEF Lists
<1> QED
  BY <1>4, <1>6 DEF p

-----------------------------------------------------------------------------
(* The steps of checking_ready_task.                                       *)

CrtElsewhere(s) == \A r \in Sched \ {s} : crt'[r] = crt[r]

\* What each step does to the hands of checking_ready_task.
LEMMA CrtHands ==
  ASSUME Typed, NEW s \in Sched
  PROVE  /\ CheckReady(s) =>
              /\ crt[s].task = None /\ crt'[s].task = Head(waitQueue[s])
              /\ CrtElsewhere(s)
         /\ ReadyToSteal(s) \/ ReadyLocal(s) \/ RecvPushingTask(s) =>
              crt[s].task \in Task /\ crt'[s].task = None /\ CrtElsewhere(s)
         /\ RecvPushingTask(s) => crt[s].dest \in Sched
         /\ PushTask(s) \/ CrtExit(s) =>
              crt'[s].task = crt[s].task /\ CrtElsewhere(s)
<1>1. crt \in [Sched -> CrtState] /\ CrtOK(crt[s])
  BY DEF Typed, TypeOK, CrtShape
<1>2. ASSUME NEW f, crt' = [crt EXCEPT ![s] = f]
      PROVE  crt'[s] = f /\ CrtElsewhere(s)
  BY <1>1, <1>2 DEF CrtElsewhere
<1>3. ASSUME CheckReady(s)
      PROVE  /\ crt[s].task = None /\ crt'[s].task = Head(waitQueue[s])
             /\ CrtElsewhere(s)
  BY <1>1, <1>2, <1>3, Zenon DEF CheckReady, CrtOK
<1>4. ASSUME ReadyToSteal(s) \/ ReadyLocal(s) \/ RecvPushingTask(s)
      PROVE  crt[s].task \in Task /\ crt'[s].task = None /\ CrtElsewhere(s)
  <2>1. crt[s].pc \in {"ready", "push"} /\ crt' = [crt EXCEPT ![s] = CrtIdle]
    BY <1>4 DEF ReadyToSteal, ReadyLocal, RecvPushingTask
  <2> QED
    BY <1>1, <1>2, <2>1, Zenon DEF CrtOK, CrtIdle
<1>5. RecvPushingTask(s) => crt[s].dest \in Sched
  BY <1>1 DEF CrtOK, RecvPushingTask
<1>6. ASSUME PushTask(s)
      PROVE  crt'[s].task = crt[s].task /\ CrtElsewhere(s)
  <2>1. PICK m \in MaxInputs(crt[s].value.inputs) :
          crt' = [crt EXCEPT ![s] = [crt[s] EXCEPT !.pc = "push", !.dest = m.host]]
    BY <1>6, Zenon DEF PushTask
  <2> DEFINE f == [crt[s] EXCEPT !.pc = "push", !.dest = m.host]
  <2>2. f.task = crt[s].task
    BY <1>1 DEF CrtState
  <2>3. crt'[s] = f /\ CrtElsewhere(s)
    BY <1>2, <2>1, Zenon
  <2> QED
    BY <2>2, <2>3
<1>7. ASSUME CrtExit(s)
      PROVE  crt'[s].task = crt[s].task /\ CrtElsewhere(s)
  <2> DEFINE f == [crt[s] EXCEPT !.pc = "exit"]
  <2>1. f.task = crt[s].task
    BY <1>1 DEF CrtState
  <2>2. crt'[s] = f /\ CrtElsewhere(s)
    BY <1>2, <1>7, Zenon DEF CrtExit
  <2> QED
    BY <2>1, <2>2
<1> QED
  BY <1>3, <1>4, <1>5, <1>6, <1>7

\* A task leaves the wait queue when it is ready, and a ready queue takes it.
LEMMA CheckingReadyTaskPlaces ==
  ASSUME Typed, OnePlace, NoRepeats, NEW s \in Sched, CheckingReadyTask(s)
  PROVE  OnePlace' /\ NoRepeats'
<1> USE DEF queues
<1>a. \A r \in Sched : /\ SameAt(r, "lqm") /\ SameAt(r, "steal") /\ SameAt(r, "done")
                       /\ \A c \in Core : SameAt(r, c)
  BY Frames, SameWhen
<1>b. \A r \in Sched : waitQueue[r] \in Seq(Task) /\ NoRepeat(waitQueue[r])
  BY DEF Typed, TypeOK, NoRepeats
<1>c. /\ waitQueue \in [Sched -> Seq(Task)] /\ wsQueue \in [Sched -> SUBSET Task]
      /\ localQueue \in [Sched -> SUBSET Task]
  BY DEF Typed, TypeOK
<1>d. \A t \in Task : t # None
  BY SchedulerAssumption
<1>e. CrtElsewhere(s) => \A r \in Sched \ {s} : SameAt(r, "crt")
  BY SameWhen DEF CrtElsewhere
<1>f. UNCHANGED waitQueue => NoRepeats' /\ \A r \in Sched : SameAt(r, "wait")
  BY SameWhen DEF NoRepeats
<1>g. /\ UNCHANGED wsQueue => \A r \in Sched : SameAt(r, "ws")
      /\ UNCHANGED localQueue => \A r \in Sched : SameAt(r, "local")
  BY SameWhen
<1>h. (\A r \in Sched : /\ SameAt(r, "wait") /\ SameAt(r, "crt") /\ SameAt(r, "ws")
                        /\ SameAt(r, "local")) => AllSame
  BY <1>a DEF AllSame, Kind, PlaceKind
<1>1. CASE CheckNotReady(s)
  <2> DEFINE q == waitQueue[s]
             p == Append(Tail(q), Head(q))
  <2>1. q # <<>> /\ waitQueue' = [waitQueue EXCEPT ![s] = p]
        /\ UNCHANGED <<crt, wsQueue, localQueue>>
    BY <1>1 DEF CheckNotReady
  <2>2. /\ NoRepeat(p)
        /\ \A t \in Task : Lists(p, t) <=> Lists(q, t)
    <3>1. /\ Head(q) \in Task /\ Lists(q, Head(q)) /\ NoRepeat(Tail(q))
          /\ Tail(q) \in Seq(Task)
          /\ \A t \in Task : Lists(Tail(q), t) <=> Lists(q, t) /\ t # Head(q)
      BY <1>b, <2>1, TakeFront
    <3> QED
      BY <3>1, PutBack, Zenon
  <2>3. waitQueue'[s] = p /\ \A r \in Sched \ {s} : waitQueue'[r] = waitQueue[r]
    BY <1>c, <2>1
  <2> HIDE DEF p
  <2>4. NoRepeats'
    <3>1. \A r \in Sched : NoRepeat(waitQueue'[r])
      BY <1>b, <2>2, <2>3
    <3> QED
      BY <3>1 DEF NoRepeats
  <2>5. \A r \in Sched : SameAt(r, "wait")
    <3>1. SameAt(s, "wait")
      BY <2>2, <2>3, InWait DEF SameAt
    <3> QED
      BY <2>3, <3>1, SameWhen
  <2>6. AllSame
    BY <1>g, <1>h, <2>1, <2>5, SameWhen
  <2> QED
    BY <2>4, <2>6, StayOnePlace
<1>2. CASE CheckReady(s)
  <2> DEFINE q == waitQueue[s]
             u == Head(q)
  <2>1. /\ q # <<>> /\ waitQueue' = [waitQueue EXCEPT ![s] = Tail(q)]
        /\ UNCHANGED <<wsQueue, localQueue>>
    BY <1>2 DEF CheckReady
  <2>2. /\ u \in Task /\ Lists(q, u) /\ NoRepeat(Tail(q))
        /\ \A t \in Task : Lists(Tail(q), t) <=> Lists(q, t) /\ t # u
    BY <1>b, <2>1, TakeFront
  <2>3. waitQueue'[s] = Tail(q) /\ \A r \in Sched \ {s} : waitQueue'[r] = waitQueue[r]
    BY <1>c, <2>1
  <2>4. crt[s].task = None /\ crt'[s].task = u /\ CrtElsewhere(s)
    BY <1>2, CrtHands
  <2> HIDE DEF u
  <2>5. NoRepeats'
    <3>1. \A r \in Sched : NoRepeat(waitQueue'[r])
      BY <1>b, <2>2, <2>3
    <3> QED
      BY <3>1 DEF NoRepeats
  <2>6. Moves({u}, s, "wait", s, "crt")
    <3>1. /\ Holds(s, "wait", u)
          /\ \A t \in Task : WillHold(s, "wait", t) <=> Holds(s, "wait", t) /\ t # u
      <4>1. \A t \in Task : /\ Holds(s, "wait", t) <=> Lists(q, t)
                            /\ WillHold(s, "wait", t) <=> Lists(Tail(q), t)
        BY <2>3, InWait
      <4> QED
        BY <2>2, <4>1
    <3>2. \A t \in Task : WillHold(s, "crt", t) <=> Holds(s, "crt", t) \/ t = u
      BY <1>d, <2>4, InCrt
    <3>3. \A r \in Sched \ {s} : SameAt(r, "wait") /\ SameAt(r, "crt")
      BY <1>e, <2>3, <2>4, SameWhen
    <3> QED
      BY <1>a, <1>g, <2>1, <3>1, <3>2, <3>3 DEF Moves, Kind, PlaceKind
  <2> QED
    BY <2>2, <2>5, <2>6, MoveOnePlace, Kinds
<1>3. CASE ReadyToSteal(s)
  <2> DEFINE u == crt[s].task
  <2>1. /\ wsQueue' = [wsQueue EXCEPT ![s] = @ \cup {u}]
        /\ UNCHANGED <<waitQueue, localQueue>>
    BY <1>3 DEF ReadyToSteal
  <2>2. u \in Task /\ crt'[s].task = None /\ CrtElsewhere(s)
    BY <1>3, CrtHands
  <2>3. /\ wsQueue'[s] = wsQueue[s] \cup {u}
        /\ \A r \in Sched \ {s} : wsQueue'[r] = wsQueue[r]
    BY <1>c, <2>1
  <2>4. Moves({u}, s, "crt", s, "ws")
    <3>1. /\ Holds(s, "crt", u)
          /\ \A t \in Task : WillHold(s, "crt", t) <=> Holds(s, "crt", t) /\ t # u
      BY <1>d, <2>2, InCrt
    <3>2. \A t \in Task : WillHold(s, "ws", t) <=> Holds(s, "ws", t) \/ t = u
      BY <2>3, InWs
    <3>3. \A r \in Sched \ {s} : SameAt(r, "crt") /\ SameAt(r, "ws")
      BY <1>e, <2>2, <2>3, SameWhen
    <3> QED
      BY <1>a, <1>f, <1>g, <2>1, <3>1, <3>2, <3>3 DEF Moves, Kind, PlaceKind
  <2> QED
    BY <1>f, <2>1, <2>2, <2>4, MoveOnePlace, Kinds
<1>4. ASSUME NEW d \in Sched, NEW u \in Task, u = crt[s].task,
             localQueue' = [localQueue EXCEPT ![d] = @ \cup {u}],
             UNCHANGED <<waitQueue, wsQueue>>, crt'[s].task = None, CrtElsewhere(s)
      PROVE  OnePlace' /\ NoRepeats'
  <2>1. /\ localQueue'[d] = localQueue[d] \cup {u}
        /\ \A r \in Sched \ {d} : localQueue'[r] = localQueue[r]
    BY <1>c, <1>4
  <2>2. Moves({u}, s, "crt", d, "local")
    <3>1. /\ Holds(s, "crt", u)
          /\ \A t \in Task : WillHold(s, "crt", t) <=> Holds(s, "crt", t) /\ t # u
      BY <1>d, <1>4, InCrt
    <3>2. \A t \in Task : WillHold(d, "local", t) <=> Holds(d, "local", t) \/ t = u
      BY <2>1, InLocal
    <3>3. /\ \A r \in Sched \ {s} : SameAt(r, "crt")
          /\ \A r \in Sched \ {d} : SameAt(r, "local")
      BY <1>e, <1>4, <2>1, SameWhen
    <3> QED
      BY <1>a, <1>f, <1>g, <1>4, <3>1, <3>2, <3>3 DEF Moves, Kind, PlaceKind
  <2> QED
    BY <1>f, <1>4, <2>2, MoveOnePlace, Kinds
<1>5. CASE ReadyLocal(s)
  BY <1>4, <1>5, CrtHands, Zenon DEF ReadyLocal
<1>6. CASE RecvPushingTask(s)
  BY <1>4, <1>6, CrtHands, Zenon DEF RecvPushingTask
<1>7. CASE PushTask(s) \/ CrtExit(s)
  <2>1. UNCHANGED <<waitQueue, wsQueue, localQueue>>
    BY <1>7, Zenon DEF PushTask, CrtExit
  <2>2. AllSame
    BY <1>e, <1>f, <1>g, <1>h, <1>7, <2>1, CrtHands, SameWhen, Zenon
  <2> QED
    BY <1>f, <2>1, <2>2, StayOnePlace
<1> QED
  BY <1>1, <1>2, <1>3, <1>5, <1>6, <1>7 DEF CheckingReadyTask

-----------------------------------------------------------------------------
(* The steps of executing_task.                                            *)

\* A step of thread c of scheduler s is noticed by no other thread.
LEMMA OtherThreadsSame ==
  ASSUME NEW s \in Sched, NEW c \in Core, ExecElsewhere(s, c)
  PROVE  /\ \A r \in Sched, d \in Core : r # s \/ d # c => SameAt(r, d)
         /\ \A r \in Sched \ {s} : localData'[r] = localData[r] => SameAt(r, "done")
  BY SameWhen, Zenon DEF ExecElsewhere

\* A thread takes a task from a ready queue, keeps it while it fetches, runs,
\* stores and announces, and leaves it with its output.
LEMMA ExecutingTaskPlaces ==
  ASSUME Typed, DataInv, OnePlace, NEW s \in Sched, NEW c \in Core,
         ExecutingTask(s, c)
  PROVE  OnePlace'
<1>a. \A r \in Sched : /\ SameAt(r, "wait") /\ SameAt(r, "crt") /\ SameAt(r, "lqm")
                       /\ SameAt(r, "steal")
  BY Frames, SameWhen, Zenon
<1>b. ExecElsewhere(s, c)
  <2>1. ExecChoose(s, c) => ExecElsewhere(s, c)
    BY ExecChooseEffect, Zenon
  <2>2. ExecPopLocal(s, c) => ExecElsewhere(s, c)
    BY ExecPopLocalEffect, Zenon
  <2>3. ExecPopWs(s, c) => ExecElsewhere(s, c)
    BY ExecPopWsEffect, Zenon
  <2>4. ExecLookup(s, c) => ExecElsewhere(s, c)
    BY ExecLookupEffect, Zenon
  <2>5. FetchHere(s, c) => ExecElsewhere(s, c)
    BY FetchHereEffect, Zenon
  <2>6. RequireData(s, c) => ExecElsewhere(s, c)
    BY RequireDataEffect, Zenon
  <2>7. ReceiveData(s, c) => ExecElsewhere(s, c)
    BY ReceiveDataEffect, Zenon
  <2>8. ExecRun(s, c) => ExecElsewhere(s, c)
    BY ExecRunEffect, Zenon
  <2>9. ExecComplete(s, c) => ExecElsewhere(s, c)
    BY ExecCompleteEffect, Zenon
  <2>10. ExecCount(s, c) => ExecElsewhere(s, c)
    BY ExecCountEffect, Zenon
  <2>11. ExecExit(s, c) => ExecElsewhere(s, c)
    BY ExecExitEffect, Zenon
  <2> QED
    BY <2>1, <2>2, <2>3, <2>4, <2>5, <2>6, <2>7, <2>8, <2>9, <2>10, <2>11
       DEF ExecutingTask
<1>c. \A t \in Task : t # None
  BY SchedulerAssumption
<1>k. ExecIdle.task = None
  BY DEF ExecIdle
<1>d. /\ UNCHANGED wsQueue => \A r \in Sched : SameAt(r, "ws")
      /\ UNCHANGED localQueue => \A r \in Sched : SameAt(r, "local")
  BY SameWhen
<1>e. ExecOK(exec[s][c]) /\ ExecData(s, c)
  BY DEF Typed, ExecShape, DataInv
<1>f. UNCHANGED localData => \A r \in Sched \ {s} : SameAt(r, "done")
  BY <1>b, OtherThreadsSame
<1>g. \A r \in Sched, d \in Core : r # s \/ d # c => SameAt(r, d)
  BY <1>b, OtherThreadsSame
<1>h. ASSUME exec'[s][c].task = exec[s][c].task, UNCHANGED <<wsQueue, localQueue>>,
             \A r \in Sched : SameAt(r, "done")
      PROVE  OnePlace'
  <2>1. SameAt(s, c)
    BY <1>h, SameWhen
  <2>2. AllSame
    BY <1>a, <1>d, <1>g, <1>h, <2>1 DEF AllSame, Kind, PlaceKind
  <2> QED
    BY <2>2, StayOnePlace
<1>i. ASSUME exec'[s][c].task = exec[s][c].task, UNCHANGED localData
      PROVE  \A r \in Sched : SameAt(r, "done")
  <2>1. \A r \in Sched, d \in Core : exec'[r][d].task = exec[r][d].task
    BY <1>b, <1>i DEF ExecElsewhere
  <2> QED
    BY <1>i, <2>1, SameWhen
<1>1. CASE \/ ExecChoose(s, c) \/ ExecLookup(s, c) \/ FetchHere(s, c)
           \/ RequireData(s, c) \/ ExecComplete(s, c) \/ ExecExit(s, c)
  <2> DEFINE Kept == /\ exec'[s][c].task = exec[s][c].task
                     /\ UNCHANGED <<wsQueue, localQueue, localData>>
  <2>1. ExecChoose(s, c) => Kept
    BY ExecChooseEffect, Zenon DEF KeepsTask
  <2>2. ExecLookup(s, c) => Kept
    BY ExecLookupEffect, Zenon DEF KeepsTask
  <2>3. FetchHere(s, c) => Kept
    BY FetchHereEffect, Zenon DEF KeepsTask
  <2>4. RequireData(s, c) => Kept
    BY RequireDataEffect, Zenon DEF KeepsTask
  <2>5. ExecComplete(s, c) => Kept
    BY ExecCompleteEffect, Zenon DEF KeepsTask
  <2>6. ExecExit(s, c) => Kept
    BY ExecExitEffect, Zenon DEF KeepsTask
  <2>7. Kept
    BY <1>1, <2>1, <2>2, <2>3, <2>4, <2>5, <2>6, Zenon
  <2> QED
    BY <1>h, <1>i, <2>7
<1>2. CASE ReceiveData(s, c) \/ ExecRun(s, c)
  <2>1. /\ exec'[s][c].task = exec[s][c].task
        /\ UNCHANGED <<wsQueue, localQueue>>
        /\ \A r \in Sched \ {s} : localData'[r] = localData[r]
    BY <1>2, ReceiveDataEffect, ExecRunEffect DEF KeepsTask
  <2>2. ASSUME NEW t \in Task
        PROVE  WillHold(s, "done", t) <=> Holds(s, "done", t)
    <3>1. \A d \in Core : exec'[s][d].task = exec[s][d].task
      BY <1>b, <2>1 DEF ExecElsewhere
    <3>2. CASE ReceiveData(s, c)
      <4>1. /\ exec[s][c].name[1] # s
            /\ localData'[s] = localData[s] \cup {exec[s][c].name}
        BY <1>e, <3>2, ReceiveDataEffect DEF ExecData
      <4>2. <<s, t>> # exec[s][c].name
        BY <4>1
      <4>3. <<s, t>> \in localData'[s] <=> <<s, t>> \in localData[s]
        BY <4>1, <4>2
      <4> QED
        BY <3>1, <4>3, InDone
    <3>3. CASE ExecRun(s, c)
      <4>1. localData'[s] = localData[s] \cup {<<s, exec[s][c].task>>}
        BY <3>3, ExecRunEffect
      <4>2. CASE t = exec[s][c].task
        BY <3>1, <4>2, InDone, Zenon
      <4>3. CASE t # exec[s][c].task
        <5>1. <<s, t>> \in localData'[s] <=> <<s, t>> \in localData[s]
          BY <4>1, <4>3
        <5> QED
          BY <3>1, <5>1, InDone
      <4> QED
        BY <4>2, <4>3
    <3> QED
      BY <1>2, <3>2, <3>3
  <2>3. \A r \in Sched : SameAt(r, "done")
    <3>1. SameAt(s, "done")
      BY <2>2 DEF SameAt
    <3> QED
      BY <1>b, <2>1, <3>1, OtherThreadsSame
  <2> QED
    BY <1>h, <2>1, <2>3
<1>j. ASSUME exec[s][c].task = None, exec'[s][c].task \in Task, UNCHANGED localData,
             NEW k \in {"local", "ws"}, Holds(s, k, exec'[s][c].task)
      PROVE  \A r \in Sched : SameAt(r, "done")
  <2> DEFINE u == exec'[s][c].task
  <2>1. ~Holds(s, "done", u)
    BY <1>j, Kinds DEF OnePlace, OnlyAt
  <2>2. ASSUME NEW t \in Task
        PROVE  WillHold(s, "done", t) <=> Holds(s, "done", t)
    <3>1. CASE t = u
      BY <2>1, <3>1, InDone, Zenon
    <3>2. CASE t # u
      <4>1. \A d \in Core : exec'[s][d].task # t <=> exec[s][d].task # t
        BY <1>b, <1>c, <1>j, <3>2 DEF ExecElsewhere
      <4> QED
        BY <1>j, <4>1, InDone, Zenon
    <3> QED
      BY <3>1, <3>2
  <2>3. SameAt(s, "done")
    BY <2>2 DEF SameAt
  <2> QED
    BY <1>f, <1>j, <2>3
<1>3. CASE ExecPopLocal(s, c)
  <2>1. exec[s][c].task = None /\ UNCHANGED <<wsQueue, localData>>
    BY <1>3, <1>e, ExecPopLocalEffect DEF ExecOK
  <2>2. CASE exec'[s][c] = ExecIdle /\ UNCHANGED localQueue
    <3>1. exec'[s][c].task = exec[s][c].task
      BY <1>k, <2>1, <2>2, Zenon
    <3> QED
      BY <1>h, <1>i, <2>1, <2>2, <3>1
  <2>3. CASE ~(exec'[s][c] = ExecIdle /\ UNCHANGED localQueue)
    <3> DEFINE u == exec'[s][c].task
    <3>1. /\ u \in localQueue[s] /\ localQueue'[s] = localQueue[s] \ {u}
          /\ \A r \in Sched \ {s} : localQueue'[r] = localQueue[r]
      BY <1>3, <2>3, ExecPopLocalEffect
    <3>2. u \in Task
      BY <3>1, Zenon DEF Typed, TypeOK
    <3>3. /\ Holds(s, "local", u)
          /\ \A t \in Task : WillHold(s, "local", t) <=> Holds(s, "local", t) /\ t # u
      BY <3>1, <3>2, InLocal
    <3>4. \A t \in Task : WillHold(s, c, t) <=> Holds(s, c, t) \/ t = u
      BY <1>c, <2>1, InExec
    <3>5. \A r \in Sched \ {s} : SameAt(r, "local")
      BY <3>1, SameWhen
    <3>6. \A r \in Sched : SameAt(r, "done")
      BY <1>j, <2>1, <3>2, <3>3
    <3> HIDE DEF u
    <3>7. Moves({u}, s, "local", s, c)
      BY <1>a, <1>d, <1>g, <2>1, <3>3, <3>4, <3>5, <3>6, Kinds DEF Moves, Kind, PlaceKind
    <3> QED
      BY <3>2, <3>7, MoveOnePlace, Kinds
  <2> QED
    BY <2>2, <2>3
<1>4. CASE ExecPopWs(s, c)
  <2>1. exec[s][c].task = None /\ UNCHANGED <<localQueue, localData>>
    BY <1>4, <1>e, ExecPopWsEffect DEF ExecOK
  <2>2. CASE exec'[s][c] = ExecIdle /\ UNCHANGED wsQueue
    <3>1. exec'[s][c].task = exec[s][c].task
      BY <1>k, <2>1, <2>2, Zenon
    <3> QED
      BY <1>h, <1>i, <2>1, <2>2, <3>1
  <2>3. CASE ~(exec'[s][c] = ExecIdle /\ UNCHANGED wsQueue)
    <3> DEFINE u == exec'[s][c].task
    <3>1. /\ u \in wsQueue[s] /\ wsQueue'[s] = wsQueue[s] \ {u}
          /\ \A r \in Sched \ {s} : wsQueue'[r] = wsQueue[r]
      BY <1>4, <2>3, ExecPopWsEffect
    <3>2. u \in Task
      BY <3>1, Zenon DEF Typed, TypeOK
    <3>3. /\ Holds(s, "ws", u)
          /\ \A t \in Task : WillHold(s, "ws", t) <=> Holds(s, "ws", t) /\ t # u
      BY <3>1, <3>2, InWs
    <3>4. \A t \in Task : WillHold(s, c, t) <=> Holds(s, c, t) \/ t = u
      BY <1>c, <2>1, InExec
    <3>5. \A r \in Sched \ {s} : SameAt(r, "ws")
      BY <3>1, SameWhen
    <3>6. \A r \in Sched : SameAt(r, "done")
      BY <1>j, <2>1, <3>2, <3>3
    <3> HIDE DEF u
    <3>7. Moves({u}, s, "ws", s, c)
      BY <1>a, <1>d, <1>g, <2>1, <3>3, <3>4, <3>5, <3>6, Kinds DEF Moves, Kind, PlaceKind
    <3> QED
      BY <3>2, <3>7, MoveOnePlace, Kinds
  <2> QED
    BY <2>2, <2>3
<1>5. CASE ExecCount(s, c)
  <2> DEFINE u == exec[s][c].task
  <2>1. /\ exec[s][c].pc = "count" /\ exec'[s][c].task = None
        /\ UNCHANGED <<wsQueue, localQueue, localData>>
    BY <1>k, <1>5, ExecCountEffect, Zenon
  <2>2. u \in Task /\ <<s, u>> \in localData[s]
    BY <1>e, <2>1 DEF ExecOK, ExecData
  <2>3. /\ Holds(s, c, u)
        /\ \A t \in Task : WillHold(s, c, t) <=> Holds(s, c, t) /\ t # u
    <3>1. Holds(s, c, u)
      BY <2>2, InExec
    <3>2. ASSUME NEW t \in Task
          PROVE  WillHold(s, c, t) <=> Holds(s, c, t) /\ t # u
      <4>1. t # None /\ exec'[s][c].task # t
        BY <1>c, <2>1
      <4>2. ~WillHold(s, c, t) /\ (Holds(s, c, t) => t = u)
        BY <4>1, InExec
      <4> QED
        BY <4>2
    <3> QED
      BY <3>1, <3>2
  <2>4. ASSUME NEW d \in Core, d # c
        PROVE  exec[s][d].task # u
    <3>1. ~Holds(s, d, u)
      <4>1. PICK r \in Sched, k \in Kind : OnlyAt(u, r, k)
        BY <2>2 DEF OnePlace
      <4>2. c \in Kind /\ d \in Kind
        BY <2>4 DEF Kind
      <4> QED
        BY <2>3, <2>4, <4>1, <4>2 DEF OnlyAt
    <3> QED
      BY <2>2, <3>1, InExec, Zenon
  <2>5. ASSUME NEW t \in Task
        PROVE  WillHold(s, "done", t) <=> Holds(s, "done", t) \/ t = u
    <3>1. CASE t = u
      <4>1. \A d \in Core : exec'[s][d].task # t
        BY <1>b, <1>c, <2>1, <2>4, <3>1 DEF ExecElsewhere
      <4> QED
        BY <2>1, <2>2, <3>1, <4>1, InDone
    <3>2. CASE t # u
      <4>1. \A d \in Core : exec'[s][d].task # t <=> exec[s][d].task # t
        BY <1>b, <1>c, <2>1, <3>2 DEF ExecElsewhere
      <4> QED
        BY <2>1, <3>2, <4>1, InDone, Zenon
    <3> QED
      BY <3>1, <3>2
  <2> HIDE DEF u
  <2>6. Moves({u}, s, c, s, "done")
    BY <1>a, <1>d, <1>f, <1>g, <2>1, <2>3, <2>5, Kinds DEF Moves, Kind, PlaceKind
  <2> QED
    BY <2>2, <2>6, MoveOnePlace, Kinds
<1> QED
  BY <1>1, <1>2, <1>3, <1>4, <1>5 DEF ExecutingTask

-----------------------------------------------------------------------------
(* The steps of workstealing and of localQueue_monitor.                    *)

\* The steps of a thief that move no task.
WsQuiet(s) ==
  \/ WsEnter(s) \/ WsStart(s) \/ WsQuery(s) \/ WsNothing(s) \/ WsReset(s)
  \/ WsExit(s)

WsElsewhere(s) == \A r \in Sched \ {s} : ws'[r] = ws[r]

\* What each step does to the tasks a thief has in its hands.
LEMMA WsHands ==
  ASSUME Typed, NEW s \in Sched
  PROVE  /\ WsQuiet(s) =>
              ws'[s].got = ws[s].got /\ WsElsewhere(s) /\ UNCHANGED wsQueue
         /\ WsSteal(s) =>
              \E v \in Sched : \E T \in SUBSET wsQueue[v] :
                /\ wsQueue' = [wsQueue EXCEPT ![v] = @ \ T]
                /\ ws[s].got = {} /\ ws'[s].got = T /\ WsElsewhere(s)
         /\ WsReceive(s) => ws'[s].got = {} /\ WsElsewhere(s)
<1> USE DEF queues
<1>1. ws \in [Sched -> WsState] /\ WsOK(ws[s])
  BY DEF Typed, TypeOK, WsShape
<1>2. ASSUME NEW f, ws' = [ws EXCEPT ![s] = f]
      PROVE  ws'[s] = f /\ WsElsewhere(s)
  BY <1>1, <1>2 DEF WsElsewhere
<1>3. \A n : WsIdle(n).got = {}
  BY DEF WsIdle
<1>4. ASSUME WsStart(s)
      PROVE  ws'[s].got = ws[s].got /\ WsElsewhere(s) /\ UNCHANGED wsQueue
  <2>1. PICK neigh \in SUBSET (Sched \ {s}) :
          ws' = [ws EXCEPT ![s] = [ws[s] EXCEPT !.pc = "query", !.todo = neigh]]
    BY <1>4, Zenon DEF WsStart
  <2> DEFINE f == [ws[s] EXCEPT !.pc = "query", !.todo = neigh]
  <2>2. f.got = ws[s].got
    BY <1>1 DEF WsState
  <2>3. ws'[s] = f /\ WsElsewhere(s)
    BY <1>2, <2>1, Zenon
  <2> QED
    BY <1>4, <2>2, <2>3 DEF WsStart
<1>5. ASSUME WsQuery(s)
      PROVE  ws'[s].got = ws[s].got /\ WsElsewhere(s) /\ UNCHANGED wsQueue
  <2>1. \E T, m, v : ws' = [ws EXCEPT ![s] = [ws[s] EXCEPT !.todo = T, !.maxLoad = m,
                                                            !.victim = v]]
    BY <1>5, Zenon DEF WsQuery
  <2>2. PICK T, m, v : ws' = [ws EXCEPT ![s] = [ws[s] EXCEPT !.todo = T, !.maxLoad = m,
                                                              !.victim = v]]
    BY <2>1, Zenon
  <2> DEFINE f == [ws[s] EXCEPT !.todo = T, !.maxLoad = m, !.victim = v]
  <2>3. f.got = ws[s].got
    BY <1>1 DEF WsState
  <2>4. ws'[s] = f /\ WsElsewhere(s)
    BY <1>2, <2>2, Zenon
  <2> QED
    BY <1>5, <2>3, <2>4 DEF WsQuery
<1>6. ASSUME WsNothing(s)
      PROVE  ws'[s].got = ws[s].got /\ WsElsewhere(s) /\ UNCHANGED wsQueue
  <2>1. ws[s].got = {}
    BY <1>1, <1>6 DEF WsOK, WsNothing
  <2>2. ws'[s] = WsIdle(2 * ws[s].interval) /\ WsElsewhere(s)
    BY <1>2, <1>6, Zenon DEF WsNothing
  <2> QED
    BY <1>3, <1>6, <2>1, <2>2 DEF WsNothing
<1>7. ASSUME WsReset(s)
      PROVE  ws'[s].got = ws[s].got /\ WsElsewhere(s) /\ UNCHANGED wsQueue
  <2>1. ws[s].got = {}
    BY <1>1, <1>7 DEF WsOK, WsReset
  <2>2. ws'[s] = WsHead /\ WsElsewhere(s)
    BY <1>2, <1>7, Zenon DEF WsReset
  <2> QED
    BY <1>7, <2>1, <2>2, IdleStates DEF WsReset
<1>8. ASSUME WsExit(s)
      PROVE  ws'[s].got = ws[s].got /\ WsElsewhere(s) /\ UNCHANGED wsQueue
  <2> DEFINE f == [ws[s] EXCEPT !.pc = "exit"]
  <2>1. f.got = ws[s].got
    BY <1>1 DEF WsState
  <2>2. ws'[s] = f /\ WsElsewhere(s)
    BY <1>2, <1>8, Zenon DEF WsExit
  <2> QED
    BY <1>8, <2>1, <2>2 DEF WsExit
<1>9. ASSUME WsSteal(s)
      PROVE  \E v \in Sched : \E T \in SUBSET wsQueue[v] :
                /\ wsQueue' = [wsQueue EXCEPT ![v] = @ \ T]
                /\ ws[s].got = {} /\ ws'[s].got = T /\ WsElsewhere(s)
  <2> DEFINE v == ws[s].victim
  <2>1. v \in Sched /\ ws[s].got = {}
    BY <1>1, <1>9 DEF WsOK, WsSteal
  <2>2. PICK T \in SUBSET wsQueue[v] :
          /\ wsQueue' = [wsQueue EXCEPT ![v] = @ \ T]
          /\ ws' = [ws EXCEPT ![s] = [ws[s] EXCEPT !.pc = "recv", !.got = T]]
    BY <1>9, Zenon DEF WsSteal
  <2> DEFINE f == [ws[s] EXCEPT !.pc = "recv", !.got = T]
  <2>3. f.got = T
    BY <1>1 DEF WsState
  <2>4. ws'[s] = f /\ WsElsewhere(s)
    BY <1>2, <2>2, Zenon
  <2> HIDE DEF f, v
  <2> QED
    BY <2>1, <2>2, <2>3, <2>4, Zenon
<1>10. ASSUME WsReceive(s)
       PROVE  ws'[s].got = {} /\ WsElsewhere(s)
  <2> DEFINE n == IF ws[s].got = {} THEN 2 * ws[s].interval ELSE PollIntervalStart
  <2>1. ws' = [ws EXCEPT ![s] = WsIdle(n)]
    BY <1>10 DEF WsReceive
  <2>2. ws'[s] = WsIdle(n) /\ WsElsewhere(s)
    BY <1>2, <2>1
  <2> QED
    BY <1>3, <2>2
<1>11. ASSUME WsEnter(s)
       PROVE  ws'[s].got = ws[s].got /\ WsElsewhere(s) /\ UNCHANGED wsQueue
  <2> DEFINE f == [ws[s] EXCEPT !.pc = "idle"]
  <2>1. f.got = ws[s].got
    BY <1>1 DEF WsState
  <2>2. ws'[s] = f /\ WsElsewhere(s)
    BY <1>2, <1>11, Zenon DEF WsEnter
  <2> QED
    BY <1>11, <2>1, <2>2 DEF WsEnter
<1> QED
  BY <1>4, <1>5, <1>6, <1>7, <1>8, <1>9, <1>10, <1>11 DEF WsQuiet

\* A theft moves half of a victim's tasks into the thief's hands, and from
\* there to its queue.
LEMMA WorkstealingPlaces ==
  ASSUME Typed, OnePlace, NEW s \in Sched, Workstealing(s)
  PROVE  OnePlace'
<1>a. \A r \in Sched : /\ SameAt(r, "wait") /\ SameAt(r, "crt") /\ SameAt(r, "local")
                       /\ SameAt(r, "lqm") /\ SameAt(r, "done")
                       /\ \A c \in Core : SameAt(r, c)
  BY Frames, SameWhen, Zenon
<1>b. WsElsewhere(s) => \A r \in Sched \ {s} : SameAt(r, "steal")
  BY SameWhen, Zenon DEF WsElsewhere
<1>c. wsQueue \in [Sched -> SUBSET Task] /\ ws[s].got \in SUBSET Task
  BY DEF Typed, TypeOK, WsState
<1>1. CASE WsQuiet(s)
  <2>1. ws'[s].got = ws[s].got /\ WsElsewhere(s) /\ UNCHANGED wsQueue
    BY <1>1, WsHands
  <2>2. \A r \in Sched : SameAt(r, "ws") /\ SameAt(r, "steal")
    BY <1>b, <2>1, SameWhen
  <2>3. AllSame
    BY <1>a, <2>2 DEF AllSame, Kind, PlaceKind
  <2> QED
    BY <2>3, StayOnePlace
<1>2. CASE WsSteal(s)
  <2>1. PICK v \in Sched : \E T \in SUBSET wsQueue[v] :
          /\ wsQueue' = [wsQueue EXCEPT ![v] = @ \ T]
          /\ ws[s].got = {} /\ ws'[s].got = T /\ WsElsewhere(s)
    BY <1>2, WsHands
  <2>2. PICK T \in SUBSET wsQueue[v] :
          /\ wsQueue' = [wsQueue EXCEPT ![v] = @ \ T]
          /\ ws[s].got = {} /\ ws'[s].got = T /\ WsElsewhere(s)
    BY <2>1, Zenon
  <2>3. /\ T \in SUBSET Task /\ wsQueue'[v] = wsQueue[v] \ T
        /\ \A r \in Sched \ {v} : wsQueue'[r] = wsQueue[r]
    BY <1>c, <2>2
  <2>4. /\ \A t \in T : Holds(v, "ws", t)
        /\ \A t \in Task : WillHold(v, "ws", t) <=> Holds(v, "ws", t) /\ t \notin T
    BY <2>2, <2>3, InWs
  <2>5. \A t \in Task : WillHold(s, "steal", t) <=> Holds(s, "steal", t) \/ t \in T
    BY <2>2, InSteal
  <2>6. /\ \A r \in Sched \ {v} : SameAt(r, "ws")
        /\ \A r \in Sched \ {s} : SameAt(r, "steal")
    BY <1>b, <2>2, <2>3, SameWhen, Zenon
  <2>7. Moves(T, v, "ws", s, "steal")
    BY <1>a, <2>4, <2>5, <2>6 DEF Moves, Kind, PlaceKind
  <2> QED
    BY <2>3, <2>7, MoveOnePlace, Kinds
<1>3. CASE WsReceive(s)
  <2> DEFINE T == ws[s].got
  <2>1. ws'[s].got = {} /\ WsElsewhere(s)
    BY <1>3, WsHands
  <2>2. /\ wsQueue'[s] = wsQueue[s] \cup T
        /\ \A r \in Sched \ {s} : wsQueue'[r] = wsQueue[r]
    BY <1>3, <1>c DEF WsReceive
  <2>3. T \in SUBSET Task
    BY <1>c
  <2>4. /\ \A t \in T : Holds(s, "steal", t)
        /\ \A t \in Task : WillHold(s, "steal", t) <=> Holds(s, "steal", t) /\ t \notin T
    BY <2>1, <2>3, InSteal
  <2>5. \A t \in Task : WillHold(s, "ws", t) <=> Holds(s, "ws", t) \/ t \in T
    BY <2>2, InWs
  <2>6. \A r \in Sched \ {s} : SameAt(r, "ws") /\ SameAt(r, "steal")
    BY <1>b, <2>1, <2>2, SameWhen
  <2> HIDE DEF T
  <2>7. Moves(T, s, "steal", s, "ws")
    BY <1>a, <2>4, <2>5, <2>6 DEF Moves, Kind, PlaceKind
  <2> QED
    BY <2>3, <2>7, MoveOnePlace, Kinds
<1> QED
  BY <1>1, <1>2, <1>3 DEF Workstealing, WsQuiet

\* The monitor moves tasks from the local queue through its vector to the
\* stealing queue.
LEMMA LocalQueueMonitorPlaces ==
  ASSUME Typed, OnePlace, NEW s \in Sched, LocalQueueMonitor(s)
  PROVE  OnePlace'
<1> USE DEF queues
<1>a. \A r \in Sched : /\ SameAt(r, "wait") /\ SameAt(r, "crt") /\ SameAt(r, "steal")
                       /\ SameAt(r, "done") /\ \A c \in Core : SameAt(r, c)
  BY Frames, SameWhen, Zenon
<1>b. /\ wsQueue \in [Sched -> SUBSET Task] /\ localQueue \in [Sched -> SUBSET Task]
      /\ lqm \in [Sched -> SUBSET Task]
  BY DEF Typed, TypeOK
<1>1. CASE LqmTake(s)
  <2>1. PICK remain \in SUBSET localQueue[s] :
          /\ lqm' = [lqm EXCEPT ![s] = localQueue[s] \ remain]
          /\ localQueue' = [localQueue EXCEPT ![s] = remain]
    BY <1>1, Zenon DEF LqmTake
  <2> DEFINE T == localQueue[s] \ remain
  <2>2. lqm[s] = {} /\ UNCHANGED wsQueue
    BY <1>1 DEF LqmTake
  <2>3. /\ T \in SUBSET Task /\ lqm'[s] = T /\ localQueue'[s] = localQueue[s] \ T
        /\ \A r \in Sched \ {s} : lqm'[r] = lqm[r] /\ localQueue'[r] = localQueue[r]
    BY <1>b, <2>1
  <2>4. T \subseteq localQueue[s]
    OBVIOUS
  <2> HIDE DEF T
  <2>5. /\ \A t \in T : Holds(s, "local", t)
        /\ \A t \in Task : WillHold(s, "local", t) <=> Holds(s, "local", t) /\ t \notin T
    BY <2>3, <2>4, InLocal
  <2>6. \A t \in Task : WillHold(s, "lqm", t) <=> Holds(s, "lqm", t) \/ t \in T
    BY <2>2, <2>3, InLqm
  <2>7. /\ \A r \in Sched \ {s} : SameAt(r, "local") /\ SameAt(r, "lqm")
        /\ \A r \in Sched : SameAt(r, "ws")
    BY <2>2, <2>3, SameWhen
  <2>8. Moves(T, s, "local", s, "lqm")
    BY <1>a, <2>5, <2>6, <2>7 DEF Moves, Kind, PlaceKind
  <2> QED
    BY <2>3, <2>8, MoveOnePlace, Kinds
<1>2. CASE LqmPut(s)
  <2> DEFINE T == lqm[s]
  <2>1. /\ T \in SUBSET Task /\ UNCHANGED localQueue
        /\ lqm'[s] = {} /\ wsQueue'[s] = wsQueue[s] \cup T
        /\ \A r \in Sched \ {s} : lqm'[r] = lqm[r] /\ wsQueue'[r] = wsQueue[r]
    BY <1>b, <1>2 DEF LqmPut
  <2>2. /\ \A t \in T : Holds(s, "lqm", t)
        /\ \A t \in Task : WillHold(s, "lqm", t) <=> Holds(s, "lqm", t) /\ t \notin T
    BY <2>1, InLqm
  <2>3. \A t \in Task : WillHold(s, "ws", t) <=> Holds(s, "ws", t) \/ t \in T
    BY <2>1, InWs
  <2>4. /\ \A r \in Sched \ {s} : SameAt(r, "ws") /\ SameAt(r, "lqm")
        /\ \A r \in Sched : SameAt(r, "local")
    BY <2>1, SameWhen
  <2> HIDE DEF T
  <2>5. Moves(T, s, "lqm", s, "ws")
    BY <1>a, <2>2, <2>3, <2>4 DEF Moves, Kind, PlaceKind
  <2> QED
    BY <2>1, <2>5, MoveOnePlace, Kinds
<1> QED
  BY <1>1, <1>2 DEF LocalQueueMonitor

-----------------------------------------------------------------------------

\* Every task was received once: it is in one wait queue.
LEMMA InitPlaces ==
  ASSUME Init
  PROVE  OnePlace /\ NoRepeats
<1>1. /\ waitQueue \in [Sched -> Seq(Task)]
      /\ \A t \in Task : \E s \in Sched : \E i \in 1..Len(waitQueue[s]) : waitQueue[s][i] = t
      /\ \A r, s \in Sched : \A i \in 1..Len(waitQueue[r]), j \in 1..Len(waitQueue[s]) :
           waitQueue[r][i] = waitQueue[s][j] => r = s /\ i = j
  BY SchedulerAssumption, Zenon DEF Init
<1>2. \A s \in Sched : DOMAIN waitQueue[s] = 1..Len(waitQueue[s])
  BY <1>1
<1>3. ASSUME NEW s \in Sched
      PROVE  NoRepeat(waitQueue[s])
  <2>1. \A i, j \in 1..Len(waitQueue[s]) : waitQueue[s][i] = waitQueue[s][j] => i = j
    BY <1>1
  <2> QED
    BY <1>2, <2>1 DEF NoRepeat
<1>4. ASSUME NEW s \in Sched, NEW k \in Kind, NEW t \in Task, Holds(s, k, t)
      PROVE  k = "wait" /\ Lists(waitQueue[s], t)
  <2>1. /\ crt[s].task = None /\ wsQueue[s] = {} /\ localQueue[s] = {}
        /\ lqm[s] = {} /\ ws[s].got = {} /\ localData[s] = {}
        /\ \A c \in Core : exec[s][c].task = None
    BY IdleStates DEF Init, CrtIdle, ExecIdle
  <2>2. t # None
    BY SchedulerAssumption
  <2> QED
    BY <1>4, <2>1, <2>2, Zenon DEF Holds, Lists
<1>5. ASSUME NEW t \in Task
      PROVE  \E r \in Sched, k \in Kind : OnlyAt(t, r, k)
  <2>1. PICK s \in Sched : Lists(waitQueue[s], t)
    BY <1>1, <1>2 DEF Lists
  <2>2. ASSUME NEW r \in Sched, Lists(waitQueue[r], t)
        PROVE  r = s
    <3>1. PICK i \in 1..Len(waitQueue[r]) : waitQueue[r][i] = t
      BY <1>2, <2>2 DEF Lists
    <3>2. PICK j \in 1..Len(waitQueue[s]) : waitQueue[s][j] = t
      BY <1>2, <2>1 DEF Lists
    <3>3. waitQueue[r][i] = waitQueue[s][j] => r = s
      BY <1>1
    <3> QED
      BY <3>1, <3>2, <3>3
  <2>3. OnlyAt(t, s, "wait")
    BY <1>4, <2>1, <2>2, InWait DEF OnlyAt
  <2> QED
    BY <2>3, Kinds
<1> QED
  BY <1>3, <1>5 DEF OnePlace, NoRepeats

\* The invariant holds in every reachable state.
LEMMA AlwaysOnePlace == Spec => [](OnePlace /\ NoRepeats)
<1>1. Init => OnePlace /\ NoRepeats
  BY InitPlaces
<1>2. ASSUME Typed, DataInv, OnePlace, NoRepeats, [Next]_vars
      PROVE  OnePlace' /\ NoRepeats'
  <2>1. UNCHANGED waitQueue => NoRepeats'
    BY <1>2 DEF NoRepeats
  <2>2. ASSUME UNCHANGED <<waitQueue, crt, wsQueue, localQueue, lqm, ws, localData, exec>>
        PROVE  OnePlace' /\ NoRepeats'
    BY <1>2, <2>1, <2>2, SameEverywhere, StayOnePlace
  <2>3. CASE UNCHANGED vars \/ Halted
    BY <2>2, <2>3 DEF Halted, vars, queues
  <2>4. ASSUME NEW s \in Sched, RecordingStat(s) \/ CheckingCompleteTask(s)
        PROVE  OnePlace' /\ NoRepeats'
    BY <2>2, <2>4, Frames DEF queues
  <2>5. ASSUME NEW s \in Sched, Workstealing(s) \/ LocalQueueMonitor(s)
        PROVE  OnePlace' /\ NoRepeats'
    BY <1>2, <2>1, <2>5, Frames, WorkstealingPlaces, LocalQueueMonitorPlaces
  <2>6. ASSUME NEW s \in Sched, NEW c \in Core, ExecutingTask(s, c)
        PROVE  OnePlace' /\ NoRepeats'
    BY <1>2, <2>1, <2>6, Frames, ExecutingTaskPlaces
  <2> QED
    BY <1>2, <2>3, <2>4, <2>5, <2>6, CheckingReadyTaskPlaces DEF Next
<1>3. Typed /\ DataInv /\ OnePlace /\ NoRepeats /\ [Next]_vars => (OnePlace /\ NoRepeats)'
  BY <1>2
<1> QED
  BY <1>1, <1>3, AlwaysData, PTL DEF Spec

\* No task is ever lost or duplicated while it moves between queues, threads
\* and schedulers, however stealing, pushing and migrating interleave and
\* whatever the number of schedulers, threads and tasks.
THEOREM NoTaskLostOrDuplicated == Spec => []EveryTaskInOnePlace
  BY AlwaysOnePlace, Places, PTL
=============================================================================
