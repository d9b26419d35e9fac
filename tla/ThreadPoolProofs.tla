-------------------------- MODULE ThreadPoolProofs --------------------------
(***************************************************************************)
(* The thread pool for any number of workers and any tasks: its safety     *)
(* properties, and that it implements TaskPool.                            *)
(***************************************************************************)
EXTENDS ThreadPool, FiniteSetTheorems, TLAPS

InQueue == {"announce", "barrier", "pop"}      \* a worker with QueueLock
InTask == {"run", "push", "pushed"}            \* a worker with a task
WorkerLabel == {"get", "asleep", "exited", "retire", "notify"} \cup InQueue \cup InTask
Ended == {"notifyAll", "join", "gone"}
MainLabel == {"free", "push", "pushed", "lock", "readActive", "readTasks",
              "blocked"} \cup Ended

Types ==
    /\ Tasks \in Seq(Task) /\ EnableFlag \in BOOLEAN /\ ActiveThreads \in Nat
    /\ queueLock \in Worker \cup {None} /\ completionLock \in {Main, None}
    /\ pc \in [Thread -> WorkerLabel \cup MainLabel]
    /\ \A w \in Worker : pc[w] \in WorkerLabel
    /\ pc[Main] \in MainLabel
    /\ arg \in [Thread -> Task \cup {None}]
    /\ task \in [Worker -> Task \cup {None}]
    /\ submitted \subseteq Task /\ finished \subseteq Task
    /\ joined \in BOOLEAN /\ spurious \in Nat

\* Who holds a lock is where the code holds it.
Locked ==
    /\ \A w \in Worker : queueLock = w <=> pc[w] \in InQueue
    /\ completionLock = Main <=> pc[Main] \in {"readActive", "readTasks"}

\* What a thread has in hand is what it is about to use.
InHand ==
    /\ \A w \in Worker : pc[w] \in InQueue => Tasks # <<>>
    /\ \A w \in Worker : task[w] # None <=> pc[w] \in InTask
    /\ \A h \in Thread : arg[h] # None <=> pc[h] = "push"
    /\ \A w \in Worker : pc[w] = "push" => Spawns[task[w]] # {}

Counted == IsFiniteSet(Busy) /\ ActiveThreads = Cardinality(Busy)

\* Between the two tests of wait() no worker can get past the barrier.
Window ==
    pc[Main] = "readTasks" =>
        \A w \in Worker : pc[w] \notin {"pop", "retire"} \cup InTask

\* A task is in one place: with the thread that submits it, in the queue,
\* with the worker that runs it, or among the finished ones.
Apart ==
    /\ \A i \in DOMAIN Tasks : Tasks[i] \in submitted \ finished
    /\ \A i, j \in DOMAIN Tasks : Tasks[i] = Tasks[j] => i = j
    /\ \A w \in Worker : task[w] # None =>
          /\ task[w] \in submitted \ finished
          /\ \A i \in DOMAIN Tasks : Tasks[i] # task[w]
          /\ \A v \in Worker : task[v] = task[w] => v = w
    /\ \A h \in Thread : arg[h] # None =>
          /\ arg[h] \in submitted \ finished
          /\ \A i \in DOMAIN Tasks : Tasks[i] # arg[h]
          /\ \A w \in Worker : task[w] # arg[h]
          /\ \A g \in Thread : arg[g] = arg[h] => g = h
    /\ finished \subseteq submitted

\* Once the client has waited, or destroys a pool, nobody submits tasks.
Closing ==
    /\ EnableFlag <=> pc[Main] \notin Ended
    /\ joined => /\ Tasks = <<>> /\ pc[Main] # "push"
                 /\ \A w \in Worker : pc[w] \notin InTask
    /\ ~EnableFlag => MayDestroy
    /\ \A w \in Worker : pc[w] = "exited" => Tasks = <<>> /\ ~EnableFlag

IInv == Types /\ Locked /\ InHand /\ Counted /\ Window /\ Apart /\ Closing

---------------------------------------------------------------------------
(* ActiveThreads is 0 exactly when no worker is busy *)

\* When it is 0 nobody is busy,
LEMMA NobodyBusy ==
    ASSUME Counted, ActiveThreads = 0
    PROVE  Busy = {}
BY FS_EmptySet DEF Counted

\* and when somebody is, it is not.
LEMMA SomebodyBusy ==
    ASSUME Counted, NEW w \in Busy
    PROVE  ActiveThreads \in Nat /\ ActiveThreads # 0
BY FS_EmptySet, FS_CardinalityType DEF Counted

---------------------------------------------------------------------------
(* The steps, one by one *)

\* Every step keeps the types.
LEMMA TypesKept ==
    ASSUME Types, Locked, InHand, Counted, [Next]_vars
    PROVE  Types'
<1> USE DEF Goto, pool, locks, client, Thread, InQueue, InTask, Ended, WorkerLabel,
        MainLabel
<1>1. ASSUME NEW h \in Thread, Push(h) PROVE Types'
  BY <1>1, PoolAssumption DEF Types, Locked, InHand, Push
<1>2. ASSUME NEW h \in Thread, NotifyOne(h) PROVE Types'
  BY <1>2, PoolAssumption DEF Types, Locked, InHand, NotifyOne, Back, Asleep
<1>3. ASSUME NEW w \in Worker, Get(w) PROVE Types'
  BY <1>3, PoolAssumption DEF Types, Locked, InHand, Get
<1>4. ASSUME NEW w \in Worker, Announce(w) PROVE Types'
  BY <1>4, PoolAssumption DEF Types, Locked, InHand, Announce
<1>5. ASSUME NEW w \in Worker, Barrier(w) PROVE Types'
  BY <1>5, PoolAssumption DEF Types, Locked, InHand, Barrier
<1>6. ASSUME NEW w \in Worker, Pop(w) PROVE Types'
  BY <1>6, PoolAssumption DEF Types, Locked, InHand, Pop
<1>7. ASSUME NEW w \in Worker, Spawn(w) PROVE Types'
  BY <1>7, PoolAssumption DEF Types, Locked, InHand, Spawn, Async
<1>8. ASSUME NEW w \in Worker, Finish(w) PROVE Types'
  BY <1>8, PoolAssumption DEF Types, Locked, InHand, Finish
<1>9. ASSUME NEW w \in Worker, Retire(w) PROVE Types'
  <2>1. w \in Busy
    BY <1>9 DEF Retire, Busy
  <2>2. ActiveThreads \in Nat \ {0}
    BY <2>1, SomebodyBusy
  <2> QED BY <1>9, <2>2 DEF Types, Retire
<1>10. ASSUME NEW w \in Worker, NotifyCompletion(w) PROVE Types'
  BY <1>10, PoolAssumption DEF Types, Locked, InHand, NotifyCompletion
<1>11. CASE LockCompletion
  BY <1>11, PoolAssumption DEF Types, Locked, InHand, LockCompletion
<1>12. CASE ReadActive
  BY <1>12, PoolAssumption DEF Types, Locked, InHand, ReadActive, Block
<1>13. CASE ReadTasks
  BY <1>13, PoolAssumption DEF Types, Locked, InHand, ReadTasks, Block
<1>14. CASE NotifyAll
  BY <1>14, PoolAssumption DEF Types, Locked, InHand, NotifyAll, Asleep
<1>15. CASE Join
  BY <1>15, PoolAssumption DEF Types, Locked, InHand, Join
<1>16. ASSUME NEW t \in Task, Submit(t) PROVE Types'
  BY <1>16, PoolAssumption DEF Types, Locked, InHand, Submit, Async, Root
<1>17. CASE CallWait
  BY <1>17, PoolAssumption DEF Types, Locked, InHand, CallWait
<1>18. CASE Disable
  BY <1>18, PoolAssumption DEF Types, Locked, InHand, Disable, MayDestroy
<1>19. CASE WakeSpuriously
  BY <1>19, PoolAssumption DEF Types, Locked, InHand, WakeSpuriously, Asleep
<1>20. CASE UNCHANGED vars
  BY <1>20, PoolAssumption DEF Types, Locked, InHand, vars
<1> QED BY <1>1, <1>2, <1>3, <1>4, <1>5, <1>6, <1>7, <1>8, <1>9, <1>10, <1>11, <1>12,
        <1>13, <1>14, <1>15, <1>16, <1>17, <1>18, <1>19, <1>20 DEF Next, WorkerStep,
        CallStep

\* A lock is held from where it is taken to where it is given back.
LEMMA LockedKept ==
    ASSUME Types, Locked, [Next]_vars
    PROVE  Locked'
<1> USE DEF Goto, pool, locks, client, Thread, InQueue, InTask, Ended, WorkerLabel,
        MainLabel
<1>1. ASSUME NEW h \in Thread, Push(h) PROVE Locked'
  BY <1>1, PoolAssumption DEF Types, Locked, Push
<1>2. ASSUME NEW h \in Thread, NotifyOne(h) PROVE Locked'
  BY <1>2, PoolAssumption DEF Types, Locked, NotifyOne, Back, Asleep
<1>3. ASSUME NEW w \in Worker, Get(w) PROVE Locked'
  BY <1>3, PoolAssumption DEF Types, Locked, Get
<1>4. ASSUME NEW w \in Worker, Announce(w) PROVE Locked'
  BY <1>4, PoolAssumption DEF Types, Locked, Announce
<1>5. ASSUME NEW w \in Worker, Barrier(w) PROVE Locked'
  BY <1>5, PoolAssumption DEF Types, Locked, Barrier
<1>6. ASSUME NEW w \in Worker, Pop(w) PROVE Locked'
  BY <1>6, PoolAssumption DEF Types, Locked, Pop
<1>7. ASSUME NEW w \in Worker, Spawn(w) PROVE Locked'
  BY <1>7, PoolAssumption DEF Types, Locked, Spawn, Async
<1>8. ASSUME NEW w \in Worker, Finish(w) PROVE Locked'
  BY <1>8, PoolAssumption DEF Types, Locked, Finish
<1>9. ASSUME NEW w \in Worker, Retire(w) PROVE Locked'
  BY <1>9, PoolAssumption DEF Types, Locked, Retire
<1>10. ASSUME NEW w \in Worker, NotifyCompletion(w) PROVE Locked'
  BY <1>10, PoolAssumption DEF Types, Locked, NotifyCompletion
<1>11. CASE LockCompletion
  BY <1>11, PoolAssumption DEF Types, Locked, LockCompletion
<1>12. CASE ReadActive
  BY <1>12, PoolAssumption DEF Types, Locked, ReadActive, Block
<1>13. CASE ReadTasks
  BY <1>13, PoolAssumption DEF Types, Locked, ReadTasks, Block
<1>14. CASE NotifyAll
  BY <1>14, PoolAssumption DEF Types, Locked, NotifyAll, Asleep
<1>15. CASE Join
  BY <1>15, PoolAssumption DEF Types, Locked, Join
<1>16. ASSUME NEW t \in Task, Submit(t) PROVE Locked'
  BY <1>16, PoolAssumption DEF Types, Locked, Submit, Async, Root
<1>17. CASE CallWait
  BY <1>17, PoolAssumption DEF Types, Locked, CallWait
<1>18. CASE Disable
  BY <1>18, PoolAssumption DEF Types, Locked, Disable, MayDestroy
<1>19. CASE WakeSpuriously
  BY <1>19, PoolAssumption DEF Types, Locked, WakeSpuriously, Asleep
<1>20. CASE UNCHANGED vars
  BY <1>20, PoolAssumption DEF Types, Locked, vars
<1> QED BY <1>1, <1>2, <1>3, <1>4, <1>5, <1>6, <1>7, <1>8, <1>9, <1>10, <1>11, <1>12,
        <1>13, <1>14, <1>15, <1>16, <1>17, <1>18, <1>19, <1>20 DEF Next, WorkerStep,
        CallStep

\* A worker that took a task off the queue found one there, and has one in
\* hand exactly while it runs it.
LEMMA InHandKept ==
    ASSUME Types, Locked, InHand, [Next]_vars
    PROVE  InHand'
<1> USE DEF Goto, pool, locks, client, Thread, InQueue, InTask, Ended, WorkerLabel,
        MainLabel
<1>1. ASSUME NEW h \in Thread, Push(h) PROVE InHand'
  BY <1>1, PoolAssumption DEF Types, Locked, InHand, Push
<1>2. ASSUME NEW h \in Thread, NotifyOne(h) PROVE InHand'
  BY <1>2, PoolAssumption DEF Types, Locked, InHand, NotifyOne, Back, Asleep
<1>3. ASSUME NEW w \in Worker, Get(w) PROVE InHand'
  BY <1>3, PoolAssumption DEF Types, Locked, InHand, Get
<1>4. ASSUME NEW w \in Worker, Announce(w) PROVE InHand'
  BY <1>4, PoolAssumption DEF Types, Locked, InHand, Announce
<1>5. ASSUME NEW w \in Worker, Barrier(w) PROVE InHand'
  BY <1>5, PoolAssumption DEF Types, Locked, InHand, Barrier
<1>6. ASSUME NEW w \in Worker, Pop(w) PROVE InHand'
  BY <1>6, PoolAssumption DEF Types, Locked, InHand, Pop
<1>7. ASSUME NEW w \in Worker, Spawn(w) PROVE InHand'
  BY <1>7, PoolAssumption DEF Types, Locked, InHand, Spawn, Async
<1>8. ASSUME NEW w \in Worker, Finish(w) PROVE InHand'
  BY <1>8, PoolAssumption DEF Types, Locked, InHand, Finish
<1>9. ASSUME NEW w \in Worker, Retire(w) PROVE InHand'
  BY <1>9, PoolAssumption DEF Types, Locked, InHand, Retire
<1>10. ASSUME NEW w \in Worker, NotifyCompletion(w) PROVE InHand'
  BY <1>10, PoolAssumption DEF Types, Locked, InHand, NotifyCompletion
<1>11. CASE LockCompletion
  BY <1>11, PoolAssumption DEF Types, Locked, InHand, LockCompletion
<1>12. CASE ReadActive
  BY <1>12, PoolAssumption DEF Types, Locked, InHand, ReadActive, Block
<1>13. CASE ReadTasks
  BY <1>13, PoolAssumption DEF Types, Locked, InHand, ReadTasks, Block
<1>14. CASE NotifyAll
  BY <1>14, PoolAssumption DEF Types, Locked, InHand, NotifyAll, Asleep
<1>15. CASE Join
  BY <1>15, PoolAssumption DEF Types, Locked, InHand, Join
<1>16. ASSUME NEW t \in Task, Submit(t) PROVE InHand'
  BY <1>16, PoolAssumption DEF Types, Locked, InHand, Submit, Async, Root
<1>17. CASE CallWait
  BY <1>17, PoolAssumption DEF Types, Locked, InHand, CallWait
<1>18. CASE Disable
  BY <1>18, PoolAssumption DEF Types, Locked, InHand, Disable, MayDestroy
<1>19. CASE WakeSpuriously
  BY <1>19, PoolAssumption DEF Types, Locked, InHand, WakeSpuriously, Asleep
<1>20. CASE UNCHANGED vars
  BY <1>20, PoolAssumption DEF Types, Locked, InHand, vars
<1> QED BY <1>1, <1>2, <1>3, <1>4, <1>5, <1>6, <1>7, <1>8, <1>9, <1>10, <1>11, <1>12,
        <1>13, <1>14, <1>15, <1>16, <1>17, <1>18, <1>19, <1>20 DEF Next, WorkerStep,
        CallStep

\* While wait() is between its tests every worker stops at the barrier, or
\* before it.
LEMMA WindowKept ==
    ASSUME Types, Locked, InHand, Counted, Window, [Next]_vars
    PROVE  Window'
<1> USE DEF Goto, pool, locks, client, Thread, InQueue, InTask, Ended, WorkerLabel,
        MainLabel
<1>1. ASSUME NEW h \in Thread, Push(h) PROVE Window'
  BY <1>1, PoolAssumption DEF Types, Locked, InHand, Window, Push
<1>2. ASSUME NEW h \in Thread, NotifyOne(h) PROVE Window'
  BY <1>2, PoolAssumption DEF Types, Locked, InHand, Window, NotifyOne, Back, Asleep
<1>3. ASSUME NEW w \in Worker, Get(w) PROVE Window'
  BY <1>3, PoolAssumption DEF Types, Locked, InHand, Window, Get
<1>4. ASSUME NEW w \in Worker, Announce(w) PROVE Window'
  BY <1>4, PoolAssumption DEF Types, Locked, InHand, Window, Announce
<1>5. ASSUME NEW w \in Worker, Barrier(w) PROVE Window'
  BY <1>5, PoolAssumption DEF Types, Locked, InHand, Window, Barrier
<1>6. ASSUME NEW w \in Worker, Pop(w) PROVE Window'
  BY <1>6, PoolAssumption DEF Types, Locked, InHand, Window, Pop
<1>7. ASSUME NEW w \in Worker, Spawn(w) PROVE Window'
  BY <1>7, PoolAssumption DEF Types, Locked, InHand, Window, Spawn, Async
<1>8. ASSUME NEW w \in Worker, Finish(w) PROVE Window'
  BY <1>8, PoolAssumption DEF Types, Locked, InHand, Window, Finish
<1>9. ASSUME NEW w \in Worker, Retire(w) PROVE Window'
  BY <1>9, PoolAssumption DEF Types, Locked, InHand, Window, Retire
<1>10. ASSUME NEW w \in Worker, NotifyCompletion(w) PROVE Window'
  BY <1>10, PoolAssumption DEF Types, Locked, InHand, Window, NotifyCompletion
<1>11. CASE LockCompletion
  BY <1>11, PoolAssumption DEF Types, Locked, InHand, Window, LockCompletion
<1>12. CASE ReadActive
  <2>1. CASE ActiveThreads = 0
    BY <1>12, <2>1, NobodyBusy DEF Busy, Types, Window, ReadActive
  <2>2. CASE ActiveThreads # 0
    BY <1>12, <2>2 DEF Types, Window, ReadActive, Block
  <2> QED BY <2>1, <2>2
<1>13. CASE ReadTasks
  BY <1>13, PoolAssumption DEF Types, Locked, InHand, Window, ReadTasks, Block
<1>14. CASE NotifyAll
  BY <1>14, PoolAssumption DEF Types, Locked, InHand, Window, NotifyAll, Asleep
<1>15. CASE Join
  BY <1>15, PoolAssumption DEF Types, Locked, InHand, Window, Join
<1>16. ASSUME NEW t \in Task, Submit(t) PROVE Window'
  BY <1>16, PoolAssumption DEF Types, Locked, InHand, Window, Submit, Async, Root
<1>17. CASE CallWait
  BY <1>17, PoolAssumption DEF Types, Locked, InHand, Window, CallWait
<1>18. CASE Disable
  BY <1>18, PoolAssumption DEF Types, Locked, InHand, Window, Disable, MayDestroy
<1>19. CASE WakeSpuriously
  BY <1>19, PoolAssumption DEF Types, Locked, InHand, Window, WakeSpuriously, Asleep
<1>20. CASE UNCHANGED vars
  BY <1>20, PoolAssumption DEF Types, Locked, InHand, Window, vars
<1> QED BY <1>1, <1>2, <1>3, <1>4, <1>5, <1>6, <1>7, <1>8, <1>9, <1>10, <1>11, <1>12,
        <1>13, <1>14, <1>15, <1>16, <1>17, <1>18, <1>19, <1>20 DEF Next, WorkerStep,
        CallStep

\* A task moves from hand to queue to worker and is never in two places.
LEMMA ApartKept ==
    ASSUME Types, Locked, InHand, Apart, [Next]_vars
    PROVE  Apart'
<1> USE DEF Goto, pool, locks, client, Thread, InQueue, InTask, Ended, WorkerLabel,
        MainLabel
<1>1. ASSUME NEW h \in Thread, Push(h) PROVE Apart'
  BY <1>1, PoolAssumption DEF Types, Locked, InHand, Apart, Push
<1>2. ASSUME NEW h \in Thread, NotifyOne(h) PROVE Apart'
  BY <1>2, PoolAssumption DEF Types, Locked, InHand, Apart, NotifyOne, Back, Asleep
<1>3. ASSUME NEW w \in Worker, Get(w) PROVE Apart'
  BY <1>3, PoolAssumption DEF Types, Locked, InHand, Apart, Get
<1>4. ASSUME NEW w \in Worker, Announce(w) PROVE Apart'
  BY <1>4, PoolAssumption DEF Types, Locked, InHand, Apart, Announce
<1>5. ASSUME NEW w \in Worker, Barrier(w) PROVE Apart'
  BY <1>5, PoolAssumption DEF Types, Locked, InHand, Apart, Barrier
<1>6. ASSUME NEW w \in Worker, Pop(w) PROVE Apart'
  BY <1>6, PoolAssumption DEF Types, Locked, InHand, Apart, Pop
<1>7. ASSUME NEW w \in Worker, Spawn(w) PROVE Apart'
  BY <1>7, PoolAssumption DEF Types, Locked, InHand, Apart, Spawn, Async
<1>8. ASSUME NEW w \in Worker, Finish(w) PROVE Apart'
  BY <1>8, PoolAssumption DEF Types, Locked, InHand, Apart, Finish
<1>9. ASSUME NEW w \in Worker, Retire(w) PROVE Apart'
  BY <1>9, PoolAssumption DEF Types, Locked, InHand, Apart, Retire
<1>10. ASSUME NEW w \in Worker, NotifyCompletion(w) PROVE Apart'
  BY <1>10, PoolAssumption DEF Types, Locked, InHand, Apart, NotifyCompletion
<1>11. CASE LockCompletion
  BY <1>11, PoolAssumption DEF Types, Locked, InHand, Apart, LockCompletion
<1>12. CASE ReadActive
  BY <1>12, PoolAssumption DEF Types, Locked, InHand, Apart, ReadActive, Block
<1>13. CASE ReadTasks
  BY <1>13, PoolAssumption DEF Types, Locked, InHand, Apart, ReadTasks, Block
<1>14. CASE NotifyAll
  BY <1>14, PoolAssumption DEF Types, Locked, InHand, Apart, NotifyAll, Asleep
<1>15. CASE Join
  BY <1>15, PoolAssumption DEF Types, Locked, InHand, Apart, Join
<1>16. ASSUME NEW t \in Task, Submit(t) PROVE Apart'
  BY <1>16, PoolAssumption DEF Types, Locked, InHand, Apart, Submit, Async, Root
<1>17. CASE CallWait
  BY <1>17, PoolAssumption DEF Types, Locked, InHand, Apart, CallWait
<1>18. CASE Disable
  BY <1>18, PoolAssumption DEF Types, Locked, InHand, Apart, Disable, MayDestroy
<1>19. CASE WakeSpuriously
  BY <1>19, PoolAssumption DEF Types, Locked, InHand, Apart, WakeSpuriously, Asleep
<1>20. CASE UNCHANGED vars
  BY <1>20, PoolAssumption DEF Types, Locked, InHand, Apart, vars
<1> QED BY <1>1, <1>2, <1>3, <1>4, <1>5, <1>6, <1>7, <1>8, <1>9, <1>10, <1>11, <1>12,
        <1>13, <1>14, <1>15, <1>16, <1>17, <1>18, <1>19, <1>20 DEF Next, WorkerStep,
        CallStep

\* The client ends a pool only when nothing can be submitted to it any more.
LEMMA ClosingKept ==
    ASSUME Types, Locked, InHand, Window, Apart, Closing, [Next]_vars
    PROVE  Closing'
<1> USE DEF Goto, pool, locks, client, Thread, InQueue, InTask, Ended, WorkerLabel,
        MainLabel
<1>1. ASSUME NEW h \in Thread, Push(h) PROVE Closing'
  BY <1>1, PoolAssumption DEF Types, Locked, InHand, Window, Apart, Closing, MayDestroy,
        Push
<1>2. ASSUME NEW h \in Thread, NotifyOne(h) PROVE Closing'
  BY <1>2, PoolAssumption DEF Types, Locked, InHand, Window, Apart, Closing, MayDestroy,
        NotifyOne, Back, Asleep
<1>3. ASSUME NEW w \in Worker, Get(w) PROVE Closing'
  BY <1>3, PoolAssumption DEF Types, Locked, InHand, Window, Apart, Closing, MayDestroy, Get
<1>4. ASSUME NEW w \in Worker, Announce(w) PROVE Closing'
  BY <1>4, PoolAssumption DEF Types, Locked, InHand, Window, Apart, Closing, MayDestroy,
        Announce
<1>5. ASSUME NEW w \in Worker, Barrier(w) PROVE Closing'
  BY <1>5, PoolAssumption DEF Types, Locked, InHand, Window, Apart, Closing, MayDestroy,
        Barrier
<1>6. ASSUME NEW w \in Worker, Pop(w) PROVE Closing'
  BY <1>6, PoolAssumption DEF Types, Locked, InHand, Window, Apart, Closing, MayDestroy, Pop
<1>7. ASSUME NEW w \in Worker, Spawn(w) PROVE Closing'
  BY <1>7, PoolAssumption DEF Types, Locked, InHand, Window, Apart, Closing, MayDestroy,
        Spawn, Async
<1>8. ASSUME NEW w \in Worker, Finish(w) PROVE Closing'
  BY <1>8, PoolAssumption DEF Types, Locked, InHand, Window, Apart, Closing, MayDestroy,
        Finish
<1>9. ASSUME NEW w \in Worker, Retire(w) PROVE Closing'
  BY <1>9, PoolAssumption DEF Types, Locked, InHand, Window, Apart, Closing, MayDestroy,
        Retire
<1>10. ASSUME NEW w \in Worker, NotifyCompletion(w) PROVE Closing'
  BY <1>10, PoolAssumption DEF Types, Locked, InHand, Window, Apart, Closing, MayDestroy,
        NotifyCompletion
<1>11. CASE LockCompletion
  BY <1>11, PoolAssumption DEF Types, Locked, InHand, Window, Apart, Closing, MayDestroy,
        LockCompletion
<1>12. CASE ReadActive
  <2>1. pc'[Main] \in {"readTasks", "blocked"} /\ \A w \in Worker : pc'[w] = pc[w]
    BY <1>12, PoolAssumption DEF Types, ReadActive, Block
  <2>2. UNCHANGED <<Tasks, EnableFlag, submitted, joined>>
    BY <1>12 DEF ReadActive, Block
  <2> QED BY <1>12, <2>1, <2>2 DEF Closing, MayDestroy, ReadActive
<1>13. CASE ReadTasks
  <2>1. /\ pc[Main] = "readTasks" /\ pc'[Main] \in {"free", "blocked"}
        /\ \A w \in Worker : pc'[w] = pc[w]
    BY <1>13, PoolAssumption DEF Types, ReadTasks, Block
  <2>2. UNCHANGED <<Tasks, EnableFlag, submitted>> /\ (joined' => joined \/ Tasks = <<>>)
    BY <1>13 DEF ReadTasks, Block
  <2>3. \A w \in Worker : pc[w] \notin InTask
    BY <2>1 DEF Window
  <2> QED BY <2>1, <2>2, <2>3 DEF Closing, MayDestroy
<1>14. CASE NotifyAll
  BY <1>14, PoolAssumption DEF Types, Locked, InHand, Window, Apart, Closing, MayDestroy,
        NotifyAll, Asleep
<1>15. CASE Join
  BY <1>15, PoolAssumption DEF Types, Locked, InHand, Window, Apart, Closing, MayDestroy,
        Join
<1>16. ASSUME NEW t \in Task, Submit(t) PROVE Closing'
  BY <1>16, PoolAssumption DEF Types, Locked, InHand, Window, Apart, Closing, MayDestroy,
        Submit, Async, Root
<1>17. CASE CallWait
  BY <1>17, PoolAssumption DEF Types, Locked, InHand, Window, Apart, Closing, MayDestroy,
        CallWait
<1>18. CASE Disable
  BY <1>18, PoolAssumption DEF Types, Locked, InHand, Window, Apart, Closing, MayDestroy,
        Disable, MayDestroy
<1>19. CASE WakeSpuriously
  BY <1>19, PoolAssumption DEF Types, Locked, InHand, Window, Apart, Closing, MayDestroy,
        WakeSpuriously, Asleep
<1>20. CASE UNCHANGED vars
  BY <1>20, PoolAssumption DEF Types, Locked, InHand, Window, Apart, Closing, MayDestroy,
        vars
<1> QED BY <1>1, <1>2, <1>3, <1>4, <1>5, <1>6, <1>7, <1>8, <1>9, <1>10, <1>11, <1>12,
        <1>13, <1>14, <1>15, <1>16, <1>17, <1>18, <1>19, <1>20 DEF Next, WorkerStep,
        CallStep

\* A worker becomes busy when it announces itself and stops when it retires.
LEMMA CountedKept ==
    ASSUME Types, Counted, [Next]_vars
    PROVE  Counted'
<1> USE PoolAssumption DEF Goto, pool, locks, client, Thread, Types, WorkerLabel, MainLabel,
                           InQueue, InTask, Ended
<1>1. ASSUME NEW w \in Worker, Announce(w) PROVE Counted'
  <2>1. Busy' = Busy \cup {w} /\ w \notin Busy
    BY <1>1 DEF Announce, Busy
  <2> QED BY <1>1, <2>1, FS_AddElement DEF Counted, Announce
<1>2. ASSUME NEW w \in Worker, Retire(w) PROVE Counted'
  <2>1. Busy' = Busy \ {w} /\ w \in Busy
    BY <1>2 DEF Retire, Busy
  <2> QED BY <1>2, <2>1, FS_RemoveElement DEF Counted, Retire
<1>3. ASSUME Busy' = Busy, ActiveThreads' = ActiveThreads PROVE Counted'
  BY <1>3 DEF Counted
<1>4. ASSUME NEW h \in Thread, Push(h) PROVE Counted'
  BY <1>3, <1>4 DEF Push, Busy
<1>5. ASSUME NEW h \in Thread, NotifyOne(h) PROVE Counted'
  BY <1>3, <1>5 DEF NotifyOne, Back, Asleep, Busy
<1>6. ASSUME NEW w \in Worker, Get(w) \/ Barrier(w) \/ Pop(w) PROVE Counted'
  BY <1>3, <1>6 DEF Get, Barrier, Pop, Busy
<1>7. ASSUME NEW w \in Worker, Spawn(w) \/ Finish(w) \/ NotifyCompletion(w) PROVE Counted'
  BY <1>3, <1>7 DEF Spawn, Async, Finish, NotifyCompletion, Busy
<1>8. CASE LockCompletion \/ ReadActive \/ ReadTasks
  BY <1>3, <1>8 DEF LockCompletion, ReadActive, ReadTasks, Block, Busy
<1>9. CASE NotifyAll \/ WakeSpuriously
  BY <1>3, <1>9 DEF NotifyAll, WakeSpuriously, Asleep, Busy
<1>10. CASE Join \/ CallWait \/ Disable \/ UNCHANGED vars
  BY <1>3, <1>10 DEF Join, CallWait, Disable, vars, Busy
<1>11. ASSUME NEW t \in Task, Submit(t) PROVE Counted'
  BY <1>3, <1>11 DEF Submit, Async, Busy
<1> QED BY <1>1, <1>2, <1>4, <1>5, <1>6, <1>7, <1>8, <1>9, <1>10, <1>11
        DEF Next, WorkerStep, CallStep

---------------------------------------------------------------------------
(* Safety *)

\* A new pool is idle.
LEMMA InitIInv == Init => IInv
<1> SUFFICES ASSUME Init PROVE IInv
  OBVIOUS
<1>1. Busy = {}
  BY PoolAssumption DEF Init, Busy, Thread
<1>2. Counted
  BY <1>1, FS_EmptySet DEF Counted, Init
<1>3. Types
  BY PoolAssumption DEF Init, Types, Thread, WorkerLabel, MainLabel
<1> QED BY <1>2, <1>3, PoolAssumption
        DEF Init, IInv, Locked, InHand, Window, Apart, Closing, Thread, InQueue, InTask,
        Ended

\* The inductive invariant.
THEOREM Invariance == Spec => []IInv
<1>1. IInv /\ [Next]_vars => IInv'
  BY TypesKept, LockedKept, InHandKept, WindowKept, ApartKept, ClosingKept,
        CountedKept DEF IInv
<1> QED BY <1>1, InitIInv, PTL DEF Spec

\* Types hold, and ActiveThreads counts the workers between announcing and
\* retiring.
THEOREM TypeCorrect == Spec => []TypeOK
<1>1. IInv => TypeOK
  BY DEF IInv, Types, Counted, TypeOK
<1> QED BY <1>1, Invariance, PTL

\* wait() never reads Tasks while a worker may change it.
THEOREM QueueReadSafely == Spec => []TasksNotRaced
<1>1. IInv => TasksNotRaced
  BY DEF IInv, Window, InTask, TasksNotRaced
<1> QED BY <1>1, Invariance, PTL

\* Whoever destroys a pool that is quiet, or whose tasks submit nothing, never
\* has a task submitted to it afterwards.
LEMMA NoPushWhenDisabled ==
    ASSUME IInv
    PROVE  AsyncOnlyWhileEnabled
<1> SUFFICES ASSUME NEW h \in Thread, pc[h] = "push", ~EnableFlag PROVE FALSE
  BY DEF AsyncOnlyWhileEnabled, IInv, Types
<1>1. MayDestroy /\ pc[Main] \in Ended
  BY DEF IInv, Closing
<1>2. h \in Worker
  BY <1>1 DEF Thread, Ended
<1>3. task[h] \in submitted /\ Spawns[task[h]] # {}
  BY <1>2 DEF IInv, InHand, InTask, Apart
<1> QED BY <1>1, <1>2, <1>3 DEF MayDestroy, IInv, Closing, InTask

\* The assertion of asyncImpl never fails.
THEOREM DestructionIsSafe == Spec => []AsyncOnlyWhileEnabled
BY NoPushWhenDisabled, Invariance, PTL

---------------------------------------------------------------------------
(* The pool implements a queue of tasks *)

PoolClient ==
    CASE pc[Main] \in {"free", "push", "pushed"} -> "free"
      [] pc[Main] \in {"lock", "readActive", "readTasks", "blocked"} -> "waiting"
      [] pc[Main] \in {"notifyAll", "join"} -> "destroying"
      [] pc[Main] = "gone" -> "gone"
Running == {task[w] : w \in Worker} \ {None}

Using == {"free", "push", "pushed"}
Waiting == {"lock", "readActive", "readTasks", "blocked"}

\* What leaves the queue, the tasks of the workers and the client's call alone
\* is no step of TaskPool.
LEMMA Unnoticed ==
    ASSUME UNCHANGED <<Tasks, task, finished>>,
           \/ pc'[Main] = pc[Main]
           \/ pc[Main] \in Using /\ pc'[Main] \in Using
           \/ pc[Main] \in Waiting /\ pc'[Main] \in Waiting
    PROVE  UNCHANGED Pool!vars
<1>1. PoolClient' = PoolClient
  BY DEF PoolClient, Using, Waiting
<1>2. Running' = Running
  BY DEF Running
<1> QED BY <1>1, <1>2 DEF Pool!vars, PoolClient, Running

\* The step TaskPool sees of a push.
LEMMA PushSubmits ==
    ASSUME IInv, NEW h \in Thread, Push(h)
    PROVE  Pool!Submit(arg[h]) \/ Pool!SubmitInWait(arg[h])
<1> USE PoolAssumption DEF Push, IInv
<1> DEFINE t == arg[h]
<1>1. t \in Task /\ t # None /\ Tasks' = Append(Tasks, t)
  BY DEF Types, InHand, Thread
<1>2. PoolClient' = PoolClient /\ Running' = Running /\ finished' = finished
  <2>1. pc'[Main] = pc[Main] \/ (pc[Main] = "push" /\ pc'[Main] = "pushed")
    BY DEF Types, Goto, Thread
  <2>2. task' = task /\ finished' = finished
    OBVIOUS
  <2> QED BY <2>1, <2>2 DEF PoolClient, Running
<1>3. t \notin {Tasks[i] : i \in DOMAIN Tasks} \cup Running \cup finished
  BY <1>1 DEF Apart, Running
<1>4. PoolClient = "free" \/ (PoolClient = "waiting" /\ Running # {})
  <2>1. pc[Main] \notin Ended
    BY NoPushWhenDisabled DEF AsyncOnlyWhileEnabled, Closing
  <2>2. CASE h = Main
    BY <2>2 DEF PoolClient
  <2>3. CASE h \in Worker
    <3>1. task[h] \in Running
      BY <2>3 DEF InHand, InTask, Running
    <3> QED BY <2>1, <3>1 DEF PoolClient, Types, MainLabel, Ended
  <2> QED BY <2>2, <2>3 DEF Thread
<1>5. Pool!Enqueue(t)
  BY <1>1, <1>2, <1>3 DEF Pool!Enqueue, Pool!Queued, PoolClient, Running
<1> QED BY <1>4, <1>5 DEF Pool!Submit, Pool!SubmitInWait, PoolClient, Running

\* Every step is a step of TaskPool or leaves its variables alone.
LEMMA StepRefines ==
    ASSUME IInv, [Next]_vars
    PROVE  [Pool!Next]_(Pool!vars)
<1> USE PoolAssumption DEF Goto, pool, locks, client, Thread
<1>1. ASSUME NEW h \in Thread, Push(h) PROVE [Pool!Next]_(Pool!vars)
  <2>1. arg[h] \in Task
    BY <1>1 DEF Push, IInv, Types, InHand
  <2> QED BY <1>1, <2>1, PushSubmits DEF Pool!Next
<1>2. ASSUME NEW h \in Thread, NotifyOne(h) PROVE UNCHANGED Pool!vars
  <2>1. UNCHANGED <<Tasks, task, finished>>
    BY <1>2 DEF NotifyOne, Back, Asleep
  <2>2. pc'[Main] = pc[Main] \/ (pc[Main] = "pushed" /\ pc'[Main] = "free")
    BY <1>2 DEF NotifyOne, Back, Asleep, IInv, Types
  <2> QED BY <2>1, <2>2, Unnoticed DEF Using, Waiting
<1>3. ASSUME NEW w \in Worker, Get(w) \/ Announce(w) \/ Barrier(w) PROVE UNCHANGED Pool!vars
  <2>1. UNCHANGED <<Tasks, task, finished>>
    BY <1>3 DEF Get, Announce, Barrier
  <2>2. pc'[Main] = pc[Main]
    BY <1>3 DEF Get, Announce, Barrier, IInv, Types
  <2> QED BY <2>1, <2>2, Unnoticed DEF Using, Waiting
<1>4. ASSUME NEW w \in Worker, Pop(w) PROVE Pool!Begin
  <2>1. Tasks # <<>> /\ Tasks' = Tail(Tasks) /\ Head(Tasks) \in Task
    BY <1>4 DEF Pop, IInv, Types, InHand, InQueue
  <2>2. task[w] = None
    BY <1>4 DEF Pop, IInv, InHand, InTask
  <2>3. Running' = Running \cup {Head(Tasks)}
    BY <1>4, <2>1, <2>2 DEF Pop, Running, IInv, Types
  <2>4. PoolClient' = PoolClient /\ finished' = finished
    BY <1>4 DEF Pop, PoolClient, IInv, Types
  <2> QED BY <2>1, <2>3, <2>4 DEF Pool!Begin, PoolClient, Running
<1>5. ASSUME NEW w \in Worker, Spawn(w) PROVE UNCHANGED Pool!vars
  <2>1. UNCHANGED <<Tasks, task, finished>>
    BY <1>5 DEF Spawn, Async
  <2>2. pc'[Main] = pc[Main]
    BY <1>5 DEF Spawn, Async, IInv, Types
  <2> QED BY <2>1, <2>2, Unnoticed DEF Using, Waiting
<1>6. ASSUME NEW w \in Worker, Finish(w) PROVE Pool!Next
  <2>1. task[w] \in Task /\ task[w] \in Running
    BY <1>6 DEF Finish, IInv, Types, InHand, InTask, Running
  <2>2. \A v \in Worker : task[v] = task[w] => v = w
    BY <2>1 DEF IInv, Apart
  <2>3. task' = [task EXCEPT ![w] = None]
    BY <1>6 DEF Finish
  <2>4. Running' = Running \ {task[w]}
    BY <2>1, <2>2, <2>3 DEF Running, IInv, Types
  <2>5. PoolClient' = PoolClient /\ finished' = finished \cup {task[w]} /\ Tasks' = Tasks
    BY <1>6 DEF Finish, PoolClient, IInv, Types
  <2>6. Pool!Next
    BY <2>1, <2>4, <2>5 DEF Pool!Next, Pool!Finish, PoolClient, Running
  <2> QED BY <2>6
<1>7. ASSUME NEW w \in Worker, Retire(w) \/ NotifyCompletion(w) PROVE UNCHANGED Pool!vars
  <2>1. UNCHANGED <<Tasks, task, finished>>
    BY <1>7 DEF Retire, NotifyCompletion
  <2>2. pc'[Main] = pc[Main] \/ (pc[Main] = "blocked" /\ pc'[Main] = "lock")
    BY <1>7 DEF Retire, NotifyCompletion, IInv, Types
  <2> QED BY <2>1, <2>2, Unnoticed DEF Using, Waiting
<1>8. CASE LockCompletion \/ ReadActive
  <2>1. UNCHANGED <<Tasks, task, finished>>
    BY <1>8 DEF LockCompletion, ReadActive, Block, Waiting
  <2>2. pc[Main] \in Waiting /\ pc'[Main] \in Waiting
    BY <1>8 DEF LockCompletion, ReadActive, Block, Waiting, IInv, Types
  <2> QED BY <2>1, <2>2, Unnoticed DEF Using, Waiting
<1>9. CASE ReadTasks
  <2>1. UNCHANGED <<Tasks, task, finished>>
    BY <1>9 DEF ReadTasks, Block
  <2>2. CASE Tasks # <<>>
    <3>1. pc[Main] \in Waiting /\ pc'[Main] \in Waiting
      BY <1>9, <2>2 DEF ReadTasks, Block, Waiting, IInv, Types
    <3> QED BY <2>1, <3>1, Unnoticed
  <2>3. CASE Tasks = <<>>
    <3>1. Running = {}
      BY <1>9 DEF ReadTasks, IInv, Window, InHand, Running
    <3>2. PoolClient = "waiting" /\ PoolClient' = "free"
      BY <1>9, <2>3 DEF ReadTasks, Block, PoolClient, IInv, Types
    <3>3. Pool!Return
      BY <2>1, <2>3, <3>1, <3>2 DEF Pool!Return, Pool!Idle, PoolClient, Running
    <3> QED BY <3>3 DEF Pool!Next
  <2> QED BY <2>2, <2>3
<1>10. CASE NotifyAll
  <2>1. pc[Main] = "notifyAll" /\ pc'[Main] = "join"
    BY <1>10 DEF NotifyAll, IInv, Types
  <2>2. UNCHANGED <<Tasks, task, finished>>
    BY <1>10 DEF NotifyAll
  <2>3. PoolClient' = PoolClient /\ Running' = Running
    BY <2>1, <2>2 DEF PoolClient, Running
  <2> QED BY <2>2, <2>3 DEF Pool!vars, PoolClient, Running
<1>11. CASE Join
  <2>1. Tasks = <<>>
    BY <1>11 DEF Join, IInv, Closing
  <2>2. Running = {}
    BY <1>11 DEF Join, IInv, InHand, InTask, Running
  <2>3. PoolClient = "destroying" /\ PoolClient' = "gone" /\ UNCHANGED <<Tasks, task,
        finished>>
    BY <1>11 DEF Join, PoolClient, IInv, Types
  <2>4. Running' = {}
    BY <2>2, <2>3 DEF Running
  <2>5. Pool!Return
    BY <2>1, <2>2, <2>3, <2>4 DEF Pool!Return, Pool!Idle, PoolClient, Running
  <2> QED BY <2>5 DEF Pool!Next
<1>12. ASSUME NEW t \in Task, Submit(t) PROVE UNCHANGED Pool!vars
  <2>1. UNCHANGED <<Tasks, task, finished>>
    BY <1>12 DEF Submit, Async
  <2>2. pc[Main] = "free" /\ pc'[Main] = "push"
    BY <1>12 DEF Submit, Async, IInv, Types
  <2> QED BY <2>1, <2>2, Unnoticed DEF Using, Waiting
<1>13. CASE CallWait \/ Disable
  <2>1. PoolClient = "free" /\ UNCHANGED <<Tasks, task, finished>>
    BY <1>13 DEF CallWait, Disable, PoolClient
  <2>2. PoolClient' \in {"waiting", "destroying"}
    BY <1>13 DEF CallWait, Disable, PoolClient, IInv, Types
  <2>3. Pool!Call
    BY <2>1, <2>2 DEF Pool!Call, PoolClient, Running
  <2> QED BY <2>3 DEF Pool!Next
<1>14. CASE WakeSpuriously \/ UNCHANGED vars
  <2>1. UNCHANGED <<Tasks, task, finished>>
    BY <1>14 DEF WakeSpuriously, Asleep, vars
  <2>2. pc'[Main] = pc[Main] \/ (pc[Main] = "blocked" /\ pc'[Main] = "lock")
    BY <1>14 DEF WakeSpuriously, Asleep, vars, IInv, Types
  <2> QED BY <2>1, <2>2, Unnoticed DEF Using, Waiting
<1>15. ASSUME NEW w \in Worker, WorkerStep(w) PROVE [Pool!Next]_(Pool!vars)
  <2>1. w \in Thread
    OBVIOUS
  <2>2. CASE Push(w)
    BY <2>1, <2>2, <1>1
  <2>3. CASE Pop(w)
    BY <2>1, <2>3, <1>4 DEF Pool!Next
  <2>4. CASE Finish(w)
    BY <2>4, <1>6
  <2>5. CASE NotifyOne(w) \/ Get(w) \/ Announce(w) \/ Barrier(w)
    BY <2>1, <2>5, <1>2, <1>3
  <2>6. CASE Spawn(w) \/ Retire(w) \/ NotifyCompletion(w)
    BY <2>6, <1>5, <1>7
  <2> QED BY <2>2, <2>3, <2>4, <2>5, <2>6, <1>15 DEF WorkerStep
<1>16. CASE CallStep
  <2>1. Main \in Thread
    OBVIOUS
  <2> QED BY <2>1, <1>1, <1>2, <1>8, <1>9, <1>10, <1>11, <1>16 DEF CallStep
<1> QED BY <1>12, <1>13, <1>14, <1>15, <1>16 DEF Next

\* Any number of workers, locks and wake-ups, whichever come and in whatever
\* order, is to the client a queue of tasks.
THEOREM PoolRefinesTaskPool == Spec => PoolKeepsPromises
<1>1. Init => Pool!Init
  BY PoolAssumption DEF Init, Pool!Init, Thread
<1>2. IInv /\ [Next]_vars => [Pool!Next]_(Pool!vars)
  BY StepRefines
<1> QED BY <1>1, <1>2, Invariance, PTL DEF Spec, PoolKeepsPromises, Pool!Spec
=============================================================================
