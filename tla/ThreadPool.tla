----------------------------- MODULE ThreadPool -----------------------------
(***************************************************************************)
(* lib/Support/ThreadPool.cpp with threads enabled, and one client that    *)
(* submits tasks, waits and destroys the pool in any order.  Tasks may     *)
(* submit tasks, also while the client waits, which ThreadPool.h calls an  *)
(* error and the code does not refuse; only what would break the           *)
(* assertion of asyncImpl is left out (MayDestroy).  A step is a critical  *)
(* section or one access to a variable outside of one: wait() reads        *)
(* ActiveThreads and Tasks under CompletionLock, workers change them       *)
(* under QueueLock.                                                        *)
(***************************************************************************)
EXTENDS Naturals, Sequences, FiniteSets

CONSTANTS
    Worker,        \* the threads of the pool
    Main,          \* the thread of the client
    Task,
    Spawns,        \* Spawns[t]: the tasks t submits while it runs
    None,
    MaxSpurious    \* bound on wake-ups nobody asked for

ASSUME PoolAssumption ==
    /\ IsFiniteSet(Worker) /\ Worker # {} /\ Main \notin Worker
    /\ None \notin Worker \cup {Main} \cup Task
    /\ Spawns \in [Task -> SUBSET Task]
    /\ MaxSpurious \in Nat

VARIABLES
    Tasks, EnableFlag, ActiveThreads,
    queueLock, completionLock,      \* their holders, or None
    pc,            \* what each thread does next
    arg,           \* the task a thread hands to asyncImpl
    task,          \* the task each worker runs, or None
    submitted,     \* tasks handed to asyncImpl so far
    finished,      \* tasks whose future is ready
    joined,        \* wait has returned since the client last submitted a task
    spurious       \* wake-ups nobody asked for, so far

vars == <<Tasks, EnableFlag, ActiveThreads, queueLock, completionLock, pc, arg,
          task, submitted, finished, joined, spurious>>
pool == <<Tasks, EnableFlag, ActiveThreads>>
locks == <<queueLock, completionLock>>
client == <<submitted, joined>>

Thread == Worker \cup {Main}
Root == Task \ UNION {Spawns[t] : t \in Task}
Asleep == {w \in Worker : pc[w] = "asleep"}

Init ==
    /\ Tasks = <<>> /\ EnableFlag = TRUE /\ ActiveThreads = 0
    /\ queueLock = None /\ completionLock = None
    /\ pc = [h \in Thread |-> IF h = Main THEN "free" ELSE "get"]
    /\ arg = [h \in Thread |-> None]
    /\ task = [w \in Worker |-> None]
    /\ submitted = {} /\ finished = {}
    /\ joined = TRUE /\ spurious = 0

Goto(h, label) == pc' = [pc EXCEPT ![h] = label]

---------------------------------------------------------------------------
(* asyncImpl, called by the client and by tasks *)

Async(h, t) ==
    /\ t \notin submitted
    /\ submitted' = submitted \cup {t}
    /\ arg' = [arg EXCEPT ![h] = t]
    /\ Goto(h, "push")
    /\ UNCHANGED <<pool, locks, task, finished, spurious>>

\* the assertion of the code is AsyncOnlyWhileEnabled
Push(h) ==
    /\ pc[h] = "push" /\ queueLock = None
    /\ Tasks' = Append(Tasks, arg[h])
    /\ arg' = [arg EXCEPT ![h] = None]
    /\ Goto(h, "pushed")
    /\ UNCHANGED <<EnableFlag, ActiveThreads, locks, task, client, finished, spurious>>

Back(h) == IF h = Main THEN "free" ELSE "run"

\* Faulty: nobody is woken
PushQuietly(h) ==
    /\ pc[h] = "pushed"
    /\ Goto(h, Back(h))
    /\ UNCHANGED <<pool, locks, arg, task, client, finished, spurious>>

\* QueueCondition.notify_one
NotifyOne(h) ==
    /\ pc[h] = "pushed"
    /\ \/ Asleep = {} /\ Goto(h, Back(h))
       \/ \E w \in Asleep : pc' = [pc EXCEPT ![h] = Back(h), ![w] = "get"]
    /\ UNCHANGED <<pool, locks, arg, task, client, finished, spurious>>

---------------------------------------------------------------------------
(* The loop of a worker *)

\* QueueCondition.wait and the test behind it, under QueueLock
Get(w) ==
    /\ pc[w] = "get" /\ queueLock = None
    /\ \/ Tasks # <<>> /\ queueLock' = w /\ Goto(w, "announce")
       \/ Tasks = <<>> /\ EnableFlag /\ Goto(w, "asleep") /\ UNCHANGED queueLock
       \/ Tasks = <<>> /\ ~EnableFlag /\ Goto(w, "exited") /\ UNCHANGED queueLock
    /\ UNCHANGED <<pool, completionLock, arg, task, client, finished, spurious>>

Announce(w) ==
    /\ pc[w] = "announce"
    /\ ActiveThreads' = ActiveThreads + 1
    /\ Goto(w, "barrier")
    /\ UNCHANGED <<Tasks, EnableFlag, locks, arg, task, client, finished, spurious>>

\* Faulty: CompletionLock is not taken
BarrierLeftOut(w) ==
    /\ pc[w] = "barrier"
    /\ Goto(w, "pop")
    /\ UNCHANGED <<pool, locks, arg, task, client, finished, spurious>>

\* CompletionLock is taken and released
Barrier(w) ==
    /\ pc[w] = "barrier" /\ completionLock = None
    /\ Goto(w, "pop")
    /\ UNCHANGED <<pool, locks, arg, task, client, finished, spurious>>

Pop(w) ==
    /\ pc[w] = "pop"
    /\ task' = [task EXCEPT ![w] = Head(Tasks)]
    /\ Tasks' = Tail(Tasks)
    /\ queueLock' = None
    /\ Goto(w, "run")
    /\ UNCHANGED <<EnableFlag, ActiveThreads, completionLock, arg, client, finished, spurious>>

Spawn(w) ==
    /\ pc[w] = "run"
    /\ \E t \in Spawns[task[w]] : Async(w, t)
    /\ UNCHANGED joined

\* the packaged_task makes the future ready
Finish(w) ==
    /\ pc[w] = "run" /\ Spawns[task[w]] \subseteq submitted
    /\ finished' = finished \cup {task[w]}
    /\ task' = [task EXCEPT ![w] = None]
    /\ Goto(w, "retire")
    /\ UNCHANGED <<pool, locks, arg, client, spurious>>

\* Faulty: the worker counts for ever
RetireUncounted(w) ==
    /\ pc[w] = "retire"
    /\ Goto(w, "notify")
    /\ UNCHANGED <<pool, locks, arg, task, client, finished, spurious>>

Retire(w) ==
    /\ pc[w] = "retire" /\ completionLock = None
    /\ ActiveThreads' = ActiveThreads - 1
    /\ Goto(w, "notify")
    /\ UNCHANGED <<Tasks, EnableFlag, locks, arg, task, client, finished, spurious>>

\* Faulty: the client is not woken
RetireQuietly(w) ==
    /\ pc[w] = "notify"
    /\ Goto(w, "get")
    /\ UNCHANGED <<pool, locks, arg, task, client, finished, spurious>>

\* CompletionCondition.notify_all: only the client can be waiting
NotifyCompletion(w) ==
    /\ pc[w] = "notify"
    /\ pc' = [pc EXCEPT ![w] = "get", ![Main] = IF @ = "blocked" THEN "lock" ELSE @]
    /\ UNCHANGED <<pool, locks, arg, task, client, finished, spurious>>

---------------------------------------------------------------------------
(* The client *)

Submit(t) ==
    /\ pc[Main] = "free" /\ t \in Root
    /\ Async(Main, t)
    /\ joined' = FALSE

CallWait ==
    /\ pc[Main] = "free"
    /\ Goto(Main, "lock")
    /\ UNCHANGED <<pool, locks, arg, task, client, finished, spurious>>

LockCompletion ==
    /\ pc[Main] = "lock" /\ completionLock = None
    /\ completionLock' = Main
    /\ Goto(Main, "readActive")
    /\ UNCHANGED <<pool, queueLock, arg, task, client, finished, spurious>>

\* CompletionCondition.wait gives the lock back and sleeps
Block ==
    /\ completionLock' = None
    /\ Goto(Main, "blocked")
    /\ UNCHANGED <<pool, queueLock, arg, task, client, finished, spurious>>

\* Faulty: a task in flight is not waited for
ReadActiveIgnored ==
    /\ pc[Main] = "readActive"
    /\ Goto(Main, "readTasks")
    /\ UNCHANGED <<pool, locks, arg, task, client, finished, spurious>>

ReadActive ==
    /\ pc[Main] = "readActive"
    /\ \/ ActiveThreads # 0 /\ Block
       \/ /\ ActiveThreads = 0
          /\ Goto(Main, "readTasks")
          /\ UNCHANGED <<pool, locks, arg, task, client, finished, spurious>>

ReadTasks ==
    /\ pc[Main] = "readTasks"
    /\ \/ Tasks # <<>> /\ Block
       \/ /\ Tasks = <<>>
          /\ completionLock' = None
          /\ Goto(Main, "free")
          /\ joined' = TRUE
          /\ UNCHANGED <<pool, queueLock, arg, task, submitted, finished, spurious>>

\* Nobody may submit a task to a pool that is being destroyed: the client
\* has waited, or what it has submitted submits nothing.
MayDestroy == joined \/ \A t \in submitted : Spawns[t] = {}

Disable ==
    /\ pc[Main] = "free" /\ MayDestroy /\ queueLock = None
    /\ EnableFlag' = FALSE
    /\ Goto(Main, "notifyAll")
    /\ UNCHANGED <<Tasks, ActiveThreads, locks, arg, task, client, finished, spurious>>

NotifyAll ==
    /\ pc[Main] = "notifyAll"
    /\ pc' = [h \in Thread |-> IF h = Main THEN "join"
                               ELSE IF h \in Asleep THEN "get" ELSE pc[h]]
    /\ UNCHANGED <<pool, locks, arg, task, client, finished, spurious>>

Join ==
    /\ pc[Main] = "join" /\ \A w \in Worker : pc[w] = "exited"
    /\ Goto(Main, "gone")
    /\ UNCHANGED <<pool, locks, arg, task, client, finished, spurious>>

\* A thread may wake from a condition variable without being notified.
WakeSpuriously ==
    /\ spurious < MaxSpurious
    /\ spurious' = spurious + 1
    /\ \/ \E w \in Asleep : Goto(w, "get")
       \/ pc[Main] = "blocked" /\ Goto(Main, "lock")
    /\ UNCHANGED <<pool, locks, arg, task, client, finished>>

---------------------------------------------------------------------------
WorkerStep(w) ==
    \/ Push(w) \/ NotifyOne(w)
    \/ Get(w) \/ Announce(w) \/ Barrier(w) \/ Pop(w)
    \/ Spawn(w) \/ Finish(w) \/ Retire(w) \/ NotifyCompletion(w)

\* the client in the middle of a call
CallStep ==
    \/ Push(Main) \/ NotifyOne(Main)
    \/ LockCompletion \/ ReadActive \/ ReadTasks
    \/ NotifyAll \/ Join

Next ==
    \/ \E w \in Worker : WorkerStep(w)
    \/ CallStep
    \/ \E t \in Task : Submit(t)
    \/ CallWait \/ Disable
    \/ WakeSpuriously

\* Every thread that can take a step takes one.  Locks are held for a few
\* steps and taken a bounded number of times, so weak fairness is enough.
Fairness ==
    /\ \A w \in Worker : WF_vars(WorkerStep(w))
    /\ WF_vars(CallStep)

Spec == Init /\ [][Next]_vars
FairSpec == Spec /\ Fairness

---------------------------------------------------------------------------
(* Properties *)

Busy == {w \in Worker :
            pc[w] \in {"barrier", "pop", "run", "push", "pushed", "retire"}}

\* Types, and ActiveThreads counts the workers between announcing and
\* retiring.
TypeOK ==
    /\ Tasks \in Seq(Task) /\ EnableFlag \in BOOLEAN
    /\ queueLock \in Worker \cup {None} /\ completionLock \in {Main, None}
    /\ task \in [Worker -> Task \cup {None}]
    /\ arg \in [Thread -> Task \cup {None}]
    /\ ActiveThreads = Cardinality(Busy)

\* wait() looks at Tasks without QueueLock.  When it does, no worker is about
\* to change Tasks, so the read is no data race and its answer stays true
\* until wait() returns.  (the order of the tests in wait, and the empty
\* critical section of CompletionLock in the worker)
TasksNotRaced ==
    pc[Main] = "readTasks" => \A w \in Worker : pc[w] \notin {"pop", "push"}

\* The assertion of asyncImpl: a client that has waited can destroy the pool
\* although tasks submit tasks.
AsyncOnlyWhileEnabled == \A h \in Thread : pc[h] = "push" => EnableFlag

Pool == INSTANCE TaskPool WITH
    client <- CASE pc[Main] \in {"free", "push", "pushed"} -> "free"
                [] pc[Main] \in {"lock", "readActive", "readTasks", "blocked"} -> "waiting"
                [] pc[Main] \in {"notifyAll", "join"} -> "destroying"
                [] pc[Main] = "gone" -> "gone",
    queued <- Tasks,
    running <- {task[w] : w \in Worker} \ {None}

\* The threads, locks and condition variables implement a queue of tasks whose
\* wait() returns only when all of them are done, those included that tasks
\* submit while it blocks: the header forbids that, and the code does not.
PoolKeepsPromises == Pool!Spec

\* No wake-up is lost: a task that was submitted is run,
TasksAreRun == \A t \in Task : t \in submitted ~> t \in finished

\* and a call of wait() or of the destructor comes back.
CallsReturn == pc[Main] # "free" ~> pc[Main] \in {"free", "gone"}
=============================================================================
