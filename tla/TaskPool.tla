------------------------------ MODULE TaskPool ------------------------------
(***************************************************************************)
(* What ThreadPool.h promises: every task submitted is run once, in the    *)
(* order of submission, wait() returns when nothing is queued and nothing  *)
(* runs, and so does the destructor.  There are no threads, no locks and   *)
(* no condition variables here.  It says of one thing more than the header *)
(* does what happens: SubmitInWait.                                        *)
(***************************************************************************)
EXTENDS Sequences, Naturals

CONSTANT Task

VARIABLES
    client,        \* free, waiting (in wait), destroying, gone
    queued,        \* tasks submitted and not begun, oldest first
    running,       \* tasks begun and not finished
    finished       \* tasks whose future is ready

vars == <<client, queued, running, finished>>

Queued == {queued[i] : i \in DOMAIN queued}
Idle == queued = <<>> /\ running = {}

Init ==
    /\ client = "free"
    /\ queued = <<>> /\ running = {} /\ finished = {}

Enqueue(t) ==
    /\ t \notin Queued \cup running \cup finished
    /\ queued' = Append(queued, t)
    /\ UNCHANGED <<client, running, finished>>

\* by the client between other calls, or by a task that runs meanwhile
Submit(t) == client = "free" /\ Enqueue(t)

\* by a task that runs while the client waits.  The header says "It is an error
\* to try to add new tasks while blocking on this call"; asyncImpl does not ask,
\* and the task is queued as any other: wait() returns after it.
SubmitInWait(t) == client = "waiting" /\ running # {} /\ Enqueue(t)

Begin ==
    /\ queued # <<>>
    /\ running' = running \cup {Head(queued)}
    /\ queued' = Tail(queued)
    /\ UNCHANGED <<client, finished>>

Finish(t) ==
    /\ t \in running
    /\ running' = running \ {t}
    /\ finished' = finished \cup {t}
    /\ UNCHANGED <<client, queued>>

Call ==
    /\ client = "free" /\ client' \in {"waiting", "destroying"}
    /\ UNCHANGED <<queued, running, finished>>

Return ==
    /\ Idle
    /\ \/ client = "waiting" /\ client' = "free"
       \/ client = "destroying" /\ client' = "gone"
    /\ UNCHANGED <<queued, running, finished>>

Next == \/ \E t \in Task : Submit(t) \/ SubmitInWait(t) \/ Finish(t)
        \/ Begin \/ Call \/ Return

Spec == Init /\ [][Next]_vars
=============================================================================
