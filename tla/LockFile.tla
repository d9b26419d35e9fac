------------------------------ MODULE LockFile ------------------------------
(***************************************************************************)
(* lib/Support/LockFileManager.cpp on Unix: processes that coordinate the  *)
(* making of one file through a symbolic link FileName.lock, which points  *)
(* to a file of the process that made it.  A step is one file system call  *)
(* or one question about a process.  Processes die at any time, with or    *)
(* without the signal handlers having run.  What the client does after     *)
(* waitForUnlock is its own business; it tries again here.                 *)
(***************************************************************************)
EXTENDS Naturals, FiniteSets

CONSTANTS
    Proc,          \* processes, each of which wants the file once
    HostOf,        \* the machine a process runs on
    None,
    ReadsMayFail,  \* a file that is there may not be readable for a moment
    Hindered,      \* processes whose removals may fail (rights, I/O errors)
    Sleeps,        \* how often waitForUnlock sleeps: 16 times, up to 40 s
    MaxDeaths      \* bound on the processes that die

ASSUME LockAssumption ==
    /\ None \notin Proc
    /\ ReadsMayFail \in BOOLEAN /\ Hindered \subseteq Proc
    /\ Sleeps \in Nat \ {0} /\ MaxDeaths \in Nat

VARIABLES
    link,          \* LockFileName: whose unique file it points to, or None
    unique,        \* the unique lock file of each process: none, empty, written
    file,          \* FileName exists
    pc,
    Owner,         \* the owner each process has read, or None
    slept,         \* the sleeps of waitForUnlock
    deaths,
    stolen,        \* a lock was removed whose maker still relied on it
    left           \* processes that could not remove what they had made

vars == <<link, unique, file, pc, Owner, slept, deaths, stolen, left>>
disk == <<link, unique, file>>
local == <<Owner, slept>>
history == <<deaths, stolen, left>>

Ended == {"success", "done", "error", "exited", "killed"}
Holding == {"owned", "release"}
Dead(p) == pc[p] \in {"exited", "killed"}

Init ==
    /\ link = None
    /\ unique = [p \in Proc |-> "none"]
    /\ file \in BOOLEAN             \* an old one may be there
    /\ pc = [p \in Proc |-> "read"]
    /\ Owner = [p \in Proc |-> None]
    /\ slept = [p \in Proc |-> 0]
    /\ deaths = 0 /\ stolen = FALSE /\ left = {}

Goto(p, label) == pc' = [pc EXCEPT ![p] = label]

\* what following the link finds
LinkExists == link # None /\ unique[link] # "none"

\* sys::fs::remove(LockFileName): whatever is there now
RemoveLock(p) ==
    /\ link' = None
    /\ stolen' = (stolen \/ (link \notin {None, p} /\ pc[link] \in Holding))

\* The same where the error is not looked at, or makes no difference
TryToRemoveLock(p) ==
    \/ RemoveLock(p)
    \/ p \in Hindered /\ UNCHANGED <<link, stolen>>

\* A process of another host is taken to be alive.
StillExecuting(p, q) == HostOf[p] = HostOf[q] => ~Dead(q)

---------------------------------------------------------------------------
(* readLockFile, at the start and when the link exists already.  Whether p *)
(* has a unique file tells the two calls apart.                            *)

\* Faulty: only a lock file that can be read is found to be invalid
UnreadableLockLeft(p) ==
    /\ pc[p] = "read"
    /\ \/ /\ LinkExists /\ unique[link] = "written"
          /\ Owner' = [Owner EXCEPT ![p] = link]
          /\ Goto(p, "check")
       \/ /\ ~(LinkExists /\ unique[link] = "written") \/ ReadsMayFail
          /\ Goto(p, IF unique[p] = "none" THEN "create" ELSE "exists")
          /\ UNCHANGED Owner
    /\ UNCHANGED <<disk, slept, history>>

\* A lock file that cannot be read, for whatever reason, is removed.
ReadLockFile(p) ==
    /\ pc[p] = "read"
    /\ \/ /\ LinkExists /\ unique[link] = "written"
          /\ Owner' = [Owner EXCEPT ![p] = link]
          /\ Goto(p, "check")
       \/ /\ ~(LinkExists /\ unique[link] = "written") \/ ReadsMayFail
          /\ Goto(p, "remove")
          /\ UNCHANGED Owner
    /\ UNCHANGED <<disk, slept, history>>

CheckOwner(p) ==
    /\ pc[p] = "check"
    /\ \/ /\ StillExecuting(p, Owner[p])
          /\ Goto(p, IF unique[p] = "none" THEN "shared" ELSE "drop")
          /\ UNCHANGED Owner
       \/ /\ ~StillExecuting(p, Owner[p])
          /\ Owner' = [Owner EXCEPT ![p] = None]
          /\ Goto(p, "remove")
    /\ UNCHANGED <<disk, slept, history>>

RemoveInvalidLock(p) ==
    /\ pc[p] = "remove"
    /\ TryToRemoveLock(p)
    /\ Goto(p, IF unique[p] = "none" THEN "create" ELSE "exists")
    /\ UNCHANGED <<unique, file, local, deaths, left>>

---------------------------------------------------------------------------
(* The rest of the constructor *)

\* Faulty: the link may be made before the process ID is written
CreateAndGoOn(p) ==
    /\ pc[p] = "create"
    /\ unique' = [unique EXCEPT ![p] = "empty"]
    /\ \E label \in {"write", "link"} : Goto(p, label)
    /\ UNCHANGED <<link, file, local, history>>

CreateUniqueFile(p) ==
    /\ pc[p] = "create"
    /\ \/ unique' = [unique EXCEPT ![p] = "empty"] /\ Goto(p, "write")
       \/ Goto(p, "error") /\ UNCHANGED unique
    /\ UNCHANGED <<link, file, local, history>>

\* The disk may be full.
WriteProcessID(p) ==
    /\ pc[p] = "write"
    /\ \/ unique' = [unique EXCEPT ![p] = "written"] /\ Goto(p, "link")
       \/ Goto(p, "drop") /\ UNCHANGED unique
    /\ UNCHANGED <<link, file, local, history>>

\* Faulty: an existing link is replaced
LinkOver(p) ==
    /\ pc[p] = "link"
    /\ link' = p /\ Goto(p, "owned")
    /\ UNCHANGED <<unique, file, local, history>>

CreateLink(p) ==
    /\ pc[p] = "link"
    /\ \/ link = None /\ link' = p /\ Goto(p, "owned")
       \/ link # None /\ Goto(p, "read") /\ UNCHANGED link
       \/ Goto(p, "drop") /\ UNCHANGED link
    /\ UNCHANGED <<unique, file, local, history>>

LockExists(p) ==
    /\ pc[p] = "exists"
    /\ Goto(p, IF LinkExists THEN "clear" ELSE "link")
    /\ UNCHANGED <<disk, local, history>>

\* "There is a lock file that nobody owns"
RemoveUnowned(p) ==
    /\ pc[p] = "clear"
    /\ \/ RemoveLock(p) /\ Goto(p, "link")
       \/ Goto(p, "drop") /\ UNCHANGED <<link, stolen>>
    /\ UNCHANGED <<unique, file, local, deaths, left>>

\* The stream that could not write still has its error when it is destroyed,
\* which is fatal.
AfterDrop(p) == CASE unique[p] = "empty" -> "exited"
                  [] unique[p] # "empty" /\ Owner[p] = None -> "error"
                  [] OTHER -> "shared"

\* Faulty: the unique file of a process that does not get the lock is left
UniqueFileLeft(p) ==
    /\ pc[p] = "drop"
    /\ Goto(p, AfterDrop(p))
    /\ UNCHANGED <<disk, local, history>>

\* A file that cannot be removed stays for good, but nothing points to it.
DropUniqueFile(p) ==
    /\ pc[p] = "drop"
    /\ unique' = [unique EXCEPT ![p] = "none"]
    /\ left' \in {left} \cup (IF p \in Hindered THEN {left \cup {p}} ELSE {})
    /\ Goto(p, AfterDrop(p))
    /\ UNCHANGED <<link, file, local, deaths, stolen>>

---------------------------------------------------------------------------
(* The owner: the client makes the file, or fails to, and the destructor   *)

Work(p) ==
    /\ pc[p] = "owned"
    /\ file' \in {file, TRUE}
    /\ Goto(p, "release")
    /\ UNCHANGED <<link, unique, local, history>>

Release(p) ==
    /\ pc[p] = "release"
    /\ \/ RemoveLock(p) /\ UNCHANGED left
       \/ p \in Hindered /\ left' = left \cup {p} /\ UNCHANGED <<link, stolen>>
    /\ Goto(p, "tidy")
    /\ UNCHANGED <<unique, file, local, deaths>>

RemoveUniqueFile(p) ==
    /\ pc[p] = "tidy"
    /\ \/ unique' = [unique EXCEPT ![p] = "none"] /\ UNCHANGED left
       \/ p \in Hindered /\ left' = left \cup {p} /\ UNCHANGED unique
    /\ Goto(p, "done")
    /\ UNCHANGED <<link, file, local, deaths, stolen>>

---------------------------------------------------------------------------
(* waitForUnlock, and a client that tries again unless it gives up         *)

Access(p) ==
    /\ pc[p] = "shared"
    /\ slept' = [slept EXCEPT ![p] = @ + 1]
    /\ Goto(p, IF LinkExists THEN "alive" ELSE "gone")
    /\ UNCHANGED <<disk, Owner, history>>

FileExists(p) ==
    /\ pc[p] = "gone"
    /\ Goto(p, IF file THEN "success" ELSE "again")
    /\ UNCHANGED <<disk, local, history>>

\* Faulty: the interval does not grow
WaitForEver(p) ==
    /\ pc[p] = "alive"
    /\ Goto(p, IF StillExecuting(p, Owner[p]) THEN "shared" ELSE "again")
    /\ slept' = [slept EXCEPT ![p] = 0]
    /\ UNCHANGED <<disk, Owner, history>>

\* Faulty: giving up counts as success
TimeoutIsSuccess(p) ==
    /\ pc[p] = "alive"
    /\ Goto(p, CASE ~StillExecuting(p, Owner[p]) -> "again"
                 [] StillExecuting(p, Owner[p]) /\ slept[p] < Sleeps -> "shared"
                 [] OTHER -> "success")
    /\ UNCHANGED <<disk, local, history>>

\* Faulty: one sleep too many
OneSleepMore(p) ==
    /\ pc[p] = "alive"
    /\ Goto(p, CASE ~StillExecuting(p, Owner[p]) -> "again"
                 [] StillExecuting(p, Owner[p]) /\ slept[p] <= Sleeps -> "shared"
                 [] OTHER -> "timeout")
    /\ UNCHANGED <<disk, local, history>>

OwnerAlive(p) ==
    /\ pc[p] = "alive"
    /\ Goto(p, CASE ~StillExecuting(p, Owner[p]) -> "again"
                 [] StillExecuting(p, Owner[p]) /\ slept[p] < Sleeps -> "shared"
                 [] OTHER -> "timeout")
    /\ UNCHANGED <<disk, local, history>>

\* after Res_OwnerDied
TryAgain(p) ==
    /\ pc[p] = "again"
    /\ Owner' = [Owner EXCEPT ![p] = None]
    /\ slept' = [slept EXCEPT ![p] = 0]
    /\ Goto(p, "read")
    /\ UNCHANGED <<disk, history>>

\* after Res_Timeout
UnsafeRemoveLockFile(p) ==
    /\ pc[p] = "timeout"
    /\ TryToRemoveLock(p)
    /\ Goto(p, "again")
    /\ UNCHANGED <<unique, file, local, deaths, left>>

---------------------------------------------------------------------------
(* The end of a process *)

GiveUp(p) ==
    /\ pc[p] \in {"again", "timeout"}
    /\ Goto(p, "error")
    /\ UNCHANGED <<disk, local, history>>

Exit(p) ==
    /\ pc[p] \in {"success", "done", "error"}
    /\ Goto(p, "exited")
    /\ UNCHANGED <<disk, local, history>>

\* Without the handlers (SIGKILL, or before they are registered), or after
\* they have removed the unique file.
Die(p) ==
    /\ pc[p] \notin Ended /\ deaths < MaxDeaths
    /\ deaths' = deaths + 1
    /\ Goto(p, "killed")
    /\ unique' \in {unique, [unique EXCEPT ![p] = IF @ = "written" THEN "none" ELSE @]}
    /\ UNCHANGED <<link, file, local, stolen, left>>

Construct(p) ==
    \/ ReadLockFile(p) \/ CheckOwner(p) \/ RemoveInvalidLock(p)
    \/ CreateUniqueFile(p) \/ WriteProcessID(p) \/ CreateLink(p)
    \/ LockExists(p) \/ RemoveUnowned(p) \/ DropUniqueFile(p)
Unlock(p) == Work(p) \/ Release(p) \/ RemoveUniqueFile(p)
Wait(p) == Access(p) \/ FileExists(p) \/ OwnerAlive(p)
Retry(p) == TryAgain(p) \/ UnsafeRemoveLockFile(p) \/ GiveUp(p)

Step(p) == Construct(p) \/ Unlock(p) \/ Wait(p) \/ Retry(p)

Next == \E p \in Proc : Step(p) \/ Exit(p) \/ Die(p)

\* Every process that is alive goes on; nobody has to die or to exit.
Fairness == \A p \in Proc : WF_vars(Step(p))

Spec == Init /\ [][Next]_vars
FairSpec == Spec /\ Fairness

---------------------------------------------------------------------------
(* Properties *)

\* Types; who waits, waits for another process, and not for too long.
TypeOK ==
    /\ link \in Proc \cup {None}
    /\ unique \in [Proc -> {"none", "empty", "written"}]
    /\ file \in BOOLEAN /\ stolen \in BOOLEAN /\ left \subseteq Proc
    /\ \A p \in Proc :
          /\ Owner[p] \in Proc \cup {None}
          /\ pc[p] \in {"check", "shared", "gone", "alive", "timeout"} =>
                Owner[p] \in Proc \ {p}
          /\ slept[p] <= Sleeps

\* Nobody can read half a process ID and take the lock for invalid: the link
\* is made when the file is written, and the file is never written again.
LocksAreWritten == link # None => unique[link] # "empty"

\* Two processes own the lock only after someone removed a lock he took for
\* invalid, or no longer his own, when it was neither.
OwnersExcludeEachOther ==
    ~stolen => \A p, q \in Proc :
        pc[p] \in Holding /\ pc[q] \in Holding => p = q

\* A process that is told that the lock was released (Res_Success) finds the
\* file, and the owner it waited for does not hold the lock any more, unless the
\* lock was stolen.  The owner need not have made the file: see SuccessIsRelease.
SuccessIsTrue ==
    \A p \in Proc : pc[p] = "success" =>
        file /\ (~stolen => pc[Owner[p]] \notin Holding)

\* When all processes have ended, what is left on disk is of those that died, or
\* that tried to remove it and could not.
NoLitter ==
    (\A p \in Proc : pc[p] \in Ended) =>
        /\ \A p \in Proc : unique[p] # "none" => pc[p] = "killed" \/ p \in left
        /\ link # None => pc[link] = "killed" \/ link \in left

Returned(p) == pc[p] \in Ended \cup Holding \cup {"shared"}
InvalidLockStays(p) == RemoveInvalidLock(p) /\ link' # None

\* The constructor comes back (or ends the process, see AfterDrop) whoever dies
\* holding the lock, unless it cannot remove an invalid lock time after time,
ConstructorReturns ==
    \A p \in Proc : <>[][~InvalidLockStays(p)]_vars => (pc[p] = "read" ~> Returned(p))

\* and so does waitForUnlock, even if the owner is on another host and dead.
WaitReturns == \A p \in Proc : pc[p] = "shared" ~> pc[p] \in Ended \cup {"again", "timeout"}

\* The header: "using the atomicity of the file system to ensure that only a
\* single process can create that .lock file".
OneOwner == \A p, q \in Proc : pc[p] \in Holding /\ pc[q] \in Holding => p = q

\* The header says of Res_Success "The lock was released successfully", and has
\* Res_OwnerDied for an owner that "died while holding the lock".  Who releases
\* the lock removes the link, and never has it again.
SuccessIsRelease == \A p \in Proc : pc[p] = "success" => link # Owner[p]

\* The loop of the constructor ends even if an invalid lock cannot be removed.
ConstructorAlwaysReturns == \A p \in Proc : pc[p] = "read" ~> Returned(p)
=============================================================================
