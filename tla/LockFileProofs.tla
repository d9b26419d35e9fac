--------------------------- MODULE LockFileProofs ---------------------------
(***************************************************************************)
(* The lock file for any number of processes, hosts and deaths.            *)
(***************************************************************************)
EXTENDS LockFile, TLAPS

Fresh == {"create", "shared", "gone", "alive", "again", "timeout",
          "success", "done", "error", "exited"}
Linking == {"link", "exists", "clear", "owned", "release", "tidy"}
Reading == {"read", "check", "remove"}
Finished == {"done", "exited"}
Label == Fresh \cup Linking \cup Reading \cup {"write", "drop", "killed"}

Types ==
    /\ link \in Proc \cup {None}
    /\ unique \in [Proc -> {"none", "empty", "written"}]
    /\ file \in BOOLEAN /\ stolen \in BOOLEAN /\ left \subseteq Proc
    /\ pc \in [Proc -> Label]
    /\ Owner \in [Proc -> Proc \cup {None}]
    /\ slept \in [Proc -> Nat]

\* Where a process is tells the state of its unique file, unless it could not
\* remove it in the end.
Files ==
    \A p \in Proc :
        /\ pc[p] \in Fresh =>
              unique[p] = "none" \/ (p \in left /\ pc[p] \in Finished /\ unique[p] = "written")
        /\ pc[p] \in Linking => unique[p] = "written"
        /\ pc[p] \in Reading => unique[p] # "empty"
        /\ pc[p] = "write" => unique[p] = "empty"

\* The link belongs to a process that holds the lock, or died with it, or could
\* not remove it.
LinkOwned ==
    link # None =>
        /\ \/ pc[link] \in Holding \cup {"killed"}
           \/ link \in left /\ pc[link] \in Finished \cup {"tidy"}
        /\ unique[link] # "empty"

\* A process that was seen to own the lock never owns it again.
After == {"owned", "release", "tidy", "done", "exited", "killed"}
OwnersSeen ==
    \A p \in Proc :
        /\ Owner[p] # None => Owner[p] # p /\ pc[Owner[p]] \in After
        /\ pc[p] \in {"check", "shared", "gone", "alive", "timeout", "success"} =>
              Owner[p] # None

Slept == \A p \in Proc : /\ slept[p] <= Sleeps
                         /\ pc[p] \in {"shared"} \cup Reading \cup Linking
                                     \cup {"create", "write", "drop"} => slept[p] < Sleeps

\* While no lock is stolen a process has its link as long as it holds the lock,
\* so that who finds the link gone knows that the owner is done.
Exclusive ==
    ~stolen => \A p \in Proc :
        /\ pc[p] \in Holding => link = p
        /\ pc[p] \in {"gone", "success"} => pc[Owner[p]] \notin Holding

\* The file is never removed.
Found == \A p \in Proc : pc[p] = "success" => file

IInv == Types /\ Files /\ LinkOwned /\ OwnersSeen /\ Slept /\ Exclusive /\ Found

---------------------------------------------------------------------------
(* The steps, one by one *)

\* Every step keeps the types.
LEMMA TypesKept ==
    ASSUME Types, [Next]_vars
    PROVE  Types'
<1> USE LockAssumption DEF Types, Finished, Fresh, Linking, Reading, Label, Holding, Ended,
                           Goto, disk, local, history
<1>1. SUFFICES ASSUME NEW p \in Proc, Step(p) \/ Exit(p) \/ Die(p) PROVE Types'
  BY DEF Next, vars
<1>2. CASE ReadLockFile(p)
  BY <1>2 DEF ReadLockFile, LinkExists
<1>3. CASE CheckOwner(p)
  BY <1>3 DEF CheckOwner, StillExecuting
<1>4. CASE RemoveInvalidLock(p)
  BY <1>4 DEF RemoveInvalidLock, TryToRemoveLock, RemoveLock
<1>5. CASE CreateUniqueFile(p)
  BY <1>5 DEF CreateUniqueFile
<1>6. CASE WriteProcessID(p)
  BY <1>6 DEF WriteProcessID
<1>7. CASE CreateLink(p)
  BY <1>7 DEF CreateLink
<1>8. CASE LockExists(p)
  BY <1>8 DEF LockExists, LinkExists
<1>9. CASE RemoveUnowned(p)
  BY <1>9 DEF RemoveUnowned, RemoveLock
<1>10. CASE DropUniqueFile(p)
  BY <1>10 DEF DropUniqueFile, AfterDrop
<1>11. CASE Work(p)
  BY <1>11 DEF Work
<1>12. CASE Release(p)
  BY <1>12 DEF Release, RemoveLock
<1>13. CASE RemoveUniqueFile(p)
  BY <1>13 DEF RemoveUniqueFile
<1>14. CASE Access(p)
  BY <1>14 DEF Access, LinkExists
<1>15. CASE FileExists(p)
  BY <1>15 DEF FileExists
<1>16. CASE OwnerAlive(p)
  BY <1>16 DEF OwnerAlive
<1>17. CASE TryAgain(p)
  BY <1>17 DEF TryAgain
<1>18. CASE UnsafeRemoveLockFile(p)
  BY <1>18 DEF UnsafeRemoveLockFile, TryToRemoveLock, RemoveLock
<1>19. CASE GiveUp(p)
  BY <1>19 DEF GiveUp
<1>20. CASE Exit(p)
  BY <1>20 DEF Exit
<1>21. CASE Die(p)
  BY <1>21 DEF Die
<1> QED BY <1>1, <1>2, <1>3, <1>4, <1>5, <1>6, <1>7, <1>8, <1>9, <1>10, <1>11, <1>12,
           <1>13, <1>14, <1>15, <1>16, <1>17, <1>18, <1>19, <1>20, <1>21
        DEF Step, Construct, Unlock, Wait, Retry

\* A process makes, writes and removes its own unique file only.
LEMMA FilesKept ==
    ASSUME Types, Files, [Next]_vars
    PROVE  Files'
<1> USE LockAssumption DEF Types, Files, Finished, Fresh, Linking, Reading, Label, Holding,
                           Ended, Goto, disk, local, history
<1>1. SUFFICES ASSUME NEW p \in Proc, Step(p) \/ Exit(p) \/ Die(p) PROVE Files'
  BY DEF Next, vars
<1>2. CASE ReadLockFile(p)
  BY <1>2 DEF ReadLockFile, LinkExists
<1>3. CASE CheckOwner(p)
  BY <1>3 DEF CheckOwner, StillExecuting
<1>4. CASE RemoveInvalidLock(p)
  BY <1>4 DEF RemoveInvalidLock, TryToRemoveLock, RemoveLock
<1>5. CASE CreateUniqueFile(p)
  BY <1>5 DEF CreateUniqueFile
<1>6. CASE WriteProcessID(p)
  BY <1>6 DEF WriteProcessID
<1>7. CASE CreateLink(p)
  BY <1>7 DEF CreateLink
<1>8. CASE LockExists(p)
  BY <1>8 DEF LockExists, LinkExists
<1>9. CASE RemoveUnowned(p)
  BY <1>9 DEF RemoveUnowned, RemoveLock
<1>10. CASE DropUniqueFile(p)
  BY <1>10 DEF DropUniqueFile, AfterDrop
<1>11. CASE Work(p)
  BY <1>11 DEF Work
<1>12. CASE Release(p)
  BY <1>12 DEF Release, RemoveLock
<1>13. CASE RemoveUniqueFile(p)
  BY <1>13 DEF RemoveUniqueFile
<1>14. CASE Access(p)
  BY <1>14 DEF Access, LinkExists
<1>15. CASE FileExists(p)
  BY <1>15 DEF FileExists
<1>16. CASE OwnerAlive(p)
  BY <1>16 DEF OwnerAlive
<1>17. CASE TryAgain(p)
  BY <1>17 DEF TryAgain
<1>18. CASE UnsafeRemoveLockFile(p)
  BY <1>18 DEF UnsafeRemoveLockFile, TryToRemoveLock, RemoveLock
<1>19. CASE GiveUp(p)
  BY <1>19 DEF GiveUp
<1>20. CASE Exit(p)
  BY <1>20 DEF Exit
<1>21. CASE Die(p)
  BY <1>21 DEF Die
<1> QED BY <1>1, <1>2, <1>3, <1>4, <1>5, <1>6, <1>7, <1>8, <1>9, <1>10, <1>11, <1>12,
           <1>13, <1>14, <1>15, <1>16, <1>17, <1>18, <1>19, <1>20, <1>21
        DEF Step, Construct, Unlock, Wait, Retry

\* Only an owner makes a link, and releases it before it goes on.
LEMMA LinkOwnedKept ==
    ASSUME Types, Files, LinkOwned, [Next]_vars
    PROVE  LinkOwned'
<1> USE LockAssumption DEF Types, Files, Finished, LinkOwned, Fresh, Linking, Reading, Label,
                           Holding, Ended, Goto, disk, local, history
<1>1. SUFFICES ASSUME NEW p \in Proc, Step(p) \/ Exit(p) \/ Die(p) PROVE LinkOwned'
  BY DEF Next, vars
<1>2. CASE ReadLockFile(p)
  BY <1>2 DEF ReadLockFile, LinkExists
<1>3. CASE CheckOwner(p)
  BY <1>3 DEF CheckOwner, StillExecuting
<1>4. CASE RemoveInvalidLock(p)
  BY <1>4 DEF RemoveInvalidLock, TryToRemoveLock, RemoveLock
<1>5. CASE CreateUniqueFile(p)
  BY <1>5 DEF CreateUniqueFile
<1>6. CASE WriteProcessID(p)
  BY <1>6 DEF WriteProcessID
<1>7. CASE CreateLink(p)
  BY <1>7 DEF CreateLink
<1>8. CASE LockExists(p)
  BY <1>8 DEF LockExists, LinkExists
<1>9. CASE RemoveUnowned(p)
  BY <1>9 DEF RemoveUnowned, RemoveLock
<1>10. CASE DropUniqueFile(p)
  BY <1>10 DEF DropUniqueFile, AfterDrop
<1>11. CASE Work(p)
  BY <1>11 DEF Work
<1>12. CASE Release(p)
  BY <1>12 DEF Release, RemoveLock
<1>13. CASE RemoveUniqueFile(p)
  BY <1>13 DEF RemoveUniqueFile
<1>14. CASE Access(p)
  BY <1>14 DEF Access, LinkExists
<1>15. CASE FileExists(p)
  BY <1>15 DEF FileExists
<1>16. CASE OwnerAlive(p)
  BY <1>16 DEF OwnerAlive
<1>17. CASE TryAgain(p)
  BY <1>17 DEF TryAgain
<1>18. CASE UnsafeRemoveLockFile(p)
  BY <1>18 DEF UnsafeRemoveLockFile, TryToRemoveLock, RemoveLock
<1>19. CASE GiveUp(p)
  BY <1>19 DEF GiveUp
<1>20. CASE Exit(p)
  BY <1>20 DEF Exit
<1>21. CASE Die(p)
  BY <1>21 DEF Die
<1> QED BY <1>1, <1>2, <1>3, <1>4, <1>5, <1>6, <1>7, <1>8, <1>9, <1>10, <1>11, <1>12,
           <1>13, <1>14, <1>15, <1>16, <1>17, <1>18, <1>19, <1>20, <1>21
        DEF Step, Construct, Unlock, Wait, Retry

\* Who is read from the link owns the lock, and passes on from there.
LEMMA OwnersSeenKept ==
    ASSUME Types, LinkOwned, OwnersSeen, [Next]_vars
    PROVE  OwnersSeen'
<1> USE LockAssumption DEF Types, LinkOwned, Finished, OwnersSeen, After, Fresh, Linking,
                           Reading, Label, Holding, Ended, Goto, disk, local, history
<1>1. SUFFICES ASSUME NEW p \in Proc, Step(p) \/ Exit(p) \/ Die(p) PROVE OwnersSeen'
  BY DEF Next, vars
<1>2. CASE ReadLockFile(p)
  BY <1>2 DEF ReadLockFile, LinkExists
<1>3. CASE CheckOwner(p)
  BY <1>3 DEF CheckOwner, StillExecuting
<1>4. CASE RemoveInvalidLock(p)
  BY <1>4 DEF RemoveInvalidLock, TryToRemoveLock, RemoveLock
<1>5. CASE CreateUniqueFile(p)
  BY <1>5 DEF CreateUniqueFile
<1>6. CASE WriteProcessID(p)
  BY <1>6 DEF WriteProcessID
<1>7. CASE CreateLink(p)
  BY <1>7 DEF CreateLink
<1>8. CASE LockExists(p)
  BY <1>8 DEF LockExists, LinkExists
<1>9. CASE RemoveUnowned(p)
  BY <1>9 DEF RemoveUnowned, RemoveLock
<1>10. CASE DropUniqueFile(p)
  BY <1>10 DEF DropUniqueFile, AfterDrop
<1>11. CASE Work(p)
  BY <1>11 DEF Work
<1>12. CASE Release(p)
  BY <1>12 DEF Release, RemoveLock
<1>13. CASE RemoveUniqueFile(p)
  BY <1>13 DEF RemoveUniqueFile
<1>14. CASE Access(p)
  BY <1>14 DEF Access, LinkExists
<1>15. CASE FileExists(p)
  BY <1>15 DEF FileExists
<1>16. CASE OwnerAlive(p)
  BY <1>16 DEF OwnerAlive
<1>17. CASE TryAgain(p)
  BY <1>17 DEF TryAgain
<1>18. CASE UnsafeRemoveLockFile(p)
  BY <1>18 DEF UnsafeRemoveLockFile, TryToRemoveLock, RemoveLock
<1>19. CASE GiveUp(p)
  BY <1>19 DEF GiveUp
<1>20. CASE Exit(p)
  BY <1>20 DEF Exit
<1>21. CASE Die(p)
  BY <1>21 DEF Die
<1> QED BY <1>1, <1>2, <1>3, <1>4, <1>5, <1>6, <1>7, <1>8, <1>9, <1>10, <1>11, <1>12,
           <1>13, <1>14, <1>15, <1>16, <1>17, <1>18, <1>19, <1>20, <1>21
        DEF Step, Construct, Unlock, Wait, Retry

\* Every sleep is counted and the last one ends the waiting.
LEMMA SleptKept ==
    ASSUME Types, Slept, [Next]_vars
    PROVE  Slept'
<1> USE LockAssumption DEF Types, Slept, Finished, Fresh, Linking, Reading, Label, Holding,
                           Ended, Goto, disk, local, history
<1>1. SUFFICES ASSUME NEW p \in Proc, Step(p) \/ Exit(p) \/ Die(p) PROVE Slept'
  BY DEF Next, vars
<1>2. CASE ReadLockFile(p)
  BY <1>2 DEF ReadLockFile, LinkExists
<1>3. CASE CheckOwner(p)
  BY <1>3 DEF CheckOwner, StillExecuting
<1>4. CASE RemoveInvalidLock(p)
  BY <1>4 DEF RemoveInvalidLock, TryToRemoveLock, RemoveLock
<1>5. CASE CreateUniqueFile(p)
  BY <1>5 DEF CreateUniqueFile
<1>6. CASE WriteProcessID(p)
  BY <1>6 DEF WriteProcessID
<1>7. CASE CreateLink(p)
  BY <1>7 DEF CreateLink
<1>8. CASE LockExists(p)
  BY <1>8 DEF LockExists, LinkExists
<1>9. CASE RemoveUnowned(p)
  BY <1>9 DEF RemoveUnowned, RemoveLock
<1>10. CASE DropUniqueFile(p)
  BY <1>10 DEF DropUniqueFile, AfterDrop
<1>11. CASE Work(p)
  BY <1>11 DEF Work
<1>12. CASE Release(p)
  BY <1>12 DEF Release, RemoveLock
<1>13. CASE RemoveUniqueFile(p)
  BY <1>13 DEF RemoveUniqueFile
<1>14. CASE Access(p)
  BY <1>14 DEF Access, LinkExists
<1>15. CASE FileExists(p)
  BY <1>15 DEF FileExists
<1>16. CASE OwnerAlive(p)
  BY <1>16 DEF OwnerAlive
<1>17. CASE TryAgain(p)
  BY <1>17 DEF TryAgain
<1>18. CASE UnsafeRemoveLockFile(p)
  BY <1>18 DEF UnsafeRemoveLockFile, TryToRemoveLock, RemoveLock
<1>19. CASE GiveUp(p)
  BY <1>19 DEF GiveUp
<1>20. CASE Exit(p)
  BY <1>20 DEF Exit
<1>21. CASE Die(p)
  BY <1>21 DEF Die
<1> QED BY <1>1, <1>2, <1>3, <1>4, <1>5, <1>6, <1>7, <1>8, <1>9, <1>10, <1>11, <1>12,
           <1>13, <1>14, <1>15, <1>16, <1>17, <1>18, <1>19, <1>20, <1>21
        DEF Step, Construct, Unlock, Wait, Retry

\* Removing a lock that nobody holds, which is all that is not stealing.
LEMMA LockRemoved ==
    ASSUME Types, OwnersSeen, Exclusive, NEW p \in Proc, pc[p] \notin Holding, RemoveLock(p),
           NEW label \in {"create", "exists", "link", "again"}, Goto(p, label), UNCHANGED Owner
    PROVE  Exclusive'
<1> SUFFICES ASSUME ~stolen'
             PROVE  \A q \in Proc :
                        /\ pc'[q] \in Holding => link' = q
                        /\ pc'[q] \in {"gone", "success"} => pc'[Owner'[q]] \notin Holding
  BY DEF Exclusive
<1>1. ~stolen /\ (link \in {None, p} \/ pc[link] \notin Holding)
  BY DEF RemoveLock
<1>2. \A q \in Proc : pc[q] \notin Holding
  BY <1>1, LockAssumption DEF Exclusive
<1>3. \A q \in Proc : pc'[q] \notin Holding
  BY <1>2 DEF Goto, Types, Holding
<1>4. \A q \in Proc : pc'[q] \in {"gone", "success"} => pc[q] \in {"gone", "success"}
  BY DEF Goto, Types
<1>5. \A q \in Proc : pc[q] \in {"gone", "success"} => Owner[q] \in Proc
  BY DEF OwnersSeen, Types
<1> QED BY <1>3, <1>4, <1>5

\* A link of an owner is removed by the owner, or it is stolen.
LEMMA ExclusiveKept ==
    ASSUME Types, Files, LinkOwned, OwnersSeen, Exclusive, [Next]_vars
    PROVE  Exclusive'
<1> USE LockAssumption DEF Types, Files, Finished, LinkOwned, OwnersSeen, After, Exclusive,
                           Fresh, Linking, Reading, Label, Holding, Ended, Goto, disk, local, history
<1>1. SUFFICES ASSUME NEW p \in Proc, Step(p) \/ Exit(p) \/ Die(p) PROVE Exclusive'
  BY DEF Next, vars
<1>2. CASE ReadLockFile(p)
  BY <1>2 DEF ReadLockFile, LinkExists
<1>3. CASE CheckOwner(p)
  BY <1>3 DEF CheckOwner, StillExecuting
<1>4. CASE RemoveInvalidLock(p)
  <2>1. CASE RemoveLock(p)
    BY <1>4, <2>1, LockRemoved DEF RemoveInvalidLock
  <2>2. CASE UNCHANGED <<link, stolen>>
    BY <1>4, <2>2 DEF RemoveInvalidLock
  <2> QED BY <1>4, <2>1, <2>2 DEF RemoveInvalidLock, TryToRemoveLock
<1>5. CASE CreateUniqueFile(p)
  BY <1>5 DEF CreateUniqueFile
<1>6. CASE WriteProcessID(p)
  BY <1>6 DEF WriteProcessID
<1>7. CASE CreateLink(p)
  BY <1>7 DEF CreateLink
<1>8. CASE LockExists(p)
  BY <1>8 DEF LockExists, LinkExists
<1>9. CASE RemoveUnowned(p)
  <2>1. CASE RemoveLock(p) /\ Goto(p, "link")
    BY <1>9, <2>1, LockRemoved DEF RemoveUnowned
  <2>2. CASE Goto(p, "drop") /\ UNCHANGED <<link, stolen>>
    BY <1>9, <2>2 DEF RemoveUnowned
  <2> QED BY <1>9, <2>1, <2>2 DEF RemoveUnowned
<1>10. CASE DropUniqueFile(p)
  BY <1>10 DEF DropUniqueFile, AfterDrop
<1>11. CASE Work(p)
  BY <1>11 DEF Work
<1>12. CASE Release(p)
  BY <1>12 DEF Release, RemoveLock
<1>13. CASE RemoveUniqueFile(p)
  BY <1>13 DEF RemoveUniqueFile
<1>14. CASE Access(p)
  BY <1>14 DEF Access, LinkExists
<1>15. CASE FileExists(p)
  BY <1>15 DEF FileExists
<1>16. CASE OwnerAlive(p)
  BY <1>16 DEF OwnerAlive
<1>17. CASE TryAgain(p)
  BY <1>17 DEF TryAgain
<1>18. CASE UnsafeRemoveLockFile(p)
  <2>1. CASE RemoveLock(p)
    BY <1>18, <2>1, LockRemoved DEF UnsafeRemoveLockFile
  <2>2. CASE UNCHANGED <<link, stolen>>
    BY <1>18, <2>2 DEF UnsafeRemoveLockFile
  <2> QED BY <1>18, <2>1, <2>2 DEF UnsafeRemoveLockFile, TryToRemoveLock
<1>19. CASE GiveUp(p)
  BY <1>19 DEF GiveUp
<1>20. CASE Exit(p)
  BY <1>20 DEF Exit
<1>21. CASE Die(p)
  BY <1>21 DEF Die
<1> QED BY <1>1, <1>2, <1>3, <1>4, <1>5, <1>6, <1>7, <1>8, <1>9, <1>10, <1>11, <1>12,
           <1>13, <1>14, <1>15, <1>16, <1>17, <1>18, <1>19, <1>20, <1>21
        DEF Step, Construct, Unlock, Wait, Retry

\* Only who has found the file is told so, and nobody removes it.
LEMMA FoundKept ==
    ASSUME Types, Found, [Next]_vars
    PROVE  Found'
<1> USE LockAssumption DEF Types, Found, Finished, Fresh, Linking, Reading, Label, Holding,
                           Ended, Goto, disk, local, history
<1>1. SUFFICES ASSUME NEW p \in Proc, Step(p) \/ Exit(p) \/ Die(p) PROVE Found'
  BY DEF Next, vars
<1>2. CASE ReadLockFile(p)
  BY <1>2 DEF ReadLockFile, LinkExists
<1>3. CASE CheckOwner(p)
  BY <1>3 DEF CheckOwner, StillExecuting
<1>4. CASE RemoveInvalidLock(p)
  BY <1>4 DEF RemoveInvalidLock, TryToRemoveLock, RemoveLock
<1>5. CASE CreateUniqueFile(p)
  BY <1>5 DEF CreateUniqueFile
<1>6. CASE WriteProcessID(p)
  BY <1>6 DEF WriteProcessID
<1>7. CASE CreateLink(p)
  BY <1>7 DEF CreateLink
<1>8. CASE LockExists(p)
  BY <1>8 DEF LockExists, LinkExists
<1>9. CASE RemoveUnowned(p)
  BY <1>9 DEF RemoveUnowned, RemoveLock
<1>10. CASE DropUniqueFile(p)
  BY <1>10 DEF DropUniqueFile, AfterDrop
<1>11. CASE Work(p)
  BY <1>11 DEF Work
<1>12. CASE Release(p)
  BY <1>12 DEF Release, RemoveLock
<1>13. CASE RemoveUniqueFile(p)
  BY <1>13 DEF RemoveUniqueFile
<1>14. CASE Access(p)
  BY <1>14 DEF Access, LinkExists
<1>15. CASE FileExists(p)
  BY <1>15 DEF FileExists
<1>16. CASE OwnerAlive(p)
  BY <1>16 DEF OwnerAlive
<1>17. CASE TryAgain(p)
  BY <1>17 DEF TryAgain
<1>18. CASE UnsafeRemoveLockFile(p)
  BY <1>18 DEF UnsafeRemoveLockFile, TryToRemoveLock, RemoveLock
<1>19. CASE GiveUp(p)
  BY <1>19 DEF GiveUp
<1>20. CASE Exit(p)
  BY <1>20 DEF Exit
<1>21. CASE Die(p)
  BY <1>21 DEF Die
<1> QED BY <1>1, <1>2, <1>3, <1>4, <1>5, <1>6, <1>7, <1>8, <1>9, <1>10, <1>11, <1>12,
           <1>13, <1>14, <1>15, <1>16, <1>17, <1>18, <1>19, <1>20, <1>21
        DEF Step, Construct, Unlock, Wait, Retry

---------------------------------------------------------------------------
(* The theorems *)

\* At the start there is no lock.
LEMMA InitIInv == Init => IInv
<1> USE LockAssumption DEF Init
<1>1. ASSUME Init PROVE Types
  <2>1. "read" \in Label
    BY DEF Label, Reading
  <2>2. pc \in [Proc -> Label] /\ unique \in [Proc -> {"none", "empty", "written"}]
    BY <1>1, <2>1
  <2>3. Owner \in [Proc -> Proc \cup {None}] /\ slept \in [Proc -> Nat]
    BY <1>1
  <2> QED BY <1>1, <2>2, <2>3 DEF Types
<1>2. Init => Slept
  BY DEF Slept
<1>3. Init => Files /\ LinkOwned /\ OwnersSeen
  BY DEF Files, LinkOwned, OwnersSeen, Fresh, Linking
<1>4. Init => Exclusive /\ Found
  BY DEF Exclusive, Found, Holding
<1> QED BY <1>1, <1>2, <1>3, <1>4 DEF IInv

\* The inductive invariant.
THEOREM Invariance == Spec => []IInv
<1>1. IInv /\ [Next]_vars => IInv'
  BY TypesKept, FilesKept, LinkOwnedKept, OwnersSeenKept, SleptKept, ExclusiveKept,
     FoundKept DEF IInv
<1> QED BY <1>1, InitIInv, PTL DEF Spec

\* Types; who waits, waits for another process, and not for too long.
THEOREM TypeCorrect == Spec => []TypeOK
<1>1. IInv => TypeOK
  BY LockAssumption DEF IInv, Types, OwnersSeen, Slept, TypeOK
<1> QED BY <1>1, Invariance, PTL

\* Nobody reads half a process ID.
THEOREM LocksAlwaysWritten == Spec => []LocksAreWritten
<1>1. IInv => LocksAreWritten
  BY DEF IInv, LinkOwned, LocksAreWritten
<1> QED BY <1>1, Invariance, PTL

\* As long as no lock is stolen there is one owner.
THEOREM OwnersAlwaysExclude == Spec => []OwnersExcludeEachOther
<1>1. IInv => OwnersExcludeEachOther
  BY DEF IInv, Exclusive, OwnersExcludeEachOther
<1> QED BY <1>1, Invariance, PTL

\* Who is told Res_Success finds the file, and as long as no lock is stolen the
\* owner does not hold the lock any more.
THEOREM SuccessAlwaysTrue == Spec => []SuccessIsTrue
<1>1. IInv => SuccessIsTrue
  BY DEF IInv, Exclusive, Found, SuccessIsTrue
<1> QED BY <1>1, Invariance, PTL

\* What is left on disk is of processes that died or could not remove it.
THEOREM NoLitterLeft == Spec => []NoLitter
<1>1. IInv => NoLitter
  <2> SUFFICES ASSUME IInv, \A p \in Proc : pc[p] \in Ended
               PROVE  /\ \A p \in Proc : unique[p] # "none" => pc[p] = "killed" \/ p \in left
                      /\ link # None => pc[link] = "killed" \/ link \in left
    BY DEF NoLitter
  <2>1. \A p \in Proc : pc[p] \in Fresh \cup {"killed"}
    BY DEF Ended, Fresh
  <2>2. \A p \in Proc : pc[p] \notin Holding
    BY DEF Ended, Holding
  <2> QED BY <2>1, <2>2 DEF IInv, Types, Files, LinkOwned
<1> QED BY <1>1, Invariance, PTL
=============================================================================
