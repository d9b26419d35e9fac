-------------------------- MODULE ObjectCacheProofs --------------------------
(***************************************************************************)
(* The object cache for any number of links and modules, sizes and         *)
(* crashes.                                                                *)
(***************************************************************************)
EXTENDS ObjectCache, FiniteSetTheorems, WellFoundedInduction, TLAPS

\* The types, but for the sizes, on which nothing depends but the count at the end.
Types ==
    /\ legacy \in BOOLEAN
    /\ entry \in [Key -> File \cup {None}]
    /\ content \in [File -> {"none", "partial", "whole"}]
    /\ temp \subseteq Task /\ recent \subseteq Key
    /\ pc \in [Task -> TaskLabel] /\ proc \in [Link -> LinkLabel]
    /\ writing \in [Task -> File \cup {None}]
    /\ buffer \in [Task -> File \cup {None, Memory}]
    /\ todo \in [Link -> SUBSET Key] /\ kept \in [Link -> SUBSET Key]
    /\ victim \in [Link -> Key \cup {None}]
    /\ crashes \in Nat
    /\ inPlace \subseteq Key /\ raced \subseteq Task /\ missed \subseteq Link
    /\ \A t \in Task : pc[t] = "done" <=> buffer[t] # None

Sizes == seen \in [Link -> [Key -> Nat]] /\ total \in [Link -> Int]

\* Names come to mean files of their key only, and so do the objects handed out.
Own ==
    /\ \A k \in Key : entry[k] \in Task => KeyOf(entry[k]) = k
    /\ \A k \in Key : entry[k] \in Key => entry[k] = k
    /\ \A t \in Task : buffer[t] \in Task => KeyOf(buffer[t]) = KeyOf(t)
    /\ \A t \in Task : buffer[t] \in Key => buffer[t] = KeyOf(t)

\* Nobody sees the file of a task before it is renamed.
Hidden(t) == pc[t] \in {"lookup", "compile", "rename", "inplace"} \/ t \in temp
Unseen ==
    \A t \in Task : Hidden(t) => /\ \A k \in Key : entry[k] # t
                                /\ \A u \in Task : buffer[u] # t

\* What is renamed has been written and closed; what localCache writes is the
\* temporary file.
Written ==
    \A t \in Task :
        /\ t \in temp => pc[t] \in {"write", "rename", "killed"}
        /\ pc[t] = "write" => writing[t] # None
        /\ pc[t] = "write" /\ t \in temp => writing[t] = t
        /\ pc[t] = "write" /\ ~legacy => t \in temp
        /\ pc[t] = "inplace" => legacy
        /\ pc[t] = "rename" => content[t] = "whole"

Whole == EntriesAreWhole /\ BuffersStayWhole

\* With localCache, an entry missing at its reload was removed after the rename.
Raced ==
    /\ ~legacy => \A t \in Task : pc[t] = "reload" /\ entry[KeyOf(t)] = None => t \in raced
    /\ LostOnlyToPruning

\* Tasks end before the link goes on, and die with it.
Ends ==
    /\ \A l \in Link : proc[l] \notin {"running", "error"} \cup Crashed =>
          \A t \in TasksOf(l) : pc[t] = "done"
    /\ \A l \in Link : proc[l] = "error" => \A t \in TasksOf(l) : pc[t] \in TaskEnded
    /\ \A l \in Link : proc[l] = "running" => \A t \in TasksOf(l) : pc[t] # "killed"

IInv == Types /\ Own /\ Unseen /\ Written /\ Whole /\ Raced /\ Ends

\* A task has a link and a key, and None, Memory, the files of earlier links and
\* those of the tasks can be told apart.
LEMMA Apart ==
    /\ \A t \in Task : t[1] \in Link /\ KeyOf(t) \in Key /\ t \in TasksOf(t[1])
    /\ \A l \in Link : \A t \in TasksOf(l) : t \in Task /\ t[1] = l
    /\ None # Memory /\ None \notin File /\ Memory \notin File
    /\ Key \cap Task = {}
BY CacheAssumption DEF Task, File, KeyOf, TasksOf

---------------------------------------------------------------------------
(* The steps, one by one *)

\* Every step keeps the types.
LEMMA TypesKept ==
    ASSUME Types, [Next]_vars
    PROVE  Types'
<1> USE Apart DEF Types, TaskLabel, TaskEnded, LinkLabel, LinkEnded, Crashed,
               File, At, Goto, disk, tasks, pruner, history
<1>1. ASSUME NEW t \in Task, TaskStep(t) PROVE Types'
  <2>1. CASE LookUp(t)
    BY <2>1, SMTT(30) DEF LookUp, Open
  <2>2. CASE Compile(t)
    BY <2>2, SMTT(30) DEF Compile
  <2>3. CASE Write(t)
    <3>1. content' \in [File -> {"none", "partial", "whole"}]
      BY <2>3 DEF Write
    <3>2. pc' \in [Task -> TaskLabel] /\ writing' \in [Task -> File \cup {None}]
      BY <2>3 DEF Write
    <3>3. \A u \in Task : pc'[u] = "done" <=> buffer'[u] # None
      BY <2>3 DEF Write
    <3> QED BY <2>3, <3>1, <3>2, <3>3 DEF Write
  <2>4. CASE Rename(t)
    BY <2>4 DEF Rename, Missed
  <2>5. CASE RenameFails(t)
    BY <2>5 DEF RenameFails
  <2>6. CASE WriteInPlace(t)
    BY <2>6 DEF WriteInPlace, Missed
  <2>7. CASE Reload(t)
    BY <2>7 DEF Reload, Open, Stop
  <2>8. CASE Fail(t)
    BY <2>8 DEF Fail, Stop
  <2> QED BY <1>1, <2>1, <2>2, <2>3, <2>4, <2>5, <2>6, <2>7, <2>8 DEF TaskStep
<1>2. ASSUME NEW l \in Link, LinkStep(l) \/ Kill(l) PROVE Types'
  <2>1. CASE Wait(l)
    BY <2>1 DEF Wait
  <2>2. CASE StatFails(l)
    BY <2>2 DEF StatFails
  <2>3. CASE StatTimestamp(l)
    BY <2>3 DEF StatTimestamp
  <2>4. CASE Visit(l)
    BY <2>4 DEF Visit, Count
  <2>5. CASE RemoveExpired(l)
    BY <2>5 DEF RemoveExpired, TryToRemove, Remove
  <2>6. CASE StartShrinking(l)
    BY <2>6 DEF StartShrinking, Stop
  <2>7. CASE Shrink(l)
    BY <2>7 DEF Shrink, TryToRemove, Remove, Largest
  <2>8. CASE Finish(l)
    BY <2>8 DEF Finish
  <2>9. CASE Kill(l)
    BY <2>9 DEF Kill, Stop
  <2> QED BY <1>2, <2>1, <2>2, <2>3, <2>4, <2>5, <2>6, <2>7, <2>8, <2>9 DEF LinkStep
<1>3. CASE UNCHANGED vars
  BY <1>3 DEF vars
<1> QED BY <1>1, <1>2, <1>3 DEF Next

\* A name is only given to a file of its key.
LEMMA OwnKept ==
    ASSUME Types, Own, [Next]_vars
    PROVE  Own'
<1> USE Apart DEF Types, Own, File, At, Goto, disk, tasks, pruner, history
<1>1. ASSUME NEW t \in Task, TaskStep(t) PROVE Own'
  <2>1. CASE LookUp(t)
    BY <2>1, SMTT(30) DEF LookUp, Open
  <2>2. CASE Compile(t)
    BY <2>2 DEF Compile
  <2>3. CASE Write(t)
    BY <2>3 DEF Write
  <2>4. CASE Rename(t)
    BY <2>4 DEF Rename, Missed
  <2>5. CASE RenameFails(t)
    BY <2>5 DEF RenameFails
  <2>6. CASE WriteInPlace(t)
    BY <2>6 DEF WriteInPlace, Missed
  <2>7. CASE Reload(t)
    BY <2>7, SMTT(30) DEF Reload, Open, Stop
  <2>8. CASE Fail(t)
    BY <2>8 DEF Fail, Stop
  <2> QED BY <1>1, <2>1, <2>2, <2>3, <2>4, <2>5, <2>6, <2>7, <2>8 DEF TaskStep
<1>2. ASSUME NEW l \in Link, LinkStep(l) \/ Kill(l) PROVE Own'
  <2>1. CASE Wait(l)
    BY <2>1 DEF Wait
  <2>2. CASE StatFails(l)
    BY <2>2 DEF StatFails
  <2>3. CASE StatTimestamp(l)
    BY <2>3 DEF StatTimestamp
  <2>4. CASE Visit(l)
    BY <2>4 DEF Visit, Count
  <2>5. CASE RemoveExpired(l)
    BY <2>5, SMTT(30) DEF RemoveExpired, TryToRemove, Remove
  <2>6. CASE StartShrinking(l)
    BY <2>6, SMTT(30) DEF StartShrinking, Stop
  <2>7. CASE Shrink(l)
    BY <2>7 DEF Shrink, TryToRemove, Remove, Largest
  <2>8. CASE Finish(l)
    BY <2>8 DEF Finish
  <2>9. CASE Kill(l)
    BY <2>9 DEF Kill, Stop
  <2> QED BY <1>2, <2>1, <2>2, <2>3, <2>4, <2>5, <2>6, <2>7, <2>8, <2>9 DEF LinkStep
<1>3. CASE UNCHANGED vars
  BY <1>3 DEF vars
<1> QED BY <1>1, <1>2, <1>3 DEF Next

\* Only the rename, or a write in place, gives a file a name.
LEMMA UnseenKept ==
    ASSUME Types, Own, Written, Unseen, [Next]_vars
    PROVE  Unseen'
<1> USE Apart DEF Types, Own, Written, Hidden, Unseen, File, At, Goto, disk,
               tasks, pruner, history
<1>1. ASSUME NEW t \in Task, TaskStep(t) PROVE Unseen'
  <2>1. CASE LookUp(t)
    BY <2>1 DEF LookUp, Open
  <2>2. CASE Compile(t)
    BY <2>2 DEF Compile
  <2>3. CASE Write(t)
    BY <2>3 DEF Write
  <2>4. CASE Rename(t)
    BY <2>4 DEF Rename, Missed
  <2>5. CASE RenameFails(t)
    BY <2>5 DEF RenameFails
  <2>6. CASE WriteInPlace(t)
    BY <2>6 DEF WriteInPlace, Missed
  <2>7. CASE Reload(t)
    BY <2>7 DEF Reload, Open, Stop
  <2>8. CASE Fail(t)
    BY <2>8 DEF Fail, Stop
  <2> QED BY <1>1, <2>1, <2>2, <2>3, <2>4, <2>5, <2>6, <2>7, <2>8 DEF TaskStep
<1>2. ASSUME NEW l \in Link, LinkStep(l) \/ Kill(l) PROVE Unseen'
  <2>1. CASE Wait(l)
    BY <2>1 DEF Wait
  <2>2. CASE StatFails(l)
    BY <2>2 DEF StatFails
  <2>3. CASE StatTimestamp(l)
    BY <2>3 DEF StatTimestamp
  <2>4. CASE Visit(l)
    BY <2>4 DEF Visit, Count
  <2>5. CASE RemoveExpired(l)
    BY <2>5 DEF RemoveExpired, TryToRemove, Remove
  <2>6. CASE StartShrinking(l)
    BY <2>6 DEF StartShrinking, Stop
  <2>7. CASE Shrink(l)
    BY <2>7 DEF Shrink, TryToRemove, Remove, Largest
  <2>8. CASE Finish(l)
    BY <2>8 DEF Finish
  <2>9. CASE Kill(l)
    BY <2>9 DEF Kill, Stop
  <2> QED BY <1>2, <2>1, <2>2, <2>3, <2>4, <2>5, <2>6, <2>7, <2>8, <2>9 DEF LinkStep
<1>3. CASE UNCHANGED vars
  BY <1>3 DEF vars
<1> QED BY <1>1, <1>2, <1>3 DEF Next

\* Nobody else writes to the file of a task before it has a name.
LEMMA WrittenKept ==
    ASSUME Types, Own, Unseen, Written, [Next]_vars
    PROVE  Written'
<1> USE Apart DEF Types, Own, Unseen, Hidden, Written, Crashed, File, At, Goto,
               disk, tasks, pruner, history
<1>1. ASSUME NEW t \in Task, TaskStep(t) PROVE Written'
  <2>1. CASE LookUp(t)
    BY <2>1 DEF LookUp, Open
  <2>2. CASE Compile(t)
    BY <2>2 DEF Compile
  <2>3. CASE Write(t)
    BY <2>3 DEF Write
  <2>4. CASE Rename(t)
    BY <2>4 DEF Rename, Missed
  <2>5. CASE RenameFails(t)
    BY <2>5 DEF RenameFails
  <2>6. CASE WriteInPlace(t)
    BY <2>6 DEF WriteInPlace, Missed
  <2>7. CASE Reload(t)
    BY <2>7 DEF Reload, Open, Stop
  <2>8. CASE Fail(t)
    BY <2>8 DEF Fail, Stop
  <2> QED BY <1>1, <2>1, <2>2, <2>3, <2>4, <2>5, <2>6, <2>7, <2>8 DEF TaskStep
<1>2. ASSUME NEW l \in Link, LinkStep(l) \/ Kill(l) PROVE Written'
  <2>1. CASE Wait(l)
    BY <2>1 DEF Wait
  <2>2. CASE StatFails(l)
    BY <2>2 DEF StatFails
  <2>3. CASE StatTimestamp(l)
    BY <2>3 DEF StatTimestamp
  <2>4. CASE Visit(l)
    BY <2>4 DEF Visit, Count
  <2>5. CASE RemoveExpired(l)
    BY <2>5 DEF RemoveExpired, TryToRemove, Remove
  <2>6. CASE StartShrinking(l)
    BY <2>6 DEF StartShrinking, Stop
  <2>7. CASE Shrink(l)
    BY <2>7 DEF Shrink, TryToRemove, Remove, Largest
  <2>8. CASE Finish(l)
    BY <2>8 DEF Finish
  <2>9. CASE Kill(l)
    BY <2>9 DEF Kill, Stop
  <2> QED BY <1>2, <2>1, <2>2, <2>3, <2>4, <2>5, <2>6, <2>7, <2>8, <2>9 DEF LinkStep
<1>3. CASE UNCHANGED vars
  BY <1>3 DEF vars
<1> QED BY <1>1, <1>2, <1>3 DEF Next

\* A name is given to a whole file, and what has a name is only truncated in place.
LEMMA WholeKept ==
    ASSUME Types, Own, Unseen, Written, Whole, [Next]_vars
    PROVE  Whole'
<1> USE Apart DEF Types, Own, Unseen, Hidden, Written, Whole, EntriesAreWhole,
               BuffersStayWhole, File, At, Goto, disk, tasks, pruner, history
<1>1. ASSUME NEW t \in Task, TaskStep(t) PROVE Whole'
  <2>1. CASE LookUp(t)
    BY <2>1 DEF LookUp, Open
  <2>2. CASE Compile(t)
    BY <2>2 DEF Compile
  <2>3. CASE Write(t)
    BY <2>3 DEF Write
  <2>4. CASE Rename(t)
    BY <2>4 DEF Rename, Missed
  <2>5. CASE RenameFails(t)
    BY <2>5 DEF RenameFails
  <2>6. CASE WriteInPlace(t)
    BY <2>6 DEF WriteInPlace, Missed
  <2>7. CASE Reload(t)
    BY <2>7 DEF Reload, Open, Stop
  <2>8. CASE Fail(t)
    BY <2>8 DEF Fail, Stop
  <2> QED BY <1>1, <2>1, <2>2, <2>3, <2>4, <2>5, <2>6, <2>7, <2>8 DEF TaskStep
<1>2. ASSUME NEW l \in Link, LinkStep(l) \/ Kill(l) PROVE Whole'
  <2>1. CASE Wait(l)
    BY <2>1 DEF Wait
  <2>2. CASE StatFails(l)
    BY <2>2 DEF StatFails
  <2>3. CASE StatTimestamp(l)
    BY <2>3 DEF StatTimestamp
  <2>4. CASE Visit(l)
    BY <2>4 DEF Visit, Count
  <2>5. CASE RemoveExpired(l)
    BY <2>5 DEF RemoveExpired, TryToRemove, Remove
  <2>6. CASE StartShrinking(l)
    BY <2>6 DEF StartShrinking, Stop
  <2>7. CASE Shrink(l)
    BY <2>7 DEF Shrink, TryToRemove, Remove, Largest
  <2>8. CASE Finish(l)
    BY <2>8 DEF Finish
  <2>9. CASE Kill(l)
    BY <2>9 DEF Kill, Stop
  <2> QED BY <1>2, <2>1, <2>2, <2>3, <2>4, <2>5, <2>6, <2>7, <2>8, <2>9 DEF LinkStep
<1>3. CASE UNCHANGED vars
  BY <1>3 DEF vars
<1> QED BY <1>1, <1>2, <1>3 DEF Next

\* Whoever removes an entry that a task is about to reload has raced it.
LEMMA RacedKept ==
    ASSUME Types, Written, Raced, [Next]_vars
    PROVE  Raced'
<1> USE Apart DEF Types, Written, Raced, LostOnlyToPruning, LinkEnded, File, At,
               Goto, disk, tasks, pruner, history
<1>1. ASSUME NEW t \in Task, TaskStep(t) PROVE Raced'
  <2>1. CASE LookUp(t)
    BY <2>1 DEF LookUp, Open
  <2>2. CASE Compile(t)
    BY <2>2 DEF Compile
  <2>3. CASE Write(t)
    BY <2>3 DEF Write
  <2>4. CASE Rename(t)
    BY <2>4 DEF Rename, Missed
  <2>5. CASE RenameFails(t)
    BY <2>5 DEF RenameFails
  <2>6. CASE WriteInPlace(t)
    BY <2>6 DEF WriteInPlace, Missed
  <2>7. CASE Reload(t)
    BY <2>7 DEF Reload, Open, Stop
  <2>8. CASE Fail(t)
    BY <2>8 DEF Fail, Stop
  <2> QED BY <1>1, <2>1, <2>2, <2>3, <2>4, <2>5, <2>6, <2>7, <2>8 DEF TaskStep
<1>2. ASSUME NEW l \in Link, LinkStep(l) \/ Kill(l) PROVE Raced'
  <2>1. CASE Wait(l)
    BY <2>1 DEF Wait
  <2>2. CASE StatFails(l)
    BY <2>2 DEF StatFails
  <2>3. CASE StatTimestamp(l)
    BY <2>3 DEF StatTimestamp
  <2>4. CASE Visit(l)
    BY <2>4 DEF Visit, Count
  <2>5. CASE RemoveExpired(l)
    BY <2>5 DEF RemoveExpired, TryToRemove, Remove
  <2>6. CASE StartShrinking(l)
    BY <2>6 DEF StartShrinking, Stop
  <2>7. CASE Shrink(l)
    BY <2>7 DEF Shrink, TryToRemove, Remove, Largest
  <2>8. CASE Finish(l)
    BY <2>8 DEF Finish
  <2>9. CASE Kill(l)
    BY <2>9 DEF Kill, Stop
  <2> QED BY <1>2, <2>1, <2>2, <2>3, <2>4, <2>5, <2>6, <2>7, <2>8, <2>9 DEF LinkStep
<1>3. CASE UNCHANGED vars
  BY <1>3 DEF vars
<1> QED BY <1>1, <1>2, <1>3 DEF Next

\* A link waits for all of its tasks.
LEMMA EndsKept ==
    ASSUME Types, Ends, [Next]_vars
    PROVE  Ends'
<1> USE Apart DEF Types, Ends, TaskLabel, TaskEnded, LinkLabel, LinkEnded,
               Crashed, File, At, Goto, disk, tasks, pruner, history
<1>1. ASSUME NEW t \in Task, TaskStep(t) PROVE Ends'
  <2>1. CASE LookUp(t)
    BY <2>1 DEF LookUp, Open
  <2>2. CASE Compile(t)
    BY <2>2 DEF Compile
  <2>3. CASE Write(t)
    BY <2>3 DEF Write
  <2>4. CASE Rename(t)
    BY <2>4 DEF Rename, Missed
  <2>5. CASE RenameFails(t)
    BY <2>5 DEF RenameFails
  <2>6. CASE WriteInPlace(t)
    BY <2>6 DEF WriteInPlace, Missed
  <2>7. CASE Reload(t)
    BY <2>7, SMTT(30) DEF Reload, Open, Stop
  <2>8. CASE Fail(t)
    BY <2>8 DEF Fail, Stop
  <2> QED BY <1>1, <2>1, <2>2, <2>3, <2>4, <2>5, <2>6, <2>7, <2>8 DEF TaskStep
<1>2. ASSUME NEW l \in Link, LinkStep(l) \/ Kill(l) PROVE Ends'
  <2>1. CASE Wait(l)
    BY <2>1 DEF Wait
  <2>2. CASE StatFails(l)
    BY <2>2 DEF StatFails
  <2>3. CASE StatTimestamp(l)
    BY <2>3 DEF StatTimestamp
  <2>4. CASE Visit(l)
    BY <2>4 DEF Visit, Count
  <2>5. CASE RemoveExpired(l)
    BY <2>5 DEF RemoveExpired, TryToRemove, Remove
  <2>6. CASE StartShrinking(l)
    BY <2>6, SMTT(30) DEF StartShrinking, Stop
  <2>7. CASE Shrink(l)
    BY <2>7 DEF Shrink, TryToRemove, Remove, Largest
  <2>8. CASE Finish(l)
    BY <2>8 DEF Finish
  <2>9. CASE Kill(l)
    BY <2>9 DEF Kill, Stop
  <2> QED BY <1>2, <2>1, <2>2, <2>3, <2>4, <2>5, <2>6, <2>7, <2>8, <2>9 DEF LinkStep
<1>3. CASE UNCHANGED vars
  BY <1>3 DEF vars
<1> QED BY <1>1, <1>2, <1>3 DEF Next

---------------------------------------------------------------------------
(* The theorems *)

LEMMA InitInv == Init => IInv
<1> SUFFICES ASSUME Init PROVE IInv
  OBVIOUS
<1> USE Apart, CacheAssumption DEF Init, File, TaskLabel, TaskEnded, LinkLabel, LinkEnded, Crashed
<1>1. Types
  BY DEF Types
<1>2. Own /\ Unseen /\ Written
  BY DEF Own, Unseen, Hidden, Written
<1>3. Whole /\ Raced /\ Ends
  BY DEF Whole, EntriesAreWhole, BuffersStayWhole, Raced, LostOnlyToPruning, Ends
<1> QED BY <1>1, <1>2, <1>3 DEF IInv

LEMMA NextInv == IInv /\ [Next]_vars => IInv'
BY TypesKept, OwnKept, UnseenKept, WrittenKept, WholeKept, RacedKept, EndsKept DEF IInv

\* The inductive invariant holds in every reachable state.
THEOREM Invariance == Spec => []IInv
BY InitInv, NextInv, PTL DEF Spec

\* No link ever finds an incomplete object in the cache, except one that another
\* link wrote in place.  (the temporary file and rename of localCache and write)
THEOREM EntriesAlwaysWhole == Spec => []EntriesAreWhole
<1>1. IInv => EntriesAreWhole
  BY DEF IInv, Whole
<1> QED BY <1>1, Invariance, PTL

\* An object a link has mapped is not changed under it.
THEOREM BuffersAlwaysWhole == Spec => []BuffersStayWhole
<1>1. IInv => BuffersStayWhole
  BY DEF IInv, Whole
<1> QED BY <1>1, Invariance, PTL

\* Only a pruneCache between the rename and the reload takes an object away from
\* the link that made it.  (the FIXME of ~CacheStream)
THEOREM LossNeedsPruning == Spec => []LostOnlyToPruning
<1>1. IInv => LostOnlyToPruning
  BY DEF IInv, Raced
<1> QED BY <1>1, Invariance, PTL

\* A link whose wait reports no error has an object for each of its modules.
THEOREM SuccessIsComplete == Spec => []SuccessMeansObjects
<1>1. IInv => SuccessMeansObjects
  BY Apart DEF IInv, Types, Ends, SuccessMeansObjects
<1> QED BY <1>1, Invariance, PTL

\* Links that end in any way but a crash remove or rename their temporary files.
THEOREM NoTempEverLeft == Spec => []NoTempLeft
<1>1. IInv => NoTempLeft
  <2> SUFFICES ASSUME IInv, NEW t \in temp PROVE proc[t[1]] \in {"running"} \cup Crashed
    BY DEF NoTempLeft
  <2>1. t \in Task /\ pc[t] \in {"write", "rename", "killed"} /\ t \in TasksOf(t[1])
    BY Apart DEF IInv, Types, Written
  <2> QED BY <2>1, Apart DEF IInv, Types, Ends, TaskEnded
<1> QED BY <1>1, Invariance, PTL

---------------------------------------------------------------------------
(* Sums.  MapThenSumSet adds the sizes up in an order it chooses; what it   *)
(* adds up to does not depend on it.                                        *)

Below == {ss \in Nat \X Nat : ss[1] < ss[2]}

\* Induction over a set of numbers, which needs no operator as a parameter.
LEMMA SetInduction ==
    ASSUME NEW T, 0 \in T, \A n \in Nat : n \in T => n + 1 \in T
    PROVE  Nat \subseteq T
<1> SUFFICES ASSUME Nat \ T # {} PROVE FALSE
  OBVIOUS
<1>1. IsWellFoundedOn(Below, Nat)
  BY NatLessThanWellFounded, Zenon DEF OpToRel, Below
<1>2. PICK x \in Nat \ T : \A y \in Nat \ T : ~ (<<y, x>> \in Below)
  BY <1>1, WFMin, Zenon
<1>3. \A y \in Nat \ T : ~ (y < x)
  BY <1>2 DEF Below
<1>4. x # 0 /\ x - 1 \in Nat /\ x - 1 < x /\ (x - 1) + 1 = x
  BY <1>2
<1> QED BY <1>2, <1>3, <1>4

\* The element MapThenSumSet takes next.
Chosen(K) == CHOOSE k \in K : TRUE

\* The recursion of MapThenSumSet, over the subsets of K.
Sums(f, g, K) == g = [s \in SUBSET K |-> IF s = {} THEN 0 ELSE f[Chosen(s)] + g[s \ {Chosen(s)}]]

LEMMA BytesSums ==
    ASSUME NEW f, NEW K
    PROVE  Bytes(f, K) = (CHOOSE g : Sums(f, g, K))[K]
BY Zenon DEF Bytes, MapThenSumSet, MapThenFoldSet, Sums, Chosen

LEMMA ChosenFacts ==
    ASSUME NEW K \in SUBSET Key, K # {}
    PROVE  /\ Chosen(K) \in K /\ K \ {Chosen(K)} \in SUBSET Key
           /\ IsFiniteSet(K) /\ Cardinality(K) \in Nat
           /\ Cardinality(K \ {Chosen(K)}) = Cardinality(K) - 1
<1>1. Chosen(K) \in K
  BY DEF Chosen
<1>2. IsFiniteSet(K)
  BY CacheAssumption, FS_Subset
<1> QED BY <1>1, <1>2, FS_RemoveElement, FS_CardinalityType

\* Two sums over the same sets agree.
LEMMA SumsUnique ==
    ASSUME NEW f \in [Key -> Nat], NEW K \in SUBSET Key, NEW g, NEW h, Sums(f, g, K), Sums(f, h, K)
    PROVE  \A s \in SUBSET K : g[s] = h[s]
<1> DEFINE T == {n \in Nat : \A s \in SUBSET K : Cardinality(s) = n => g[s] = h[s]}
<1>1. ASSUME NEW s \in SUBSET K
      PROVE  g[s] = (IF s = {} THEN 0 ELSE f[Chosen(s)] + g[s \ {Chosen(s)}])
             /\ h[s] = (IF s = {} THEN 0 ELSE f[Chosen(s)] + h[s \ {Chosen(s)}])
  BY Zenon DEF Sums
<1>2. 0 \in T
  <2>1. ASSUME NEW s \in SUBSET K, Cardinality(s) = 0 PROVE s = {}
    BY <2>1, CacheAssumption, FS_Subset, FS_EmptySet
  <2> QED BY <1>1, <2>1
<1>3. ASSUME NEW n \in Nat, n \in T PROVE n + 1 \in T
  <2>1. ASSUME NEW s \in SUBSET K, Cardinality(s) = n + 1 PROVE g[s] = h[s]
    <3>1. s # {}
      BY <2>1, FS_EmptySet
    <3>2. /\ s \ {Chosen(s)} \in SUBSET K /\ Cardinality(s \ {Chosen(s)}) = n
      BY <2>1, <3>1, ChosenFacts
    <3>3. g[s \ {Chosen(s)}] = h[s \ {Chosen(s)}]
      BY <1>3, <3>2
    <3> QED BY <1>1, <3>1, <3>3
  <2> QED BY <2>1
<1> HIDE DEF T
<1>4. Nat \subseteq T
  BY <1>2, <1>3, SetInduction
<1>5. ASSUME NEW s \in SUBSET K PROVE Cardinality(s) \in Nat
  BY CacheAssumption, FS_Subset, FS_CardinalityType
<1> QED BY <1>4, <1>5 DEF T

\* There is a sum of all subsets of Key.
LEMMA SumsExist ==
    ASSUME NEW f \in [Key -> Nat]
    PROVE  \E g : Sums(f, g, Key)
<1> DEFINE Step(g, s) == IF s = {} THEN 0 ELSE f[Chosen(s)] + g[s \ {Chosen(s)}]
           Upto(g, n) == \A s \in SUBSET Key : Cardinality(s) <= n => g[s] = Step(g, s)
           T == {n \in Nat : \E g : Upto(g, n)}
<1>1. 0 \in T
  <2> DEFINE g == [s \in SUBSET Key |-> 0]
  <2>1. ASSUME NEW s \in SUBSET Key, Cardinality(s) <= 0 PROVE g[s] = Step(g, s)
    <3>1. s = {}
      BY <2>1, CacheAssumption, FS_Subset, FS_EmptySet, FS_CardinalityType
    <3> QED BY <3>1
  <2>2. Upto(g, 0)
    BY <2>1
  <2> HIDE DEF Upto
  <2> QED BY <2>2
<1>2. ASSUME NEW n \in Nat, n \in T PROVE n + 1 \in T
  <2>1. PICK g : Upto(g, n)
    BY <1>2
  <2> DEFINE h == [s \in SUBSET Key |-> Step(g, s)]
  <2>2. \A s \in SUBSET Key : h[s] = Step(g, s)
    OBVIOUS
  <2> HIDE DEF h
  <2>3. ASSUME NEW s \in SUBSET Key, Cardinality(s) <= n + 1 PROVE h[s] = Step(h, s)
    <3>1. CASE s = {}
      BY <2>2, <3>1
    <3>2. CASE s # {}
      <4>1. /\ s \ {Chosen(s)} \in SUBSET Key /\ Cardinality(s) \in Nat
            /\ Cardinality(s \ {Chosen(s)}) = Cardinality(s) - 1
        BY <3>2, ChosenFacts
      <4>2. Cardinality(s \ {Chosen(s)}) <= n
        BY <2>3, <4>1
      <4>3. g[s \ {Chosen(s)}] = Step(g, s \ {Chosen(s)})
        BY <2>1, <4>1, <4>2
      <4>4. h[s \ {Chosen(s)}] = g[s \ {Chosen(s)}]
        BY <2>2, <4>1, <4>3
      <4> QED BY <2>2, <3>2, <4>4
    <3> QED BY <3>1, <3>2
  <2>4. Upto(h, n + 1)
    BY <2>3
  <2> HIDE DEF Upto
  <2> QED BY <2>4
<1> HIDE DEF T
<1>3. Nat \subseteq T
  BY <1>1, <1>2, SetInduction
<1>4. Cardinality(Key) \in Nat
  BY CacheAssumption, FS_CardinalityType
<1>5. PICK g : Upto(g, Cardinality(Key))
  BY <1>3, <1>4 DEF T
<1>6. ASSUME NEW s \in SUBSET Key PROVE g[s] = Step(g, s)
  <2>1. Cardinality(s) <= Cardinality(Key)
    BY CacheAssumption, FS_Subset
  <2> QED BY <1>5, <2>1
<1> DEFINE h == [s \in SUBSET Key |-> g[s]]
<1>7. \A s \in SUBSET Key : h[s] = g[s] /\ (s # {} => s \ {Chosen(s)} \in SUBSET Key)
  OBVIOUS
<1>8. \A s \in SUBSET Key : Step(g, s) = Step(h, s)
  BY <1>7
<1>9. h = [s \in SUBSET Key |-> Step(h, s)]
  BY <1>6, <1>8
<1>10. Sums(f, h, Key)
  BY <1>9 DEF Sums
<1> QED BY <1>10

\* Bytes satisfies the recursion itself.
LEMMA BytesRecursion ==
    ASSUME NEW f \in [Key -> Nat], NEW K \in SUBSET Key
    PROVE  Bytes(f, K) = IF K = {} THEN 0 ELSE f[Chosen(K)] + Bytes(f, K \ {Chosen(K)})
<1>1. PICK g : Sums(f, g, Key)
  BY SumsExist
<1>2. \A s \in SUBSET Key : g[s] = IF s = {} THEN 0 ELSE f[Chosen(s)] + g[s \ {Chosen(s)}]
  BY <1>1, Zenon DEF Sums
<1>3. ASSUME NEW L \in SUBSET Key PROVE Bytes(f, L) = g[L]
  <2> DEFINE h == [s \in SUBSET L |-> g[s]]
  <2>1. \A s \in SUBSET L : s \in SUBSET Key /\ h[s] = g[s]
                            /\ (s # {} => s \ {Chosen(s)} \in SUBSET L)
    OBVIOUS
  <2>2. \A s \in SUBSET L : h[s] = IF s = {} THEN 0 ELSE f[Chosen(s)] + h[s \ {Chosen(s)}]
    BY <1>2, <2>1
  <2>3. Sums(f, h, L)
    BY <2>2 DEF Sums
  <2> HIDE DEF h
  <2>4. Sums(f, CHOOSE e : Sums(f, e, L), L)
    BY <2>3, Zenon
  <2>5. (CHOOSE e : Sums(f, e, L))[L] = h[L]
    BY <2>3, <2>4, SumsUnique
  <2> QED BY <2>1, <2>5, BytesSums
<1>4. K \ {Chosen(K)} \in SUBSET Key
  OBVIOUS
<1> QED BY <1>2, <1>3, <1>4

LEMMA BytesEmpty ==
    ASSUME NEW f \in [Key -> Nat]
    PROVE  Bytes(f, {}) = 0
BY BytesRecursion

LEMMA BytesNat ==
    ASSUME NEW f \in [Key -> Nat], NEW K \in SUBSET Key
    PROVE  Bytes(f, K) \in Nat
<1> DEFINE T == {n \in Nat : \A s \in SUBSET Key : Cardinality(s) = n => Bytes(f, s) \in Nat}
<1>1. 0 \in T
  <2>1. ASSUME NEW s \in SUBSET Key, Cardinality(s) = 0 PROVE Bytes(f, s) \in Nat
    <3>1. s = {}
      BY <2>1, CacheAssumption, FS_Subset, FS_EmptySet
    <3> QED BY <3>1, BytesEmpty
  <2> QED BY <2>1
<1>2. ASSUME NEW n \in Nat, n \in T PROVE n + 1 \in T
  <2>1. ASSUME NEW s \in SUBSET Key, Cardinality(s) = n + 1 PROVE Bytes(f, s) \in Nat
    <3>1. s # {}
      BY <2>1, FS_EmptySet
    <3>2. /\ s \ {Chosen(s)} \in SUBSET Key /\ Cardinality(s \ {Chosen(s)}) = n
          /\ Chosen(s) \in s
      BY <2>1, <3>1, ChosenFacts
    <3>3. Bytes(f, s \ {Chosen(s)}) \in Nat /\ f[Chosen(s)] \in Nat
      BY <1>2, <3>2, CacheAssumption
    <3>4. Bytes(f, s) = f[Chosen(s)] + Bytes(f, s \ {Chosen(s)})
      BY <3>1, BytesRecursion
    <3> QED BY <3>3, <3>4
  <2> QED BY <2>1
<1> HIDE DEF T
<1>3. Nat \subseteq T
  BY <1>1, <1>2, SetInduction
<1>4. Cardinality(K) \in Nat
  BY CacheAssumption, FS_Subset, FS_CardinalityType
<1> QED BY <1>3, <1>4 DEF T

\* Any element may be taken first.
LEMMA BytesRemove ==
    ASSUME NEW f \in [Key -> Nat], NEW K \in SUBSET Key, NEW k \in K
    PROVE  Bytes(f, K) = f[k] + Bytes(f, K \ {k})
<1> DEFINE Any(s) == \A x \in s : Bytes(f, s) = f[x] + Bytes(f, s \ {x})
           T == {n \in Nat : \A s \in SUBSET Key : Cardinality(s) = n => Any(s)}
<1>1. 0 \in T
  <2>1. ASSUME NEW s \in SUBSET Key, Cardinality(s) = 0 PROVE s = {}
    BY <2>1, CacheAssumption, FS_Subset, FS_EmptySet
  <2> QED BY <2>1
<1>2. ASSUME NEW n \in Nat, n \in T PROVE n + 1 \in T
  <2>1. ASSUME NEW s \in SUBSET Key, Cardinality(s) = n + 1, NEW x \in s
        PROVE  Bytes(f, s) = f[x] + Bytes(f, s \ {x})
    <3> DEFINE c == Chosen(s)
    <3>1. /\ s \ {c} \in SUBSET Key /\ Cardinality(s \ {c}) = n /\ c \in s
          /\ IsFiniteSet(s)
      BY <2>1, ChosenFacts
    <3>2. Bytes(f, s) = f[c] + Bytes(f, s \ {c})
      BY BytesRecursion
    <3> HIDE DEF c
    <3>3. CASE x = c
      BY <3>2, <3>3
    <3>4. CASE x # c
      <4>1. Cardinality(s \ {x}) = n /\ s \ {x} \in SUBSET Key
        BY <2>1, <3>1, FS_RemoveElement
      <4>2. x \in s \ {c} /\ c \in s \ {x} /\ (s \ {c}) \ {x} = (s \ {x}) \ {c}
        BY <3>1, <3>4
      <4>3. Bytes(f, s \ {c}) = f[x] + Bytes(f, (s \ {c}) \ {x})
        BY <1>2, <3>1, <4>2
      <4>4. Bytes(f, s \ {x}) = f[c] + Bytes(f, (s \ {x}) \ {c})
        BY <1>2, <4>1, <4>2
      <4>5. (s \ {c}) \ {x} \in SUBSET Key /\ x \in Key /\ c \in Key
        BY <3>1
      <4>6. Bytes(f, (s \ {c}) \ {x}) \in Nat /\ f[x] \in Nat /\ f[c] \in Nat
        BY <4>5, BytesNat, CacheAssumption
      <4>7. Bytes(f, s) = f[c] + (f[x] + Bytes(f, (s \ {c}) \ {x}))
        BY <3>2, <4>3
      <4>8. Bytes(f, s \ {x}) = f[c] + Bytes(f, (s \ {c}) \ {x})
        BY <4>2, <4>4
      <4> HIDE DEF Any, T
      <4> QED BY <4>6, <4>7, <4>8
    <3> QED BY <3>3, <3>4
  <2> QED BY <2>1
<1> HIDE DEF T
<1>3. Nat \subseteq T
  BY <1>1, <1>2, SetInduction
<1>4. Cardinality(K) \in Nat
  BY CacheAssumption, FS_Subset, FS_CardinalityType
<1> QED BY <1>3, <1>4 DEF T

\* Fewer entries are no larger.
LEMMA BytesSubset ==
    ASSUME NEW f \in [Key -> Nat], NEW K \in SUBSET Key, NEW L \in SUBSET K
    PROVE  Bytes(f, L) <= Bytes(f, K)
<1> DEFINE T == {n \in Nat : \A s \in SUBSET Key : Cardinality(s) = n =>
                                 \A r \in SUBSET s : Bytes(f, r) <= Bytes(f, s)}
<1>1. 0 \in T
  <2>1. ASSUME NEW s \in SUBSET Key, Cardinality(s) = 0, NEW r \in SUBSET s
        PROVE  Bytes(f, r) <= Bytes(f, s)
    <3>1. s = {} /\ r = {}
      BY <2>1, CacheAssumption, FS_Subset, FS_EmptySet
    <3> QED BY <3>1, BytesEmpty
  <2> QED BY <2>1
<1>2. ASSUME NEW n \in Nat, n \in T PROVE n + 1 \in T
  <2>1. ASSUME NEW s \in SUBSET Key, Cardinality(s) = n + 1, NEW r \in SUBSET s
        PROVE  Bytes(f, r) <= Bytes(f, s)
    <3>1. Bytes(f, s) \in Nat /\ IsFiniteSet(s)
      BY BytesNat, CacheAssumption, FS_Subset
    <3>2. CASE r = s
      BY <3>1, <3>2
    <3>3. CASE r # s
      <4>1. PICK x \in s : x \notin r
        BY <3>3
      <4>2. s \ {x} \in SUBSET Key /\ r \in SUBSET (s \ {x}) /\ r \in SUBSET Key /\ x \in Key
        BY <4>1
      <4>3. Cardinality(s \ {x}) = n
        <5>1. Cardinality(s \ {x}) = Cardinality(s) - 1
          BY <3>1, <4>1, FS_RemoveElement
        <5> QED BY <2>1, <5>1
      <4>4. Bytes(f, r) <= Bytes(f, s \ {x})
        BY <1>2, <4>2, <4>3
      <4>5. Bytes(f, s) = f[x] + Bytes(f, s \ {x})
        BY BytesRemove
      <4>6. Bytes(f, s \ {x}) \in Nat /\ Bytes(f, r) \in Nat /\ f[x] \in Nat
        BY <4>2, BytesNat, CacheAssumption
      <4> QED BY <4>4, <4>5, <4>6
    <3> QED BY <3>2, <3>3
  <2> QED BY <2>1
<1> HIDE DEF T
<1>3. Nat \subseteq T
  BY <1>1, <1>2, SetInduction
<1>4. Cardinality(K) \in Nat
  BY CacheAssumption, FS_Subset, FS_CardinalityType
<1> QED BY <1>3, <1>4 DEF T

\* Sizes that agree on a set have the same sum over it.
LEMMA BytesSame ==
    ASSUME NEW f \in [Key -> Nat], NEW g \in [Key -> Nat], NEW K \in SUBSET Key,
           \A k \in K : f[k] = g[k]
    PROVE  Bytes(f, K) = Bytes(g, K)
<1> DEFINE T == {n \in Nat : \A s \in SUBSET K : Cardinality(s) = n => Bytes(f, s) = Bytes(g, s)}
<1>1. 0 \in T
  <2>1. ASSUME NEW s \in SUBSET K, Cardinality(s) = 0 PROVE Bytes(f, s) = Bytes(g, s)
    <3>1. s = {}
      BY <2>1, CacheAssumption, FS_Subset, FS_EmptySet
    <3> QED BY <3>1, BytesEmpty
  <2> QED BY <2>1
<1>2. ASSUME NEW n \in Nat, n \in T PROVE n + 1 \in T
  <2>1. ASSUME NEW s \in SUBSET K, Cardinality(s) = n + 1 PROVE Bytes(f, s) = Bytes(g, s)
    <3>1. s # {} /\ s \in SUBSET Key
      BY <2>1, FS_EmptySet
    <3>2. /\ Cardinality(s \ {Chosen(s)}) = n /\ Chosen(s) \in s
          /\ s \ {Chosen(s)} \in SUBSET K
      <4>1. /\ Cardinality(s \ {Chosen(s)}) = Cardinality(s) - 1 /\ Chosen(s) \in s
        BY <3>1, ChosenFacts
      <4> QED BY <2>1, <4>1
    <3>3. Bytes(f, s \ {Chosen(s)}) = Bytes(g, s \ {Chosen(s)}) /\ f[Chosen(s)] = g[Chosen(s)]
      BY <1>2, <3>2
    <3>4. Bytes(f, s) = f[Chosen(s)] + Bytes(f, s \ {Chosen(s)})
      BY <3>1, BytesRecursion
    <3>5. Bytes(g, s) = g[Chosen(s)] + Bytes(g, s \ {Chosen(s)})
      BY <3>1, BytesRecursion
    <3> QED BY <3>3, <3>4, <3>5
  <2> QED BY <2>1
<1> HIDE DEF T
<1>3. Nat \subseteq T
  BY <1>1, <1>2, SetInduction
<1>4. Cardinality(K) \in Nat
  BY CacheAssumption, FS_Subset, FS_CardinalityType
<1> QED BY <1>3, <1>4 DEF T

\* The sizes of entries, in particular.
LEMMA SizeOfFacts ==
    ASSUME NEW K \in SUBSET Key
    PROVE  SizeOf(K) \in Nat /\ \A L \in SUBSET K : SizeOf(L) \in Nat /\ SizeOf(L) <= SizeOf(K)
<1>1. Size \in [Key -> Nat] /\ \A L \in SUBSET K : L \in SUBSET Key
  BY CacheAssumption
<1> QED BY <1>1, BytesNat, BytesSubset DEF SizeOf

---------------------------------------------------------------------------
(* What pruneCache has in hand *)

Present == {k \in Key : entry[k] # None}

\* Unless it missed something, a pruneCache has every entry in front of it: still
\* to visit, about to be removed, or counted with its size.
Counts(l) ==
    /\ total[l] = Bytes(seen[l], kept[l])
    /\ l \notin missed => \A k \in kept[l] : seen[l][k] = Size[k]
    /\ proc[l] \in {"running", "prune"} => kept[l] = {}
    /\ proc[l] \in {"running", "prune", "walk"} => victim[l] = None
    /\ proc[l] = "remove" => victim[l] \in Key
    /\ proc[l] \in {"walk", "remove"} =>
          /\ kept[l] \cap todo[l] = {}
          /\ l \notin missed => Present \subseteq kept[l] \cup todo[l] \cup {victim[l]}
    /\ proc[l] = "shrink" /\ l \notin missed => Present \subseteq kept[l]
    /\ proc[l] = "success" /\ l \notin missed => SizeOf(Present) <= MaxBytes

Counted == \A l \in Link : Counts(l)

Pruning == {"walk", "remove", "shrink", "success"}

\* A link that does not prune in a step counts right after it, if no entry was
\* added that it missed.
LEMMA Bystander ==
    ASSUME NEW l \in Link, Counts(l),
           UNCHANGED <<total[l], kept[l], seen[l], todo[l], victim[l]>>,
           proc'[l] = proc[l] \/ proc'[l] \in Crashed \cup {"error", "unpruned"}
               \/ (proc[l] = "running" /\ proc'[l] = "prune"),
           l \in missed => l \in missed',
           Present' \subseteq Present \/ (proc[l] \in Pruning => l \in missed')
    PROVE  Counts(l)'
<1>1. CASE proc'[l] # proc[l]
  BY <1>1 DEF Counts, Crashed
<1>2. CASE proc'[l] = proc[l] /\ proc[l] \notin Pruning
  BY <1>2 DEF Counts, Pruning
<1>3. CASE proc'[l] = proc[l] /\ proc[l] \in Pruning /\ l \in missed'
  BY <1>3 DEF Counts, Pruning
<1>4. CASE proc'[l] = proc[l] /\ Present' \subseteq Present
  <2>1. Present \in SUBSET Key
    BY DEF Present
  <2>2. SizeOf(Present') <= SizeOf(Present) /\ SizeOf(Present) \in Nat /\ SizeOf(Present') \in Nat
    BY <1>4, <2>1, SizeOfFacts
  <2>3. SizeOf(Present) <= MaxBytes => SizeOf(Present') <= MaxBytes
    BY <2>2, CacheAssumption
  <2> QED BY <1>4, <2>3 DEF Counts
<1> QED BY <1>1, <1>2, <1>3, <1>4

\* Only pruneCache counts, and what it counts is a size.
LEMMA SizesKept ==
    ASSUME Types, Sizes, [Next]_vars
    PROVE  Sizes'
<1>1. CASE UNCHANGED vars
  BY <1>1 DEF vars, Sizes
<1>2. ASSUME NEW t \in Task, TaskStep(t) PROVE Sizes'
  <2>1. UNCHANGED <<seen, total>>
    BY <1>2 DEF TaskStep, LookUp, Compile, Write, Rename, RenameFails, WriteInPlace,
                Reload, Fail, pruner
  <2> QED BY <2>1 DEF Sizes
<1>3. ASSUME NEW l \in Link, LinkStep(l) \/ Kill(l) PROVE Sizes'
  <2>1. CASE UNCHANGED <<seen, total>>
    BY <2>1 DEF Sizes
  <2>2. CASE Visit(l)
    <3>1. PICK k \in todo[l] :
              \/ UNCHANGED <<seen, total>>
              \/ \E size \in SizesOf(entry[k], k) : Count(l, k, size)
      BY <2>2 DEF Visit
    <3>2. ASSUME NEW size \in SizesOf(entry[k], k), Count(l, k, size) PROVE Sizes'
      <4>1. size \in Nat /\ k \in Key
        BY CacheAssumption DEF SizesOf, Types
      <4>2. [seen[l] EXCEPT ![k] = size] \in [Key -> Nat] /\ total[l] + size \in Int
        BY <4>1 DEF Sizes
      <4> QED BY <3>2, <4>2 DEF Count, Sizes
    <3> QED BY <2>1, <3>1, <3>2
  <2>3. CASE Shrink(l)
    <3>1. PICK k \in kept[l] : total' = [total EXCEPT ![l] = @ - seen[l][k]]
      BY <2>3 DEF Shrink, Largest
    <3>2. total[l] - seen[l][k] \in Int
      BY DEF Sizes, Types
    <3> QED BY <2>3, <3>1, <3>2 DEF Shrink, Sizes
  <2>4. CASE Finish(l)
    BY <2>4 DEF Finish, Sizes
  <2> QED BY <1>3, <2>1, <2>2, <2>3, <2>4 DEF LinkStep, Kill, Wait, StatFails, StatTimestamp,
                                              RemoveExpired, StartShrinking, pruner
<1> QED BY <1>1, <1>2, <1>3 DEF Next

LEMMA CountedKept ==
    ASSUME Types, Sizes, Counted, [Next]_vars
    PROVE  Counted'
<1>1. CASE UNCHANGED vars
  <2>1. Present' = Present /\ UNCHANGED <<total, kept, seen, todo, victim, proc, missed>>
    BY <1>1 DEF vars, Present
  <2> QED BY <2>1, Bystander DEF Counted
<1>2. ASSUME NEW t \in Task, TaskStep(t) PROVE Counted'
  <2> SUFFICES ASSUME NEW l \in Link PROVE Counts(l)'
    BY DEF Counted
  <2>1. Counts(l) /\ UNCHANGED <<total, kept, seen, todo, victim>>
    BY <1>2 DEF Counted, TaskStep, LookUp, Compile, Write, Rename, RenameFails, WriteInPlace,
                Reload, Fail, pruner
  <2>2. CASE LookUp(t) \/ Compile(t) \/ Write(t) \/ RenameFails(t)
    BY <2>1, <2>2, Bystander DEF LookUp, Compile, Write, RenameFails, Present, disk, history
  <2>3. CASE Rename(t) \/ WriteInPlace(t)
    <3>1. UNCHANGED proc
      BY <2>3 DEF Rename, WriteInPlace
    <3>2. missed' = missed \cup {m \in Link : proc[m] \in Pruning}
      BY <2>3 DEF Rename, WriteInPlace, Missed, Pruning
    <3> QED BY <2>1, <3>1, <3>2, Bystander
  <2>4. CASE Reload(t) \/ Fail(t)
    <3>1. Present' = Present /\ UNCHANGED missed
      BY <2>4 DEF Reload, Fail, Present, disk, history
    <3>2. proc'[l] = proc[l] \/ proc'[l] \in Crashed
      BY <2>4 DEF Reload, Fail, Stop, Crashed, Types
    <3> QED BY <2>1, <3>1, <3>2, Bystander
  <2> QED BY <1>2, <2>2, <2>3, <2>4 DEF TaskStep
<1>3. ASSUME NEW l \in Link, LinkStep(l) \/ Kill(l) PROVE Counted'
  <2>1. /\ Counts(l) /\ total[l] = Bytes(seen[l], kept[l])
        /\ kept[l] \in SUBSET Key /\ todo[l] \in SUBSET Key /\ seen[l] \in [Key -> Nat]
    BY DEF Counted, Counts, Types, Sizes
  <2>2. ASSUME NEW m \in Link, m # l PROVE Counts(m)'
    <3>1. UNCHANGED <<total[m], kept[m], seen[m], todo[m], victim[m], proc[m]>>
      BY <1>3, <2>2 DEF LinkStep, Kill, Wait, StatFails, StatTimestamp, Visit, RemoveExpired,
                        StartShrinking, Shrink, Finish, Stop, Count, Types, Sizes, pruner
    <3>2. m \in missed => m \in missed'
      BY <1>3, <2>2 DEF LinkStep, Kill, Wait, StatFails, StatTimestamp, Visit, RemoveExpired,
                        StartShrinking, Shrink, Finish, TryToRemove, Count, history
    <3>3. Present' \subseteq Present
      <4>1. ASSUME NEW k, TryToRemove(l, k) PROVE Present' \subseteq Present
        BY <4>1 DEF TryToRemove, Remove, Present, Types
      <4>2. CASE RemoveExpired(l)
        BY <4>1, <4>2 DEF RemoveExpired
      <4>3. CASE Shrink(l)
        BY <4>1, <4>3 DEF Shrink
      <4> QED BY <1>3, <4>2, <4>3 DEF LinkStep, Kill, Wait, StatFails, StatTimestamp, Visit,
                                       StartShrinking, Finish, disk, Present
    <3> QED BY <2>2, <3>1, <3>2, <3>3, Bystander DEF Counted
  <2>3. CASE Wait(l) \/ StatFails(l) \/ Kill(l)
    <3>1. UNCHANGED <<total, kept, seen, todo, victim, missed>> /\ Present' = Present
      BY <2>3 DEF Wait, StatFails, Kill, pruner, history, disk, Present
    <3>2. \/ proc'[l] \in Crashed \cup {"error", "unpruned"}
          \/ proc[l] = "running" /\ proc'[l] = "prune"
      BY <2>3 DEF Wait, StatFails, Kill, Stop, Crashed, Types
    <3>3. Counts(l)'
      BY <2>1, <3>1, <3>2, Bystander
    <3> QED BY <2>2, <3>3 DEF Counted
  <2>4. CASE StatTimestamp(l)
    <3>1. /\ proc[l] = "prune" /\ proc'[l] = "walk" /\ todo'[l] = Key
          /\ UNCHANGED <<kept, seen, victim, total, entry>>
      BY <2>4 DEF StatTimestamp, disk, Types, Sizes
    <3>2. kept[l] = {} /\ victim[l] = None /\ Present' \subseteq Key
      BY <2>1, <3>1 DEF Counts, Present
    <3>3. Counts(l)'
      BY <2>1, <3>1, <3>2 DEF Counts
    <3> QED BY <2>2, <3>3 DEF Counted
  <2>5. CASE Visit(l)
    <3>1. PICK k \in todo[l] :
              /\ todo'[l] = todo[l] \ {k}
              /\ \/ /\ missed' = IF entry[k] = None THEN missed ELSE missed \cup {l}
                    /\ UNCHANGED <<proc, victim, kept, seen, total>>
                 \/ /\ proc'[l] = "remove" /\ victim'[l] = k
                    /\ UNCHANGED <<kept, seen, total, missed>>
                 \/ /\ \E size \in SizesOf(entry[k], k) : Count(l, k, size)
                    /\ UNCHANGED <<proc, victim>>
      BY <2>5 DEF Visit, Types, Sizes
    <3>2. proc[l] = "walk" /\ UNCHANGED entry /\ Present' = Present
      BY <2>5 DEF Visit, disk, Present
    <3>3. /\ victim[l] = None /\ kept[l] \cap todo[l] = {} /\ k \notin kept[l] /\ k \in Key
          /\ l \notin missed => Present \subseteq kept[l] \cup todo[l] \cup {victim[l]}
          /\ None \notin Present
      BY <2>1, <3>2, CacheAssumption DEF Counts, Present
    <3>4. CASE /\ missed' = IF entry[k] = None THEN missed ELSE missed \cup {l}
               /\ UNCHANGED <<proc, victim, kept, seen, total>>
      <4>1. k \notin Present \/ l \in missed'
        BY <3>4 DEF Present
      <4>2. l \in missed => l \in missed'
        BY <3>4
      <4>3. Counts(l)'
        BY <2>1, <3>1, <3>2, <3>3, <3>4, <4>1, <4>2 DEF Counts
      <4> QED BY <2>2, <4>3 DEF Counted
    <3>5. CASE proc'[l] = "remove" /\ victim'[l] = k /\ UNCHANGED <<kept, seen, total, missed>>
      BY <2>1, <2>2, <3>1, <3>2, <3>3, <3>5 DEF Counts, Counted
    <3>6. ASSUME UNCHANGED <<proc, victim>>,
                 NEW size \in SizesOf(entry[k], k), Count(l, k, size)
          PROVE  Counted'
      <4>1. size \in Nat
        BY <3>3, CacheAssumption DEF SizesOf
      <4>2. /\ kept'[l] = kept[l] \cup {k} /\ total'[l] = total[l] + size
            /\ seen'[l] = [seen[l] EXCEPT ![k] = size]
            /\ missed' = IF size = Size[k] THEN missed ELSE missed \cup {l}
        BY <3>6 DEF Count, Types, Sizes
      <4>3. kept'[l] \in SUBSET Key /\ k \in kept'[l] /\ kept'[l] \ {k} = kept[l]
        BY <2>1, <3>3, <4>2
      <4>4. /\ seen'[l] \in [Key -> Nat] /\ seen'[l][k] = size
            /\ \A i \in kept[l] : seen'[l][i] = seen[l][i]
        BY <2>1, <3>3, <4>1, <4>2
      <4>5. Bytes(seen'[l], kept'[l]) = size + Bytes(seen'[l], kept[l])
        BY <4>3, <4>4, BytesRemove
      <4>6. Bytes(seen'[l], kept[l]) = Bytes(seen[l], kept[l])
        BY <2>1, <4>4, BytesSame
      <4>7. Bytes(seen[l], kept[l]) \in Nat
        BY <2>1, BytesNat
      <4>8. total'[l] = Bytes(seen'[l], kept'[l])
        BY <2>1, <4>1, <4>2, <4>5, <4>6, <4>7
      <4>9. l \notin missed' => l \notin missed /\ \A i \in kept'[l] : seen'[l][i] = Size[i]
        BY <2>1, <4>2, <4>4 DEF Counts
      <4>10. Counts(l)'
        BY <3>1, <3>2, <3>3, <3>6, <4>2, <4>8, <4>9 DEF Counts
      <4> QED BY <2>2, <4>10 DEF Counted
    <3> QED BY <3>1, <3>4, <3>5, <3>6
  <2>6. CASE RemoveExpired(l)
    <3>1. /\ proc[l] = "remove" /\ proc'[l] = "walk" /\ victim'[l] = None
          /\ UNCHANGED <<todo, kept, seen, total>> /\ TryToRemove(l, victim[l])
      BY <2>6 DEF RemoveExpired, Types
    <3>2. \/ Present' = Present \ {victim[l]} /\ UNCHANGED missed
          \/ Present' = Present /\ l \in missed'
      BY <2>1, <3>1 DEF TryToRemove, Remove, Present, Counts, Types
    <3>3. Counts(l)'
      BY <2>1, <3>1, <3>2 DEF Counts
    <3> QED BY <2>2, <3>3 DEF Counted
  <2>7. CASE StartShrinking(l)
    <3>1. /\ proc[l] = "walk" /\ todo'[l] = {} /\ UNCHANGED <<entry, victim, kept, seen, total>>
          /\ missed' = IF todo[l] = {} THEN missed ELSE missed \cup {l}
          /\ proc'[l] = "shrink" \/ proc'[l] = "fatal"
      BY <2>7 DEF StartShrinking, Stop, disk, Types, Sizes
    <3>2. Present' = Present /\ None \notin Present /\ victim[l] = None
      BY <2>1, <3>1, CacheAssumption DEF Present, Counts
    <3>3. Counts(l)'
      BY <2>1, <3>1, <3>2 DEF Counts
    <3> QED BY <2>2, <3>3 DEF Counted
  <2>8. CASE Shrink(l)
    <3>1. PICK k \in kept[l] :
              /\ TryToRemove(l, k)
              /\ kept'[l] = kept[l] \ {k} /\ total'[l] = total[l] - seen[l][k]
      BY <2>8 DEF Shrink, Largest, Types, Sizes
    <3>2. proc[l] = "shrink" /\ UNCHANGED <<proc, victim, todo, seen>>
      BY <2>8 DEF Shrink
    <3>3. \/ Present' = Present \ {k} /\ UNCHANGED missed
          \/ Present' = Present /\ l \in missed'
      BY <2>1, <3>1 DEF TryToRemove, Remove, Present, Types
    <3>4. Bytes(seen[l], kept[l]) = seen[l][k] + Bytes(seen[l], kept[l] \ {k})
      BY <2>1, BytesRemove
    <3>5. Bytes(seen[l], kept[l] \ {k}) \in Nat /\ seen[l][k] \in Nat
      BY <2>1, BytesNat
    <3>6. total'[l] = Bytes(seen'[l], kept'[l])
      BY <2>1, <3>1, <3>2, <3>4, <3>5
    <3>7. Counts(l)'
      BY <2>1, <3>1, <3>2, <3>3, <3>6 DEF Counts
    <3> QED BY <2>2, <3>7 DEF Counted
  <2>9. CASE Finish(l)
    <3>1. /\ proc[l] = "shrink" /\ proc'[l] = "success" /\ kept'[l] = {} /\ total'[l] = 0
          /\ seen'[l] \in [Key -> Nat]
          /\ total[l] <= MaxBytes \/ kept[l] = {}
          /\ UNCHANGED <<entry, missed>>
      BY <2>9 DEF Finish, disk, history, Types, Sizes
    <3>2. Present' = Present
      BY <3>1 DEF Present
    <3>3. Bytes(seen[l], kept[l]) <= MaxBytes
      <4>1. Bytes(seen[l], {}) = 0 /\ MaxBytes \in Nat
        BY <2>1, BytesEmpty, CacheAssumption
      <4>2. CASE kept[l] = {}
        BY <4>1, <4>2
      <4>3. CASE total[l] <= MaxBytes
        <5>1. total[l] = Bytes(seen[l], kept[l])
          BY <2>1
        <5> QED BY <4>3, <5>1
      <4> QED BY <3>1, <4>2, <4>3
    <3>4. ASSUME l \notin missed PROVE SizeOf(Present) <= MaxBytes
      <4>1. Present \in SUBSET kept[l] /\ \A k \in kept[l] : seen[l][k] = Size[k]
        BY <2>1, <3>1, <3>4 DEF Counts
      <4>2. Bytes(seen[l], kept[l]) = SizeOf(kept[l])
        BY <2>1, <4>1, BytesSame, CacheAssumption DEF SizeOf
      <4>3. SizeOf(Present) <= SizeOf(kept[l]) /\ SizeOf(Present) \in Nat /\ SizeOf(kept[l]) \in Nat
        BY <2>1, <4>1, SizeOfFacts
      <4> QED BY <3>3, <4>2, <4>3, CacheAssumption
    <3>5. Counts(l)'
      BY <3>1, <3>2, <3>4, BytesEmpty DEF Counts
    <3> QED BY <2>2, <3>5 DEF Counted
  <2> QED BY <1>3, <2>3, <2>4, <2>5, <2>6, <2>7, <2>8, <2>9 DEF LinkStep
<1> QED BY <1>1, <1>2, <1>3 DEF Next

LEMMA SizesInvariance == Spec => []Sizes
<1>1. Init => Sizes
  BY DEF Init, Sizes
<1>2. IInv /\ Sizes /\ [Next]_vars => Sizes'
  BY SizesKept DEF IInv
<1> QED BY <1>1, <1>2, Invariance, PTL DEF Spec

\* Every variable keeps its type, and a task ends with an object exactly if it
\* succeeded.
THEOREM TypeCorrect == Spec => []TypeOK
<1>1. IInv /\ Sizes => TypeOK
  BY DEF IInv, Types, Sizes, TypeOK
<1> QED BY <1>1, Invariance, SizesInvariance, PTL

\* pruneCache counts right and leaves no more than the policy allows, whatever
\* sizes the entries have and whatever other links remove meanwhile, unless it
\* missed something: an entry added behind its back, a directory it could not read
\* to the end, a file it could not stat or remove, or one just being written.
THEOREM PrunesToSize == Spec => []PrunedToSize
<1>1. Init => Counted
  <2> SUFFICES ASSUME Init, NEW l \in Link PROVE Counts(l)
    BY DEF Counted
  <2>1. kept[l] = {} /\ total[l] = 0 /\ seen[l] \in [Key -> Nat] /\ proc[l] = "running" /\ victim[l] = None
    BY DEF Init
  <2> QED BY <2>1, BytesEmpty DEF Counts
<1>2. IInv /\ Sizes /\ Counted /\ [Next]_vars => Counted'
  BY CountedKept DEF IInv
<1>3. Counted => PrunedToSize
  BY DEF Counted, Counts, PrunedToSize, Present
<1> QED BY <1>1, <1>2, <1>3, Invariance, SizesInvariance, PTL DEF Spec
=============================================================================
