---------------------------- MODULE ObjectCache ----------------------------
(***************************************************************************)
(* The cache of native objects that ThinLTO links share in a directory:    *)
(* localCache (lib/LTO/Caching.cpp), ModuleCacheEntry of the older         *)
(* ThinLTOCodeGenerator, and pruneCache, which ThinLTOCodeGenerator calls  *)
(* at the end of a link and localCache leaves to the linker.  A link is a  *)
(* process with one task for each module on a pool of threads, so tasks of *)
(* one link and of several take turns in any order; a step is a file       *)
(* system call.  Files are told apart from their names: a name can come to *)
(* mean another file.                                                      *)
(***************************************************************************)
EXTENDS Integers, FiniteSets, FiniteSetsExt

CONSTANTS
    Link,          \* processes
    Key,           \* one module each, named by the hash of all it depends on
    Size,          \* the size of the object of a module
    MaxBytes,      \* the size the policy leaves to the cache
    None, Memory,
    MaxCrashes     \* bound on the links that are killed

ASSUME CacheAssumption ==
    /\ IsFiniteSet(Key) /\ Size \in [Key -> Nat] /\ MaxBytes \in Nat /\ MaxCrashes \in Nat
    /\ None # Memory /\ {None, Memory} \cap (Key \cup (Link \X Key)) = {}
    /\ Key \cap (Link \X Key) = {}

Task == Link \X Key
File == Key \cup Task       \* files of earlier links, and the file a task makes

VARIABLES
    legacy,        \* the links use ThinLTOCodeGenerator
    entry,         \* the file each llvmcache-<key> names, or None
    content,       \* of each file: none, partial, whole
    temp,          \* tasks whose Thin-*.tmp.o exists
    recent,        \* entries accessed within Policy.Expiration
    pc,            \* of each task
    writing,       \* the file a task writes
    buffer,        \* the object a task hands to the link: a file, the copy in Memory, None
    proc,          \* running, or how far it is with pruneCache, or how it ended
    todo, victim,  \* of a pruneCache: the names still to come, and the one to remove
    kept, seen, total,   \* FileSizes (its names, and the sizes it saw), TotalSize
    crashes,
    inPlace, raced, \* history: entries written in place, tasks whose object was pruned
    missed         \* history: the links whose pruneCache missed something

vars == <<legacy, entry, content, temp, recent, pc, writing, buffer, proc,
          todo, victim, kept, seen, total, crashes, inPlace, raced, missed>>
disk == <<entry, content, temp, recent>>
tasks == <<pc, writing, buffer>>
pruner == <<todo, victim, kept, seen, total>>
history == <<inPlace, raced, missed>>

KeyOf(t) == t[2]
TasksOf(l) == {t \in Task : t[1] = l}
TaskEnded == {"done", "failed"}
TaskLabel == {"lookup", "compile", "write", "rename", "inplace", "reload", "killed"} \cup TaskEnded
Crashed == {"fatal", "lost", "killed"}
LinkEnded == {"success", "unpruned", "error"} \cup Crashed
LinkLabel == {"running", "prune", "walk", "remove", "shrink"} \cup LinkEnded

Init ==
    /\ legacy \in BOOLEAN
    /\ entry \in [Key -> Key \cup {None}]
    /\ \A k \in Key : entry[k] \in {k, None}
    /\ content = [f \in File |-> IF f \in Key /\ entry[f] = f THEN "whole" ELSE "none"]
    /\ temp = {} /\ recent \in SUBSET {k \in Key : entry[k] = k}
    /\ pc = [t \in Task |-> "lookup"]
    /\ writing = [t \in Task |-> None]
    /\ buffer = [t \in Task |-> None]
    /\ proc = [l \in Link |-> "running"]
    /\ todo = [l \in Link |-> {}] /\ victim = [l \in Link |-> None] /\ kept = [l \in Link |-> {}]
    /\ seen = [l \in Link |-> [k \in Key |-> 0]] /\ total = [l \in Link |-> 0]
    /\ crashes = 0
    /\ inPlace = {} /\ raced = {} /\ missed = {}

Goto(t, label) == pc' = [pc EXCEPT ![t] = label]
At(t, label) == pc[t] = label /\ proc[t[1]] = "running"

\* report_fatal_error or a signal: the process ends with all its threads, and
\* no handler knows of the temporary files.
Stop(l, how) ==
    /\ proc' = [proc EXCEPT ![l] = how]
    /\ pc' = [t \in Task |-> IF t[1] = l THEN "killed" ELSE pc[t]]
    /\ buffer' = [t \in Task |-> IF t[1] = l THEN None ELSE buffer[t]]

---------------------------------------------------------------------------
(* A task: look the object up, or make it and commit it *)

\* Opening a file may set its time of access.
Open(t) ==
    /\ entry[KeyOf(t)] # None
    /\ buffer' = [buffer EXCEPT ![t] = entry[KeyOf(t)]]
    /\ recent' \in {recent, recent \cup {KeyOf(t)}}
    /\ Goto(t, "done")

\* For ThinLTOCodeGenerator an entry it cannot read is a missing one.
LookUp(t) ==
    /\ At(t, "lookup")
    /\ \/ Open(t)
       \/ /\ entry[KeyOf(t)] = None \/ legacy
          /\ Goto(t, "compile")
          /\ UNCHANGED <<buffer, recent>>
    /\ UNCHANGED <<legacy, entry, content, temp, writing, proc, pruner, crashes, history>>

\* runThinLTOBackendThread returns an error, which the link will report
Compile(t) ==
    /\ At(t, "compile")
    /\ \/ /\ temp' = temp \cup {t}
          /\ content' = [content EXCEPT ![t] = "partial"]
          /\ writing' = [writing EXCEPT ![t] = t]
          /\ Goto(t, "write")
       \/ /\ ~legacy
          /\ Goto(t, "failed")
          /\ UNCHANGED <<temp, content, writing>>
    /\ UNCHANGED <<legacy, entry, recent, buffer, proc, pruner, crashes, history>>

\* Faulty: the file is renamed before it is closed
WriteLater(t) ==
    /\ At(t, "write")
    /\ Goto(t, "rename")
    /\ UNCHANGED <<legacy, disk, writing, buffer, proc, pruner, crashes, history>>

\* Faulty: the object is not committed
WriteOnly(t) ==
    /\ At(t, "write")
    /\ content' = [content EXCEPT ![writing[t]] = "whole"]
    /\ temp' = temp \ {t}
    /\ Goto(t, "reload")
    /\ UNCHANGED <<legacy, entry, recent, writing, buffer, proc, pruner, crashes, history>>

Write(t) ==
    /\ At(t, "write")
    /\ content' = [content EXCEPT ![writing[t]] = "whole"]
    /\ writing' = [writing EXCEPT ![t] = None]
    /\ Goto(t, IF t \in temp THEN "rename" ELSE "reload")
    /\ UNCHANGED <<legacy, entry, temp, recent, buffer, proc, pruner, crashes, history>>

\* the links whose pruneCache may not see this entry, or saw another size
Missed == missed' = missed \cup {l \in Link : proc[l] \in {"walk", "remove", "shrink", "success"}}

\* Faulty: the entry is not replaced but written over
CopyOver(t) ==
    /\ At(t, "rename")
    /\ LET f == IF entry[KeyOf(t)] = None THEN t ELSE entry[KeyOf(t)]
       IN  /\ entry' = [entry EXCEPT ![KeyOf(t)] = f]
           /\ content' = [content EXCEPT ![f] = "partial"]
           /\ writing' = [writing EXCEPT ![t] = f]
    /\ recent' = recent \cup {KeyOf(t)}
    /\ temp' = temp \ {t}
    /\ Goto(t, "write")
    /\ Missed
    /\ UNCHANGED <<legacy, buffer, proc, pruner, crashes, inPlace, raced>>

\* sys::fs::rename, which makes the name mean this file
Rename(t) ==
    /\ At(t, "rename")
    /\ entry' = [entry EXCEPT ![KeyOf(t)] = t]
    /\ recent' = recent \cup {KeyOf(t)}
    /\ temp' = temp \ {t}
    /\ Goto(t, "reload")
    /\ Missed
    /\ UNCHANGED <<legacy, content, writing, buffer, proc, pruner, crashes,
                   inPlace, raced>>

\* Faulty: the object is left out of the cache, and the temporary file stays
RenameFailsUntidily(t) ==
    /\ At(t, "rename") /\ legacy
    /\ buffer' = [buffer EXCEPT ![t] = Memory]
    /\ Goto(t, "done")
    /\ UNCHANGED <<legacy, disk, writing, proc, pruner, crashes, history>>

\* The directory of ThinLTOCodeGenerator's temporary files may be on another
\* device.
RenameFails(t) ==
    /\ At(t, "rename") /\ legacy
    /\ temp' = temp \ {t}
    /\ Goto(t, "inplace")
    /\ UNCHANGED <<legacy, entry, content, recent, writing, buffer, proc, pruner,
                   crashes, history>>

\* write() then truncates the entry, or makes one, and writes to it.
WriteInPlace(t) ==
    /\ At(t, "inplace")
    /\ LET k == KeyOf(t)
           f == IF entry[k] = None THEN t ELSE entry[k]
       IN  /\ entry' = [entry EXCEPT ![k] = f]
           /\ content' = [content EXCEPT ![f] = "partial"]
           /\ recent' = recent \cup {k}
           /\ writing' = [writing EXCEPT ![t] = f]
           /\ inPlace' = inPlace \cup {k}
           /\ Missed
    /\ Goto(t, "write")
    /\ UNCHANGED <<legacy, temp, buffer, proc, pruner, crashes, raced>>

\* Faulty: the copy in memory is not handed over
ReloadForgets(t) ==
    /\ At(t, "reload")
    /\ \/ Open(t)
       \/ /\ entry[KeyOf(t)] = None
          /\ Goto(t, "done")
          /\ UNCHANGED <<recent, buffer>>
    /\ UNCHANGED <<legacy, entry, content, temp, writing, proc, pruner, crashes, history>>

\* The link uses the file, not the copy in memory; if it has been pruned or
\* cannot be read, localCache dies and ThinLTOCodeGenerator keeps the copy.
Reload(t) ==
    /\ At(t, "reload")
    /\ \/ Open(t) /\ UNCHANGED proc
       \/ /\ legacy
          /\ buffer' = [buffer EXCEPT ![t] = Memory]
          /\ Goto(t, "done")
          /\ UNCHANGED <<recent, proc>>
       \/ /\ entry[KeyOf(t)] = None /\ ~legacy
          /\ Stop(t[1], "lost")
          /\ UNCHANGED recent
    /\ UNCHANGED <<legacy, entry, content, temp, writing, pruner, crashes, history>>

\* A call on a file fails and its error is fatal: a lookup or reload other
\* than for a missing entry, making the temporary file, closing the stream
\* (~raw_fd_ostream), localCache's rename, opening the entry to write in place.
Fail(t) ==
    /\ \/ \E label \in {"compile", "write", "inplace"} : At(t, label)
       \/ \E label \in {"lookup", "rename", "reload"} : At(t, label) /\ ~legacy
    /\ Stop(t[1], "fatal")
    /\ UNCHANGED <<legacy, disk, writing, pruner, crashes, history>>

---------------------------------------------------------------------------
(* The link: wait for the tasks (TaskPool), report, prune *)

\* Faulty: errors of tasks are not kept
WaitForgets(l) ==
    /\ proc[l] = "running" /\ \A t \in TasksOf(l) : pc[t] \in TaskEnded
    /\ proc' = [proc EXCEPT ![l] = "prune"]
    /\ UNCHANGED <<legacy, disk, tasks, pruner, crashes, history>>

Wait(l) ==
    /\ proc[l] = "running" /\ \A t \in TasksOf(l) : pc[t] \in TaskEnded
    /\ proc' = [proc EXCEPT ![l] =
                   IF \E t \in TasksOf(l) : pc[t] = "failed" THEN "error" ELSE "prune"]
    /\ UNCHANGED <<legacy, disk, tasks, pruner, crashes, history>>

\* The timestamp cannot be had, or is not past: pruneCache returns false.
StatFails(l) ==
    /\ proc[l] = "prune"
    /\ proc' = [proc EXCEPT ![l] = "unpruned"]
    /\ UNCHANGED <<legacy, disk, tasks, pruner, crashes, history>>

\* The interval is compared only if it is zero, and then it has always passed:
\* the timestamp is written and never keeps anybody from the walk.
StatTimestamp(l) ==
    /\ proc[l] = "prune"
    /\ proc' = [proc EXCEPT ![l] = "walk"]
    /\ todo' = [todo EXCEPT ![l] = Key]
    /\ missed' = missed \ {l}
    /\ UNCHANGED <<legacy, disk, tasks, victim, kept, seen, total, crashes, inPlace, raced>>

\* sys::fs::remove, by name.  Who is about to reload the entry has lost it.
Remove(k) ==
    /\ entry' = [entry EXCEPT ![k] = None]
    /\ recent' = recent \ {k}
    /\ raced' = raced \cup {t \in Task : KeyOf(t) = k /\ entry[k] # None /\ pc[t] = "reload"}

\* Its error is ignored: the pruneCache of l does not know that it failed.
TryToRemove(l, k) ==
    \/ Remove(k) /\ UNCHANGED missed
    \/ /\ entry[k] # None
       /\ missed' = missed \cup {l}
       /\ UNCHANGED <<entry, recent, raced>>

\* the size status() sees, of a file that may just be written in place
SizesOf(f, k) == IF content[f] = "whole" THEN {Size[k]} ELSE 0 .. Size[k]

\* AddToFileListForSizePruning
Count(l, k, size) ==
    /\ kept' = [kept EXCEPT ![l] = @ \cup {k}]
    /\ seen' = [seen EXCEPT ![l] = [@ EXCEPT ![k] = size]]
    /\ total' = [total EXCEPT ![l] = @ + size]
    /\ missed' = IF size = Size[k] THEN missed ELSE missed \cup {l}

\* The walk sees the names in any order; a name may be gone, or new, and what
\* cannot be statted is passed over.
Visit(l) ==
    /\ proc[l] = "walk"
    /\ \E k \in todo[l] :
          /\ todo' = [todo EXCEPT ![l] = @ \ {k}]
          /\ \/ /\ missed' = IF entry[k] = None THEN missed ELSE missed \cup {l}
                /\ UNCHANGED <<proc, victim, kept, seen, total>>
             \/ /\ entry[k] # None /\ k \notin recent
                /\ proc' = [proc EXCEPT ![l] = "remove"] /\ victim' = [victim EXCEPT ![l] = k]
                /\ UNCHANGED <<kept, seen, total, missed>>
             \/ /\ entry[k] # None /\ k \in recent
                /\ \E size \in SizesOf(entry[k], k) : Count(l, k, size)
                /\ UNCHANGED <<proc, victim>>
    /\ UNCHANGED <<legacy, disk, tasks, crashes, inPlace, raced>>

RemoveExpired(l) ==
    /\ proc[l] = "remove"
    /\ TryToRemove(l, victim[l])
    /\ proc' = [proc EXCEPT ![l] = "walk"] /\ victim' = [victim EXCEPT ![l] = None]
    /\ UNCHANGED <<legacy, content, temp, tasks, todo, kept, seen, total, crashes, inPlace>>

\* The walk ends, or an error of the directory iterator ends it early; the
\* disk space may not be found out.
StartShrinking(l) ==
    /\ proc[l] = "walk"
    /\ todo' = [todo EXCEPT ![l] = {}]
    /\ missed' = IF todo[l] = {} THEN missed ELSE missed \cup {l}
    /\ \/ proc' = [proc EXCEPT ![l] = "shrink"] /\ UNCHANGED <<pc, buffer>>
       \/ Stop(l, "fatal")
    /\ UNCHANGED <<legacy, disk, writing, victim, kept, seen, total, crashes, inPlace, raced>>

\* the last of FileSizes
Largest(l) == {k \in kept[l] : \A i \in kept[l] : seen[l][i] <= seen[l][k]}

\* Faulty: a removed file is taken off twice
ShrinkCountsOn(l) ==
    /\ proc[l] = "shrink" /\ total[l] > MaxBytes
    /\ \E k \in Largest(l) :
          /\ TryToRemove(l, k)
          /\ kept' = [kept EXCEPT ![l] = @ \ {k}]
          /\ total' = [total EXCEPT ![l] = @ - 2 * seen[l][k]]
    /\ UNCHANGED <<legacy, content, temp, tasks, proc, todo, victim, seen, crashes, inPlace>>

Shrink(l) ==
    /\ proc[l] = "shrink" /\ total[l] > MaxBytes
    /\ \E k \in Largest(l) :
          /\ TryToRemove(l, k)
          /\ kept' = [kept EXCEPT ![l] = @ \ {k}]
          /\ total' = [total EXCEPT ![l] = @ - seen[l][k]]
    /\ UNCHANGED <<legacy, content, temp, tasks, proc, todo, victim, seen, crashes, inPlace>>

Finish(l) ==
    /\ proc[l] = "shrink" /\ (total[l] <= MaxBytes \/ kept[l] = {})
    /\ proc' = [proc EXCEPT ![l] = "success"]
    /\ kept' = [kept EXCEPT ![l] = {}] /\ total' = [total EXCEPT ![l] = 0]
    /\ seen' = [seen EXCEPT ![l] = [k \in Key |-> 0]]
    /\ UNCHANGED <<legacy, disk, tasks, todo, victim, crashes, history>>

Kill(l) ==
    /\ proc[l] \notin LinkEnded /\ crashes < MaxCrashes
    /\ crashes' = crashes + 1
    /\ Stop(l, "killed")
    /\ UNCHANGED <<legacy, disk, writing, pruner, history>>

TaskStep(t) ==
    LookUp(t) \/ Compile(t) \/ Write(t) \/ Rename(t) \/ RenameFails(t)
    \/ WriteInPlace(t) \/ Reload(t) \/ Fail(t)

LinkStep(l) ==
    Wait(l) \/ StatFails(l) \/ StatTimestamp(l) \/ Visit(l) \/ RemoveExpired(l)
    \/ StartShrinking(l) \/ Shrink(l) \/ Finish(l)

Next ==
    \/ \E t \in Task : TaskStep(t)
    \/ \E l \in Link : LinkStep(l) \/ Kill(l)

Spec == Init /\ [][Next]_vars

---------------------------------------------------------------------------
(* Properties *)

Bytes(sizes, keys) == MapThenSumSet(LAMBDA k : sizes[k], keys)
SizeOf(keys) == Bytes(Size, keys)

\* Types, and a task is done exactly if it has an object to hand over.
TypeOK ==
    /\ legacy \in BOOLEAN
    /\ entry \in [Key -> File \cup {None}]
    /\ content \in [File -> {"none", "partial", "whole"}]
    /\ temp \subseteq Task /\ recent \subseteq Key
    /\ pc \in [Task -> TaskLabel] /\ proc \in [Link -> LinkLabel]
    /\ writing \in [Task -> File \cup {None}]
    /\ buffer \in [Task -> File \cup {None, Memory}]
    /\ todo \in [Link -> SUBSET Key] /\ kept \in [Link -> SUBSET Key]
    /\ victim \in [Link -> Key \cup {None}]
    /\ seen \in [Link -> [Key -> Nat]] /\ total \in [Link -> Int]
    /\ crashes \in Nat
    /\ inPlace \subseteq Key /\ raced \subseteq Task /\ missed \subseteq Link
    /\ \A t \in Task : pc[t] = "done" <=> buffer[t] # None

\* Whoever finds an entry finds a whole object, whatever tasks and links run,
\* fail or die: except an entry that was written in place because a rename
\* failed.
EntriesAreWhole ==
    \A k \in Key : entry[k] # None /\ k \notin inPlace => content[entry[k]] = "whole"

\* The objects a link has been given stay what they are while other links
\* replace, prune and remake the entries.
BuffersStayWhole ==
    \A t \in Task : buffer[t] \in File /\ KeyOf(t) \notin inPlace =>
        /\ content[buffer[t]] = "whole"
        /\ buffer[t] \in {KeyOf(t)} \cup {u \in Task : KeyOf(u) = KeyOf(t)}

\* A link loses an object it has made only to a pruneCache that removed it
\* between the rename and the reload.  (the FIXME in ~CacheStream)
LostOnlyToPruning ==
    \A l \in Link : proc[l] = "lost" => \E t \in TasksOf(l) : t \in raced

\* A link that goes on after waiting for its tasks has an object of each.
SuccessMeansObjects ==
    \A l \in Link : proc[l] \notin {"running", "error"} \cup Crashed =>
        \A t \in TasksOf(l) : buffer[t] # None

\* Temporary files outlive only links that crashed.
NoTempLeft ==
    \A t \in temp : proc[t[1]] \in {"running"} \cup Crashed

\* pruneCache keeps count of what it has in hand, and after it the cache is no
\* larger than the policy says, unless it missed something: entries added
\* meanwhile, a walk cut short, a file it could not stat, one that was being
\* written in place, one it could not remove.
PrunedToSize ==
    \A l \in Link :
        /\ total[l] = Bytes(seen[l], kept[l])
        /\ proc[l] = "success" /\ l \notin missed =>
              SizeOf({k \in Key : entry[k] # None}) <= MaxBytes
=============================================================================
