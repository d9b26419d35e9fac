# The 2003f compiler in TLA+

This directory specifies and verifies two groups of components of the repository.

The first is the repository's own: the code generator for the 2003f, a fictional
32-bit machine, which the fork adds to LLVM (of the 5.0/6.0 development line) under
`src/lib/Target/F2003f`. LLVM passes are modelled where they drive it. There are no
tests for the target beyond a few sample `.ll` files; what it has to do is said
by its code, by LLVM's documents and by assertions.

The second is the part of the compiler's infrastructure where threads and processes
meet: the thread pool, the lock file with which processes share the making of a
file, and the cache of objects that ThinLTO links share and prune. Their unit tests
run one order of events each; the orders are what is hard about them.

All paths below are relative to `src/` of the repository.

## 1. The system

The back end turns one LLVM module into one 2003lk assembly file. Its stages
run one after another in one thread; the difficulty is not concurrency but that
each stage relies on facts another stage establishes, and that nothing checks
them when the program runs.

| part | state it keeps | operations | interacts with |
|---|---|---|---|
| calling convention (`F2003fISelLowering.cpp`, `F2003fCallingConv.td`) | the call frame: arguments and return address on the stack | `LowerFormalArguments`, `LowerCall`, `LowerReturn`, `LowerCallResult` | frame lowering expands its call sequences; caller and callee agree without talking to each other |
| frame lowering (`F2003fFrameLowering.cpp`, `F2003fRegisterInfo.cpp`, `PrologEpilogInserter.cpp`) | offsets and size of a function's frame; SPAdj, the compiler's idea of how far a call has lowered f5 | `calculateFrameObjectOffsets`, `emitPrologue`, `emitEpilogue`, `eliminateCallFramePseudoInstr`, `eliminateFrameIndex` | resolves the frame indices instruction selection and register allocation made |
| conditions (`F2003f.h`, `F2003fISelLowering.cpp`, `F2003fFiMalkrz.cpp`) | pseudo instructions that hold a comparison and the jump or move that depends on it | `getF2003fCC`, `LowerBR_CC`, `LowerSELECT_CC`, the FiMalkrz pass | branch rewriting copies and reverses them; FiMalkrz splits them last |
| branches (`F2003fInstrInfo.cpp`) | the terminators of every block; the order of the blocks | `analyzeBranch`, `insertBranch`, `removeBranch`, `reverseBranchCondition` | called by branch folding and block placement |
| assembly streamer (`F2003fMCAsmStreamer.cpp`) | bytes and labels held back, the alignment in force, symbols visited | `ChangeSection`, `EmitLabel`, `EmitInstruction`, `EmitValueImpl`, `EmitValueToAlignment`, `FinishImpl` | driven by `AsmPrinter` |
| instruction selection (`F2003fISelDAGToDAG.cpp`, `F2003fInstrInfo.td`) | none | `Select`, `SelectAddr`, patterns | produces what the parts above work on |
| symbol names (`F2003fMCAsmInfo.cpp`) | none | `isValidUnquotedName`, `printQuotedName` | called when a symbol is printed |
| printing, operand lowering (`F2003fInstPrinter.cpp`, `F2003fMCInstLower.cpp`) | none | `printOperand`, `printMem`, `Lower` | the last readers of operands |
| target registration | none | wiring | |
| thread pool (`lib/Support/ThreadPool.cpp`) | the queue `Tasks`, `ActiveThreads`, `EnableFlag`, two locks with their condition variables | `async`, `wait`, the loop of a worker, the destructor | runs the tasks of ThinLTO links, which return errors through it |
| lock file (`lib/Support/LockFileManager.cpp`) | on disk: the link `FileName.lock` and one unique file for each process; in the process: `Owner`, `Error` | the constructor, `waitForUnlock`, `unsafeRemoveLockFile`, the destructor, the signal handler | processes meet in the file system only |
| object cache (`lib/LTO/Caching.cpp`, `ModuleCacheEntry` in `lib/LTO/ThinLTOCodeGenerator.cpp`, `lib/Support/CachePruning.cpp`) | on disk: entries `llvmcache-<key>` and temporary files; in the process: the objects given to the link, the errors of tasks | lookup, commit (write, rename, reload), `pruneCache` | tasks run on the thread pool; links of other processes use and prune the same directory |

What is hard here, and what makes each part correct:

* **Calls.** There is no frame pointer. Every access to a local, a spill slot
  or an argument is `f5 + constant`, f5 moves at every call, prologue and
  epilogue, the return address lies in the same memory as everything else, and
  `krz xx f5@` jumps to whatever is there. Correct means: the constant is right
  at every instruction, no store lands on a return address, arguments arrive,
  locals of different activations are different memory.
* **Frames.** Objects of any size and alignment are laid out downward and the
  frame is rounded, differently for leaf functions. Correct means: disjoint,
  covered by what the prologue takes, aligned.
* **Branches.** Passes rewrite terminators through four target hooks, in states
  where the layout has already changed and the terminators have not. Correct
  means: the block leads where the source says for every pair of values, signed
  or unsigned, after any number of rewritings.
* **Output.** 2003lk has no alignment directive; the streamer holds bytes back
  until a directive of the alignment's width is full, and labels until there is
  a line to write them on. Correct means: all bytes, in order, labels in front of
  their objects, exactly the undefined symbols imported.
* **Addresses and narrow values.** A memory operand is a base, a register and a
  constant, rewritten by four stages that each rely on the form the one before
  leaves. The machine has no byte loads: shifts of big-endian words stand in for
  them. Correct means: the same address at every stage, and the meaning LLVM gives
  a node, for every value and every overlap.
* **Names.** What an operand means in 2003lk is decided by its spelling. Correct
  means: two different things are never spelled alike.
* **Threads.** `wait()` tests two variables that are changed under another lock than
  the one it holds, and both condition variables are notified after the lock is
  released. Correct means: no data race, no lost wake-up, and `wait()` returns exactly
  when everything submitted is done, although tasks submit tasks.
* **Lock files.** Every decision is made from what a file system call said some time
  ago, and processes die between any two calls. Correct means: one owner, a constructor
  and a wait that end whoever died, true answers, nothing left behind.
* **Cache.** Links write, read, replace and remove the same names without locks, and
  die in the middle. Correct means: a name always means a whole object, an object in
  use never changes, no task's failure is lost, pruning prunes enough.

`PROJECT.json` lists the hazards at their lines, with the properties that catch
them.

## 2. Modules

| module | what it is |
|---|---|
| `CallSemantics` | abstract: activations that own their locals and arguments; calls, returns, pointers. No addresses, no stack pointer |
| `CallMachine` | the emitted code of functions, calls and stack accesses on one byte-addressed memory with f5 |
| `CallMachineProofs` | its invariant, the safety theorems and the refinement of `CallSemantics` |
| `StackObjects` | frame layout as operators, used by the two modules around it |
| `FrameLayout` | `calculateFrameObjectOffsets`, object by object |
| `FrameLayoutProofs` | disjointness, coverage and alignment for every set of objects |
| `CondCodes` | LLVM's and 2003f's conditions, the FI_MALKRZ instructions, FiMalkrz, and what the machine does with a block |
| `Branches` | the terminators of one block from selection to emission |
| `BranchesProofs` | conditions and their opposites, for every word size; that a block leads where the source says through every rewriting |
| `AsmStreamer` | the streamer with `AsmPrinter` as its client |
| `Addressing` | one memory operand from the DAG to its text |
| `SelectedCode` | the patterns for moves, narrow accesses and arithmetic, on a machine with byte memory |
| `SelectionProofs` | that an operand means the same address at every stage, and that the code for a statement does what it says, for every word size |
| `SymbolNames` | the names of symbols and the text of operands |
| `PrintingProofs` | of `AsmStreamer`: the bound on held-back bytes; bytes, labels, padding and imports, for every module. Of `SymbolNames`: that texts and invented names can be told apart |
| `TaskPool` | abstract: a queue of tasks, `wait` and destruction. No threads, no locks |
| `ThreadPool` | the pool: workers, client, locks, condition variables |
| `ThreadPoolProofs` | its invariant, the safety theorems and the refinement of `TaskPool` |
| `LockFile` | processes and their file system calls |
| `LockFileProofs` | its invariant and the safety theorems |
| `ObjectCache` | links, their tasks, the cache directory and pruning |
| `ObjectCacheProofs` | its invariants and the safety theorems, with the size that pruning leaves |
| `MC...` | small instances of the modules they are named after |

Operators marked `Faulty` are plausible mistakes in the definition next to them.
They are used by no specification; each is there to show that a property notices
when it takes the place of the definition (`mutants` in `PROJECT.json`).

### CallMachine and CallSemantics

`CallMachine` executes the code the back end emits for an arbitrary program: in
a body any local may be loaded, stored or have its address taken, any argument
read, the pointer held be followed, and any call site of the function reached.
One action stands for one emitted instruction or pseudo instruction:

| action | code |
|---|---|
| `Prologue`, `Epilogue` | `emitPrologue`, `emitEpilogue` |
| `BeginCall`, `EndCall` | ADJCALLSTACKDOWN / UP of `LowerCall`, expanded by `eliminateCallFramePseudoInstr`; `EndCall` with `LowerCallResult` |
| `StoreArg` | one store or inlined memcpy of the argument loop of `LowerCall`; in any order, since a TokenFactor joins them |
| `Fenxeo` | `inj f5@ xx func`, stores the return address at f5 |
| `LowerReturn`, `Dosnud` | copy to f0; `krz xx f5@` |
| `LoadLocal`, `StoreLocal`, `LoadArg` | accesses through frame indices, resolved by `FrameAddr` (`eliminateFrameIndex`) |
| `TakeAddress`, `LoadIndirect`, `StoreIndirect` | ATAframe, and what is done with the pointer, also in other activations |

The static side is separate from the dynamic one on purpose: `SPAdj`,
`FrameAddr`, `OutArgOffset` and `InArgOffset` are what the compiler computes
from where it is in the code (`pc`), while `f5` is what the instructions did.
`frames` and `ptrTo` are history: they say what the program means, and no action
uses them to decide what the machine does, except that a program follows only
a pointer to a live object (anything else is undefined in LLVM).

`CallsAreIsolated` is `CallSemantics!Spec` under the refinement mapping that
reads locals and arguments out of memory at the addresses the activation's
incoming f5 gives them. It says in one formula that a store changes one word of
one activation, a callee reads what its caller passed, and a result arrives where
the call was made.

### StackObjects and FrameLayout

`FrameLayout` runs the loop over fixed objects, the loop over stack objects and
the final rounding with the parameters of this target: stack growing down,
alignment 4, transient alignment 1, local area at 0, no callee-saved registers,
no reserved call frame. What it establishes is what `LayoutAssumption` of
`CallMachine` assumes, and the instances of `CallMachine` take their offsets and
sizes from `StackObjects`. Stack protectors, variable-sized objects and
scavenging slots are not modelled: the target has no support for the last two.

### CondCodes and Branches

`Branches` follows one block. Its code is an optional select and its terminators;
`succs` are its successors and `next` the block placed after it. `OptimizePrior`
and `OptimizeLoop` are the two places of `OptimizeBlock` that rewrite
terminators, `TakeTail` and `PutTailBack` the window in which tail merging holds
the block without its jump, `Move` and `updateTerminator` the window between
`splice` and the update of the terminators in `buildCFGChains`, and `Expand` is
FiMalkrz. Operands are
counted as the code counts them (a memory operand is three), so that an operand
list cut at the wrong place makes a comparison read junk. `CondCodes!Execute`
interprets a block on the machine.

### AsmStreamer

`Finish` is `FinishImpl`. Its last `flushLabel(true)` writes `fen` and the labels that still wait, and nothing
ends that line: the first import is printed right behind it. What then stands there is neither the label nor the
import (`fen l' oxok s`), so the model drops both (`RunTogether`), and the properties name this one case
(`EndsOpen`).

`BufferFits` rests on the assertion of `EmitLabel`, which stops the model when a label comes upon held-back
bytes. With NDEBUG the assertion is not there, the program goes on, and nothing is claimed of it.

The client part of the state follows `AsmPrinter`: sections are initialised,
functions come before globals, and each global is emitted as section, linkage,
alignment, label and the parts of its initialiser. The bytes of a value have
identities (object, index), so that order, loss and duplication show. Comments
and number formats are left out, and so are the labels of blocks inside
functions, which follow the same path as function labels between
instructions.

### Addressing and SelectedCode

Selection is split in two: `Addressing` follows the address of one operand, and
`SelectedCode` the computation around it.

In `Addressing` a state is a stage of the compiler, and `env` holds what only the
run of the program decides: f5 at entry, the frame, registers, the place of a
symbol. `Lower`, `Select`, `Eliminate` and `EmitOperand` are `LowerOperation`,
`SelectAddr`, `eliminateFrameIndex` and `printMem`. `SelectAddr` looks at two levels of
additions, so nodes are modelled to that depth and a register stands for what is
below; the registers that hold nodes that were not folded may need an `ATAframe`,
which `Eliminate` expands too. `OperandValue` says what an operand amounts to at each
stage. The signed overflow in `eliminateFrameIndex` is undefined in C++; `Sums` allows
the wrapped sum and the sum in 64 bits, and both print to the same address.

f5 is a multiple of `StackAlign` = 4 when a function is entered, and the offset of an object a multiple of its own
alignment; the prologue adds nothing to that. So the address of an object that asks for 8 may be a multiple of
4 only, while the compiler believes the 8 and folds an OR with 4 into an addition. `AddressKept` claims the address of
such an OR only if the object asks for no more than f5 has, or happens to be in place (`InPlace`); all other
addresses are right whatever the alignment.

In `SelectedCode`, `Statements` are the DAG nodes with a pattern, `Meaning` is what LLVM
allows them to do to bytes in memory, `Selected` is the pattern, and `Run` executes the
instructions as operations on words. `BitsOf` gives a word as the set of its bits, for the logical
operations; the others are arithmetic, with powers of two from `Pow2`. The meaning of `krz8i` and `krz8c` comes from the
register forms of their patterns (`krz8i_node`, `krz8c_node`); that the same instructions
serve as narrow loads and stores in memory is what has to be shown.

### SymbolNames

`SymbolName` is the name each kind of entity gets, `getOrCreateSymbol` the table of
`MCContext`, `printSymbol` and `printOperand` the text. A label is written by `printSymbol` (`WriteLabel`), an operand by
`printExpr` (`WriteSymbol`), which puts a name that starts with `$` in parentheses. Characters are their codes, since the
code compares ranges of them.

### ThreadPool and TaskPool

A step of `ThreadPool` is a critical section, or one access to shared state where the
code takes none: `Announce` (`++ActiveThreads`, an atomic), `Barrier` (the empty
critical section of `CompletionLock`), `Pop`, `ReadActive`, `ReadTasks`, the three
notifications. `QueueLock` is held from `Get` to `Pop` and `CompletionLock` from
`LockCompletion` to the end of the predicate, and `pc` says where each thread is. The
client calls `async`, `wait` and the destructor in any order that `MayDestroy` allows; a task
may submit the tasks `Spawns` gives it, at any moment while it runs. `WakeSpuriously` is what the
standard allows condition variables.

`PoolKeepsPromises` is `TaskPool!Spec` with `client`, `queued` and `running` read off the
program counters, the queue and the workers' hands. A task that submits a task while the client waits is an error by the
header (`ThreadPool.h:68`); `asyncImpl` does not refuse it and the pool handles it as any other, so `TaskPool` has it as a
step of its own, `SubmitInWait`. The refinement says that tasks begin in the order of
submission, run once, and that `wait` and the destructor return when there is nothing left.

### LockFile

One action is one file system call, or one question to the operating system. `link` and
`unique` are the disk; `RemoveLock` removes whatever has the name, as `unlink` does.
`readLockFile` is `ReadLockFile`, `CheckOwner`, `RemoveInvalidLock`; the same steps serve its two
calls, and whether the process has a unique file by then tells where they return to. Removing a file may
fail for the processes in `Hindered` (no right to write the directory, a sticky bit): the code ignores the error
in `readLockFile` and the clean-up, and reports it only at line 252, for a link that nobody owns. `left` is history, the
processes whose own files stayed for that reason. `Die` kills a process
anywhere, with or without the handler that removes its unique file. `stolen` is history: a
lock was removed whose maker was between making and releasing it. Every property that such a
removal breaks says `~stolen`, and `OneOwner`, which does not, is the claim of the header that
fails. `AfterDrop` shows another surprise: after a failed write the destructor of the stream
ends the process (`raw_ostream.cpp:559`), so the constructor does not return the error it sets.

### ObjectCache

Files and names are separate: `entry` maps names to files, `content` files to what is in them,
so a rename makes a name mean another file while whoever opened the old one keeps it. A file is called
after the task that made it. `legacy` chooses between the two clients: `localCache`, for which
a failed rename or reload is fatal, and `ModuleCacheEntry`, which writes in place and keeps its
copy. `Stop` ends a process with all its tasks, for fatal errors and for kills. `Wait` is the
join of the tasks, for which `TaskPool` stands. `pruneCache` walks the names in any order, one at
a time, and then removes from its list, so entries come and go under it. Ages
are reduced to `recent`, and any entry that is not recent is expired. `inPlace`, `raced` and
`missed` are history: keys written in place, tasks whose entry was removed before they reloaded
it, and links whose `pruneCache` missed something.

`pruneCache` knows the size of an entry from `status` and subtracts it again when it has called `remove`, whatever
came of that. `seen` holds these sizes. They are wrong in four ways, and in each the link is put into `missed`: the removal
failed (`TryToRemove`, `CachePruning.cpp:226` and `:259-261`); `status` failed for an entry that exists (`Visit`, line 215); the
entry was just being written in place and had part of its size (`SizesOf`); it came after the walk had passed.
`PrunedToSize` says that the sum in hand is right in any case, and that the cache is within the policy's size when
none of the four happened.

Hooks of the LTO back end that report success without an object (`LTOBackend.cpp:407-443`) are the client's choice and left
out: `Fail` stands for every way in which a task fails.

## 3. Runs

| run | instance | shows |
|---|---|---|
| `call_machine` | `main` calls `work`; `work` has two arguments and two locals, a byte and a word, and calls itself and `leaf`; stack of 44 bytes; two symmetric values | type invariant, f5 tracked, return addresses intact, returns matched, refinement of `CallSemantics` |
| `call_byval` | `work` takes a word and a byval aggregate of two words | **violation**: the copy of the aggregate overwrites the word |
| `frame_layout` | up to 3 objects of sizes 1, 3, 4, 12 and alignments 1, 4, 8, dead ones, 0 to 2 arguments, with and without calls | disjoint, covered, aligned; callers keep f5 a multiple of 4 |
| `asm_streamer` | up to 3 functions and globals of 11 kinds in two data sections, up to 2 instructions | order of bytes, labels, padding, imports, and the bound on the buffer; no label and no import is lost but where `FinishImpl` writes two on one line |
| `selected_code` | bytes of one bit, words of four, a memory of five bytes, two registers; every content | patterns keep the meaning of the nodes they replace |
| `addressing` | words of five bits; locals and arguments aligned to 4, f5 at two places, three frame sizes, inside and outside call sequences; all addresses of up to three parts | the address survives every stage |
| `symbol_names` | every pair of labels and operands, with all names of up to two of twelve characters, and labels of functions and blocks 1 and 11 | texts are unambiguous between symbols and registers |
| `branches` | two-bit words, a block and two others, register and memory operands, every layout | control flow kept, analysis right |
| `thread_pool` | three workers, three tasks of which one submits another, also while the client waits, one spurious wake-up | no race, no late submission, refinement of `TaskPool`; every submitted task is run, every call returns |
| `lock_file` | three processes on two hosts, of which two may die, and one may not be able to remove files; reads and writes may fail | exclusion and true answers unless a lock is stolen, no half-written lock, no litter but of the dead and hindered; the wait returns, and the constructor unless an invalid lock stays for ever |
| `lock_owners` | the same without deaths and failing reads | **violation**: two owners |
| `object_cache` | two symmetric links of two modules of sizes 1 and 2, room for 2, either client, any entries of earlier links, one kill | whole entries and buffers, losses only to pruning, no forgotten failure, no temporary file left, sizes counted right, pruned to size unless something was missed |

The bounds, and why they are enough:

* `Lowest`, `Top` (guard `RoomFor`): 44 bytes hold `main` and two activations of
  `work`, or one and `leaf`, so recursion, the return into a recursive activation and pointers into
  older activations all occur. Overflow of the stack is not detected by the
  machine and so is not a behaviour of the model.
* `Value` has two symmetric words beside return addresses and junk: one to
  store and one to tell it from. The properties of this run are safety
  properties, for which symmetry is sound.
* `MaxObjects` = 3: an object between two others, with all mixtures of
  alignments; the layout of an object depends on the bytes used so far only.
* `MaxItems` = 3: one global to leave an alignment behind, one to hold bytes
  back, one to carry the label; `MaxInsts` = 2.
* `Half` = 2: with two-bit words all ten conditions differ from one another.
  Three blocks: the successors of a block and itself; more blocks in the
  layout are indistinguishable from these to the code of one block.

* `Bits` = 1: with words of four bits every content of memory and registers is an
  initial state, so one step from each is all there is to see. A byte is one bit and
  a half word two, which still tells sign, position and byte order apart.
* `Last` = 4: two addresses, at which words overlap in three of four bytes.
* `WordSize` = 32: offsets, constants and their sums go below 0 and beyond the word.
* `MaxWritten` = 2: the properties of names compare two operands.
* Twelve characters: one of each class `isAcceptableChar`, `printQuotedName` and the digit
  test distinguish, with both ends of the digits, and `$` for `MCExpr::print`.

* Three workers and three tasks: one worker can be about to sleep, one about to pop and one
  about to retire while the client reads; a task can be queued by a task when all others
  are done. `MaxSpurious` = 1: the effect of a spurious wake-up is gone when the thread
  has tested its predicate.
* `Sleeps` = 2 stands for the sixteen sleeps of `waitForUnlock` (1 ms doubled up to 40 s): all but
  the last are alike. `MaxDeaths` = 2: an owner dies, and then who cleans up after it. Two hosts, of which
  one has two processes: owners that can be asked and that cannot. One process in `Hindered`, which shares its machine with another:
an invalid lock is met by one that can remove it and by one that cannot, and the property is about a process that cannot as
long as it cannot.
* Two links and two modules: two tasks race for one name within a link's reach, another link prunes
  beside them, and the walk can meet an entry before or after it changes. Sizes 1 and 2 with
  `MaxBytes` = 2: both fit alone, not together, so pruning has something to choose; an entry of size 2 that is being
  written in place may be seen with 0, 1 or 2. `MaxCrashes` = 1: the
  cache has no state that a second crash could make worse than the first; two would only
  multiply the states. The links are symmetric, and all properties of this run are safety properties.

Fairness. `ThreadPool` and `LockFile` have it: weak fairness of the steps of each worker and of the
client inside a call (`CallStep`), and of the steps of each process (`Step`). That is what
an operating system gives a thread that can run; locks are held for a bounded number of steps
and no thread takes one for ever, so strong fairness is not needed. Nobody is obliged to
submit, to wait, to destroy, to exit or to die, and tasks are assumed to end, as do the clients that
own a lock. `ConstructorReturns` is stated for runs in which a process does not fail to remove an invalid lock for ever: it says
`<>[][~InvalidLockStays(p)]_vars` of them, which is no fairness of a step but a condition on the directory. `ConstructorReturns` and `WaitReturns` hold because owners are finitely many; a crowd of
processes that come for ever could keep a constructor retrying, and the code does not exclude it.
The other specifications have none: the programs `CallMachine` runs need not terminate, and the
stages of the compiler are bounded loops over their input.

Deadlock is checked in the other runs; the stutter steps `Halted`, `Done`, `Stopped` and `Emitted` mark
the states in which those systems are meant to stop. The four runs of the pool, the lock file
and the cache do not check it, because there the threads and processes do end; in the first two the liveness
properties find any state that is stuck earlier.

## 4. Disagreements found

By the runs:

1. `call_byval`. LLVM's language reference says of byval that a hidden copy is
   made and the callee "is unable to modify the value in the caller"
   (`docs/LangRef.rst:983`). The calling convention gives every argument, byval
   included, four bytes, and the copy runs upward into the arguments before it.
   The properties of `call_machine` and the theorems are therefore about programs
   whose arguments are words (`ScalarArguments`).
2. `lock_owners`. The header of the lock file says that "only a single process can create that
   .lock file" (`LockFileManager.h:25`). That is so, but `readLockFile` removes a lock file it
   found missing or invalid by its name, and by then the name can be the lock another process
   has just made. `OwnersExcludeEachOther` and `SuccessIsTrue` say what holds as long as that
   does not happen.

By hand, with the configurations that are kept beside the modules
(`tlc -config X.cfg M`; each stops with a violation):

3. `MCCallAlign.cfg` (`MCCallMachine`, `ObjectsAligned`). `docs/LangRef.rst:7354` guarantees the
   alignment an alloca asks for. f5 is only kept a multiple of 4, the frame lowering claims that
   the stack can be realigned (the default of the constructor argument) and the
   prologue does not realign it. `OffsetsAligned` shows how far the layout does
   its part: relative to f5.
4. `MCAsmLabel.cfg` (`MCAsmStreamer`, `LabelIsAligned`). "Label is not aligned!"
   (`F2003fMCAsmStreamer.cpp:132`) fails for `i32`, `i8`, and any third global in one section,
   because an alignment of 1 is never announced to the streamer.
5. `MCNameNumber.cfg` (`MCSymbolNames`, `NumbersAreNotSymbols`). `isValidUnquotedName` "does not need
   quotes to be syntactically correct" (`include/llvm/MC/MCAsmInfo.h:432`) accepts names of digits
   that contain a 0 or a 9, because the test in line 67 of `F2003fMCAsmInfo.cpp` excludes both ends
   of the range. All other names of digits are quoted.
6. `MCNameClash.cfg` (`MCSymbolNames`, `GlobalsKeepTheirNames`). With an empty `PrivateLabelPrefix` a
   function `BB1_1` of the program and the label of a block are one symbol: an error if the
   program defines it, a call into the block if it only declares it.

7. `MCNameDollar.cfg` (`MCSymbolNames`, `SymbolsHaveOneSpelling`). `MCExpr::print` puts names that start with `$` in
   parentheses "so that they don't look like absolute names" (`lib/MC/MCExpr.cpp:51`). This target quotes such names anyway, so
   the operand `('x24)` does not have the spelling `'x24` of the label, and has characters `isAcceptableChar` refuses.
8. `MCAsmEnd.cfg` (`MCAsmStreamer`, `NothingLostAtEnd`). If the last global of a module has no bytes and a symbol is imported,
   `FinishImpl` writes `fen l' namexok sym` on one line (`F2003fMCAsmStreamer.cpp:208-214`): the label is misspelled and the
   import lost. Every other label and import is there, as `LabelsMarkObjects` and `ImportsAreUndefined` say.
9. `MCLockSuccess.cfg` (`MCLockFile`, `SuccessIsRelease`). The header of the lock file has `Res_Success` for "The lock was released
   successfully" and `Res_OwnerDied` for an owner that "died while holding the lock" (`LockFileManager.h:45-48`). An owner that dies
   with its handler run leaves a dangling link; `waitForUnlock` then asks only whether the file exists (lines 324-326), and
   with a file of an earlier owner the answer is `Res_Success`.
10. `MCLockRemoval.cfg` (`MCLockFile`, `ConstructorAlwaysReturns`). A process that may not remove an invalid lock goes round the loop of
   the constructor for ever (lines 219-258): lines 58 and 75 ignore the error, so the link is there again when it tries to make its own.
11. `MCAddressAlign.cfg` (`MCAddressing`, `OrIsAddition`). An OR that `isBaseWithConstantOffset` accepts "is guaranteed to have the
   same semantics as an ADD" (`SelectionDAG.h:1376`), because the bit is known to be clear; in the address of a frame object with an alignment
   of 8 it need not be, since f5 is a multiple of 4. The instruction then accesses another address. This is what 3 leads to.

By reading, with nothing to run:

12. `CachePruning.cpp:164` compares the pruning interval only when it is zero, so it never keeps a link
   from walking the directory, which `CachePruning.h:28` says it is for. Line 223 removes every file
   for an expiration of 0, which the header says disables it, and the loop under "Remove the oldest
   accessed files first" (line 256) removes the largest first.
13. `LockFileManager.cpp:203-211` means to return an error when the process ID cannot be written; the stream's
   destructor ends the process instead.
14. `ThreadPool.h:67-68` says of `wait` "It is an error to try to add new tasks while blocking on this call". Nothing refuses it, and
   `PoolKeepsPromises` shows that a task submitted then is run before `wait` returns. `TaskPool!SubmitInWait` is that step.

## 5. Proofs

| theorem | statement | argument |
|---|---|---|
| `CallMachineProofs!TypeCorrect`, `StackPointerTracked`, `ReturnAddressesKept`, `ReturnsAreMatched` | type invariant, tracking of f5, return addresses, matching of returns, for every program, layout, call graph and depth | the inductive invariant `IInv` below |
| `CallMachineProofs!MachineImplementsSemantics` | the machine implements `CallSemantics` | every action maps to one step of it or to a stutter, under `IInv` |
| `CallMachineProofs!ScalarCopiesArePrivate` | `ArgumentCopiesArePrivate` when every argument is a word, the property `call_byval` refutes for aggregates | the slots of one call frame are apart, and it lies below every local |
| `FrameLayoutProofs!TypeCorrect`, `LayoutIsDisjoint`, `FrameIsCovered` | for any number of objects | all objects placed lie within the bytes used so far, and each next one below them |
| `FrameLayoutProofs!LayoutIsAligned`, `CallersAreAligned` | for any objects whose alignments divide one another (`AlignmentAssumption`: powers of two) | see below |
| `SelectionProofs!AddressAlwaysKept` | for any word size and alignment that are powers of two, and any operands | see below |
| `SelectionProofs!SelectionAlwaysKeepsMeaning`, `MachineAlwaysTyped` | for any width of byte, size of memory and set of registers | see below |
| `PrintingProofs!TextAlwaysTellsSymbols`, `InventedNamesAlwaysDiffer` | for names of any characters and length, and blocks and tables of any number | see below |
| `PrintingProofs!BufferAlwaysFits`, `BytesAlwaysInOrder`, `LabelsAlwaysMarkObjects`, `PaddingAlwaysEndsSection`, `ImportsAlwaysUndefined` | for any module | see below |
| `BranchesProofs!LoweredConditionsAgree`, `OppositeNegates` | for any word size | case analysis |
| `BranchesProofs!ControlFlowAlwaysKept`, `AnalysisAlwaysRight` | for any blocks, operand shapes and word size | see below |
| `ThreadPoolProofs!TypeCorrect`, `QueueReadSafely`, `DestructionIsSafe` | for any number of workers and tasks | the inductive invariant below |
| `ThreadPoolProofs!PoolRefinesTaskPool` | the pool implements `TaskPool` | every action maps to one step of it or to a stutter, under the invariant |
| `LockFileProofs!TypeCorrect`, `LocksAlwaysWritten`, `OwnersAlwaysExclude`, `SuccessAlwaysTrue`, `NoLitterLeft` | for any number of processes, hosts, sleeps and deaths | the inductive invariant below |
| `ObjectCacheProofs!TypeCorrect`, `EntriesAlwaysWhole`, `BuffersAlwaysWhole`, `LossNeedsPruning`, `SuccessIsComplete`, `NoTempEverLeft`, `PrunesToSize` | for any links, modules, sizes and crashes | the inductive invariant below |

*Calls.* `ReturnAddressesIntact` is not inductive: a store to a local keeps return
addresses only if f5 is where the compiler thinks it is, activations lie below one
another with room for their frames between them, and the pointer held points into a
live object. `IInv` adds exactly these: `StackPointerIsTracked`, `FramesOK` (the
frames of activations do not overlap, each site called from the function below),
`PointerOK` (the pointer is the address of its object in a live activation) and
`ControlOK` (what the program counter says of the newest activation). Each action
then has one lemma. Assumptions: `LayoutAssumption` (which `FrameLayout` establishes),
`WordAssumption` (return addresses differ from program values) and
`ScalarArguments` (each argument is one word; without it the theorem is false, as
`call_byval` shows).

*Refinement of calls.* Under the mapping every word of a local or an argument has one address (`LocalAddr`,
`ArgAddr`). The proof shows that two such words are always at least four bytes apart, that the call frame being
filled and the return address word lie below all of them, and so that a store changes the word it is
meant for and no other word of any activation. The arguments in the call frame become those of the callee
because `OutArgOffset` and `InArgOffset` name the same slot from the two sides of the call. Prologue and epilogue are
stutters.

*Frame alignment.* That an object is aligned relative to the lowered f5 depends on all the others: the frame is
rounded to one alignment, and each object's must divide it. `Aligned` says that every object placed is a
multiple of its alignment below f5, that `maxAlign` is an alignment no smaller than any of theirs, and
that the finished frame is a multiple of an alignment at least that large. `AlignmentAssumption`, the larger of two
alignments is a multiple of the smaller, does the rest; with alignments 3 and 4 the theorem would be false.

*Addresses.* The stages are functions of the operand, so the invariant says that the operand has the shape the next
stage expects and that its value is, modulo the word size, the address of the expression. Signed and
unsigned readings of a word are congruent, which carries the value through the immediates that wrap around; an OR is
taken for an addition only when the constant lies below the known alignment of the base, and `PowerAssumption` (alignments
and the word size are powers of two) makes the two equal there if the base is at a multiple of that alignment. For a
register that is what is known of it; a frame object is where it asks to be if it asks for no more than the
alignment of f5 (`SmallInPlace`). `BitTrusted` is this condition, and only the value depends on it, not the shape.

*Patterns.* What is to be shown holds in every state whose bytes and registers are in range, so the invariant is
`Machine`, and the theorems have one lemma for each kind of statement. A word is two things. It is four digits, its
bytes: `DigitFacts` gives each as a quotient, from which loads and stores of one, two and four bytes follow
(`LoadFacts`, `StoreFacts`, `WriteWord`). And it is a set of bits: `BitsExist` and `SameBits` say that every set is one number,
`AndMask` that a mask takes a remainder, and `OrSum` that joining numbers without a common bit adds them. `krz8c` in memory is
then the digits of the word with the first one replaced, which is what a store of a byte
writes (`TruncStoreKept`). `SignedTop` says that a shift from the top extends the sign, because the
size of a narrow number is even. Assumption: `MachineAssumption`, a byte has a bit and the memory a word.

*Names.* `TextTellsSymbols` is a statement about a code: `Quoted` writes a character as itself, or as an apostrophe
and what follows it, and from the left one can tell where each character ends (`CodeOnce`), so that two quoted
names with one text are one name, of whatever length (`CodedOnce`). A quoted name begins with an apostrophe, an operand in parentheses with one of these, and what
`isValidUnquotedName` lets through does not, nor does it spell a register. Invented names are a prefix and a decimal, for
blocks and tables two of them with an underscore between: decimals of different numbers differ, and no digit is an underscore, so the
numbers can be read back. Assumption: `NamesAssumption`, names are sequences of bytes and not empty, and numbers are numbers.

*Streamer.* `BufferFits` holds when values are emitted but not between
`EmitAlignment` and `EmitLabel`: there the alignment may already be smaller than the
bytes held back, and only the assertion in `EmitLabel` keeps the next value from
being emitted in that state. `IInv` says so.

The other theorems need to know where every byte and label is, so their invariants are about the output as a
whole. `BytesInv` says that the bytes of the output without the padding, followed by those held back, are the bytes
sent; `PaddingInv` that a padded line is the last of its stretch, or the stretch is over; `PlacesInv` that each
label defined is in one place, among those waiting or on a line; `MarksInv` that the place of a label is the
place of its object's first byte; `LastInv` that a label which waits when an item has ended is that of an
object without bytes, from which follows which label `Finish` may lose; `ImportsInv` that what has been visited is referred to, or defined, or the symbol whose
label comes next. `ClientInv` is what `AsmPrinter` contributes: it defines each symbol once, before it sends
a byte of it. Every step of the streamer but `EmitLabel` is of one form, `Emits(new, bytes, kept)`: lines are appended
that hold what was held back and what is sent, cut otherwise, with the labels that waited, all of them but where `Finish`
does not keep the last. The invariants are shown for that form once, and
then for each action. Assumption: `BoundAssumption`, that the bounds of the model are numbers.

*Branches.* The invariant says that the code is `pre \o Terms(T, F, C)`: a select or nothing, and terminators that
lead to T if the condition C holds and else to F, where no block means the one that `falls` names; that `succs`
are the blocks reached so, which is what `updateTerminator` goes by when it looks for the fall-through block;
that while tail merging holds the block open there is no second target; or that the block returns. `Same` compares
terminators in two layouts: they reach the same blocks, and the same one for every pair of values. It is kept by
reversing a condition and swapping its targets (`OppositeNegates`), by dropping a jump to the block that follows and by adding
one. Each pass is then a path through its cases from one description of the block to another
(`Becomes`), and each case ends in one of these steps. For a block that returns, `analyzeBranch`
fails, and no pass touches it. FiMalkrz changes the code and not what running it does
(`ExpandedCode`): the two instructions it makes of a pseudo instruction do what that does, but for the flag, which nothing
reads later. That the operand list is cut at the right places is part of the proof, for each of the shapes.
Assumption: `BranchAssumption`, the operands are registers, immediates and memory, and `None` and
"return" are no blocks.

*Folds.* `analyzeBranch`, `Outcome`, `FlattenSeq`, `Without` and the sum of sizes are folds, and the provers cannot use the
library's induction theorems, whose parameter is an operator. `SetInduction` is induction without that
parameter: a set of numbers that contains 0 and with each number the next is all of them. It follows from `WFMin`, and the sets
are those of the lengths, or sizes, for which the claim holds. With it the folds are shown to exist
and to satisfy their recursive equations; for code, whose length is at most three, they are then unfolded.

*Pool.* `ReadTasks` is safe because whoever is between `Announce` and `Pop` holds `QueueLock`, has
been counted, and cannot get past `Barrier` while the client holds `CompletionLock`; so when the
client has seen `ActiveThreads = 0` it stays 0 for threads that may pop. `IInv` says which program
counters hold which lock, that `ActiveThreads` is the number of `Busy` workers, that a worker
past `Get` finds the queue not empty, and that a task that can still submit something was submitted by a
client that has not destroyed the pool. It also keeps the workers' tasks distinct, which is what the
refinement needs when one of them finishes. Assumption: `PoolAssumption`, finitely many workers and at least one.

*Lock file.* `Files` ties the state of a process's unique file to its program counter, `LinkOwned` says that
the link belongs to a process that holds the lock or died, `OwnersSeen` that a process once
seen as owner never owns again, and `Exclusive` that without theft an owner has its link. `Exclusive`
is why a waiter that finds the link gone knows that its owner does not hold the lock. A removal that fails changes
nothing but `left`, and a process in `left` is what `NoLitter` exempts.

*Cache.* `EntriesAreWhole` depends on what is in files nobody sees yet. `Own` says that names and
buffers lead to files of their key only, `Unseen` that nobody sees a task's file before it is
renamed, `Written` that what is renamed has been written and closed and that `localCache` writes to nothing
but its temporary file, `Raced` that an entry missing at its reload was removed after the rename, and `Ends`
that a link goes on when its tasks have ended. The keys written in place are exempt in `Whole` only.

`PrunesToSize` has an invariant of its own, `Counted`: of a link that prunes, every entry of the directory is among
those still to be visited, the one about to be removed, or those counted, unless it was added behind the link's back
(`missed`), and `total` is the sum of the sizes it has seen of those counted. Unless something was missed these are the
true sizes, and what has been taken off the list is gone. Others may remove entries meanwhile, which only makes
the directory smaller than what is counted. That a sum over a set does not depend on the order, and shrinks by a
member's size when the member goes, is the induction above. Assumption: `CacheAssumption`, finitely many keys with sizes that are
numbers, and names that can be told apart.

*Recursive functions.* `Decimal` and `Pow2`, and inside operators `LoadBytes` and `Run`, are recursive functions, of which TLA+
gives only a choice: some function with these values, if there is one. The proofs show that there is, by gluing
functions that have the values up to n, which exist and agree by `SetInduction` (`Pow2Unfolds`), or by
writing it down where the range is short (`LoadUnfolds`, `RunUnfolds`).

Every safety invariant and action property of the passing runs is stated by a theorem. Only model-checked: the refutations of
the two runs that find violations, which are single behaviours; and all liveness (`TasksAreRun`, `CallsReturn`, `ConstructorReturns`, `WaitReturns`), which the prover does not reach.

## 6. Not modelled, and why

* Multiplication (what `lat` does when both halves go to one register is not said anywhere
  in the repository), indirect jumps, and rematerialisation. Selection itself, that is which of two
  matching patterns TableGen's matcher takes and when loads may be folded, is upstream.
* A load of `i1` has no pattern and stops the compiler.
* Names that begin with the character 1, which are taken as they are.
* Vararg calls, tail calls, dynamic allocas and constant pools: the back end does
  not support them (unreachable or disabled in the code). 64-bit arguments and
  results are split by LLVM's legaliser before this code sees them.
* Deleting, moving and merging whole blocks in branch folding; landing pads; indirect
  jumps: they are not expressed through the target's hooks, or `analyzeBranch` declines.
* Directives that are `llvm_unreachable` in the streamer; the text of mnemonics;
  registration. Register allocation, scheduling and the rest of LLVM: upstream, and by far most of
  the repository's lines; it consists of sequential transformations of programs, about which
  a small instance says little.
* The thread pool of builds without threads, which is a loop; a pool with no workers, which
  `hardware_concurrency()` may produce; tasks that wait for the futures of other tasks, which nothing in
  `lib` does.
* Lock files on Windows and Android, and `getHostID` failing on OS X.
* How the key of a cache entry is computed; the parsing of pruning policies and percentages of the
  disk; `SavedObjectsDirectoryPath`; times, beyond whether an entry is recent.

## 7. Plan

Order: the most important behaviour first, each module checked before it is proved.

1. Done: calls (`CallSemantics`, `CallMachine`), frames, conditions and branches, the
   streamer, addresses, patterns and names; the thread pool with its abstract specification,
   the lock file, the object cache; the theorems above.
2. Branches of several blocks: a function whose blocks are placed one after another, so
   that `Branches` composes along the layout; the rest of `OptimizeBlock`.
3. Jump tables: `BR_JT` expanded to a load and an indirect jump, with the table emitted through the
   streamer; block labels inside functions.
