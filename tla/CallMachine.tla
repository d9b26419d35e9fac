---------------------------- MODULE CallMachine ----------------------------
(***************************************************************************)
(* The machine code the 2003f back end emits for functions, calls, returns *)
(* and stack objects, run by an arbitrary program.                         *)
(*                                                                         *)
(* A 2003f machine has one stack pointer, f5, and no frame pointer.  A     *)
(* caller lowers f5 by the size of the call frame, stores the arguments    *)
(* into it in any order, and calls with `inj f5@ xx func', which leaves    *)
(* the return address in the word f5 points at; the callee lowers f5 by    *)
(* its own stack size, addresses everything relative to the moving f5,     *)
(* raises f5 again and returns with `krz xx f5@'.  What the compiler knows *)
(* statically (SPAdj, object offsets, call frame sizes) and what f5 is at  *)
(* run time have to agree on every path, and nothing in the machine checks *)
(* that they do.                                                           *)
(*                                                                         *)
(* The program is the most general one: in the body of a function any      *)
(* local may be loaded, stored or have its address taken, any argument     *)
(* read, and any call site of the function reached, in any order.          *)
(* `frames' and `ptrTo' record what the program believes; no action reads  *)
(* them to decide what the machine does.                                   *)
(***************************************************************************)
EXTENDS Integers, Sequences

CONSTANTS
    Fn, Main,           \* functions, and the one the program starts in
    Site, Root,         \* return addresses: after a call site, and of startup code
    Caller, Callee,     \* the function a site is in, and the one it calls
    Params,             \* Params[f][i]: size of the i-th parameter, in bytes
    ObjSize,            \* ObjSize[f][o]: size of stack object o of f, in bytes
    ObjAlign,           \* ObjAlign[f][o]: the alignment it asks for
    ObjOffset,          \* ObjOffset[f][o]: its offset from f5 on entry to f
    StackSize,          \* StackSize[f]: what the prologue of f takes off f5
    Value,              \* the words a program computes
    Junk,               \* a word nobody stored as such
    None,               \* no call in progress, no pointer held
    Lowest, Top         \* the stack occupies the bytes Lowest .. Top - 1

\* What frame layout (StackObjects, FrameLayout) gives every function: its
\* objects lie side by side in the StackSize bytes below the incoming f5.
\* The stack has room for Main at least.
ASSUME LayoutAssumption ==
    /\ Lowest \in Int /\ Top \in Int
    /\ Main \in Fn
    /\ Caller \in [Site -> Fn] /\ Callee \in [Site -> Fn]
    /\ StackSize \in [Fn -> Nat]
    /\ Lowest =< Top - (4 * Len(Params[Main]) + 4) - StackSize[Main]
    /\ \A f \in Fn :
          /\ DOMAIN Params[f] = 1 .. Len(Params[f]) /\ Len(Params[f]) \in Nat
          /\ \A i \in DOMAIN Params[f] : Params[f][i] \in Nat
          /\ \A o \in DOMAIN ObjSize[f] :
                /\ ObjSize[f][o] \in Nat
                /\ ObjOffset[f][o] \in Int
                /\ -StackSize[f] =< ObjOffset[f][o]
                /\ ObjOffset[f][o] + ObjSize[f][o] =< 0
          /\ \A o, p \in DOMAIN ObjSize[f] :
                o # p => \/ ObjOffset[f][o] + ObjSize[f][o] =< ObjOffset[f][p]
                         \/ ObjOffset[f][p] + ObjSize[f][p] =< ObjOffset[f][o]

\* Return addresses, program values and junk are told apart.
ASSUME WordAssumption ==
    /\ Root \notin Site
    /\ Junk \notin Site \cup {Root}
    /\ Value \cap (Site \cup {Root}) = {}
    /\ None \notin Site /\ None \notin Int

VARIABLES
    mem,        \* the word at each byte address of the stack
    f5,         \* the stack pointer
    f0,         \* the return value register
    reg,        \* the register the last operation left its result in
    ptr,        \* a word holding the address of a stack object, or None
    pc,         \* [at, fn, site]: the code being executed
    todo,       \* the argument stores of the current call not yet executed
    frames,     \* history: the activations, as [fn, site, base]
    ptrTo       \* history: the object ptr was made to point at

vars == <<mem, f5, f0, reg, ptr, pc, todo, frames, ptrTo>>

Word == Value \cup Site \cup {Root, Junk}
Addr == Lowest .. Top - 1
Newest == frames[Len(frames)]

\* The words of an object of n bytes.
WordsIn(n) == 0 .. (n \div 4 - 1)

\* Store the words src in the n bytes at address a.  A word that shares bytes
\* with them and does not start at one of them is junk afterwards.
WriteWords(m, a, n, src) ==
    [x \in Addr |-> IF x \in a .. a + n - 4 /\ (x - a) % 4 = 0
                       THEN src[(x - a) \div 4]
                    ELSE IF x \in a - 3 .. a + n - 1 THEN Junk
                    ELSE m[x]]

Write(m, a, v) ==
    [x \in Addr |-> IF x = a THEN v
                    ELSE IF x \in a - 3 .. a + 3 THEN Junk
                    ELSE m[x]]

-----------------------------------------------------------------------------
(* The calling convention. *)

\* CC_F2003f: every argument, whatever its type, is given a 4-byte slot.
LocMemOffset(i) == 4 * (i - 1)
NextStackOffset(f) == 4 * Len(Params[f])

\* Faulty: the word for the return address is forgotten.
CallFrameWithoutReturnWord(f) == NextStackOffset(f)

\* LowerCall: the size of the call frame, with the return address below the
\* arguments, and where in it argument i is stored, relative to f5.
CallFrameBytes(f) == NextStackOffset(f) + 4
ArgsInAscendingOrder(f, i) == LocMemOffset(i) + 4    \* Faulty: the other way round.
OutArgOffset(f, i) == CallFrameBytes(f) - LocMemOffset(i) - 4

\* LowerFormalArguments: where the callee looks for argument i, relative to
\* f5 on entry.
FormalBytes(f) == NextStackOffset(f) + 4
InArgOffset(f, i) == FormalBytes(f) - LocMemOffset(i) - 4

\* Faulty: f5 is taken to stand still during a call sequence.
SPAdjIgnored == 0

\* TargetInstrInfo::getSPAdjust: how far a call in progress has lowered f5.
\* alignSPAdjust rounds to the stack alignment, 4.
SPAdj ==
    IF pc.at \in {"args", "after"}
    THEN ((CallFrameBytes(Callee[pc.site]) + 3) \div 4) * 4
    ELSE 0

\* eliminateFrameIndex: the address of the stack object at this offset.
FrameAddr(offset) == f5 + offset + StackSize[pc.fn] + SPAdj

-----------------------------------------------------------------------------
(* Instructions. *)

Init ==
    /\ mem = [x \in Addr |-> IF x = Top - FormalBytes(Main) THEN Root ELSE Junk]
    /\ f5 = Top - FormalBytes(Main)
    /\ f0 = Junk /\ reg = Junk
    /\ ptr = None /\ ptrTo = None
    /\ pc = [at |-> "entry", fn |-> Main, site |-> None]
    /\ todo = {}
    /\ frames = << [fn |-> Main, site |-> Root, base |-> Top - FormalBytes(Main)] >>

\* emitPrologue: nta f5 StackSize.
Prologue ==
    /\ pc.at = "entry"
    /\ f5' = f5 - StackSize[pc.fn]
    /\ pc' = [pc EXCEPT !.at = "body"]
    /\ UNCHANGED <<mem, f0, reg, ptr, todo, frames, ptrTo>>

\* Frame indices occur in the body and, as reloads and argument values,
\* inside a call sequence.
InBody == pc.at \in {"body", "args", "after"}

LoadLocal(o, k) ==
    /\ reg' = mem[FrameAddr(ObjOffset[pc.fn][o] + 4 * k)]
    /\ UNCHANGED <<mem, f5, f0, ptr, pc, todo, frames, ptrTo>>

StoreLocal(o, k, v) ==
    /\ mem' = Write(mem, FrameAddr(ObjOffset[pc.fn][o] + 4 * k), v)
    /\ UNCHANGED <<f5, f0, reg, ptr, pc, todo, frames, ptrTo>>

LoadArg(i, k) ==
    /\ reg' = mem[FrameAddr(InArgOffset(pc.fn, i) + 4 * k)]
    /\ UNCHANGED <<mem, f5, f0, ptr, pc, todo, frames, ptrTo>>

\* ATAframe: krz ptr f5, then ata ptr Offset.  The address outlives the call
\* sequence it is taken in, and calls it is passed to.
TakeAddress(o) ==
    /\ ptr' = FrameAddr(ObjOffset[pc.fn][o])
    /\ ptrTo' = [depth |-> Len(frames), obj |-> o]
    /\ UNCHANGED <<mem, f5, f0, reg, pc, todo, frames>>

\* A program dereferences a pointer inside the object it points to.
Pointee == WordsIn(ObjSize[frames[ptrTo.depth].fn][ptrTo.obj])

LoadIndirect(k) ==
    /\ reg' = mem[ptr + 4 * k]
    /\ UNCHANGED <<mem, f5, f0, ptr, pc, todo, frames, ptrTo>>

StoreIndirect(k, v) ==
    /\ mem' = Write(mem, ptr + 4 * k, v)
    /\ UNCHANGED <<f5, f0, reg, ptr, pc, todo, frames, ptrTo>>

\* The model's bound: the call frame and the callee's own frame fit in the
\* stack.  The machine does not check.
RoomFor(s) == Lowest =< f5 - CallFrameBytes(Callee[s]) - StackSize[Callee[s]]

\* ADJCALLSTACKDOWN, which eliminateCallFramePseudoInstr makes nta f5.
BeginCall(s) ==
    /\ pc.at = "body" /\ Caller[s] = pc.fn /\ RoomFor(s)
    /\ f5' = f5 - CallFrameBytes(Callee[s])
    /\ pc' = [pc EXCEPT !.at = "args", !.site = s]
    /\ todo' = DOMAIN Params[Callee[s]]
    /\ UNCHANGED <<mem, f0, reg, ptr, frames, ptrTo>>

\* Store argument i relative to the lowered f5: a word, or for a byval
\* argument a copy of the whole aggregate.  The stores hang off one
\* TokenFactor, so they are executed in any order.
StoreArg(i, src) ==
    /\ pc.at = "args" /\ i \in todo
    /\ LET callee == Callee[pc.site]
       IN  mem' = WriteWords(mem, f5 + OutArgOffset(callee, i), Params[callee][i], src)
    /\ todo' = todo \ {i}
    /\ UNCHANGED <<f5, f0, reg, ptr, pc, frames, ptrTo>>

\* inj f5@ xx func: store the return address at f5, and jump.
Fenxeo ==
    /\ pc.at = "args" /\ todo = {}
    /\ mem' = Write(mem, f5, pc.site)
    /\ frames' = Append(frames, [fn |-> Callee[pc.site], site |-> pc.site, base |-> f5])
    /\ pc' = [at |-> "entry", fn |-> Callee[pc.site], site |-> None]
    /\ UNCHANGED <<f5, f0, reg, ptr, todo, ptrTo>>

\* Faulty: another register is copied to f0.
ReturnWrongRegister(v) ==
    /\ pc.at = "body"
    /\ f0' = f5
    /\ pc' = [pc EXCEPT !.at = "ret"]
    /\ UNCHANGED <<mem, f5, reg, ptr, todo, frames, ptrTo>>

\* LowerReturn copies the value to f0.
LowerReturn(v) ==
    /\ pc.at = "body"
    /\ f0' = v
    /\ pc' = [pc EXCEPT !.at = "ret"]
    /\ UNCHANGED <<mem, f5, reg, ptr, todo, frames, ptrTo>>

\* emitEpilogue: ata f5 StackSize, in front of the return.
Epilogue ==
    /\ pc.at = "ret"
    /\ f5' = f5 + StackSize[pc.fn]
    /\ pc' = [pc EXCEPT !.at = "exit"]
    /\ UNCHANGED <<mem, f0, reg, ptr, todo, frames, ptrTo>>

\* krz xx f5@: jump to whatever the word at f5 says.
Dosnud ==
    /\ pc.at = "exit"
    /\ LET ra == mem[f5]
       IN  pc' = IF ra \in Site
                 THEN [at |-> "after", fn |-> Caller[ra], site |-> ra]
                 ELSE [at |-> IF ra = Root THEN "halt" ELSE "wild",
                       fn |-> Main, site |-> None]
    /\ frames' = SubSeq(frames, 1, Len(frames) - 1)
    /\ IF ptrTo # None /\ ptrTo.depth = Len(frames)
       THEN ptr' = None /\ ptrTo' = None
       ELSE UNCHANGED <<ptr, ptrTo>>
    /\ UNCHANGED <<mem, f5, f0, reg, todo>>

\* Copy the value returned out of f0.
LowerCallResult == reg' = f0

\* Faulty: only the arguments are popped.
EndCallPopsArgumentsOnly ==
    /\ pc.at = "after"
    /\ f5' = f5 + NextStackOffset(Callee[pc.site])
    /\ LowerCallResult
    /\ pc' = [pc EXCEPT !.at = "body", !.site = None]
    /\ UNCHANGED <<mem, f0, ptr, todo, frames, ptrTo>>

\* ADJCALLSTACKUP, which eliminateCallFramePseudoInstr makes ata f5.
EndCall ==
    /\ pc.at = "after"
    /\ f5' = f5 + CallFrameBytes(Callee[pc.site])
    /\ LowerCallResult
    /\ pc' = [pc EXCEPT !.at = "body", !.site = None]
    /\ UNCHANGED <<mem, f0, ptr, todo, frames, ptrTo>>

Halted == pc.at = "halt" /\ UNCHANGED vars

AccessLocal ==
    /\ InBody
    /\ \E o \in DOMAIN ObjSize[pc.fn] :
          \/ TakeAddress(o)
          \/ \E k \in WordsIn(ObjSize[pc.fn][o]) :
                LoadLocal(o, k) \/ \E v \in Value : StoreLocal(o, k, v)

ReadArg ==
    /\ InBody
    /\ \E i \in DOMAIN Params[pc.fn] :
          \E k \in WordsIn(Params[pc.fn][i]) : LoadArg(i, k)

FollowPointer ==
    /\ InBody /\ ptrTo # None
    /\ \E k \in Pointee : LoadIndirect(k) \/ \E v \in Value : StoreIndirect(k, v)

PassArg ==
    \E i \in todo :
        \E src \in [WordsIn(Params[Callee[pc.site]][i]) -> Value] : StoreArg(i, src)

Next ==
    \/ Prologue
    \/ AccessLocal
    \/ ReadArg
    \/ FollowPointer
    \/ \E s \in Site : BeginCall(s)
    \/ PassArg
    \/ Fenxeo
    \/ \E v \in Value : LowerReturn(v)
    \/ Epilogue
    \/ Dosnud
    \/ EndCall
    \/ Halted

Spec == Init /\ [][Next]_vars

-----------------------------------------------------------------------------
(* Properties. *)

At == {"entry", "body", "args", "after", "ret", "exit", "halt", "wild"}

\* Type invariant.
TypeOK ==
    /\ mem \in [Addr -> Word]
    /\ f5 \in Int
    /\ f0 \in Word /\ reg \in Word
    /\ ptr \in Int \cup {None}
    /\ pc \in [at : At, fn : Fn, site : Site \cup {None}]
    /\ todo \subseteq Nat
    /\ frames \in Seq([fn : Fn, site : Site \cup {Root}, base : Int])

\* At every instruction f5 is where the compiler thinks it is: the newest
\* activation's incoming f5, less its stack size between prologue and
\* epilogue, less the call frame inside a call sequence.  Every frame index
\* and argument offset is resolved against this, on every path to the
\* instruction, and when the program ends f5 is balanced.
StackPointerIsTracked ==
    f5 = CASE pc.at \in {"entry", "exit"} -> Newest.base
           [] pc.at \in {"body", "args", "after", "ret"} ->
                 Newest.base - StackSize[pc.fn] - SPAdj
           [] OTHER -> Top - FormalBytes(Main)

\* The return address of every activation is still in the word it was stored
\* in, whatever argument, local and pointer stores happened since, in this
\* activation or in the ones it called.
ReturnAddressesIntact ==
    \A d \in DOMAIN frames : mem[frames[d].base] = frames[d].site

\* A return arrives behind the call that made the activation, with the call
\* frame still in place below f5, or in the startup code.
ReturnsToCallSite ==
    [][ pc.at = "exit" =>
          /\ f5' = Newest.base
          /\ IF Newest.site = Root THEN pc'.at = "halt"
             ELSE pc' = [at |-> "after", fn |-> Caller[Newest.site], site |-> Newest.site]
      ]_vars

\* Every stack object is at an address of the alignment it asked for.
ObjectsAligned ==
    \A d \in DOMAIN frames : LET f == frames[d].fn IN
        \A o \in DOMAIN ObjAlign[f] :
            (frames[d].base + ObjOffset[f][o]) % ObjAlign[f][o] = 0

\* The memory the program means by the parts of activation d.
Contents(start, sizes) ==
    [x \in DOMAIN sizes |-> [k \in WordsIn(sizes[x]) |-> mem[start[x] + 4 * k]]]

LocalsOf(d) ==
    LET f == frames[d].fn
    IN  Contents([o \in DOMAIN ObjSize[f] |-> frames[d].base + ObjOffset[f][o]], ObjSize[f])

ArgsOf(d) ==
    LET f == frames[d].fn
    IN  Contents([i \in DOMAIN Params[f] |-> frames[d].base + InArgOffset(f, i)], Params[f])

\* Passing an argument makes a copy of it that is the callee's alone: it
\* touches no argument passed before it and no local of any activation.
ArgumentCopiesArePrivate ==
    [][ pc.at = "args" /\ pc'.at = "args" /\ todo' # todo =>
          LET callee == Callee[pc.site]
              passed == DOMAIN Params[callee] \ todo
          IN  /\ \A i \in passed : \A k \in WordsIn(Params[callee][i]) :
                    LET slot == f5 + OutArgOffset(callee, i) + 4 * k
                    IN  mem'[slot] = mem[slot]
              /\ \A d \in DOMAIN frames : LocalsOf(d)' = LocalsOf(d)
      ]_vars

Activations ==
    [d \in DOMAIN frames |->
        [fn |-> frames[d].fn, site |-> frames[d].site, args |-> ArgsOf(d), locals |-> LocalsOf(d)]]

\* What the newest activation is doing.
Control ==
    [at |-> CASE pc.at \in {"entry", "body"} -> "run"
              [] pc.at = "args" -> "call"
              [] pc.at \in {"ret", "exit"} -> "leave"
              [] pc.at = "after" -> "back"
              [] pc.at = "halt" -> "done"
              [] pc.at = "wild" -> "lost",
     site |-> pc.site]

\* The arguments in the call frame being filled.
Outgoing ==
    IF pc.at = "args"
    THEN LET g == Callee[pc.site]
         IN  Contents([i \in DOMAIN Params[g] |-> f5 + OutArgOffset(g, i)], Params[g])
    ELSE << >>

Semantics == INSTANCE CallSemantics WITH
    stack <- Activations, ctl <- Control, out <- Outgoing, ret <- f0, ptr <- ptrTo

\* The machine code implements the abstract semantics of calls: a store to a
\* local, an argument or through a pointer changes that word of that
\* activation and nothing else of any activation, a callee reads the
\* arguments its caller stored, and a value returned is the value received.
CallsAreIsolated == Semantics!Spec

=============================================================================
