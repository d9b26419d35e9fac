------------------------- MODULE CallMachineProofs -------------------------
(***************************************************************************)
(* Proofs about CallMachine, for every set of functions, every frame       *)
(* layout that satisfies LayoutAssumption and every depth of calls:        *)
(* the type invariant, that f5 is always where the compiler thinks it is,  *)
(* that no return address is ever overwritten, that every return arrives   *)
(* at the call site it belongs to, and that the machine code implements    *)
(* CallSemantics.                                                          *)
(*                                                                         *)
(* The argument: the frames of the activations are disjoint and lie in the *)
(* order of the calls (FramesOK), f5 is a fixed distance from the newest   *)
(* one (StackPointerIsTracked), so a frame-relative access is an access to *)
(* the newest frame, a pointer access is one to the frame the pointer was  *)
(* taken in (PointerOK), and neither can reach the word above a frame      *)
(* that holds a return address.  The refinement adds where every word of   *)
(* a local or an argument is (LocalAddr, ArgAddr) and that two of them are *)
(* always Apart, so that a store changes the one word it is meant for.     *)
(***************************************************************************)
EXTENDS CallMachine, TLAPS

\* Every argument is a scalar: one word, as CC_F2003f assumes of all of them.
ScalarArguments == \A f \in Fn : \A i \in DOMAIN Params[f] : Params[f][i] = 4

\* Activations lie one below the other: the call frame of a newer one ends
\* below the stack objects of every older one.
FramesOK ==
    /\ \A d \in DOMAIN frames :
          /\ frames[d].base + CallFrameBytes(frames[d].fn) =< Top
          /\ Lowest =< frames[d].base - StackSize[frames[d].fn]
    /\ \A d, e \in DOMAIN frames : d < e =>
          frames[e].base + CallFrameBytes(frames[e].fn)
              =< frames[d].base - StackSize[frames[d].fn]
    /\ \A d \in DOMAIN frames :
          IF d = 1
          THEN /\ frames[d].site = Root
               /\ frames[d].base = Top - FormalBytes(Main)
          ELSE /\ frames[d].site \in Site
               /\ Callee[frames[d].site] = frames[d].fn
               /\ Caller[frames[d].site] = frames[d - 1].fn
               /\ frames[d].base + CallFrameBytes(frames[d].fn)
                     = frames[d - 1].base - StackSize[frames[d - 1].fn]

\* Control is in the newest activation, and in a call sequence at one of its
\* call sites, with room for the call.
ControlOK ==
    /\ pc.at # "wild"
    /\ pc.at = "halt" <=> frames = << >>
    /\ pc.at # "halt" => pc.fn = Newest.fn
    /\ pc.at \in {"args", "after"} =>
          /\ pc.site \in Site
          /\ Caller[pc.site] = pc.fn
          /\ Lowest =< f5
    /\ pc.at = "args" =>
          /\ Lowest =< f5 - StackSize[Callee[pc.site]]
          /\ todo \subseteq DOMAIN Params[Callee[pc.site]]

\* The pointer is the address of the object the program believes it points
\* to, in an activation that is still there.
PointerOK ==
    ptrTo # None =>
        /\ ptrTo = [depth |-> ptrTo.depth, obj |-> ptrTo.obj]
        /\ ptrTo.depth \in DOMAIN frames
        /\ ptrTo.obj \in DOMAIN ObjSize[frames[ptrTo.depth].fn]
        /\ ptr = frames[ptrTo.depth].base
                 + ObjOffset[frames[ptrTo.depth].fn][ptrTo.obj]

\* The inductive invariant.
IInv ==
    /\ TypeOK
    /\ FramesOK
    /\ ControlOK
    /\ PointerOK
    /\ StackPointerIsTracked
    /\ ReturnAddressesIntact

-----------------------------------------------------------------------------
(* Arithmetic of offsets. *)

USE DEF WordsIn

\* A word of an object of n bytes lies inside the object.
LEMMA WordInObject ==
    ASSUME NEW n \in Nat, NEW k \in WordsIn(n)
    PROVE  k \in Nat /\ 4 * k + 4 =< n
<1>1. k \in Int /\ 0 =< k /\ k =< n \div 4 - 1
    OBVIOUS
<1>2. 4 * (n \div 4) =< n
    OBVIOUS
<1> QED BY <1>1, <1>2

\* alignSPAdjust leaves call frame sizes alone: they are multiples of 4.
LEMMA CallFrameSize ==
    ASSUME NEW f \in Fn
    PROVE  /\ CallFrameBytes(f) \in Nat
           /\ CallFrameBytes(f) = 4 * Len(Params[f]) + 4
           /\ FormalBytes(f) = CallFrameBytes(f)
           /\ ((CallFrameBytes(f) + 3) \div 4) * 4 = CallFrameBytes(f)
<1>1. PICK n \in Nat : Len(Params[f]) = n
    BY LayoutAssumption
<1>2. CallFrameBytes(f) = 4 * n + 4 /\ FormalBytes(f) = 4 * n + 4
    BY <1>1 DEF CallFrameBytes, FormalBytes, NextStackOffset
<1>3. ((4 * n + 4 + 3) \div 4) * 4 = 4 * n + 4
    OBVIOUS
<1> QED BY <1>1, <1>2, <1>3

\* An argument's slot is in the call frame, above the return address.
LEMMA ArgumentSlot ==
    ASSUME NEW f \in Fn, NEW i \in DOMAIN Params[f]
    PROVE  /\ OutArgOffset(f, i) \in Int
           /\ InArgOffset(f, i) = OutArgOffset(f, i)
           /\ 4 =< OutArgOffset(f, i)
           /\ OutArgOffset(f, i) + 4 =< CallFrameBytes(f)
<1>1. i \in 1 .. Len(Params[f]) /\ Len(Params[f]) \in Nat
    BY LayoutAssumption
<1>2. FormalBytes(f) = CallFrameBytes(f) /\ CallFrameBytes(f) = 4 * Len(Params[f]) + 4
    BY CallFrameSize
<1> QED BY <1>1, <1>2 DEF OutArgOffset, InArgOffset, LocMemOffset

-----------------------------------------------------------------------------
(* Stores. *)

\* A store changes the word it is to, and no word four bytes away from it.
LEMMA WriteFacts ==
    ASSUME NEW m \in [Addr -> Word], NEW a \in Int, NEW v \in Word
    PROVE  /\ Write(m, a, v) \in [Addr -> Word]
           /\ a \in Addr => Write(m, a, v)[a] = v
           /\ \A x \in Addr : x + 4 =< a \/ a + 4 =< x => Write(m, a, v)[x] = m[x]
<1>1. Junk \in Word
    BY DEF Word
<1>2. Addr \subseteq Int
    BY LayoutAssumption DEF Addr
<1> QED BY <1>1, <1>2 DEF Write

\* Passing a scalar is a store of one word.
LEMMA WriteOneWord ==
    ASSUME NEW m, NEW a \in Int, NEW src
    PROVE  WriteWords(m, a, 4, src) = Write(m, a, src[0])
<1>1. Addr \subseteq Int
    BY LayoutAssumption DEF Addr
<1>2. \A x \in Addr : x \in a .. a + 4 - 4 /\ (x - a) % 4 = 0 <=> x = a
    BY <1>1
<1>3. \A x \in Addr : x \in a - 3 .. a + 4 - 1 <=> x \in a - 3 .. a + 3
    BY <1>1
<1>4. \A x \in Addr : x = a => (x - a) \div 4 = 0
    OBVIOUS
<1> QED BY <1>2, <1>3, <1>4 DEF WriteWords, Write

-----------------------------------------------------------------------------
(* Where activations and their parts are. *)

LEMMA FrameFacts ==
    ASSUME IInv
    PROVE  /\ Len(frames) \in Nat
           /\ DOMAIN frames = 1 .. Len(frames)
           /\ \A d \in DOMAIN frames :
                 /\ d \in Nat /\ 1 =< d
                 /\ frames[d].base \in Int
                 /\ frames[d].fn \in Fn
                 /\ StackSize[frames[d].fn] \in Nat
                 /\ CallFrameBytes(frames[d].fn) \in Nat
                 /\ 4 =< CallFrameBytes(frames[d].fn)
<1> DEFINE Activation == [fn : Fn, site : Site \cup {Root}, base : Int]
<1>1. frames \in Seq(Activation)
    BY DEF IInv, TypeOK
<1>2. \A d \in 1 .. Len(frames) : frames[d] \in Activation
    <2> HIDE DEF Activation
    <2> QED BY <1>1
<1>3. Len(frames) \in Nat /\ DOMAIN frames = 1 .. Len(frames)
    <2> HIDE DEF Activation
    <2> QED BY <1>1
<1>4. ASSUME NEW f \in Fn
      PROVE  StackSize[f] \in Nat /\ CallFrameBytes(f) \in Nat /\ 4 =< CallFrameBytes(f)
    <2>1. StackSize[f] \in Nat /\ Len(Params[f]) \in Nat
        BY LayoutAssumption
    <2> QED BY <2>1, CallFrameSize
<1> QED BY <1>2, <1>3, <1>4

\* Until the program ends there is a newest activation, and it is the one
\* being executed.
LEMMA NewestFacts ==
    ASSUME IInv, pc.at # "halt"
    PROVE  /\ Len(frames) \in DOMAIN frames
           /\ Newest = frames[Len(frames)]
           /\ pc.fn = Newest.fn
           /\ Newest.base \in Int /\ Newest.fn \in Fn
           /\ StackSize[Newest.fn] \in Nat
<1>1. frames # << >> /\ pc.fn = Newest.fn
    BY DEF IInv, ControlOK
<1>2. frames \in Seq([fn : Fn, site : Site \cup {Root}, base : Int])
    BY DEF IInv, TypeOK
<1>3. Len(frames) # 0
    BY <1>1, <1>2
<1> QED BY <1>1, <1>3, FrameFacts DEF Newest

LEMMA SPAdjFacts ==
    ASSUME IInv
    PROVE  /\ SPAdj \in Nat
           /\ pc.at \in {"args", "after"} =>
                 /\ Callee[pc.site] \in Fn
                 /\ SPAdj = CallFrameBytes(Callee[pc.site])
           /\ pc.at \notin {"args", "after"} => SPAdj = 0
<1>1. CASE pc.at \in {"args", "after"}
    <2>1. Callee[pc.site] \in Fn
        BY <1>1, LayoutAssumption DEF IInv, ControlOK
    <2> QED BY <1>1, <2>1, CallFrameSize DEF SPAdj
<1>2. CASE pc.at \notin {"args", "after"}
    BY <1>2 DEF SPAdj
<1> QED BY <1>1, <1>2

\* eliminateFrameIndex is right wherever frame indices occur: the address is
\* the one the object has relative to f5 on entry.
LEMMA FrameIndexIsResolved ==
    ASSUME IInv, InBody, NEW x \in Int
    PROVE  FrameAddr(x) = Newest.base + x
<1>1. pc.at \in {"body", "args", "after"} /\ pc.at # "halt"
    BY DEF InBody
<1>2. f5 = Newest.base - StackSize[pc.fn] - SPAdj
    BY <1>1 DEF IInv, StackPointerIsTracked
<1> QED BY <1>1, <1>2, NewestFacts, SPAdjFacts DEF FrameAddr

\* No byte of the word at a holds a return address.
Safe(a) == a \in Int /\ \A d \in DOMAIN frames : a + 4 =< frames[d].base \/ frames[d].base + 4 =< a

LEMMA ObjectWordsAreSafe ==
    ASSUME IInv, NEW d \in DOMAIN frames,
           NEW o \in DOMAIN ObjSize[frames[d].fn],
           NEW k \in WordsIn(ObjSize[frames[d].fn][o])
    PROVE  /\ Safe(frames[d].base + ObjOffset[frames[d].fn][o] + 4 * k)
           /\ frames[d].base + ObjOffset[frames[d].fn][o] + 4 * k \in Addr
<1> DEFINE f == frames[d].fn
           w == ObjOffset[f][o] + 4 * k
<1>1. f \in Fn /\ frames[d].base \in Int /\ d \in Int
    BY FrameFacts
<1>2. ObjSize[f][o] \in Nat /\ ObjOffset[f][o] \in Int
      /\ -StackSize[f] =< ObjOffset[f][o] /\ ObjOffset[f][o] + ObjSize[f][o] =< 0
    BY <1>1, LayoutAssumption
<1>3. k \in Nat /\ 4 * k + 4 =< ObjSize[f][o]
    BY <1>2, WordInObject
<1>4. w \in Int /\ -StackSize[f] =< w /\ w + 4 =< 0
    <2>1. StackSize[f] \in Nat
        BY FrameFacts
    <2> HIDE DEF f
    <2> QED BY <1>2, <1>3, <2>1
<1>5. ASSUME NEW e \in DOMAIN frames
      PROVE  frames[d].base + w + 4 =< frames[e].base \/ frames[e].base + 4 =< frames[d].base + w
    <2>1. e \in Int /\ frames[e].base \in Int /\ frames[e].fn \in Fn
          /\ StackSize[frames[e].fn] \in Nat /\ CallFrameBytes(frames[e].fn) \in Nat
          /\ 4 =< CallFrameBytes(frames[e].fn)
        BY FrameFacts
    <2>2. StackSize[f] \in Nat /\ CallFrameBytes(f) \in Nat
        BY FrameFacts
    <2>3. CASE e = d
        BY <2>3, <1>4, <1>1
    <2>4. CASE d < e
        <3>1. frames[e].base + CallFrameBytes(frames[e].fn) =< frames[d].base - StackSize[f]
            BY <2>4 DEF IInv, FramesOK
        <3> QED BY <3>1, <2>1, <2>2, <1>4, <1>1
    <2>5. CASE e < d
        <3>1. frames[d].base + CallFrameBytes(f) =< frames[e].base - StackSize[frames[e].fn]
            BY <2>5 DEF IInv, FramesOK
        <3> QED BY <3>1, <2>1, <2>2, <1>4, <1>1
    <2> QED BY <2>1, <1>1, <2>3, <2>4, <2>5
<1>6. frames[d].base + w \in Addr
    <2>1. frames[d].base + CallFrameBytes(f) =< Top /\ Lowest =< frames[d].base - StackSize[f]
        BY DEF IInv, FramesOK
    <2>2. StackSize[f] \in Nat /\ CallFrameBytes(f) \in Nat /\ 4 =< CallFrameBytes(f)
        BY FrameFacts
    <2>3. Lowest \in Int /\ Top \in Int
        BY LayoutAssumption
    <2> HIDE DEF f, w
    <2> QED BY <2>1, <2>2, <2>3, <1>1, <1>4 DEF Addr
<1> QED BY <1>1, <1>2, <1>3, <1>4, <1>5, <1>6 DEF Safe

\* The call frame being filled lies below every activation.
LEMMA CallFrameIsSafe ==
    ASSUME IInv, pc.at = "args", NEW x \in Int,
           0 =< x, x + 4 =< CallFrameBytes(Callee[pc.site])
    PROVE  /\ Safe(f5 + x)
           /\ f5 + x \in Addr
<1> DEFINE c == CallFrameBytes(Callee[pc.site])
           top == Len(frames)
<1>1. c \in Nat
    BY SPAdjFacts, CallFrameSize
<1>2. f5 = Newest.base - StackSize[Newest.fn] - c
    BY NewestFacts, SPAdjFacts DEF IInv, StackPointerIsTracked
<1>3. top \in DOMAIN frames /\ Newest = frames[top] /\ top \in Nat
      /\ Newest.base \in Int /\ StackSize[Newest.fn] \in Nat
    BY NewestFacts, FrameFacts
<1>4. f5 \in Int /\ f5 + x + 4 =< Newest.base - StackSize[Newest.fn]
    BY <1>1, <1>2, <1>3
<1>5. ASSUME NEW e \in DOMAIN frames
      PROVE  f5 + x + 4 =< frames[e].base
    <2>1. CASE e = top
        BY <2>1, <1>3, <1>4
    <2>2. CASE e < top
        <3>1. Newest.base + CallFrameBytes(Newest.fn) =< frames[e].base - StackSize[frames[e].fn]
            BY <2>2, <1>3 DEF IInv, FramesOK
        <3> QED BY <3>1, <1>3, <1>4, FrameFacts
    <2> QED BY <2>1, <2>2, <1>3, FrameFacts
<1>6. f5 + x \in Addr
    <2>1. Lowest =< f5
        BY DEF IInv, ControlOK
    <2>2. Newest.base + CallFrameBytes(Newest.fn) =< Top
        BY <1>3 DEF IInv, FramesOK
    <2> QED BY <2>1, <2>2, <1>3, <1>4, FrameFacts, LayoutAssumption DEF Addr
<1> QED BY <1>4, <1>5, <1>6 DEF Safe

LEMMA BasesAreAddresses ==
    ASSUME IInv
    PROVE  \A d \in DOMAIN frames : frames[d].base \in Addr
BY FrameFacts, LayoutAssumption DEF IInv, FramesOK, Addr

\* A store to a safe word keeps memory typed and every return address.
LEMMA SafeStore ==
    ASSUME IInv, NEW a, Safe(a), NEW v \in Word, mem' = Write(mem, a, v), UNCHANGED frames
    PROVE  mem' \in [Addr -> Word] /\ ReturnAddressesIntact'
<1>1. mem \in [Addr -> Word] /\ a \in Int
    BY DEF IInv, TypeOK, Safe
<1>2. \A d \in DOMAIN frames : frames[d].base \in Addr
    BY BasesAreAddresses
<1>3. ASSUME NEW d \in DOMAIN frames
      PROVE  mem'[frames[d].base] = mem[frames[d].base]
    <2>1. a + 4 =< frames[d].base \/ frames[d].base + 4 =< a
        BY DEF Safe
    <2>2. \A x \in Addr : x + 4 =< a \/ a + 4 =< x => Write(mem, a, v)[x] = mem[x]
        BY <1>1, WriteFacts
    <2> QED BY <2>1, <2>2, <1>2
<1>4. mem' \in [Addr -> Word]
    BY <1>1, WriteFacts
<1> QED BY <1>3, <1>4 DEF IInv, ReturnAddressesIntact

-----------------------------------------------------------------------------
(* Steps inside an activation. *)

\* A step that leaves f5 and control alone has only its own effect to answer
\* for.
LEMMA QuietStep ==
    ASSUME IInv, UNCHANGED <<f5, f0, pc, todo, frames>>,
           reg' \in Word, ptr' \in Int \cup {None}, mem' \in [Addr -> Word],
           ReturnAddressesIntact', PointerOK'
    PROVE  IInv'
<1>1. TypeOK'
    BY DEF IInv, TypeOK, Addr, Word, At
<1>2. FramesOK'
    BY DEF IInv, FramesOK, FormalBytes, CallFrameBytes, NextStackOffset
<1>3. ControlOK'
    BY DEF IInv, ControlOK, Newest
<1>4. StackPointerIsTracked'
    BY DEF IInv, StackPointerIsTracked, Newest, SPAdj, FormalBytes, CallFrameBytes, NextStackOffset
<1> QED BY <1>1, <1>2, <1>3, <1>4 DEF IInv

\* A load of a word of the stack.
LEMMA LoadStep ==
    ASSUME IInv, NEW a \in Addr, reg' = mem[a],
           UNCHANGED <<mem, f5, f0, ptr, pc, todo, frames, ptrTo>>
    PROVE  IInv'
<1>1. mem \in [Addr -> Word] /\ ptr \in Int \cup {None}
    BY DEF IInv, TypeOK
<1>2. ReturnAddressesIntact' /\ PointerOK'
    BY DEF IInv, ReturnAddressesIntact, PointerOK
<1> QED BY <1>1, <1>2, QuietStep

\* A store to a word of a stack object or of the call frame being filled.
LEMMA StoreStep ==
    ASSUME IInv, NEW a, Safe(a), NEW v \in Word, mem' = Write(mem, a, v),
           UNCHANGED <<f5, f0, reg, ptr, pc, todo, frames, ptrTo>>
    PROVE  IInv'
<1>1. mem' \in [Addr -> Word] /\ ReturnAddressesIntact'
    BY SafeStore
<1>2. PointerOK'
    BY DEF IInv, PointerOK
<1>3. reg' \in Word /\ ptr' \in Int \cup {None}
    BY DEF IInv, TypeOK
<1> QED BY <1>1, <1>2, <1>3, QuietStep

LEMMA AccessLocalStep ==
    ASSUME IInv, AccessLocal
    PROVE  IInv'
<1>1. InBody /\ pc.at # "halt"
    BY DEF AccessLocal, InBody
<1>2. PICK o \in DOMAIN ObjSize[pc.fn] :
          \/ TakeAddress(o)
          \/ \E k \in WordsIn(ObjSize[pc.fn][o]) :
                LoadLocal(o, k) \/ \E v \in Value : StoreLocal(o, k, v)
    BY DEF AccessLocal
<1> DEFINE d == Len(frames)
<1>3. d \in DOMAIN frames /\ pc.fn = frames[d].fn /\ Newest = frames[d]
      /\ o \in DOMAIN ObjSize[frames[d].fn] /\ frames[d].base \in Int /\ frames[d].fn \in Fn
    BY <1>1, <1>2, NewestFacts
<1>4. ObjOffset[pc.fn][o] \in Int /\ ObjSize[pc.fn][o] \in Nat
    BY <1>3, LayoutAssumption
<1>5. ASSUME NEW k \in WordsIn(ObjSize[pc.fn][o])
      PROVE  LET a == FrameAddr(ObjOffset[pc.fn][o] + 4 * k)
             IN  Safe(a) /\ a \in Addr
    <2>1. k \in Int
        BY <1>4, WordInObject
    <2>2. FrameAddr(ObjOffset[pc.fn][o] + 4 * k) = Newest.base + (ObjOffset[pc.fn][o] + 4 * k)
        BY <2>1, <1>1, <1>4, FrameIndexIsResolved
    <2>3. FrameAddr(ObjOffset[pc.fn][o] + 4 * k) = frames[d].base + ObjOffset[frames[d].fn][o] + 4 * k
        BY <2>1, <2>2, <1>3, <1>4
    <2> QED BY <2>3, <1>3, ObjectWordsAreSafe
<1>6. ASSUME NEW k \in WordsIn(ObjSize[pc.fn][o]), LoadLocal(o, k)
      PROVE  IInv'
    BY <1>5, <1>6, LoadStep DEF LoadLocal
<1>7. ASSUME NEW k \in WordsIn(ObjSize[pc.fn][o]), NEW v \in Value, StoreLocal(o, k, v)
      PROVE  IInv'
    <2>1. v \in Word
        BY DEF Word
    <2> QED BY <1>5, <1>7, <2>1, StoreStep DEF StoreLocal
<1>8. ASSUME TakeAddress(o)
      PROVE  IInv'
    <2>1. FrameAddr(ObjOffset[pc.fn][o]) = Newest.base + ObjOffset[pc.fn][o]
        BY <1>1, <1>4, FrameIndexIsResolved
    <2>2. ptr' = frames[d].base + ObjOffset[frames[d].fn][o] /\ ptr' \in Int
        BY <2>1, <1>3, <1>4, <1>8 DEF TakeAddress
    <2>3. ptrTo' = [depth |-> d, obj |-> o] /\ frames' = frames /\ mem' = mem
        BY <1>8 DEF TakeAddress
    <2>4. PointerOK'
        BY <2>2, <2>3, <1>3 DEF PointerOK
    <2>5. ReturnAddressesIntact' /\ mem' \in [Addr -> Word] /\ reg' \in Word
        BY <1>8 DEF TakeAddress, IInv, TypeOK, ReturnAddressesIntact
    <2> QED BY <2>2, <2>4, <2>5, <1>8, QuietStep DEF TakeAddress
<1> QED BY <1>2, <1>6, <1>7, <1>8

LEMMA ReadArgStep ==
    ASSUME ScalarArguments, IInv, ReadArg
    PROVE  IInv'
<1>1. InBody /\ pc.at # "halt"
    BY DEF ReadArg, InBody
<1>0. PICK i \in DOMAIN Params[pc.fn] : \E k \in WordsIn(Params[pc.fn][i]) : LoadArg(i, k)
    BY DEF ReadArg
<1>2. PICK k \in WordsIn(Params[pc.fn][i]) : LoadArg(i, k)
    BY <1>0
<1>3. Len(frames) \in DOMAIN frames /\ Newest = frames[Len(frames)] /\ pc.fn = Newest.fn
      /\ Newest.base \in Int /\ Newest.fn \in Fn /\ StackSize[Newest.fn] \in Nat
    BY <1>1, NewestFacts
<1>4. k = 0
    BY <1>3 DEF ScalarArguments
<1> DEFINE off == InArgOffset(pc.fn, i)
<1>5. off \in Int /\ 4 =< off /\ off + 4 =< CallFrameBytes(Newest.fn)
    BY <1>3, ArgumentSlot
<1>6. FrameAddr(off + 4 * k) = Newest.base + off
    BY <1>1, <1>4, <1>5, FrameIndexIsResolved
<1>7. Newest.base + off \in Addr
    <2>1. Newest.base + CallFrameBytes(Newest.fn) =< Top
          /\ Lowest =< Newest.base - StackSize[Newest.fn]
        BY <1>3 DEF IInv, FramesOK
    <2>2. Lowest \in Int /\ Top \in Int /\ CallFrameBytes(Newest.fn) \in Nat
        BY <1>3, LayoutAssumption, CallFrameSize
    <2> HIDE DEF off
    <2> QED BY <2>1, <2>2, <1>3, <1>5 DEF Addr
<1> QED BY <1>2, <1>6, <1>7, LoadStep DEF LoadArg

LEMMA FollowPointerStep ==
    ASSUME IInv, FollowPointer
    PROVE  IInv'
<1> DEFINE d == ptrTo.depth
           o == ptrTo.obj
<1>1. d \in DOMAIN frames /\ o \in DOMAIN ObjSize[frames[d].fn]
      /\ ptr = frames[d].base + ObjOffset[frames[d].fn][o]
    BY DEF FollowPointer, IInv, PointerOK
<1>2. PICK k \in WordsIn(ObjSize[frames[d].fn][o]) :
          LoadIndirect(k) \/ \E v \in Value : StoreIndirect(k, v)
    BY DEF FollowPointer, Pointee
<1>3. Safe(ptr + 4 * k) /\ ptr + 4 * k \in Addr
    BY <1>1, ObjectWordsAreSafe
<1>4. CASE LoadIndirect(k)
    BY <1>3, <1>4, LoadStep DEF LoadIndirect
<1>5. ASSUME NEW v \in Value, StoreIndirect(k, v)
      PROVE  IInv'
    <2>1. v \in Word
        BY DEF Word
    <2> QED BY <1>3, <1>5, <2>1, StoreStep DEF StoreIndirect
<1> QED BY <1>2, <1>4, <1>5

-----------------------------------------------------------------------------
(* Steps that move f5 or control. *)

LEMMA PassArgStep ==
    ASSUME ScalarArguments, IInv, PassArg, pc.at = "args"
    PROVE  IInv'
<1> DEFINE g == Callee[pc.site]
<1>1. PICK i \in todo : \E src \in [WordsIn(Params[g][i]) -> Value] : StoreArg(i, src)
    BY DEF PassArg
<1>2. PICK src \in [WordsIn(Params[g][i]) -> Value] : StoreArg(i, src)
    BY <1>1
<1>3. g \in Fn /\ i \in DOMAIN Params[g]
    BY SPAdjFacts DEF IInv, ControlOK
<1>4. Params[g][i] = 4
    BY <1>3 DEF ScalarArguments
<1>5. src[0] \in Word
    BY <1>4 DEF Word
<1> DEFINE off == OutArgOffset(g, i)
<1>6. off \in Int /\ 4 =< off /\ off + 4 =< CallFrameBytes(g)
    BY <1>3, ArgumentSlot
<1>7. Safe(f5 + off)
    <2>1. 0 =< off
        <3> HIDE DEF off
        <3> QED BY <1>6
    <2> QED BY <1>6, <2>1, CallFrameIsSafe
<1>8. mem' = Write(mem, f5 + off, src[0])
    BY <1>2, <1>4, <1>7, WriteOneWord DEF StoreArg, Safe
<1>9. UNCHANGED <<f5, f0, reg, ptr, pc, frames, ptrTo>> /\ todo' = todo \ {i}
    BY <1>2 DEF StoreArg
<1>10. mem' \in [Addr -> Word] /\ ReturnAddressesIntact'
    BY <1>5, <1>7, <1>8, <1>9, SafeStore
<1>11. TypeOK'
    BY <1>9, <1>10 DEF IInv, TypeOK, Addr, Word, At
<1>12. FramesOK' /\ PointerOK'
    BY <1>9 DEF IInv, FramesOK, PointerOK, FormalBytes, CallFrameBytes, NextStackOffset
<1>13. ControlOK'
    BY <1>9 DEF IInv, ControlOK, Newest
<1>14. StackPointerIsTracked'
    BY <1>9 DEF IInv, StackPointerIsTracked, Newest, SPAdj, FormalBytes, CallFrameBytes, NextStackOffset
<1> QED BY <1>10, <1>11, <1>12, <1>13, <1>14 DEF IInv

LEMMA PrologueStep ==
    ASSUME IInv, Prologue
    PROVE  IInv'
<1>1. pc.at = "entry" /\ UNCHANGED <<mem, f0, reg, ptr, todo, frames, ptrTo>>
      /\ f5' = f5 - StackSize[pc.fn] /\ pc' = [pc EXCEPT !.at = "body"]
    BY DEF Prologue
<1>2. pc \in [at : At, fn : Fn, site : Site \cup {None}] /\ f5 \in Int
    BY DEF IInv, TypeOK
<1>3. pc' = [at |-> "body", fn |-> pc.fn, site |-> pc.site]
    BY <1>1, <1>2
<1>4. StackSize[pc.fn] \in Nat
    BY <1>2, LayoutAssumption
<1>5. TypeOK'
    BY <1>1, <1>2, <1>3, <1>4 DEF IInv, TypeOK, Addr, Word, At
<1>6. FramesOK' /\ PointerOK' /\ ReturnAddressesIntact'
    BY <1>1 DEF IInv, FramesOK, PointerOK, ReturnAddressesIntact, FormalBytes, CallFrameBytes, NextStackOffset
<1>7. ControlOK'
    BY <1>1, <1>3 DEF IInv, ControlOK, Newest
<1>8. StackPointerIsTracked'
    <2>1. f5 = Newest.base
        BY <1>1 DEF IInv, StackPointerIsTracked
    <2>2. Newest.base \in Int /\ Newest' = Newest /\ pc'.fn = pc.fn /\ SPAdj' = 0
        BY <1>1, <1>3, NewestFacts DEF Newest, SPAdj
    <2> QED BY <1>1, <1>3, <1>4, <2>1, <2>2 DEF StackPointerIsTracked
<1> QED BY <1>5, <1>6, <1>7, <1>8 DEF IInv

LEMMA BeginCallStep ==
    ASSUME IInv, NEW s \in Site, BeginCall(s)
    PROVE  IInv'
<1> DEFINE g == Callee[s]
<1>1. pc.at = "body" /\ Caller[s] = pc.fn /\ RoomFor(s)
      /\ f5' = f5 - CallFrameBytes(g) /\ pc' = [pc EXCEPT !.at = "args", !.site = s]
      /\ todo' = DOMAIN Params[g] /\ UNCHANGED <<mem, f0, reg, ptr, frames, ptrTo>>
    BY DEF BeginCall
<1>2. pc \in [at : At, fn : Fn, site : Site \cup {None}] /\ f5 \in Int
    BY DEF IInv, TypeOK
<1>3. pc' = [at |-> "args", fn |-> pc.fn, site |-> s]
    BY <1>1, <1>2
<1>4. g \in Fn /\ CallFrameBytes(g) \in Nat /\ StackSize[g] \in Nat
      /\ ((CallFrameBytes(g) + 3) \div 4) * 4 = CallFrameBytes(g) /\ DOMAIN Params[g] \subseteq Nat
    <2>1. g \in Fn
        BY LayoutAssumption
    <2>2. StackSize[g] \in Nat /\ DOMAIN Params[g] \subseteq Nat
        BY <2>1, LayoutAssumption
    <2> QED BY <2>1, <2>2, CallFrameSize
<1>5. TypeOK'
    BY <1>1, <1>2, <1>3, <1>4 DEF IInv, TypeOK, Addr, Word, At
<1>6. FramesOK' /\ PointerOK' /\ ReturnAddressesIntact'
    BY <1>1 DEF IInv, FramesOK, PointerOK, ReturnAddressesIntact, FormalBytes, CallFrameBytes, NextStackOffset
<1>7. ControlOK'
    <2>1. Lowest =< f5 - CallFrameBytes(g) - StackSize[g] /\ Lowest \in Int
        BY <1>1, LayoutAssumption DEF RoomFor
    <2>2. Lowest =< f5' /\ Lowest =< f5' - StackSize[g]
        BY <2>1, <1>1, <1>2, <1>4
    <2> QED BY <2>2, <1>1, <1>3 DEF IInv, ControlOK, Newest
<1>8. StackPointerIsTracked'
    <2>1. f5 = Newest.base - StackSize[pc.fn] - 0
        BY <1>1, SPAdjFacts DEF IInv, StackPointerIsTracked
    <2>2. Newest.base \in Int /\ StackSize[pc.fn] \in Nat /\ Newest' = Newest
        BY <1>1, NewestFacts DEF Newest
    <2>3. SPAdj' = CallFrameBytes(g)
        BY <1>3, <1>4 DEF SPAdj, CallFrameBytes, NextStackOffset
    <2> HIDE DEF g
    <2> QED BY <1>1, <1>3, <1>4, <2>1, <2>2, <2>3 DEF StackPointerIsTracked
<1> QED BY <1>5, <1>6, <1>7, <1>8 DEF IInv

LEMMA LowerReturnStep ==
    ASSUME IInv, NEW v \in Value, LowerReturn(v)
    PROVE  IInv'
<1>1. pc.at = "body" /\ f0' = v /\ pc' = [pc EXCEPT !.at = "ret"]
      /\ UNCHANGED <<mem, f5, reg, ptr, todo, frames, ptrTo>>
    BY DEF LowerReturn
<1>2. pc \in [at : At, fn : Fn, site : Site \cup {None}] /\ v \in Word
    BY DEF IInv, TypeOK, Word
<1>3. pc' = [at |-> "ret", fn |-> pc.fn, site |-> pc.site]
    BY <1>1, <1>2
<1>5. TypeOK'
    BY <1>1, <1>2, <1>3 DEF IInv, TypeOK, Addr, Word, At
<1>6. FramesOK' /\ PointerOK' /\ ReturnAddressesIntact'
    BY <1>1 DEF IInv, FramesOK, PointerOK, ReturnAddressesIntact, FormalBytes, CallFrameBytes, NextStackOffset
<1>7. ControlOK'
    BY <1>1, <1>3 DEF IInv, ControlOK, Newest
<1>8. StackPointerIsTracked'
    BY <1>1, <1>3 DEF IInv, StackPointerIsTracked, SPAdj, Newest
<1> QED BY <1>5, <1>6, <1>7, <1>8 DEF IInv

LEMMA EpilogueStep ==
    ASSUME IInv, Epilogue
    PROVE  IInv'
<1>1. pc.at = "ret" /\ f5' = f5 + StackSize[pc.fn] /\ pc' = [pc EXCEPT !.at = "exit"]
      /\ UNCHANGED <<mem, f0, reg, ptr, todo, frames, ptrTo>>
    BY DEF Epilogue
<1>2. pc \in [at : At, fn : Fn, site : Site \cup {None}] /\ f5 \in Int
    BY DEF IInv, TypeOK
<1>3. pc' = [at |-> "exit", fn |-> pc.fn, site |-> pc.site]
    BY <1>1, <1>2
<1>4. StackSize[pc.fn] \in Nat
    BY <1>2, LayoutAssumption
<1>5. TypeOK'
    BY <1>1, <1>2, <1>3, <1>4 DEF IInv, TypeOK, Addr, Word, At
<1>6. FramesOK' /\ PointerOK' /\ ReturnAddressesIntact'
    BY <1>1 DEF IInv, FramesOK, PointerOK, ReturnAddressesIntact, FormalBytes, CallFrameBytes, NextStackOffset
<1>7. ControlOK'
    BY <1>1, <1>3 DEF IInv, ControlOK, Newest
<1>8. StackPointerIsTracked'
    <2>1. f5 = Newest.base - StackSize[pc.fn] - 0
        BY <1>1, SPAdjFacts DEF IInv, StackPointerIsTracked
    <2>2. Newest.base \in Int /\ Newest' = Newest
        BY <1>1, NewestFacts DEF Newest
    <2> QED BY <1>1, <1>3, <1>4, <2>1, <2>2 DEF StackPointerIsTracked
<1> QED BY <1>5, <1>6, <1>7, <1>8 DEF IInv

LEMMA EndCallStep ==
    ASSUME IInv, EndCall
    PROVE  IInv'
<1> DEFINE c == CallFrameBytes(Callee[pc.site])
<1>1. pc.at = "after" /\ f5' = f5 + c /\ reg' = f0
      /\ pc' = [pc EXCEPT !.at = "body", !.site = None]
      /\ UNCHANGED <<mem, f0, ptr, todo, frames, ptrTo>>
    BY DEF EndCall, LowerCallResult
<1>2. pc \in [at : At, fn : Fn, site : Site \cup {None}] /\ f5 \in Int /\ f0 \in Word
    BY DEF IInv, TypeOK
<1>3. pc' = [at |-> "body", fn |-> pc.fn, site |-> None]
    BY <1>1, <1>2
<1>4. c \in Nat
    BY <1>1, SPAdjFacts, CallFrameSize
<1>5. TypeOK'
    BY <1>1, <1>2, <1>3, <1>4 DEF IInv, TypeOK, Addr, Word, At
<1>6. FramesOK' /\ PointerOK' /\ ReturnAddressesIntact'
    BY <1>1 DEF IInv, FramesOK, PointerOK, ReturnAddressesIntact, FormalBytes, CallFrameBytes, NextStackOffset
<1>7. ControlOK'
    BY <1>1, <1>3 DEF IInv, ControlOK, Newest
<1>8. StackPointerIsTracked'
    <2>1. f5 = Newest.base - StackSize[pc.fn] - c
        BY <1>1, SPAdjFacts DEF IInv, StackPointerIsTracked
    <2>2. Newest.base \in Int /\ StackSize[pc.fn] \in Nat /\ Newest' = Newest /\ SPAdj' = 0
        BY <1>1, <1>3, NewestFacts DEF Newest, SPAdj
    <2> HIDE DEF c
    <2> QED BY <1>1, <1>3, <1>4, <2>1, <2>2 DEF StackPointerIsTracked
<1> QED BY <1>5, <1>6, <1>7, <1>8 DEF IInv

LEMMA AppendFacts ==
    ASSUME NEW R, NEW q \in Seq(R), NEW e \in R
    PROVE  /\ Append(q, e) \in Seq(R)
           /\ Len(Append(q, e)) = Len(q) + 1
           /\ DOMAIN Append(q, e) = 1 .. Len(q) + 1
           /\ Append(q, e)[Len(q) + 1] = e
           /\ \A d \in 1 .. Len(q) : Append(q, e)[d] = q[d]
    OBVIOUS

LEMMA FenxeoStep ==
    ASSUME IInv, Fenxeo
    PROVE  IInv'
<1> DEFINE g == Callee[pc.site]
           n == Len(frames)
           a == [fn |-> g, site |-> pc.site, base |-> f5]
<1>1. pc.at = "args" /\ mem' = Write(mem, f5, pc.site) /\ frames' = Append(frames, a)
      /\ pc' = [at |-> "entry", fn |-> g, site |-> None]
      /\ UNCHANGED <<f5, f0, reg, ptr, todo, ptrTo>>
    BY DEF Fenxeo
<1>2. pc.site \in Site /\ g \in Fn /\ Caller[pc.site] = pc.fn /\ pc.site \in Word /\ f5 \in Int
      /\ Lowest =< f5 - StackSize[g]
    BY <1>1, SPAdjFacts DEF IInv, TypeOK, ControlOK, Word
<1>3. n \in DOMAIN frames /\ n \in Nat /\ DOMAIN frames = 1 .. n /\ Newest = frames[n]
      /\ pc.fn = Newest.fn /\ Newest.base \in Int /\ Newest.fn \in Fn /\ StackSize[Newest.fn] \in Nat
    BY <1>1, NewestFacts, FrameFacts
<1>4. CallFrameBytes(g) \in Nat /\ 4 =< CallFrameBytes(g)
    <2>1. Len(Params[g]) \in Nat
        BY <1>2, LayoutAssumption
    <2> QED BY <2>1, <1>2, CallFrameSize
<1>5. f5 + CallFrameBytes(g) = Newest.base - StackSize[Newest.fn]
    <2>1. f5 = Newest.base - StackSize[pc.fn] - CallFrameBytes(g)
        BY <1>1, SPAdjFacts DEF IInv, StackPointerIsTracked
    <2> QED BY <2>1, <1>2, <1>3, <1>4
<1>6. Safe(f5) /\ f5 \in Addr
    <2>1. Safe(f5 + 0) /\ f5 + 0 \in Addr
        BY <1>1, <1>4, CallFrameIsSafe
    <2> QED BY <2>1, <1>2
<1>7. DOMAIN frames' = 1 .. n + 1 /\ frames'[n + 1] = a /\ Len(frames') = n + 1
      /\ \A d \in 1 .. n : frames'[d] = frames[d]
      /\ frames' \in Seq([fn : Fn, site : Site \cup {Root}, base : Int])
    <2> DEFINE R == [fn : Fn, site : Site \cup {Root}, base : Int]
    <2>1. frames \in Seq(R)
        BY DEF IInv, TypeOK
    <2>2. a \in R
        BY <1>2
    <2>3. frames' = Append(frames, a)
        BY <1>1
    <2> HIDE DEF R, a
    <2>4. /\ Append(frames, a) \in Seq(R)
          /\ Len(Append(frames, a)) = n + 1
          /\ DOMAIN Append(frames, a) = 1 .. n + 1
          /\ Append(frames, a)[n + 1] = a
          /\ \A d \in 1 .. n : Append(frames, a)[d] = frames[d]
        BY <2>1, <2>2, AppendFacts
    <2> QED BY <2>3, <2>4 DEF R
<1>8. mem' \in [Addr -> Word] /\ mem'[f5] = pc.site
      /\ \A x \in Addr : x + 4 =< f5 \/ f5 + 4 =< x => mem'[x] = mem[x]
    <2>1. mem \in [Addr -> Word]
        BY DEF IInv, TypeOK
    <2>2. /\ Write(mem, f5, pc.site) \in [Addr -> Word]
          /\ f5 \in Addr => Write(mem, f5, pc.site)[f5] = pc.site
          /\ \A x \in Addr : x + 4 =< f5 \/ f5 + 4 =< x => Write(mem, f5, pc.site)[x] = mem[x]
        BY <2>1, <1>2, WriteFacts
    <2> QED BY <2>2, <1>1, <1>6
<1>9. TypeOK'
    BY <1>1, <1>2, <1>7, <1>8 DEF IInv, TypeOK, Addr, Word, At
<1>10. FramesOK'
    <2>1. ASSUME NEW d \in 1 .. n
          PROVE  f5 + CallFrameBytes(g) =< frames[d].base - StackSize[frames[d].fn]
        <3>1. CASE d = n
            BY <3>1, <1>3, <1>5
        <3>2. CASE d < n
            <4>1. Newest.base + CallFrameBytes(Newest.fn) =< frames[d].base - StackSize[frames[d].fn]
                BY <3>2, <1>3 DEF IInv, FramesOK
            <4>2. PICK c \in Nat, b \in Int, z \in Nat, w \in Int :
                      /\ c = CallFrameBytes(Newest.fn) /\ b = Newest.base
                      /\ z = StackSize[Newest.fn] /\ w = f5 + CallFrameBytes(g)
                BY <1>2, <1>3, <1>4, CallFrameSize
            <4>3. frames[d].base - StackSize[frames[d].fn] \in Int
                <5>1. d \in DOMAIN frames
                    BY <1>3
                <5> QED BY <5>1, FrameFacts
            <4> QED BY <4>1, <4>2, <4>3, <1>5
        <3> QED BY <3>1, <3>2, <1>3
    <2>2. f5 + CallFrameBytes(g) =< Top
        <3>1. Newest.base + CallFrameBytes(Newest.fn) =< Top
            BY <1>3 DEF IInv, FramesOK
        <3>2. CallFrameBytes(Newest.fn) \in Nat /\ Top \in Int
            BY <1>3, CallFrameSize, LayoutAssumption
        <3> HIDE DEF g
        <3> QED BY <3>1, <3>2, <1>5, <1>3, <1>4, <1>2
    <2>3. a.fn = g /\ a.base = f5 /\ a.site = pc.site
        OBVIOUS
    <2> HIDE DEF a, g
    <2>4. \A d \in DOMAIN frames' :
              /\ frames'[d].base + CallFrameBytes(frames'[d].fn) =< Top
              /\ Lowest =< frames'[d].base - StackSize[frames'[d].fn]
        BY <1>2, <1>3, <1>7, <2>2, <2>3 DEF IInv, FramesOK
    <2>5. \A d, e \in DOMAIN frames' : d < e =>
              frames'[e].base + CallFrameBytes(frames'[e].fn)
                  =< frames'[d].base - StackSize[frames'[d].fn]
        <3> SUFFICES ASSUME NEW d \in 1 .. n + 1, NEW e \in 1 .. n + 1, d < e
                     PROVE  frames'[e].base + CallFrameBytes(frames'[e].fn)
                                =< frames'[d].base - StackSize[frames'[d].fn]
            BY <1>7
        <3>1. CASE e = n + 1
            <4>1. d \in 1 .. n /\ frames'[d] = frames[d] /\ frames'[e] = a
                BY <3>1, <1>3, <1>7
            <4> QED BY <4>1, <2>1, <2>3
        <3>2. CASE e \in 1 .. n
            <4>1. d \in 1 .. n /\ frames'[d] = frames[d] /\ frames'[e] = frames[e]
                BY <3>2, <1>3, <1>7
            <4> QED BY <4>1, <3>2, <1>3 DEF IInv, FramesOK
        <3> QED BY <3>1, <3>2, <1>3
    <2>6. \A d \in DOMAIN frames' :
              IF d = 1
              THEN /\ frames'[d].site = Root
                   /\ frames'[d].base = Top - FormalBytes(Main)
              ELSE /\ frames'[d].site \in Site
                   /\ Callee[frames'[d].site] = frames'[d].fn
                   /\ Caller[frames'[d].site] = frames'[d - 1].fn
                   /\ frames'[d].base + CallFrameBytes(frames'[d].fn)
                         = frames'[d - 1].base - StackSize[frames'[d - 1].fn]
        <3> SUFFICES ASSUME NEW d \in 1 .. n + 1
                     PROVE  IF d = 1
                            THEN /\ frames'[d].site = Root
                                 /\ frames'[d].base = Top - FormalBytes(Main)
                            ELSE /\ frames'[d].site \in Site
                                 /\ Callee[frames'[d].site] = frames'[d].fn
                                 /\ Caller[frames'[d].site] = frames'[d - 1].fn
                                 /\ frames'[d].base + CallFrameBytes(frames'[d].fn)
                                       = frames'[d - 1].base - StackSize[frames'[d - 1].fn]
            BY <1>7
        <3>1. CASE d = n + 1
            <4>1. d # 1 /\ frames'[d - 1] = Newest /\ frames'[d] = a
                BY <3>1, <1>3, <1>7
            <4> QED BY <4>1, <1>2, <1>3, <1>5, <2>3 DEF g
        <3>2. CASE d \in 1 .. n
            <4>1. frames'[d] = frames[d] /\ (d # 1 => frames'[d - 1] = frames[d - 1])
                BY <3>2, <1>3, <1>7
            <4> QED BY <3>2, <4>1, <1>3 DEF IInv, FramesOK
        <3> QED BY <3>1, <3>2, <1>3
    <2> QED BY <2>4, <2>5, <2>6 DEF FramesOK, CallFrameBytes, NextStackOffset, FormalBytes
<1>11. ControlOK'
    <2>1. frames' # << >> /\ Newest' = a
        BY <1>3, <1>7 DEF Newest
    <2> QED BY <2>1, <1>1 DEF ControlOK
<1>12. PointerOK'
    BY <1>1, <1>3, <1>7 DEF IInv, PointerOK
<1>13. StackPointerIsTracked'
    <2>1. Newest' = a
        BY <1>7 DEF Newest
    <2> QED BY <2>1, <1>1 DEF StackPointerIsTracked
<1>14. ReturnAddressesIntact'
    <2> SUFFICES ASSUME NEW d \in 1 .. n + 1
                 PROVE  mem'[frames'[d].base] = frames'[d].site
        BY <1>7 DEF ReturnAddressesIntact
    <2>1. CASE d = n + 1
        BY <2>1, <1>7, <1>8
    <2>2. CASE d \in 1 .. n
        <3>1. frames[d].base \in Addr
            BY <2>2, <1>3, BasesAreAddresses
        <3>2. f5 + 4 =< frames[d].base \/ frames[d].base + 4 =< f5
            BY <2>2, <1>3, <1>6 DEF Safe
        <3>3. mem[frames[d].base] = frames[d].site
            BY <2>2, <1>3 DEF IInv, ReturnAddressesIntact
        <3> QED BY <2>2, <3>1, <3>2, <3>3, <1>7, <1>8
    <2> QED BY <2>1, <2>2, <1>3
<1> QED BY <1>9, <1>10, <1>11, <1>12, <1>13, <1>14 DEF IInv

LEMMA FrontFacts ==
    ASSUME NEW R, NEW q \in Seq(R), NEW n \in Nat, Len(q) = n + 1
    PROVE  /\ SubSeq(q, 1, n) \in Seq(R)
           /\ Len(SubSeq(q, 1, n)) = n
           /\ DOMAIN SubSeq(q, 1, n) = 1 .. n
           /\ \A d \in 1 .. n : SubSeq(q, 1, n)[d] = q[d]
    OBVIOUS

\* What the return does: the word it jumps to is the return address of the
\* newest activation.
LEMMA DosnudReturns ==
    ASSUME IInv, Dosnud
    PROVE  /\ mem[f5] = Newest.site
           /\ f5' = f5 /\ f5 = Newest.base
           /\ IF Newest.site = Root
              THEN pc' = [at |-> "halt", fn |-> Main, site |-> None]
              ELSE /\ Newest.site \in Site
                   /\ pc' = [at |-> "after", fn |-> Caller[Newest.site], site |-> Newest.site]
<1>1. pc.at = "exit" /\ f5' = f5
    BY DEF Dosnud
<1>2. f5 = Newest.base
    BY <1>1 DEF IInv, StackPointerIsTracked
<1>3. Len(frames) \in DOMAIN frames /\ Newest = frames[Len(frames)]
    BY <1>1, NewestFacts
<1>4. mem[f5] = Newest.site
    BY <1>2, <1>3 DEF IInv, ReturnAddressesIntact
<1>5. Newest.site \in Site \cup {Root}
    BY <1>3 DEF IInv, FramesOK
<1> QED BY <1>1, <1>2, <1>4, <1>5, WordAssumption DEF Dosnud

LEMMA DosnudStep ==
    ASSUME IInv, Dosnud
    PROVE  IInv'
<1> DEFINE R == [fn : Fn, site : Site \cup {Root}, base : Int]
<1>1. pc.at = "exit" /\ UNCHANGED <<mem, f5, f0, reg, todo>>
      /\ frames' = SubSeq(frames, 1, Len(frames) - 1)
    BY DEF Dosnud
<1>2. Len(frames) \in DOMAIN frames /\ Newest = frames[Len(frames)] /\ pc.fn = Newest.fn
    BY <1>1, NewestFacts
<1>3. PICK n \in Nat : Len(frames) = n + 1
    <2>1. Len(frames) \in Nat /\ 1 =< Len(frames)
        BY <1>2, FrameFacts
    <2>2. Len(frames) - 1 \in Nat
        BY <2>1
    <2> QED BY <2>1, <2>2
<1>4. /\ frames' \in Seq(R) /\ Len(frames') = n /\ DOMAIN frames' = 1 .. n
      /\ \A d \in 1 .. n : frames'[d] = frames[d]
    <2>1. frames \in Seq(R)
        BY DEF IInv, TypeOK
    <2>2. frames' = SubSeq(frames, 1, n)
        BY <1>1, <1>3
    <2> HIDE DEF R
    <2> QED BY <2>1, <2>2, <1>3, FrontFacts
<1>5. DOMAIN frames = 1 .. n + 1 /\ Newest = frames[n + 1]
    BY <1>2, <1>3, FrameFacts
<1>6. CASE n = 0
    <2>1. Newest.site = Root /\ Newest.base = Top - FormalBytes(Main)
        BY <1>5, <1>6 DEF IInv, FramesOK
    <2>2. pc' = [at |-> "halt", fn |-> Main, site |-> None] /\ f5 = Newest.base
        BY <2>1, DosnudReturns
    <2>3. frames' = << >>
        BY <1>4, <1>6
    <2>4. ptr' \in Int \cup {None} /\ (ptrTo' # None => FALSE)
        BY <1>3, <1>5, <1>6 DEF Dosnud, IInv, TypeOK, PointerOK
    <2>5. TypeOK'
        BY <2>2, <2>4, <1>1, <1>4, LayoutAssumption DEF IInv, TypeOK, Addr, Word, At
    <2>6. FramesOK' /\ ReturnAddressesIntact'
        BY <1>4, <1>6 DEF FramesOK, ReturnAddressesIntact
    <2>7. ControlOK' /\ PointerOK'
        BY <2>2, <2>3, <2>4 DEF ControlOK, PointerOK
    <2>8. StackPointerIsTracked'
        BY <2>1, <2>2, <1>1 DEF StackPointerIsTracked, FormalBytes, NextStackOffset
    <2> QED BY <2>5, <2>6, <2>7, <2>8 DEF IInv
<1>7. CASE n # 0
    <2> DEFINE s == Newest.site
    <2>1. s \in Site /\ Callee[s] = Newest.fn /\ Caller[s] = frames[n].fn
          /\ Newest.base + CallFrameBytes(Newest.fn) = frames[n].base - StackSize[frames[n].fn]
        BY <1>3, <1>5, <1>7 DEF IInv, FramesOK
    <2>2. pc' = [at |-> "after", fn |-> Caller[s], site |-> s] /\ f5 = Newest.base
        BY <2>1, DosnudReturns, WordAssumption
    <2>3. Newest' = frames[n] /\ n \in DOMAIN frames /\ frames' # << >>
        BY <1>4, <1>5, <1>7 DEF Newest
    <2>4. Newest.base \in Int /\ Newest.fn \in Fn /\ StackSize[Newest.fn] \in Nat
          /\ CallFrameBytes(Newest.fn) \in Nat
          /\ ((CallFrameBytes(Newest.fn) + 3) \div 4) * 4 = CallFrameBytes(Newest.fn)
        <3>1. n + 1 \in DOMAIN frames
            BY <1>5
        <3> QED BY <3>1, <1>5, FrameFacts, CallFrameSize
    <2>5. frames[n].base \in Int /\ StackSize[frames[n].fn] \in Nat /\ frames[n].fn \in Fn
        BY <2>3, FrameFacts
    <2>6. TypeOK'
        <3>1. ptr' \in Int \cup {None}
            BY DEF Dosnud, IInv, TypeOK
        <3>2. pc' \in [at : At, fn : Fn, site : Site \cup {None}]
            BY <2>1, <2>2, <2>5 DEF At
        <3> QED BY <3>1, <3>2, <1>1, <1>4 DEF IInv, TypeOK, Addr, Word
    <2>7. FramesOK'
        <3>1. \A d \in 1 .. n : d # 1 => d - 1 \in 1 .. n
            OBVIOUS
        <3>2. \A d \in 1 .. n : d # 1 => frames'[d - 1] = frames[d - 1]
            BY <3>1, <1>4
        <3>3. ASSUME NEW d \in 1 .. n
              PROVE  /\ frames'[d].base + CallFrameBytes(frames'[d].fn) =< Top
                     /\ Lowest =< frames'[d].base - StackSize[frames'[d].fn]
            <4>1. d \in DOMAIN frames /\ frames'[d] = frames[d]
                BY <1>3, <1>4, <1>5
            <4> QED BY <4>1 DEF IInv, FramesOK
        <3>4. ASSUME NEW d \in 1 .. n, NEW e \in 1 .. n, d < e
              PROVE  frames'[e].base + CallFrameBytes(frames'[e].fn)
                        =< frames'[d].base - StackSize[frames'[d].fn]
            <4>1. /\ d \in DOMAIN frames /\ frames'[d] = frames[d]
                  /\ e \in DOMAIN frames /\ frames'[e] = frames[e]
                BY <1>3, <1>4, <1>5
            <4> QED BY <3>4, <4>1 DEF IInv, FramesOK
        <3>5. ASSUME NEW d \in 1 .. n
              PROVE  IF d = 1
                     THEN /\ frames'[d].site = Root
                          /\ frames'[d].base = Top - FormalBytes(Main)
                     ELSE /\ frames'[d].site \in Site
                          /\ Callee[frames'[d].site] = frames'[d].fn
                          /\ Caller[frames'[d].site] = frames'[d - 1].fn
                          /\ frames'[d].base + CallFrameBytes(frames'[d].fn)
                                = frames'[d - 1].base - StackSize[frames'[d - 1].fn]
            <4>1. d \in DOMAIN frames /\ frames'[d] = frames[d]
                BY <1>3, <1>4, <1>5
            <4> QED BY <4>1, <3>2 DEF IInv, FramesOK
        <3> QED BY <3>3, <3>4, <3>5, <1>4
                DEF FramesOK, CallFrameBytes, FormalBytes, NextStackOffset
    <2>8. ReturnAddressesIntact'
        BY <1>1, <1>4, <1>5 DEF IInv, ReturnAddressesIntact
    <2>9. ControlOK'
        <3>1. Lowest =< Newest.base - StackSize[Newest.fn] /\ Lowest \in Int
            BY <1>5, LayoutAssumption DEF IInv, FramesOK
        <3>2. Lowest =< f5'
            BY <3>1, <2>2, <2>4, <1>1
        <3> QED BY <3>2, <2>1, <2>2, <2>3 DEF ControlOK
    <2>10. PointerOK'
        <3>1. CASE ptrTo # None /\ ptrTo.depth = Len(frames)
            BY <3>1 DEF Dosnud, PointerOK
        <3>2. CASE ~(ptrTo # None /\ ptrTo.depth = Len(frames))
            <4>1. ptrTo' = ptrTo /\ ptr' = ptr
                BY <3>2 DEF Dosnud
            <4>2. ASSUME ptrTo # None
                  PROVE  ptrTo.depth \in 1 .. n
                BY <4>2, <3>2, <1>3, <1>5 DEF IInv, PointerOK
            <4> QED BY <4>1, <4>2, <1>4 DEF IInv, PointerOK
        <3> QED BY <3>1, <3>2
    <2>11. StackPointerIsTracked'
        <3>1. pc'.at = "after" /\ pc'.fn = frames[n].fn /\ pc'.site = s
            BY <2>1, <2>2
        <3>2. SPAdj' = CallFrameBytes(Newest.fn)
            BY <3>1, <2>1, <2>4 DEF SPAdj, CallFrameBytes, NextStackOffset
        <3>3. f5' = frames[n].base - StackSize[frames[n].fn] - CallFrameBytes(Newest.fn)
            BY <2>1, <2>2, <2>4, <2>5, <1>1
        <3> QED BY <3>1, <3>2, <3>3, <2>3 DEF StackPointerIsTracked
    <2> QED BY <2>6, <2>7, <2>8, <2>9, <2>10, <2>11 DEF IInv
<1> QED BY <1>6, <1>7

-----------------------------------------------------------------------------
(* The theorems. *)

LEMMA InitIInv == Init => IInv
<1> SUFFICES ASSUME Init PROVE IInv
    OBVIOUS
<1> DEFINE base == Top - FormalBytes(Main)
           a == [fn |-> Main, site |-> Root, base |-> base]
           R == [fn : Fn, site : Site \cup {Root}, base : Int]
<1>1. FormalBytes(Main) \in Nat /\ 4 =< FormalBytes(Main)
      /\ FormalBytes(Main) = CallFrameBytes(Main) /\ FormalBytes(Main) = 4 * Len(Params[Main]) + 4
    <2>1. Main \in Fn /\ Len(Params[Main]) \in Nat
        BY LayoutAssumption
    <2> QED BY <2>1, CallFrameSize
<1>2. Top \in Int /\ Lowest \in Int /\ StackSize[Main] \in Nat /\ Main \in Fn
      /\ Lowest =< base - StackSize[Main]
    BY <1>1, LayoutAssumption
<1>3. base \in Addr /\ base \in Int
    <2> HIDE DEF base
    <2>1. base = Top - FormalBytes(Main)
        BY DEF base
    <2> QED BY <2>1, <1>1, <1>2 DEF Addr
<1>4. frames = <<a>> /\ Len(frames) = 1 /\ DOMAIN frames = {1} /\ frames[1] = a /\ frames # << >>
    BY DEF Init
<1>5. frames \in Seq(R)
    <2>1. a \in R
        BY <1>2, <1>3
    <2> HIDE DEF R, a
    <2> QED BY <2>1, <1>4
<1>6. TypeOK
    BY <1>2, <1>3, <1>5 DEF Init, TypeOK, Word, At
<1>7. FramesOK
    <2>1. base + CallFrameBytes(Main) =< Top
        <3>1. PICK b \in Nat : b = FormalBytes(Main)
            BY <1>1
        <3>2. base = Top - b /\ CallFrameBytes(Main) = b
            BY <3>1, <1>1
        <3> HIDE DEF base
        <3> QED BY <3>1, <3>2, <1>2
    <2> QED BY <2>1, <1>2, <1>4 DEF FramesOK
<1>8. ControlOK
    BY <1>4 DEF ControlOK, Init, Newest
<1>9. PointerOK
    BY DEF PointerOK, Init
<1>10. StackPointerIsTracked
    BY <1>4 DEF StackPointerIsTracked, Init, Newest
<1>11. ReturnAddressesIntact
    BY <1>3, <1>4 DEF ReturnAddressesIntact, Init
<1> QED BY <1>6, <1>7, <1>8, <1>9, <1>10, <1>11 DEF IInv

LEMMA NextIInv ==
    ASSUME ScalarArguments, IInv, [Next]_vars
    PROVE  IInv'
<1>1. CASE Prologue
    BY <1>1, PrologueStep
<1>2. CASE AccessLocal
    BY <1>2, AccessLocalStep
<1>3. CASE ReadArg
    BY <1>3, ReadArgStep
<1>4. CASE FollowPointer
    BY <1>4, FollowPointerStep
<1>5. ASSUME NEW s \in Site, BeginCall(s) PROVE IInv'
    BY <1>5, BeginCallStep
<1>6. CASE PassArg
    <2>1. pc.at = "args"
        BY <1>6 DEF PassArg, StoreArg
    <2> QED BY <1>6, <2>1, PassArgStep
<1>7. CASE Fenxeo
    BY <1>7, FenxeoStep
<1>8. ASSUME NEW v \in Value, LowerReturn(v) PROVE IInv'
    BY <1>8, LowerReturnStep
<1>9. CASE Epilogue
    BY <1>9, EpilogueStep
<1>10. CASE Dosnud
    BY <1>10, DosnudStep
<1>11. CASE EndCall
    BY <1>11, EndCallStep
<1>12. CASE UNCHANGED vars
    <2>1. mem \in [Addr -> Word] /\ ptr \in Int \cup {None} /\ reg \in Word
        BY DEF IInv, TypeOK
    <2>2. ReturnAddressesIntact' /\ PointerOK'
        BY <1>12 DEF vars, IInv, ReturnAddressesIntact, PointerOK
    <2> QED BY <1>12, <2>1, <2>2, QuietStep DEF vars
<1> QED BY <1>1, <1>2, <1>3, <1>4, <1>5, <1>6, <1>7, <1>8, <1>9, <1>10, <1>11, <1>12
        DEF Next, Halted

\* The inductive invariant holds throughout.
THEOREM Invariance == ASSUME ScalarArguments PROVE Spec => []IInv
<1>1. IInv /\ [Next]_vars => IInv'
    BY NextIInv
<1> QED BY <1>1, InitIInv, PTL DEF Spec

\* Type correctness of the machine, for scalar arguments.
THEOREM TypeCorrect == ASSUME ScalarArguments PROVE Spec => []TypeOK
<1>1. IInv => TypeOK
    BY DEF IInv
<1> QED BY <1>1, Invariance, PTL

\* f5 is at every instruction where the compiler resolved frame indices
\* against: prologues, call sequences and epilogues balance on every path.
THEOREM StackPointerTracked == ASSUME ScalarArguments PROVE Spec => []StackPointerIsTracked
<1>1. IInv => StackPointerIsTracked
    BY DEF IInv
<1> QED BY <1>1, Invariance, PTL

\* No store of an argument, to a local or through a pointer ever overwrites
\* the return address of a live activation.
THEOREM ReturnAddressesKept == ASSUME ScalarArguments PROVE Spec => []ReturnAddressesIntact
<1>1. IInv => ReturnAddressesIntact
    BY DEF IInv
<1> QED BY <1>1, Invariance, PTL

\* Every return goes to the call site that made the activation.
THEOREM ReturnsAreMatched == ASSUME ScalarArguments PROVE Spec => ReturnsToCallSite
<1> DEFINE Matched == pc.at = "exit" =>
          /\ f5' = Newest.base
          /\ IF Newest.site = Root THEN pc'.at = "halt"
             ELSE pc' = [at |-> "after", fn |-> Caller[Newest.site], site |-> Newest.site]
<1>1. IInv /\ [Next]_vars => [Matched]_vars
    <2> SUFFICES ASSUME IInv, Next, pc.at = "exit"
                 PROVE  Matched
        BY DEF vars
    <2>1. Dosnud
        BY DEF Next, Prologue, AccessLocal, ReadArg, FollowPointer, InBody, BeginCall, PassArg,
               StoreArg, Fenxeo, LowerReturn, Epilogue, EndCall, LowerCallResult, Halted
    <2> QED BY <2>1, DosnudReturns
<1> QED BY <1>1, Invariance, PTL DEF Spec, ReturnsToCallSite

-----------------------------------------------------------------------------
(* The refinement.  From here on the words of an object are a set of which  *)
(* only the lemmas below say more.                                          *)

HIDE DEF WordsIn

LocalAddr(d, o, k) == frames[d].base + ObjOffset[frames[d].fn][o] + 4 * k
ArgAddr(d, i) == frames[d].base + InArgOffset(frames[d].fn, i)
Apart(a, b) == a + 4 =< b \/ b + 4 =< a

\* Words of locals lie in the frame of their activation.
LEMMA LocalBounds ==
    ASSUME IInv, NEW d \in DOMAIN frames,
           NEW o \in DOMAIN ObjSize[frames[d].fn],
           NEW k \in WordsIn(ObjSize[frames[d].fn][o])
    PROVE  /\ LocalAddr(d, o, k) \in Int /\ LocalAddr(d, o, k) \in Addr
           /\ frames[d].base - StackSize[frames[d].fn] =< LocalAddr(d, o, k)
           /\ LocalAddr(d, o, k) + 4 =< frames[d].base
<1> DEFINE f == frames[d].fn
           off == ObjOffset[f][o]
           n == ObjSize[f][o]
<1>1. f \in Fn /\ frames[d].base \in Int /\ StackSize[f] \in Nat
    BY FrameFacts
<1>2. n \in Nat /\ off \in Int /\ -StackSize[f] =< off /\ off + n =< 0
    BY <1>1, LayoutAssumption
<1>3. k \in Nat /\ 4 * k + 4 =< n
    BY <1>2, WordInObject
<1>4. LocalAddr(d, o, k) = frames[d].base + off + 4 * k
    BY DEF LocalAddr
<1>5. LocalAddr(d, o, k) \in Addr
    BY ObjectWordsAreSafe DEF LocalAddr
<1> HIDE DEF f, off, n
<1>6. LocalAddr(d, o, k) \in Int
      /\ frames[d].base - StackSize[f] =< LocalAddr(d, o, k)
      /\ LocalAddr(d, o, k) + 4 =< frames[d].base
    BY <1>1, <1>2, <1>3, <1>4
<1> QED BY <1>5, <1>6 DEF f

\* Arguments lie above it, behind the return address, in the call frame.
LEMMA ArgBounds ==
    ASSUME IInv, NEW d \in DOMAIN frames, NEW i \in DOMAIN Params[frames[d].fn]
    PROVE  /\ ArgAddr(d, i) \in Int /\ ArgAddr(d, i) \in Addr
           /\ frames[d].base + 4 =< ArgAddr(d, i)
           /\ ArgAddr(d, i) + 4 =< frames[d].base + CallFrameBytes(frames[d].fn)
<1> DEFINE f == frames[d].fn
           c == CallFrameBytes(f)
           x == InArgOffset(f, i)
<1>1. f \in Fn /\ frames[d].base \in Int /\ StackSize[f] \in Nat /\ c \in Nat
    BY FrameFacts
<1>2. x \in Int /\ 4 =< x /\ x + 4 =< c
    BY <1>1, ArgumentSlot
<1>3. frames[d].base + c =< Top /\ Lowest =< frames[d].base - StackSize[f]
      /\ Top \in Int /\ Lowest \in Int
    BY LayoutAssumption DEF IInv, FramesOK
<1>4. ArgAddr(d, i) = frames[d].base + x
    BY DEF ArgAddr
<1> HIDE DEF f, c, x
<1>5. /\ ArgAddr(d, i) \in Int /\ frames[d].base + 4 =< ArgAddr(d, i)
      /\ ArgAddr(d, i) + 4 =< frames[d].base + c
      /\ Lowest =< ArgAddr(d, i) /\ ArgAddr(d, i) =< Top - 1
    BY <1>1, <1>2, <1>3, <1>4
<1>6. ArgAddr(d, i) \in Addr
    BY <1>3, <1>5 DEF Addr
<1> QED BY <1>5, <1>6 DEF f, c

\* Words of different activations: the older one's lie above the newer one's.
LEMMA FramesApart ==
    ASSUME IInv, NEW d \in DOMAIN frames, NEW e \in DOMAIN frames, d # e
    PROVE  \/ frames[d].base + CallFrameBytes(frames[d].fn) =< frames[e].base - StackSize[frames[e].fn]
           \/ frames[e].base + CallFrameBytes(frames[e].fn) =< frames[d].base - StackSize[frames[d].fn]
<1>1. d < e \/ e < d
    BY FrameFacts
<1> QED BY <1>1 DEF IInv, FramesOK

LEMMA LocalsApart ==
    ASSUME IInv, NEW d \in DOMAIN frames, NEW e \in DOMAIN frames,
           NEW o \in DOMAIN ObjSize[frames[d].fn], NEW k \in WordsIn(ObjSize[frames[d].fn][o]),
           NEW p \in DOMAIN ObjSize[frames[e].fn], NEW l \in WordsIn(ObjSize[frames[e].fn][p]),
           d # e \/ o # p \/ k # l
    PROVE  Apart(LocalAddr(d, o, k), LocalAddr(e, p, l))
<1> DEFINE a == LocalAddr(d, o, k)
           b == LocalAddr(e, p, l)
           F(x) == frames[x].fn
<1>1. /\ a \in Int /\ frames[d].base - StackSize[F(d)] =< a /\ a + 4 =< frames[d].base
      /\ b \in Int /\ frames[e].base - StackSize[F(e)] =< b /\ b + 4 =< frames[e].base
    BY LocalBounds
<1>2. \A x \in {d, e} : /\ frames[x].base \in Int /\ F(x) \in Fn /\ StackSize[F(x)] \in Nat
                        /\ CallFrameBytes(F(x)) \in Nat
    BY FrameFacts
<1>3. CASE d # e
    <2>1. \/ frames[d].base + CallFrameBytes(F(d)) =< frames[e].base - StackSize[F(e)]
          \/ frames[e].base + CallFrameBytes(F(e)) =< frames[d].base - StackSize[F(d)]
        BY <1>3, FramesApart
    <2> HIDE DEF a, b, F
    <2>2. Apart(a, b)
        BY <2>1, <1>1, <1>2 DEF Apart
    <2> QED BY <2>2 DEF a, b
<1>4. CASE d = e
    <2> DEFINE f == frames[d].fn
               x == ObjOffset[f][o]
               y == ObjOffset[f][p]
               base == frames[d].base
    <2>1. f \in Fn /\ base \in Int
        BY <1>2
    <2>2. ObjSize[f][o] \in Nat /\ ObjSize[f][p] \in Nat /\ x \in Int /\ y \in Int
        BY <2>1, <1>4, LayoutAssumption
    <2>3. k \in Nat /\ 4 * k + 4 =< ObjSize[f][o] /\ l \in Nat /\ 4 * l + 4 =< ObjSize[f][p]
        BY <2>2, <1>4, WordInObject
    <2>4. a = base + x + 4 * k /\ b = base + y + 4 * l
        BY <1>4 DEF LocalAddr
    <2>5. CASE o # p
        <3>1. x + ObjSize[f][o] =< y \/ y + ObjSize[f][p] =< x
            BY <2>1, <2>5, <1>4, LayoutAssumption
        <3> HIDE DEF a, b, x, y, f, base
        <3>2. Apart(a, b)
            BY <3>1, <2>1, <2>2, <2>3, <2>4 DEF Apart
        <3> QED BY <3>2 DEF a, b
    <2>6. CASE o = p
        <3>1. k # l /\ x = y
            BY <2>6, <1>4
        <3> HIDE DEF a, b, x, y, f, base
        <3>2. Apart(a, b)
            BY <3>1, <2>1, <2>2, <2>3, <2>4 DEF Apart
        <3> QED BY <3>2 DEF a, b
    <2> QED BY <2>5, <2>6
<1> QED BY <1>3, <1>4

LEMMA LocalsApartFromArgs ==
    ASSUME IInv, NEW d \in DOMAIN frames, NEW e \in DOMAIN frames,
           NEW o \in DOMAIN ObjSize[frames[d].fn], NEW k \in WordsIn(ObjSize[frames[d].fn][o]),
           NEW i \in DOMAIN Params[frames[e].fn]
    PROVE  Apart(LocalAddr(d, o, k), ArgAddr(e, i))
<1> DEFINE a == LocalAddr(d, o, k)
           b == ArgAddr(e, i)
           F(x) == frames[x].fn
<1>1. /\ a \in Int /\ frames[d].base - StackSize[F(d)] =< a /\ a + 4 =< frames[d].base
      /\ b \in Int /\ frames[e].base + 4 =< b /\ b + 4 =< frames[e].base + CallFrameBytes(F(e))
    BY LocalBounds, ArgBounds
<1>2. \A x \in {d, e} : /\ frames[x].base \in Int /\ StackSize[F(x)] \in Nat
                        /\ CallFrameBytes(F(x)) \in Nat
    BY FrameFacts
<1>3. d = e \/ \/ frames[d].base + CallFrameBytes(F(d)) =< frames[e].base - StackSize[F(e)]
               \/ frames[e].base + CallFrameBytes(F(e)) =< frames[d].base - StackSize[F(d)]
    BY FramesApart
<1> HIDE DEF a, b, F
<1>4. Apart(a, b)
    BY <1>1, <1>2, <1>3 DEF Apart
<1> QED BY <1>4 DEF a, b

\* The call frame being filled lies below every local and every argument.
LEMMA CallFrameIsLowest ==
    ASSUME IInv, pc.at = "args", NEW x \in Int,
           0 =< x, x + 4 =< CallFrameBytes(Callee[pc.site]), NEW d \in DOMAIN frames
    PROVE  /\ f5 + x \in Int
           /\ f5 + x + 4 =< frames[d].base - StackSize[frames[d].fn]
<1> DEFINE c == CallFrameBytes(Callee[pc.site])
           top == Len(frames)
<1>1. c \in Nat
    BY SPAdjFacts, CallFrameSize
<1>2. f5 = Newest.base - StackSize[Newest.fn] - c
    BY NewestFacts, SPAdjFacts DEF IInv, StackPointerIsTracked
<1>3. top \in DOMAIN frames /\ Newest = frames[top] /\ Newest.base \in Int /\ StackSize[Newest.fn] \in Nat
      /\ CallFrameBytes(Newest.fn) \in Nat
    BY NewestFacts, FrameFacts
<1>4. frames[d].base \in Int /\ StackSize[frames[d].fn] \in Nat
    BY FrameFacts
<1>5. CASE d = top
    BY <1>1, <1>2, <1>3, <1>5
<1>6. CASE d # top
    <2>1. d < top
        BY <1>6, FrameFacts
    <2>2. Newest.base + CallFrameBytes(Newest.fn) =< frames[d].base - StackSize[frames[d].fn]
        BY <2>1, <1>3 DEF IInv, FramesOK
    <2> HIDE DEF c, top
    <2>3. x + 4 =< c
        BY DEF c
    <2> QED BY <2>2, <2>3, <1>1, <1>2, <1>3, <1>4
<1> QED BY <1>5, <1>6

LEMMA OutgoingApart ==
    ASSUME NEW f \in Fn, NEW i \in DOMAIN Params[f], NEW j \in DOMAIN Params[f], i # j
    PROVE  Apart(OutArgOffset(f, i), OutArgOffset(f, j))
<1>1. i \in 1 .. Len(Params[f]) /\ j \in 1 .. Len(Params[f]) /\ Len(Params[f]) \in Nat
    BY LayoutAssumption
<1>2. CallFrameBytes(f) \in Nat
    BY CallFrameSize
<1> QED BY <1>1, <1>2 DEF OutArgOffset, LocMemOffset, Apart

-----------------------------------------------------------------------------
(* What the words mean. *)

\* What LocalsOf and ArgsOf are in this and in the next state, for an
\* activation that stays.
LEMMA PartsForm ==
    ASSUME NEW d
    PROVE  LET f == frames[d].fn IN
           /\ LocalsOf(d) = [o \in DOMAIN ObjSize[f] |->
                                [k \in WordsIn(ObjSize[f][o]) |-> mem[LocalAddr(d, o, k)]]]
           /\ ArgsOf(d) = [i \in DOMAIN Params[f] |->
                                [k \in WordsIn(Params[f][i]) |-> mem[ArgAddr(d, i) + 4 * k]]]
BY DEF LocalsOf, ArgsOf, Contents, LocalAddr, ArgAddr

LEMMA NextPartsForm ==
    ASSUME NEW d, frames'[d] = frames[d]
    PROVE  LET f == frames[d].fn IN
           /\ LocalsOf(d)' = [o \in DOMAIN ObjSize[f] |->
                                [k \in WordsIn(ObjSize[f][o]) |-> mem'[LocalAddr(d, o, k)]]]
           /\ ArgsOf(d)' = [i \in DOMAIN Params[f] |->
                                [k \in WordsIn(Params[f][i]) |-> mem'[ArgAddr(d, i) + 4 * k]]]
BY DEF LocalsOf, ArgsOf, Contents, LocalAddr, ArgAddr, InArgOffset, FormalBytes, NextStackOffset

\* The only word of a scalar is the first.
LEMMA ScalarWords ==
    ASSUME ScalarArguments, NEW f \in Fn, NEW i \in DOMAIN Params[f]
    PROVE  WordsIn(Params[f][i]) = {0} /\ \A x \in Int : x + 4 * 0 = x
<1> DEFINE n == Params[f][i]
<1>1. n \in Nat /\ n = 4
    BY DEF ScalarArguments
<1> HIDE DEF n
<1>2. 0 .. (n \div 4 - 1) = {0}
    BY <1>1
<1>3. WordsIn(Params[f][i]) = {0}
    BY <1>2 DEF n, WordsIn
<1>4. \A x \in Int : x + 4 * 0 = x
    OBVIOUS
<1> QED BY <1>3, <1>4

LEMMA LocalsSame ==
    ASSUME NEW d, frames'[d] = frames[d],
           \A o \in DOMAIN ObjSize[frames[d].fn] : \A k \in WordsIn(ObjSize[frames[d].fn][o]) :
               mem'[LocalAddr(d, o, k)] = mem[LocalAddr(d, o, k)]
    PROVE  LocalsOf(d)' = LocalsOf(d)
<1> DEFINE f == frames[d].fn
           old == [o \in DOMAIN ObjSize[f] |->
                     [k \in WordsIn(ObjSize[f][o]) |-> mem[LocalAddr(d, o, k)]]]
           new == [o \in DOMAIN ObjSize[f] |->
                     [k \in WordsIn(ObjSize[f][o]) |-> mem'[LocalAddr(d, o, k)]]]
<1>1. old = new
    OBVIOUS
<1> QED BY <1>1, PartsForm, NextPartsForm

LEMMA ArgsSame ==
    ASSUME ScalarArguments, NEW d, frames'[d] = frames[d], frames[d].fn \in Fn,
           \A i \in DOMAIN Params[frames[d].fn] :
               ArgAddr(d, i) \in Int /\ mem'[ArgAddr(d, i)] = mem[ArgAddr(d, i)]
    PROVE  ArgsOf(d)' = ArgsOf(d)
<1> DEFINE f == frames[d].fn
           old == [i \in DOMAIN Params[f] |->
                     [k \in WordsIn(Params[f][i]) |-> mem[ArgAddr(d, i) + 4 * k]]]
           new == [i \in DOMAIN Params[f] |->
                     [k \in WordsIn(Params[f][i]) |-> mem'[ArgAddr(d, i) + 4 * k]]]
<1>1. ASSUME NEW i \in DOMAIN Params[f], NEW k \in WordsIn(Params[f][i])
      PROVE  mem'[ArgAddr(d, i) + 4 * k] = mem[ArgAddr(d, i) + 4 * k]
    <2>1. WordsIn(Params[f][i]) = {0} /\ \A x \in Int : x + 4 * 0 = x
        BY ScalarWords
    <2>2. k = 0 /\ ArgAddr(d, i) + 4 * 0 = ArgAddr(d, i)
        BY <2>1
    <2> QED BY <2>2
<1>2. old = new
    BY <1>1
<1> QED BY <1>2, PartsForm, NextPartsForm

LEMMA OutgoingForm ==
    ASSUME pc.at = "args"
    PROVE  LET g == Callee[pc.site]
           IN  Outgoing = [i \in DOMAIN Params[g] |->
                             [k \in WordsIn(Params[g][i]) |-> mem[f5 + OutArgOffset(g, i) + 4 * k]]]
BY DEF Outgoing, Contents

LEMMA NextOutgoingForm ==
    ASSUME pc'.at = "args"
    PROVE  LET g == Callee[pc'.site]
           IN  Outgoing' = [i \in DOMAIN Params[g] |->
                             [k \in WordsIn(Params[g][i]) |-> mem'[f5' + OutArgOffset(g, i) + 4 * k]]]
BY DEF Outgoing, Contents, OutArgOffset, CallFrameBytes, NextStackOffset

\* A slot of the call frame being filled.
LEMMA OutgoingBounds ==
    ASSUME IInv, pc.at = "args", NEW i \in DOMAIN Params[Callee[pc.site]]
    PROVE  LET x == OutArgOffset(Callee[pc.site], i)
           IN  /\ Callee[pc.site] \in Fn
               /\ x \in Int /\ 4 =< x /\ x + 4 =< CallFrameBytes(Callee[pc.site])
               /\ f5 \in Int /\ f5 + x \in Int /\ f5 + x \in Addr
<1>1. Callee[pc.site] \in Fn
    BY SPAdjFacts
<1>2. f5 \in Int
    BY DEF IInv, TypeOK
<1> DEFINE x == OutArgOffset(Callee[pc.site], i)
<1>3. x \in Int /\ 4 =< x /\ x + 4 =< CallFrameBytes(Callee[pc.site])
    BY <1>1, ArgumentSlot
<1> HIDE DEF x
<1>4. f5 + x \in Addr /\ f5 + x \in Int
    BY <1>2, <1>3, CallFrameIsSafe
<1> QED BY <1>1, <1>2, <1>3, <1>4 DEF x

\* Outside of the words stored to nothing changes.
LEMMA WriteKeeps ==
    ASSUME IInv, NEW a \in Int, NEW v \in Word, mem' = Write(mem, a, v)
    PROVE  /\ \A x \in Addr : Apart(x, a) => mem'[x] = mem[x]
           /\ a \in Addr => mem'[a] = v
<1>1. mem \in [Addr -> Word]
    BY DEF IInv, TypeOK
<1> QED BY <1>1, WriteFacts DEF Apart

\* A store to a local changes this word of this local of this activation.
LEMMA StoreToLocal ==
    ASSUME ScalarArguments, IInv, NEW d \in DOMAIN frames,
           NEW o \in DOMAIN ObjSize[frames[d].fn], NEW k \in WordsIn(ObjSize[frames[d].fn][o]),
           NEW v \in Word, mem' = Write(mem, LocalAddr(d, o, k), v), UNCHANGED <<f5, pc, frames>>
    PROVE  /\ Activations' = [Activations EXCEPT ![d].locals[o][k] = v]
           /\ Outgoing' = Outgoing
<1> DEFINE a == LocalAddr(d, o, k)
           F(e) == frames[e].fn
<1>1. a \in Int /\ a \in Addr
    BY LocalBounds
<1>2. (\A x \in Addr : Apart(x, a) => mem'[x] = mem[x]) /\ mem'[a] = v
    BY <1>1, WriteKeeps
<1>3. ASSUME NEW e \in DOMAIN frames PROVE ArgsOf(e)' = ArgsOf(e)
    <2>1. ASSUME NEW i \in DOMAIN Params[F(e)]
          PROVE  ArgAddr(e, i) \in Int /\ mem'[ArgAddr(e, i)] = mem[ArgAddr(e, i)]
        <3>1. ArgAddr(e, i) \in Int /\ ArgAddr(e, i) \in Addr
            BY ArgBounds
        <3>2. Apart(ArgAddr(e, i), a)
            BY LocalsApartFromArgs DEF Apart
        <3> QED BY <3>1, <3>2, <1>2
    <2> QED BY <2>1, ArgsSame, FrameFacts
<1>4. ASSUME NEW e \in DOMAIN frames, NEW p \in DOMAIN ObjSize[F(e)], NEW l \in WordsIn(ObjSize[F(e)][p]),
             e # d \/ p # o \/ l # k
      PROVE  mem'[LocalAddr(e, p, l)] = mem[LocalAddr(e, p, l)]
    <2>1. Apart(LocalAddr(e, p, l), a) /\ LocalAddr(e, p, l) \in Addr
        BY <1>4, LocalsApart, LocalBounds
    <2> QED BY <2>1, <1>2
<1>5. ASSUME NEW e \in DOMAIN frames, e # d PROVE LocalsOf(e)' = LocalsOf(e)
    BY <1>5, <1>4, LocalsSame
<1>6. LocalsOf(d)' = [LocalsOf(d) EXCEPT ![o][k] = v]
    <2> DEFINE new == [p \in DOMAIN ObjSize[F(d)] |->
                          [l \in WordsIn(ObjSize[F(d)][p]) |-> mem'[LocalAddr(d, p, l)]]]
               old == [p \in DOMAIN ObjSize[F(d)] |->
                          [l \in WordsIn(ObjSize[F(d)][p]) |-> mem[LocalAddr(d, p, l)]]]
    <2>1. LocalsOf(d) = old /\ LocalsOf(d)' = new
        BY PartsForm, NextPartsForm
    <2>2. \A p \in DOMAIN ObjSize[F(d)] : p # o => new[p] = old[p]
        BY <1>4
    <2>3. new[o] = [old[o] EXCEPT ![k] = v]
        <3>1. \A l \in WordsIn(ObjSize[F(d)][o]) : new[o][l] = IF l = k THEN v ELSE old[o][l]
            BY <1>2, <1>4
        <3>2. new[o] = [l \in WordsIn(ObjSize[F(d)][o]) |-> new[o][l]]
              /\ old[o] = [l \in WordsIn(ObjSize[F(d)][o]) |-> old[o][l]]
            OBVIOUS
        <3> HIDE DEF new, old
        <3> QED BY <3>1, <3>2
    <2>4. new = [p \in DOMAIN ObjSize[F(d)] |-> new[p]] /\ old = [p \in DOMAIN ObjSize[F(d)] |-> old[p]]
        OBVIOUS
    <2> HIDE DEF new, old
    <2>5. new = [old EXCEPT ![o] = [old[o] EXCEPT ![k] = v]]
        BY <2>2, <2>3, <2>4
    <2> QED BY <2>1, <2>5
<1>7. Activations' = [Activations EXCEPT ![d].locals[o][k] = v]
    <2> DEFINE act(e) == [fn |-> frames[e].fn, site |-> frames[e].site,
                          args |-> ArgsOf(e), locals |-> LocalsOf(e)]
               changed == [fn |-> frames[d].fn, site |-> frames[d].site, args |-> ArgsOf(d),
                           locals |-> [LocalsOf(d) EXCEPT ![o][k] = v]]
    <2>1. Activations = [e \in DOMAIN frames |-> act(e)]
        BY DEF Activations
    <2>2. Activations' = [e \in DOMAIN frames |-> IF e = d THEN changed ELSE act(e)]
        <3>1. Activations' = [e \in DOMAIN frames |->
                  [fn |-> frames[e].fn, site |-> frames[e].site,
                   args |-> ArgsOf(e)', locals |-> LocalsOf(e)']]
            BY DEF Activations
        <3> QED BY <3>1, <1>3, <1>5, <1>6
    <2>3. [act(d) EXCEPT !.locals = [LocalsOf(d) EXCEPT ![o][k] = v]] = changed /\ act(d).locals = LocalsOf(d)
        OBVIOUS
    <2> HIDE DEF act, changed
    <2>4. [Activations EXCEPT ![d].locals[o][k] = v]
              = [Activations EXCEPT ![d] = [act(d) EXCEPT !.locals = [LocalsOf(d) EXCEPT ![o][k] = v]]]
        BY <2>1, <2>3
    <2> QED BY <2>1, <2>2, <2>3, <2>4
<1>8. Outgoing' = Outgoing
    <2>1. CASE pc.at # "args"
        BY <2>1 DEF Outgoing
    <2>2. CASE pc.at = "args"
        <3> DEFINE g == Callee[pc.site]
        <3>1. ASSUME NEW i \in DOMAIN Params[g], NEW l \in WordsIn(Params[g][i])
              PROVE  mem'[f5 + OutArgOffset(g, i) + 4 * l] = mem[f5 + OutArgOffset(g, i) + 4 * l]
            <4> DEFINE x == OutArgOffset(g, i)
            <4>1. x \in Int /\ 4 =< x /\ x + 4 =< CallFrameBytes(g) /\ f5 + x \in Addr /\ f5 + x \in Int /\ g \in Fn
                BY <2>2, OutgoingBounds
            <4>2. l = 0
                BY <4>1, ScalarWords
            <4>3. f5 + x + 4 =< frames[d].base - StackSize[frames[d].fn]
                <5>1. x \in Int /\ 0 =< x /\ x + 4 =< CallFrameBytes(Callee[pc.site])
                    BY <4>1
                <5> HIDE DEF x
                <5> QED BY <5>1, <2>2, CallFrameIsLowest
            <4>4. frames[d].base - StackSize[frames[d].fn] =< a /\ frames[d].base \in Int
                  /\ StackSize[frames[d].fn] \in Nat
                BY LocalBounds, FrameFacts
            <4>5. Apart(f5 + x, a)
                <5> DEFINE y == f5 + x
                           z == frames[d].base - StackSize[frames[d].fn]
                <5>1. y \in Int /\ z \in Int /\ y + 4 =< z /\ z =< a
                    BY <4>1, <4>3, <4>4
                <5> HIDE DEF y, z, a
                <5>2. y + 4 =< a
                    BY <5>1, <1>1
                <5> QED BY <5>2 DEF Apart, y
            <4>6. mem'[f5 + x] = mem[f5 + x]
                BY <4>1, <4>5, <1>2
            <4>7. f5 + x + 4 * l = f5 + x
                BY <4>1, <4>2
            <4> QED BY <4>6, <4>7
        <3>2. [i \in DOMAIN Params[g] |-> [l \in WordsIn(Params[g][i]) |-> mem'[f5 + OutArgOffset(g, i) + 4 * l]]]
            = [i \in DOMAIN Params[g] |-> [l \in WordsIn(Params[g][i]) |-> mem[f5 + OutArgOffset(g, i) + 4 * l]]]
            BY <3>1
        <3> QED BY <2>2, <3>2, OutgoingForm, NextOutgoingForm
    <2> QED BY <2>1, <2>2
<1> QED BY <1>7, <1>8

-----------------------------------------------------------------------------
(* The refinement: steps inside an activation. *)

LEMMA SequenceOf ==
    ASSUME NEW n \in Nat, NEW q, q = [d \in 1 .. n |-> q[d]]
    PROVE  Len(q) = n /\ DOMAIN q = 1 .. n /\ q \in Seq({q[d] : d \in 1 .. n})
<1> DEFINE R == {q[d] : d \in 1 .. n}
<1>1. q \in [1 .. n -> R]
    OBVIOUS
<1> HIDE DEF R
<1>2. q \in Seq(R) /\ Len(q) = n
    BY <1>1
<1> QED BY <1>1, <1>2 DEF R

LEMMA ActivationsFacts ==
    ASSUME IInv
    PROVE  /\ Len(Activations) = Len(frames) /\ DOMAIN Activations = 1 .. Len(frames)
           /\ Activations \in Seq({Activations[d] : d \in 1 .. Len(frames)})
           /\ \A d \in 1 .. Len(frames) :
                 Activations[d] = [fn |-> frames[d].fn, site |-> frames[d].site,
                                   args |-> ArgsOf(d), locals |-> LocalsOf(d)]
<1>1. Len(frames) \in Nat /\ DOMAIN frames = 1 .. Len(frames)
    BY FrameFacts
<1>2. Activations = [d \in 1 .. Len(frames) |->
                        [fn |-> frames[d].fn, site |-> frames[d].site,
                         args |-> ArgsOf(d), locals |-> LocalsOf(d)]]
    BY <1>1 DEF Activations
<1>3. Activations = [d \in 1 .. Len(frames) |-> Activations[d]]
    BY <1>2
<1> QED BY <1>1, <1>2, <1>3, SequenceOf

LEMMA SameWords == \A n : Semantics!WordsIn(n) = WordsIn(n)
BY DEF WordsIn, Semantics!WordsIn

\* Locals and arguments hold words.
LEMMA PartsHoldWords ==
    ASSUME ScalarArguments, IInv, NEW d \in DOMAIN frames
    PROVE  /\ Semantics!HoldsWords(LocalsOf(d), ObjSize[frames[d].fn])
           /\ Semantics!HoldsWords(ArgsOf(d), Params[frames[d].fn])
<1> DEFINE f == frames[d].fn
<1>1. mem \in [Addr -> Word] /\ f \in Fn
    BY FrameFacts DEF IInv, TypeOK
<1>2. \A o \in DOMAIN ObjSize[f] : \A k \in WordsIn(ObjSize[f][o]) : mem[LocalAddr(d, o, k)] \in Word
    BY <1>1, LocalBounds
<1>3. ASSUME NEW i \in DOMAIN Params[f], NEW k \in WordsIn(Params[f][i])
      PROVE  mem[ArgAddr(d, i) + 4 * k] \in Word
    <2>1. WordsIn(Params[f][i]) = {0} /\ \A x \in Int : x + 4 * 0 = x
        BY <1>1, ScalarWords
    <2>2. ArgAddr(d, i) \in Int /\ ArgAddr(d, i) \in Addr
        BY ArgBounds
    <2>3. k = 0 /\ ArgAddr(d, i) + 4 * 0 = ArgAddr(d, i)
        BY <2>1, <2>2
    <2> QED BY <2>2, <2>3, <1>1
<1> QED BY <1>2, <1>3, PartsForm, SameWords DEF Semantics!HoldsWords

LEMMA ActivationsSame ==
    ASSUME UNCHANGED <<mem, frames>>
    PROVE  Activations' = Activations
BY DEF Activations, ArgsOf, LocalsOf, Contents, InArgOffset, FormalBytes, NextStackOffset

LEMMA ControlSame ==
    ASSUME UNCHANGED pc
    PROVE  Control' = Control
BY DEF Control

\* Inside a body, activation and control are the abstract ones.
LEMMA RunningFacts ==
    ASSUME IInv, InBody
    PROVE  /\ Semantics!Running /\ Semantics!Depth = Len(frames)
           /\ Len(frames) \in DOMAIN frames /\ DOMAIN frames = 1 .. Len(frames)
           /\ Semantics!Newest = [fn |-> pc.fn, site |-> frames[Len(frames)].site,
                                  args |-> ArgsOf(Len(frames)), locals |-> LocalsOf(Len(frames))]
           /\ frames[Len(frames)].fn = pc.fn /\ Newest = frames[Len(frames)] /\ Newest.base \in Int
           /\ pc.fn \in Fn
<1>1. pc.at \in {"body", "args", "after"} /\ pc.at # "halt"
    BY DEF InBody
<1>2. Len(frames) \in DOMAIN frames /\ Newest = frames[Len(frames)] /\ pc.fn = Newest.fn
      /\ Newest.base \in Int /\ Newest.fn \in Fn
    BY <1>1, NewestFacts
<1>3. Len(frames) \in Nat /\ DOMAIN frames = 1 .. Len(frames)
    BY FrameFacts
<1>4. Semantics!Depth = Len(frames)
    BY ActivationsFacts DEF Semantics!Depth
<1>5. Semantics!Running
    <2>1. Len(frames) > 0
        BY <1>2, <1>3
    <2>2. Control.at \in {"run", "call", "back"}
        BY <1>1 DEF Control
    <2> QED BY <2>1, <2>2, <1>4 DEF Semantics!Running
<1> QED BY <1>2, <1>3, <1>4, <1>5, ActivationsFacts DEF Semantics!Newest

LEMMA AccessLocalRefines ==
    ASSUME ScalarArguments, IInv, AccessLocal
    PROVE  Semantics!UseLocal
<1> DEFINE d == Len(frames)
<1>1. InBody
    BY DEF AccessLocal
<1>2. PICK o \in DOMAIN ObjSize[pc.fn] :
          \/ TakeAddress(o)
          \/ \E k \in WordsIn(ObjSize[pc.fn][o]) :
                LoadLocal(o, k) \/ \E v \in Value : StoreLocal(o, k, v)
    BY DEF AccessLocal
<1>3. /\ Semantics!Running /\ Semantics!Depth = d /\ d \in DOMAIN frames /\ d \in 1 .. Len(frames)
      /\ Semantics!Newest.fn = pc.fn /\ Semantics!Newest.locals = LocalsOf(d)
      /\ frames[d].fn = pc.fn /\ Newest = frames[d] /\ frames[d].base \in Int /\ pc.fn \in Fn
    BY <1>1, RunningFacts
<1>4. ObjOffset[pc.fn][o] \in Int /\ ObjSize[pc.fn][o] \in Nat
    BY <1>3, LayoutAssumption
<1>5. ASSUME NEW k \in WordsIn(ObjSize[pc.fn][o])
      PROVE  FrameAddr(ObjOffset[pc.fn][o] + 4 * k) = LocalAddr(d, o, k)
    <2>1. k \in Int
        BY <1>4, WordInObject
    <2>2. FrameAddr(ObjOffset[pc.fn][o] + 4 * k) = Newest.base + (ObjOffset[pc.fn][o] + 4 * k)
        BY <2>1, <1>1, <1>4, FrameIndexIsResolved
    <2> QED BY <2>1, <2>2, <1>3, <1>4 DEF LocalAddr
<1>6. ASSUME NEW k \in WordsIn(ObjSize[pc.fn][o]), LoadLocal(o, k)
      PROVE  Semantics!LoadLocal(o, k)
    <2>1. reg' = mem[LocalAddr(d, o, k)] /\ UNCHANGED <<mem, f5, f0, ptr, pc, todo, frames, ptrTo>>
        BY <1>5, <1>6 DEF LoadLocal
    <2>2. LocalsOf(d)[o][k] = mem[LocalAddr(d, o, k)]
        BY <1>3, PartsForm
    <2>3. Activations' = Activations /\ Control' = Control
        BY <2>1, ActivationsSame, ControlSame
    <2>4. Outgoing' = Outgoing
        BY <2>1 DEF Outgoing, Contents
    <2> QED BY <2>1, <2>2, <2>3, <2>4, <1>3 DEF Semantics!LoadLocal
<1>7. ASSUME NEW k \in WordsIn(ObjSize[pc.fn][o]), NEW v \in Value, StoreLocal(o, k, v)
      PROVE  Semantics!StoreLocal(o, k, v)
    <2>1. mem' = Write(mem, LocalAddr(d, o, k), v) /\ UNCHANGED <<f5, f0, reg, ptr, pc, todo, frames, ptrTo>>
        BY <1>5, <1>7 DEF StoreLocal
    <2>2. v \in Word
        BY DEF Word
    <2>3. Activations' = [Activations EXCEPT ![d].locals[o][k] = v] /\ Outgoing' = Outgoing
        BY <2>1, <2>2, <1>3, StoreToLocal
    <2> QED BY <2>1, <2>3, <1>3, ControlSame DEF Semantics!StoreLocal
<1>8. ASSUME TakeAddress(o)
      PROVE  Semantics!TakeAddress(o)
    <2>1. ptrTo' = [depth |-> d, obj |-> o] /\ UNCHANGED <<mem, f5, f0, reg, pc, todo, frames>>
        BY <1>8 DEF TakeAddress
    <2>2. Activations' = Activations /\ Control' = Control
        BY <2>1, ActivationsSame, ControlSame
    <2>3. Outgoing' = Outgoing
        BY <2>1 DEF Outgoing, Contents
    <2> QED BY <2>1, <2>2, <2>3, <1>3 DEF Semantics!TakeAddress
<1> QED BY <1>2, <1>3, <1>6, <1>7, <1>8, SameWords DEF Semantics!UseLocal

LEMMA ReadArgRefines ==
    ASSUME ScalarArguments, IInv, ReadArg
    PROVE  Semantics!UseArg
<1> DEFINE d == Len(frames)
<1>1. InBody
    BY DEF ReadArg
<1>2. PICK i \in DOMAIN Params[pc.fn] : \E k \in WordsIn(Params[pc.fn][i]) : LoadArg(i, k)
    BY DEF ReadArg
<1>3. PICK k \in WordsIn(Params[pc.fn][i]) : LoadArg(i, k)
    BY <1>2
<1>4. /\ Semantics!Running /\ Semantics!Depth = d /\ d \in DOMAIN frames
      /\ Semantics!Newest.fn = pc.fn /\ Semantics!Newest.args = ArgsOf(d)
      /\ frames[d].fn = pc.fn /\ Newest = frames[d] /\ frames[d].base \in Int /\ pc.fn \in Fn
    BY <1>1, RunningFacts
<1>5. InArgOffset(pc.fn, i) \in Int
    BY <1>4, ArgumentSlot
<1>6. k \in Int
    <2>1. k \in {0}
        BY <1>4, ScalarWords
    <2> QED BY <2>1
<1>7. FrameAddr(InArgOffset(pc.fn, i) + 4 * k) = ArgAddr(d, i) + 4 * k
    <2>1. FrameAddr(InArgOffset(pc.fn, i) + 4 * k) = Newest.base + (InArgOffset(pc.fn, i) + 4 * k)
        BY <1>1, <1>5, <1>6, FrameIndexIsResolved
    <2> QED BY <2>1, <1>4, <1>5, <1>6 DEF ArgAddr
<1>8. reg' = ArgsOf(d)[i][k] /\ UNCHANGED <<mem, f5, f0, ptr, pc, todo, frames, ptrTo>>
    <2>1. ArgsOf(d)[i][k] = mem[ArgAddr(d, i) + 4 * k]
        BY <1>4, PartsForm
    <2> QED BY <2>1, <1>3, <1>7 DEF LoadArg
<1>9. Activations' = Activations /\ Control' = Control
    BY <1>8, ActivationsSame, ControlSame
<1>10. Outgoing' = Outgoing
    BY <1>8 DEF Outgoing, Contents
<1>11. Semantics!LoadArg(i, k)
    BY <1>4, <1>8, <1>9, <1>10 DEF Semantics!LoadArg
<1> QED BY <1>4, <1>11, SameWords DEF Semantics!UseArg

LEMMA FollowPointerRefines ==
    ASSUME ScalarArguments, IInv, FollowPointer
    PROVE  Semantics!UsePointer
<1> DEFINE d == ptrTo.depth
           o == ptrTo.obj
<1>1. InBody /\ ptrTo # None
    BY DEF FollowPointer
<1>2. PICK k \in Pointee : LoadIndirect(k) \/ \E v \in Value : StoreIndirect(k, v)
    BY DEF FollowPointer
<1>3. d \in DOMAIN frames /\ o \in DOMAIN ObjSize[frames[d].fn]
      /\ ptr = frames[d].base + ObjOffset[frames[d].fn][o]
    BY <1>1 DEF IInv, PointerOK
<1>4. Semantics!Running /\ d \in 1 .. Len(frames)
    BY <1>1, <1>3, RunningFacts
<1>5. Activations[d].fn = frames[d].fn /\ Activations[d].locals = LocalsOf(d)
    BY <1>4, ActivationsFacts
<1>6. Semantics!Pointee = Pointee /\ Pointee = WordsIn(ObjSize[frames[d].fn][o])
    BY <1>5, SameWords DEF Semantics!Pointee, Pointee
<1>7. ptr + 4 * k = LocalAddr(d, o, k)
    BY <1>3 DEF LocalAddr
<1>8. ASSUME LoadIndirect(k)
      PROVE  Semantics!LoadIndirect(k)
    <2>1. reg' = mem[LocalAddr(d, o, k)] /\ UNCHANGED <<mem, f5, f0, ptr, pc, todo, frames, ptrTo>>
        BY <1>7, <1>8 DEF LoadIndirect
    <2>2. LocalsOf(d)[o][k] = mem[LocalAddr(d, o, k)]
        BY <1>2, <1>3, <1>6, PartsForm
    <2>3. Activations' = Activations /\ Control' = Control
        BY <2>1, ActivationsSame, ControlSame
    <2>4. Outgoing' = Outgoing
        BY <2>1 DEF Outgoing, Contents
    <2> QED BY <2>1, <2>2, <2>3, <2>4, <1>5 DEF Semantics!LoadIndirect
<1>9. ASSUME NEW v \in Value, StoreIndirect(k, v)
      PROVE  Semantics!StoreIndirect(k, v)
    <2>1. mem' = Write(mem, LocalAddr(d, o, k), v) /\ UNCHANGED <<f5, f0, reg, ptr, pc, todo, frames, ptrTo>>
        BY <1>7, <1>9 DEF StoreIndirect
    <2>2. v \in Word
        BY DEF Word
    <2>3. Activations' = [Activations EXCEPT ![d].locals[o][k] = v] /\ Outgoing' = Outgoing
        BY <2>1, <2>2, <1>2, <1>3, <1>6, StoreToLocal
    <2> QED BY <2>1, <2>3, ControlSame DEF Semantics!StoreIndirect
<1> QED BY <1>1, <1>2, <1>4, <1>6, <1>8, <1>9 DEF Semantics!UsePointer

-----------------------------------------------------------------------------
(* The refinement: calls and returns. *)

\* Between calls no call site is on the compiler's mind.
SiteOK == pc.at \in {"entry", "body", "ret", "exit"} => pc.site = None

LEMMA NextSiteOK ==
    ASSUME IInv, SiteOK, [Next]_vars
    PROVE  SiteOK'
<1>1. pc \in [at : At, fn : Fn, site : Site \cup {None}]
    BY DEF IInv, TypeOK
<1>2. CASE Prologue
    BY <1>1, <1>2 DEF SiteOK, Prologue
<1>3. CASE UNCHANGED pc
    BY <1>3 DEF SiteOK
<1>4. CASE AccessLocal \/ ReadArg \/ FollowPointer
    <2>1. UNCHANGED pc
        BY <1>4 DEF AccessLocal, TakeAddress, LoadLocal, StoreLocal, ReadArg, LoadArg,
                    FollowPointer, LoadIndirect, StoreIndirect
    <2> QED BY <2>1, <1>3
<1>5. ASSUME NEW s \in Site, BeginCall(s) PROVE SiteOK'
    BY <1>1, <1>5 DEF SiteOK, BeginCall
<1>6. CASE PassArg
    BY <1>3, <1>6 DEF PassArg, StoreArg
<1>7. CASE Fenxeo
    BY <1>7 DEF SiteOK, Fenxeo
<1>8. ASSUME NEW v \in Value, LowerReturn(v) PROVE SiteOK'
    BY <1>1, <1>8 DEF SiteOK, LowerReturn
<1>9. CASE Epilogue
    BY <1>1, <1>9 DEF SiteOK, Epilogue
<1>10. CASE Dosnud
    <2>1. pc'.at \in {"after", "halt", "wild"}
        BY <1>10 DEF Dosnud
    <2> QED BY <2>1 DEF SiteOK
<1>11. CASE EndCall
    BY <1>1, <1>11 DEF SiteOK, EndCall
<1> QED BY <1>2, <1>3, <1>4, <1>5, <1>6, <1>7, <1>8, <1>9, <1>10, <1>11 DEF Next, Halted, vars

LEMMA BeginCallRefines ==
    ASSUME ScalarArguments, IInv, SiteOK, NEW s \in Site, BeginCall(s)
    PROVE  Semantics!BeginCall(s)
<1> DEFINE g == Callee[s]
           c == CallFrameBytes(g)
           n == Len(frames)
<1>1. /\ pc.at = "body" /\ Caller[s] = pc.fn /\ Lowest =< f5 - c - StackSize[g]
      /\ f5' = f5 - c /\ pc' = [pc EXCEPT !.at = "args", !.site = s]
      /\ UNCHANGED <<mem, f0, reg, ptr, frames, ptrTo>>
    BY DEF BeginCall, RoomFor
<1>2. pc \in [at : At, fn : Fn, site : Site \cup {None}] /\ f5 \in Int /\ mem \in [Addr -> Word]
    BY DEF IInv, TypeOK
<1>3. pc'.at = "args" /\ pc'.site = s
    BY <1>1, <1>2
<1>4. g \in Fn /\ c \in Nat /\ StackSize[g] \in Nat /\ Lowest \in Int /\ Top \in Int
    <2>1. g \in Fn
        BY LayoutAssumption
    <2> QED BY <2>1, LayoutAssumption, CallFrameSize
<1>5. f5 =< Top
    <2>1. Newest.base \in Int /\ StackSize[Newest.fn] \in Nat /\ n \in DOMAIN frames /\ Newest = frames[n]
          /\ pc.fn = Newest.fn
        BY <1>1, NewestFacts
    <2>2. f5 = Newest.base - StackSize[Newest.fn]
        BY <1>1, <2>1, SPAdjFacts DEF IInv, StackPointerIsTracked
    <2>3. Newest.base + CallFrameBytes(Newest.fn) =< Top /\ CallFrameBytes(Newest.fn) \in Nat
        BY <2>1, FrameFacts DEF IInv, FramesOK
    <2> QED BY <2>1, <2>2, <2>3, <1>4
<1>6. ASSUME NEW i \in DOMAIN Params[g], NEW k \in WordsIn(Params[g][i])
      PROVE  mem'[f5' + OutArgOffset(g, i) + 4 * k] \in Word
    <2> DEFINE x == OutArgOffset(g, i)
    <2>1. x \in Int /\ 4 =< x /\ x + 4 =< c
        BY <1>4, ArgumentSlot
    <2>2. WordsIn(Params[g][i]) = {0} /\ \A y \in Int : y + 4 * 0 = y
        BY <1>4, ScalarWords
    <2> HIDE DEF x, c
    <2>3. f5' + x \in Int /\ Lowest =< f5' + x /\ f5' + x =< Top - 1
        BY <2>1, <1>1, <1>2, <1>4, <1>5
    <2>4. f5' + x \in Addr
        BY <2>3, <1>4 DEF Addr
    <2>5. f5' + x + 4 * k = f5' + x
        BY <2>2, <2>3
    <2>6. mem'[f5' + x] \in Word
        BY <2>4, <1>1, <1>2
    <2> QED BY <2>5, <2>6 DEF x
<1>7. Semantics!HoldsWords(Outgoing', Params[g])
    BY <1>3, <1>6, NextOutgoingForm, SameWords DEF Semantics!HoldsWords
<1>8. Control.at = "run" /\ Control' = [at |-> "call", site |-> s]
    BY <1>1, <1>3 DEF Control
<1>9. Activations' = Activations
    BY <1>1, ActivationsSame
<1>10. Semantics!Depth > 0 /\ Semantics!Newest.fn = pc.fn
    <2>1. InBody
        BY <1>1 DEF InBody
    <2> QED BY <2>1, RunningFacts DEF Semantics!Running
<1> QED BY <1>1, <1>7, <1>8, <1>9, <1>10 DEF Semantics!BeginCall

\* A store to the call frame changes no part of any activation.
LEMMA StoreToCallFrame ==
    ASSUME ScalarArguments, IInv, pc.at = "args", NEW x \in Int,
           0 =< x, x + 4 =< CallFrameBytes(Callee[pc.site]),
           NEW v \in Word, mem' = Write(mem, f5 + x, v),
           NEW d \in DOMAIN frames, frames'[d] = frames[d]
    PROVE  LocalsOf(d)' = LocalsOf(d) /\ ArgsOf(d)' = ArgsOf(d)
<1> DEFINE a == f5 + x
           f == frames[d].fn
           low == frames[d].base - StackSize[f]
<1>1. a \in Int /\ a + 4 =< low
    BY CallFrameIsLowest
<1>2. \A y \in Addr : Apart(y, a) => mem'[y] = mem[y]
    BY <1>1, WriteKeeps
<1>3. f \in Fn /\ frames[d].base \in Int /\ StackSize[f] \in Nat /\ low \in Int /\ low =< frames[d].base
    BY FrameFacts
<1>4. ASSUME NEW y \in Int, low =< y PROVE Apart(y, a)
    <2> HIDE DEF a, low
    <2> QED BY <1>1, <1>3, <1>4 DEF Apart
<1>5. ASSUME NEW o \in DOMAIN ObjSize[f], NEW k \in WordsIn(ObjSize[f][o])
      PROVE  mem'[LocalAddr(d, o, k)] = mem[LocalAddr(d, o, k)]
    <2>1. LocalAddr(d, o, k) \in Int /\ LocalAddr(d, o, k) \in Addr /\ low =< LocalAddr(d, o, k)
        BY LocalBounds
    <2> QED BY <2>1, <1>2, <1>4
<1>6. ASSUME NEW i \in DOMAIN Params[f]
      PROVE  ArgAddr(d, i) \in Int /\ mem'[ArgAddr(d, i)] = mem[ArgAddr(d, i)]
    <2>1. ArgAddr(d, i) \in Int /\ ArgAddr(d, i) \in Addr /\ frames[d].base + 4 =< ArgAddr(d, i)
        BY ArgBounds
    <2>2. low =< ArgAddr(d, i)
        <3> HIDE DEF low
        <3> QED BY <2>1, <1>3
    <2> QED BY <2>1, <2>2, <1>2, <1>4
<1> QED BY <1>3, <1>5, <1>6, LocalsSame, ArgsSame

\* Storing an argument changes that word of the call frame and nothing else of
\* it, of a local or of an argument.
LEMMA ArgumentStore ==
    ASSUME ScalarArguments, IInv, NEW i \in todo,
           NEW src \in [WordsIn(Params[Callee[pc.site]][i]) -> Value], StoreArg(i, src)
    PROVE  LET g == Callee[pc.site] IN
           /\ g \in Fn /\ i \in DOMAIN Params[g]
           /\ \A d \in DOMAIN frames : LocalsOf(d)' = LocalsOf(d) /\ ArgsOf(d)' = ArgsOf(d)
           /\ mem'[f5 + OutArgOffset(g, i)] = src[0]
           /\ \A j \in DOMAIN Params[g] : j # i =>
                 \A k \in WordsIn(Params[g][j]) :
                     mem'[f5 + OutArgOffset(g, j) + 4 * k] = mem[f5 + OutArgOffset(g, j) + 4 * k]
<1> DEFINE g == Callee[pc.site]
           x == OutArgOffset(g, i)
<1>1. pc.at = "args" /\ UNCHANGED <<f5, f0, reg, ptr, pc, frames, ptrTo>>
      /\ mem' = WriteWords(mem, f5 + x, Params[g][i], src)
    BY DEF StoreArg
<1>2. i \in DOMAIN Params[g] /\ g \in Fn
    BY <1>1, SPAdjFacts DEF IInv, ControlOK
<1>3. x \in Int /\ 4 =< x /\ x + 4 =< CallFrameBytes(g) /\ f5 \in Int /\ f5 + x \in Int /\ f5 + x \in Addr
    BY <1>1, <1>2, OutgoingBounds
<1>4. \A j \in DOMAIN Params[g] : WordsIn(Params[g][j]) = {0} /\ Params[g][j] = 4
    BY <1>2, ScalarWords DEF ScalarArguments
<1>5. mem' = Write(mem, f5 + x, src[0]) /\ src[0] \in Word
    <2>1. src \in [{0} -> Value]
        BY <1>2, <1>4
    <2>2. src[0] \in Value
        BY <2>1
    <2> QED BY <2>2, <1>1, <1>2, <1>3, <1>4, WriteOneWord DEF Word
<1>6. ASSUME NEW d \in DOMAIN frames PROVE LocalsOf(d)' = LocalsOf(d) /\ ArgsOf(d)' = ArgsOf(d)
    <2>1. 0 =< x /\ frames'[d] = frames[d]
        BY <1>1, <1>3
    <2> HIDE DEF x
    <2> QED BY <2>1, <1>1, <1>3, <1>5, StoreToCallFrame
<1>7. (\A y \in Addr : Apart(y, f5 + x) => mem'[y] = mem[y]) /\ mem'[f5 + x] = src[0]
    BY <1>3, <1>5, WriteKeeps
<1>8. ASSUME NEW j \in DOMAIN Params[g], j # i
      PROVE  \A k \in WordsIn(Params[g][j]) :
                 mem'[f5 + OutArgOffset(g, j) + 4 * k] = mem[f5 + OutArgOffset(g, j) + 4 * k]
    <2> DEFINE y == OutArgOffset(g, j)
    <2>1. y \in Int /\ f5 + y \in Int /\ f5 + y \in Addr
        BY <1>1, OutgoingBounds
    <2>2. Apart(y, x)
        BY <1>2, <1>8, OutgoingApart
    <2>3. Apart(f5 + y, f5 + x)
        <3> HIDE DEF x, y
        <3> QED BY <2>1, <2>2, <1>3 DEF Apart
    <2>4. mem'[f5 + y] = mem[f5 + y]
        BY <2>1, <2>3, <1>7
    <2>5. \A z \in Int : z + 4 * 0 = z
        OBVIOUS
    <2>6. f5 + y + 4 * 0 = f5 + y
        BY <2>1, <2>5
    <2>7. \A k \in WordsIn(Params[g][j]) : k = 0
        BY <1>4
    <2> QED BY <2>4, <2>6, <2>7
<1> QED BY <1>2, <1>6, <1>7, <1>8

LEMMA PassArgRefines ==
    ASSUME ScalarArguments, IInv, PassArg
    PROVE  Semantics!PassArg
<1> DEFINE g == Callee[pc.site]
<1>1. PICK i \in todo : \E src \in [WordsIn(Params[g][i]) -> Value] : StoreArg(i, src)
    BY DEF PassArg
<1>2. PICK src \in [WordsIn(Params[g][i]) -> Value] : StoreArg(i, src)
    BY <1>1
<1>3. pc.at = "args" /\ UNCHANGED <<f5, f0, reg, ptr, pc, frames, ptrTo>>
    BY <1>2 DEF StoreArg
<1> DEFINE x == OutArgOffset(g, i)
<1>4. /\ i \in DOMAIN Params[g] /\ g \in Fn
      /\ \A d \in DOMAIN frames : LocalsOf(d)' = LocalsOf(d) /\ ArgsOf(d)' = ArgsOf(d)
      /\ mem'[f5 + x] = src[0]
      /\ \A j \in DOMAIN Params[g] : j # i =>
            \A k \in WordsIn(Params[g][j]) :
                mem'[f5 + OutArgOffset(g, j) + 4 * k] = mem[f5 + OutArgOffset(g, j) + 4 * k]
    BY <1>2, ArgumentStore
<1>5. x \in Int /\ f5 + x \in Int
    BY <1>3, <1>4, OutgoingBounds
<1>6. \A j \in DOMAIN Params[g] : WordsIn(Params[g][j]) = {0} /\ Params[g][j] = 4
    BY <1>4, ScalarWords DEF ScalarArguments
<1>7. \A y \in Int : y + 4 * 0 = y
    OBVIOUS
<1>9. Activations' = Activations
    BY <1>3, <1>4 DEF Activations
<1>11. Outgoing' = [Outgoing EXCEPT ![i] = src]
    <2> DEFINE old == [j \in DOMAIN Params[g] |->
                          [k \in WordsIn(Params[g][j]) |-> mem[f5 + OutArgOffset(g, j) + 4 * k]]]
               new == [j \in DOMAIN Params[g] |->
                          [k \in WordsIn(Params[g][j]) |-> mem'[f5 + OutArgOffset(g, j) + 4 * k]]]
    <2>1. Outgoing = old /\ Outgoing' = new
        BY <1>3, OutgoingForm, NextOutgoingForm
    <2>2. new[i] = src
        <3>1. new[i] = [k \in {0} |-> mem'[f5 + x + 4 * k]]
            BY <1>4, <1>6
        <3>2. mem'[f5 + x + 4 * 0] = src[0]
            BY <1>4, <1>5, <1>7
        <3>3. src = [k \in {0} |-> src[0]]
            BY <1>4, <1>6
        <3> QED BY <3>1, <3>2, <3>3
    <2>3. \A j \in DOMAIN Params[g] : j # i => new[j] = old[j]
        BY <1>4
    <2>4. new = [j \in DOMAIN Params[g] |-> new[j]] /\ old = [j \in DOMAIN Params[g] |-> old[j]]
        OBVIOUS
    <2> HIDE DEF new, old
    <2>5. new = [old EXCEPT ![i] = src]
        BY <2>2, <2>3, <2>4, <1>4
    <2> QED BY <2>1, <2>5
<1>12. i \in DOMAIN Outgoing /\ src \in [DOMAIN Outgoing[i] -> Value]
    <2>1. DOMAIN Outgoing = DOMAIN Params[g] /\ DOMAIN Outgoing[i] = WordsIn(Params[g][i])
        BY <1>3, <1>4, OutgoingForm
    <2> QED BY <2>1, <1>2, <1>4
<1>13. Semantics!StoreArg(i, src)
    <2>1. Control.at = "call"
        BY <1>3 DEF Control
    <2> QED BY <2>1, <1>3, <1>9, <1>11, ControlSame DEF Semantics!StoreArg
<1> QED BY <1>12, <1>13 DEF Semantics!PassArg

\* The parts of any activation of the next state.
LEMMA NewPartsForm ==
    ASSUME NEW d
    PROVE  LET f == frames'[d].fn
               b == frames'[d].base
           IN  /\ LocalsOf(d)' = [o \in DOMAIN ObjSize[f] |->
                      [k \in WordsIn(ObjSize[f][o]) |-> mem'[b + ObjOffset[f][o] + 4 * k]]]
               /\ ArgsOf(d)' = [i \in DOMAIN Params[f] |->
                      [k \in WordsIn(Params[f][i]) |-> mem'[b + InArgOffset(f, i) + 4 * k]]]
BY DEF LocalsOf, ArgsOf, Contents, InArgOffset, FormalBytes, NextStackOffset

\* Activations that are a sequence of the next state's frames.
LEMMA NextActivations ==
    ASSUME NEW n \in Nat, DOMAIN frames' = 1 .. n
    PROVE  /\ Len(Activations') = n /\ DOMAIN Activations' = 1 .. n
           /\ Activations' \in Seq({Activations'[d] : d \in 1 .. n})
           /\ Activations' = [d \in 1 .. n |-> Activations'[d]]
           /\ \A d \in 1 .. n :
                 Activations'[d] = [fn |-> frames'[d].fn, site |-> frames'[d].site,
                                    args |-> ArgsOf(d)', locals |-> LocalsOf(d)']
<1>1. Activations' = [d \in 1 .. n |->
                        [fn |-> frames'[d].fn, site |-> frames'[d].site,
                         args |-> ArgsOf(d)', locals |-> LocalsOf(d)']]
    BY DEF Activations
<1> DEFINE q == Activations'
<1>2. q = [d \in 1 .. n |-> q[d]]
    BY <1>1
<1> HIDE DEF q
<1>3. Len(q) = n /\ DOMAIN q = 1 .. n /\ q \in Seq({q[d] : d \in 1 .. n})
    BY <1>2, SequenceOf
<1> QED BY <1>1, <1>2, <1>3 DEF q

\* A sequence cut after its first n elements.
LEMMA FrontIs ==
    ASSUME NEW n \in Nat, NEW R, NEW q \in Seq(R), Len(q) = n + 1,
           NEW p, p = [d \in 1 .. n |-> q[d]]
    PROVE  SubSeq(q, 1, n) = p
<1> DEFINE s == SubSeq(q, 1, n)
<1>1. s \in Seq(R) /\ DOMAIN s = 1 .. n /\ \A d \in 1 .. n : s[d] = q[d]
    BY FrontFacts
<1> HIDE DEF s
<1>2. s = [d \in 1 .. n |-> s[d]]
    BY <1>1
<1>3. s = p
    BY <1>1, <1>2
<1> QED BY <1>3 DEF s

\* The return address has a word of the call frame.
LEMMA ReturnWordFits ==
    ASSUME NEW g \in Fn
    PROVE  0 + 4 =< CallFrameBytes(g)
<1>1. PICK n \in Nat : Len(Params[g]) = n
    BY LayoutAssumption
<1>2. CallFrameBytes(g) = 4 * n + 4
    BY <1>1, CallFrameSize
<1> QED BY <1>2

LEMMA FenxeoRefines ==
    ASSUME ScalarArguments, IInv, Fenxeo
    PROVE  Semantics!Call
<1>0. PICK n \in Nat : n = Len(frames)
    BY FrameFacts
<1> DEFINE g == Callee[pc.site]
           a == [fn |-> g, site |-> pc.site, base |-> f5]
           R == [fn : Fn, site : Site \cup {Root}, base : Int]
           m == n + 1
<1>1. pc.at = "args" /\ todo = {} /\ mem' = Write(mem, f5, pc.site) /\ frames' = Append(frames, a)
      /\ pc' = [at |-> "entry", fn |-> g, site |-> None] /\ UNCHANGED <<f5, f0, reg, ptr, todo, ptrTo>>
    BY DEF Fenxeo
<1>2. /\ pc.site \in Site /\ g \in Fn /\ pc.site \in Word /\ f5 \in Int /\ Lowest =< f5 - StackSize[g]
      /\ mem \in [Addr -> Word]
    BY <1>1, SPAdjFacts DEF IInv, TypeOK, ControlOK, Word
<1>3. DOMAIN frames = 1 .. n
    BY <1>0, FrameFacts
<1>4. DOMAIN frames' = 1 .. n + 1 /\ frames'[n + 1] = a /\ \A d \in 1 .. n : frames'[d] = frames[d]
    <2>1. frames \in Seq(R) /\ a \in R
        BY <1>2 DEF IInv, TypeOK
    <2> HIDE DEF a, R
    <2> QED BY <2>1, <1>1, <1>0, AppendFacts
<1>5. ASSUME NEW d \in DOMAIN frames PROVE LocalsOf(d)' = LocalsOf(d) /\ ArgsOf(d)' = ArgsOf(d)
    <2>1. 0 \in Int /\ 0 =< 0 /\ 0 + 4 =< CallFrameBytes(g) /\ f5 + 0 = f5
        BY <1>2, ReturnWordFits
    <2>2. mem' = Write(mem, f5 + 0, pc.site) /\ frames'[d] = frames[d]
        BY <2>1, <1>1, <1>3, <1>4
    <2> QED BY <2>1, <2>2, <1>1, <1>2, StoreToCallFrame
<1>6. n + 1 \in Nat
    OBVIOUS
<1>7. /\ Len(Activations') = n + 1 /\ Activations' \in Seq({Activations'[d] : d \in 1 .. n + 1})
      /\ \A d \in 1 .. n + 1 :
            Activations'[d] = [fn |-> frames'[d].fn, site |-> frames'[d].site,
                               args |-> ArgsOf(d)', locals |-> LocalsOf(d)']
    BY <1>4, <1>6, NextActivations
<1>8. SubSeq(Activations', 1, n) = Activations
    <2>1. ASSUME NEW d \in 1 .. n PROVE Activations'[d] = Activations[d]
        <3>1. d \in 1 .. n + 1 /\ d \in DOMAIN frames /\ d \in 1 .. Len(frames)
            BY <1>3, <1>0
        <3>2. Activations'[d] = [fn |-> frames'[d].fn, site |-> frames'[d].site,
                                 args |-> ArgsOf(d)', locals |-> LocalsOf(d)']
            BY <3>1, <1>7
        <3>3. Activations[d] = [fn |-> frames[d].fn, site |-> frames[d].site,
                                args |-> ArgsOf(d), locals |-> LocalsOf(d)]
            BY <3>1, ActivationsFacts
        <3>4. frames'[d] = frames[d] /\ LocalsOf(d)' = LocalsOf(d) /\ ArgsOf(d)' = ArgsOf(d)
            BY <3>1, <1>4, <1>5
        <3> QED BY <3>2, <3>3, <3>4
    <2>2. Activations = [d \in 1 .. n |-> Activations[d]]
        BY <1>3 DEF Activations
    <2>3. Activations = [d \in 1 .. n |-> Activations'[d]]
        BY <2>1, <2>2
    <2> DEFINE q == Activations'
               S == {q[d] : d \in 1 .. n + 1}
    <2>4. q \in Seq(S) /\ Len(q) = n + 1 /\ Activations = [d \in 1 .. n |-> q[d]]
        BY <2>3, <1>7
    <2> HIDE DEF q, S
    <2>5. SubSeq(q, 1, n) = Activations
        BY <2>4, <1>3, FrontIs
    <2> QED BY <2>5 DEF q
<1>9. ASSUME NEW i \in DOMAIN Params[g]
      PROVE  /\ WordsIn(Params[g][i]) = {0} /\ f5 + OutArgOffset(g, i) \in Addr
             /\ f5 + OutArgOffset(g, i) + 4 * 0 = f5 + OutArgOffset(g, i)
             /\ InArgOffset(g, i) = OutArgOffset(g, i)
             /\ mem'[f5 + OutArgOffset(g, i)] = mem[f5 + OutArgOffset(g, i)]
    <2> DEFINE x == OutArgOffset(g, i)
    <2>1. x \in Int /\ 4 =< x /\ f5 + x \in Int /\ f5 + x \in Addr
        BY <1>1, OutgoingBounds
    <2>2. WordsIn(Params[g][i]) = {0} /\ f5 + x + 4 * 0 = f5 + x
        BY <2>1, <1>2, ScalarWords
    <2>3. Apart(f5 + x, f5)
        <3> HIDE DEF x
        <3> QED BY <2>1, <1>2 DEF Apart
    <2>4. mem'[f5 + x] = mem[f5 + x]
        BY <2>1, <2>3, <1>1, <1>2, WriteKeeps
    <2> QED BY <2>1, <2>2, <2>4, <1>2, ArgumentSlot
<1>10. ArgsOf(n + 1)' = Outgoing /\ Semantics!HoldsWords(Outgoing, Params[g])
    <2> DEFINE new == [i \in DOMAIN Params[g] |->
                          [k \in WordsIn(Params[g][i]) |-> mem'[f5 + InArgOffset(g, i) + 4 * k]]]
               old == [i \in DOMAIN Params[g] |->
                          [k \in WordsIn(Params[g][i]) |-> mem[f5 + OutArgOffset(g, i) + 4 * k]]]
    <2>1. ArgsOf(n + 1)' = new
        <3>1. frames'[m].fn = g /\ frames'[m].base = f5
            BY <1>4
        <3> HIDE DEF m, g
        <3>2. ArgsOf(m)' = [i \in DOMAIN Params[g] |->
                               [k \in WordsIn(Params[g][i]) |-> mem'[f5 + InArgOffset(g, i) + 4 * k]]]
            BY <3>1, NewPartsForm
        <3> QED BY <3>2 DEF m, g
    <2>4. Outgoing = old
        BY <1>1, OutgoingForm
    <2>2. \A i \in DOMAIN Params[g] : \A k \in WordsIn(Params[g][i]) :
              /\ mem'[f5 + InArgOffset(g, i) + 4 * k] = mem[f5 + OutArgOffset(g, i) + 4 * k]
              /\ mem[f5 + OutArgOffset(g, i) + 4 * k] \in Word
        BY <1>2, <1>9
    <2>3. new = old
        BY <2>2
    <2>5. Semantics!HoldsWords(old, Params[g])
        BY <2>2, SameWords DEF Semantics!HoldsWords
    <2> QED BY <2>1, <2>3, <2>4, <2>5
<1>11. Semantics!HoldsWords(LocalsOf(n + 1)', ObjSize[g])
    <2>1. LocalsOf(n + 1)' = [o \in DOMAIN ObjSize[g] |->
              [k \in WordsIn(ObjSize[g][o]) |-> mem'[f5 + ObjOffset[g][o] + 4 * k]]]
        <3>1. frames'[m].fn = g /\ frames'[m].base = f5
            BY <1>4
        <3> HIDE DEF m, g
        <3>2. LocalsOf(m)' = [o \in DOMAIN ObjSize[g] |->
                  [k \in WordsIn(ObjSize[g][o]) |-> mem'[f5 + ObjOffset[g][o] + 4 * k]]]
            BY <3>1, NewPartsForm
        <3> QED BY <3>2 DEF m, g
    <2>2. ASSUME NEW o \in DOMAIN ObjSize[g], NEW k \in WordsIn(ObjSize[g][o])
          PROVE  mem'[f5 + ObjOffset[g][o] + 4 * k] \in Word
        <3> DEFINE x == ObjOffset[g][o]
                   z == ObjSize[g][o]
        <3>1. z \in Nat /\ x \in Int /\ -StackSize[g] =< x /\ x + z =< 0 /\ StackSize[g] \in Nat
              /\ Lowest \in Int /\ Top \in Int
            BY <1>2, LayoutAssumption
        <3>2. k \in Nat /\ 4 * k + 4 =< z
            BY <3>1, WordInObject
        <3>3. f5 + 0 \in Addr
            <4>1. 0 \in Int /\ 0 =< 0 /\ 0 + 4 =< CallFrameBytes(g)
                BY <1>2, ReturnWordFits
            <4> QED BY <4>1, <1>1, CallFrameIsSafe
        <3> HIDE DEF x, z
        <3>4. f5 + x + 4 * k \in Int /\ Lowest =< f5 + x + 4 * k /\ f5 + x + 4 * k =< Top - 1
            BY <3>1, <3>2, <3>3, <1>2 DEF Addr
        <3>5. f5 + x + 4 * k \in Addr
            BY <3>1, <3>4 DEF Addr
        <3>6. mem' \in [Addr -> Word]
            BY <1>1, <1>2, WriteFacts
        <3> QED BY <3>5, <3>6 DEF x
    <2> QED BY <2>1, <2>2, SameWords DEF Semantics!HoldsWords
<1>12. Semantics!IsActivation(Activations'[n + 1], g, pc.site, Outgoing)
    <2>1. n + 1 \in 1 .. n + 1
        BY <1>3
    <2>2. Activations'[n + 1] = [fn |-> g, site |-> pc.site, args |-> Outgoing, locals |-> LocalsOf(n + 1)']
        <3>1. frames'[m].fn = g /\ frames'[m].site = pc.site
            BY <1>4
        <3>2. Activations'[m] = [fn |-> frames'[m].fn, site |-> frames'[m].site,
                                 args |-> ArgsOf(m)', locals |-> LocalsOf(m)']
            BY <2>1, <1>7
        <3>3. ArgsOf(m)' = Outgoing
            BY <1>10
        <3> HIDE DEF m, g
        <3>4. Activations'[m] = [fn |-> g, site |-> pc.site, args |-> Outgoing, locals |-> LocalsOf(m)']
            BY <3>1, <3>2, <3>3
        <3> QED BY <3>4 DEF m, g
    <2> QED BY <2>2, <1>10, <1>11 DEF Semantics!IsActivation
<1>13. /\ Control.at = "call" /\ Control.site = pc.site /\ Control' = [at |-> "run", site |-> None]
       /\ Outgoing' = << >>
    BY <1>1 DEF Control, Outgoing
<1>14. Semantics!Depth = n
    BY <1>0, ActivationsFacts DEF Semantics!Depth
<1> QED BY <1>1, <1>7, <1>8, <1>12, <1>13, <1>14 DEF Semantics!Call

LEMMA DosnudRefines ==
    ASSUME ScalarArguments, IInv, SiteOK, Dosnud
    PROVE  Semantics!Leave
<1>1. pc.at = "exit" /\ frames' = SubSeq(frames, 1, Len(frames) - 1) /\ UNCHANGED <<mem, f5, f0, reg, todo>>
    BY DEF Dosnud
<1>2. Len(frames) \in DOMAIN frames /\ Newest = frames[Len(frames)]
    BY <1>1, NewestFacts
<1>3. PICK n \in Nat : Len(frames) = n + 1
    <2>1. Len(frames) \in Nat /\ 1 =< Len(frames)
        BY <1>2, FrameFacts
    <2>2. Len(frames) - 1 \in Nat
        BY <2>1
    <2> QED BY <2>1, <2>2
<1> DEFINE R == [fn : Fn, site : Site \cup {Root}, base : Int]
<1>4. DOMAIN frames' = 1 .. n /\ \A d \in 1 .. n : frames'[d] = frames[d]
    <2>1. frames \in Seq(R) /\ frames' = SubSeq(frames, 1, n)
        BY <1>1, <1>3 DEF IInv, TypeOK
    <2> HIDE DEF R
    <2> QED BY <2>1, <1>3, FrontFacts
<1>5. ASSUME NEW d \in 1 .. n PROVE Activations'[d] = Activations[d]
    <2>1. LocalsOf(d)' = LocalsOf(d) /\ ArgsOf(d)' = ArgsOf(d)
        <3>1. frames'[d] = frames[d] /\ mem' = mem
            BY <1>1, <1>4
        <3>2. \A x : mem'[x] = mem[x]
            BY <3>1
        <3>3. LocalsOf(d)' = LocalsOf(d)
            BY <3>1, <3>2, LocalsSame
        <3>4. ArgsOf(d)' = [i \in DOMAIN Params[frames[d].fn] |->
                  [k \in WordsIn(Params[frames[d].fn][i]) |-> mem[ArgAddr(d, i) + 4 * k]]]
            BY <3>1, NextPartsForm
        <3>5. ArgsOf(d)' = ArgsOf(d)
            BY <3>4, PartsForm
        <3> QED BY <3>3, <3>5
    <2>2. d \in 1 .. Len(frames)
        BY <1>3
    <2> QED BY <2>1, <2>2, <1>4, NextActivations, ActivationsFacts
<1>6. Activations' = SubSeq(Activations, 1, n)
    <2>1. Activations' = [d \in 1 .. n |-> Activations[d]]
        BY <1>4, <1>5, NextActivations
    <2> DEFINE S == {Activations[d] : d \in 1 .. Len(frames)}
    <2>2. Activations \in Seq(S) /\ Len(Activations) = n + 1
        BY <1>3, ActivationsFacts
    <2> HIDE DEF S
    <2> QED BY <2>1, <2>2, FrontIs
<1>7. Semantics!Depth = n + 1 /\ n + 1 > 0 /\ n + 1 - 1 = n /\ Semantics!Newest.site = Newest.site
    <2>1. Semantics!Depth = Len(frames) /\ Len(frames) \in 1 .. Len(frames)
        BY <1>3, ActivationsFacts DEF Semantics!Depth
    <2> QED BY <2>1, <1>2, <1>3, ActivationsFacts DEF Semantics!Newest
<1>8. Control.at = "leave" /\ Outgoing' = Outgoing
      /\ Control' = IF Newest.site = Root THEN [at |-> "done", site |-> None]
                    ELSE [at |-> "back", site |-> Newest.site]
    <2>1. IF Newest.site = Root
          THEN pc' = [at |-> "halt", fn |-> Main, site |-> None]
          ELSE pc' = [at |-> "after", fn |-> Caller[Newest.site], site |-> Newest.site]
        BY DosnudReturns
    <2> QED BY <2>1, <1>1 DEF Control, Outgoing
<1>9. ptrTo' = IF ptrTo # None /\ ptrTo.depth = n + 1 THEN None ELSE ptrTo
    BY <1>3 DEF Dosnud
<1> QED BY <1>1, <1>6, <1>7, <1>8, <1>9 DEF Semantics!Leave

LEMMA InitRefines ==
    ASSUME ScalarArguments, Init
    PROVE  Semantics!Init
<1>1. IInv
    BY InitIInv
<1>2. Len(frames) = 1 /\ frames[1] = [fn |-> Main, site |-> Root, base |-> Top - FormalBytes(Main)]
      /\ DOMAIN frames = 1 .. 1
    BY DEF Init
<1>3. Len(Activations) = 1
      /\ Activations[1] = [fn |-> Main, site |-> Root, args |-> ArgsOf(1), locals |-> LocalsOf(1)]
    BY <1>1, <1>2, ActivationsFacts
<1>4. Semantics!HoldsWords(LocalsOf(1), ObjSize[Main]) /\ Semantics!HoldsWords(ArgsOf(1), Params[Main])
    BY <1>1, <1>2, PartsHoldWords
<1>5. Semantics!IsActivation(Activations[1], Main, Root, Activations[1].args)
    BY <1>3, <1>4 DEF Semantics!IsActivation
<1>6. Control = [at |-> "run", site |-> None] /\ Outgoing = << >> /\ ptrTo = None
    BY DEF Init, Control, Outgoing
<1> QED BY <1>3, <1>5, <1>6 DEF Semantics!Init

LEMMA StepRefines ==
    ASSUME ScalarArguments, IInv, SiteOK, [Next]_vars
    PROVE  [Semantics!Next]_(Semantics!vars)
<1>1. pc \in [at : At, fn : Fn, site : Site \cup {None}]
    BY DEF IInv, TypeOK
<1>2. ASSUME UNCHANGED <<mem, f0, reg, frames, ptrTo>>, Control' = Control, Outgoing' = Outgoing
      PROVE  UNCHANGED Semantics!vars
    BY <1>2, ActivationsSame DEF Semantics!vars
<1>3. CASE Prologue
    <2>1. UNCHANGED <<mem, f0, reg, frames, ptrTo>> /\ Control' = Control /\ Outgoing' = Outgoing
        BY <1>1, <1>3 DEF Prologue, Control, Outgoing
    <2> QED BY <2>1, <1>2
<1>4. CASE Epilogue
    <2>1. UNCHANGED <<mem, f0, reg, frames, ptrTo>> /\ Control' = Control /\ Outgoing' = Outgoing
        BY <1>1, <1>4 DEF Epilogue, Control, Outgoing
    <2> QED BY <2>1, <1>2
<1>5. CASE UNCHANGED vars
    <2>1. UNCHANGED <<mem, f0, reg, frames, ptrTo>> /\ Control' = Control
        BY <1>5, ControlSame DEF vars
    <2>2. Outgoing' = Outgoing
        BY <1>5 DEF vars, Outgoing, Contents
    <2> QED BY <2>1, <2>2, <1>2
<1>6. ASSUME NEW v \in Value, LowerReturn(v) PROVE Semantics!Return(v)
    <2>1. pc.at = "body" /\ f0' = v /\ pc' = [pc EXCEPT !.at = "ret"] /\ UNCHANGED <<mem, reg, frames, ptrTo>>
        BY <1>6 DEF LowerReturn
    <2>2. pc'.at = "ret" /\ pc'.site = None
        BY <2>1, <1>1 DEF SiteOK
    <2>3. Control.at = "run" /\ Control' = [at |-> "leave", site |-> None] /\ Outgoing' = Outgoing
        BY <2>1, <2>2 DEF Control, Outgoing
    <2>4. Semantics!Depth > 0
        <3>1. InBody
            BY <2>1 DEF InBody
        <3> QED BY <3>1, RunningFacts DEF Semantics!Running
    <2> QED BY <2>1, <2>3, <2>4, ActivationsSame DEF Semantics!Return
<1>7. CASE EndCall
    <2>1. pc.at = "after" /\ reg' = f0 /\ pc' = [pc EXCEPT !.at = "body", !.site = None]
          /\ UNCHANGED <<mem, f0, frames, ptrTo>>
        BY <1>7 DEF EndCall, LowerCallResult
    <2>2. pc'.at = "body" /\ pc'.site = None
        BY <2>1, <1>1
    <2>3. Control.at = "back" /\ Control' = [at |-> "run", site |-> None] /\ Outgoing' = Outgoing
        BY <2>1, <2>2 DEF Control, Outgoing
    <2> QED BY <2>1, <2>3, ActivationsSame DEF Semantics!Resume, Semantics!Next
<1> QED BY <1>3, <1>4, <1>5, <1>6, <1>7, AccessLocalRefines, ReadArgRefines, FollowPointerRefines,
           BeginCallRefines, PassArgRefines, FenxeoRefines, DosnudRefines
        DEF Next, Halted, Semantics!Next

\* The machine code of every program with word-sized arguments implements the
\* abstract semantics of calls, for every frame layout, call graph and depth.
THEOREM MachineImplementsSemantics == ASSUME ScalarArguments PROVE Spec => CallsAreIsolated
<1>1. Init => Semantics!Init
    BY InitRefines
<1>2. Init => SiteOK
    BY DEF Init, SiteOK
<1>3. IInv /\ SiteOK /\ [Next]_vars => SiteOK' /\ [Semantics!Next]_(Semantics!vars)
    BY NextSiteOK, StepRefines
<1> QED BY <1>1, <1>2, <1>3, Invariance, PTL DEF Spec, CallsAreIsolated, Semantics!Spec

\* Scalars are passed by a store that touches no argument passed before and no
\* local of any activation: with word-sized arguments, the copies made for a
\* call are private.
THEOREM ScalarCopiesArePrivate == ASSUME ScalarArguments PROVE Spec => ArgumentCopiesArePrivate
<1> DEFINE Private ==
        pc.at = "args" /\ pc'.at = "args" /\ todo' # todo =>
          LET callee == Callee[pc.site]
              passed == DOMAIN Params[callee] \ todo
          IN  /\ \A i \in passed : \A k \in WordsIn(Params[callee][i]) :
                    LET slot == f5 + OutArgOffset(callee, i) + 4 * k
                    IN  mem'[slot] = mem[slot]
              /\ \A d \in DOMAIN frames : LocalsOf(d)' = LocalsOf(d)
<1>1. IInv /\ [Next]_vars => [Private]_vars
    <2> SUFFICES ASSUME IInv, Next, pc.at = "args", pc'.at = "args", todo' # todo
                 PROVE  Private
        BY DEF vars
    <2>1. PassArg
        BY DEF Next, Prologue, AccessLocal, TakeAddress, LoadLocal, StoreLocal, ReadArg, LoadArg,
               FollowPointer, LoadIndirect, StoreIndirect, BeginCall, Fenxeo, LowerReturn, Epilogue,
               Dosnud, EndCall, Halted, vars
    <2>2. PICK i \in todo : \E src \in [WordsIn(Params[Callee[pc.site]][i]) -> Value] : StoreArg(i, src)
        BY <2>1 DEF PassArg
    <2>3. PICK src \in [WordsIn(Params[Callee[pc.site]][i]) -> Value] : StoreArg(i, src)
        BY <2>2
    <2>4. /\ \A d \in DOMAIN frames : LocalsOf(d)' = LocalsOf(d)
          /\ \A j \in DOMAIN Params[Callee[pc.site]] : j # i =>
                \A k \in WordsIn(Params[Callee[pc.site]][j]) :
                    mem'[f5 + OutArgOffset(Callee[pc.site], j) + 4 * k]
                        = mem[f5 + OutArgOffset(Callee[pc.site], j) + 4 * k]
        BY <2>3, ArgumentStore
    <2>5. \A j \in DOMAIN Params[Callee[pc.site]] \ todo :
              j # i /\ j \in DOMAIN Params[Callee[pc.site]]
        BY <2>2
    <2> QED BY <2>4, <2>5
<1> QED BY <1>1, Invariance, PTL DEF Spec, ArgumentCopiesArePrivate
=============================================================================
