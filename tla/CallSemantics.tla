--------------------------- MODULE CallSemantics ---------------------------
(***************************************************************************)
(* What the 2003f back end promises a program about calls: every           *)
(* activation of a function owns its local objects and the arguments it    *)
(* was called with, a call hands the callee exactly the argument values    *)
(* that were computed for it, and a return hands its value back to the     *)
(* activation and the call site that made the call.  There is no stack     *)
(* pointer, no address and no return address here: activations are the     *)
(* elements of a sequence.                                                 *)
(*                                                                         *)
(* CallMachine implements this specification with one flat memory and the  *)
(* register f5 (see CallMachine!CallsAreIsolated).                         *)
(***************************************************************************)
EXTENDS Integers, Sequences

CONSTANTS
    Fn, Main,           \* functions, and the one the program starts in
    Site, Root,         \* call sites, and the startup code that enters Main
    Caller, Callee,     \* the function a site is in, and the one it calls
    Params,             \* Params[f][i]: size of the i-th parameter, in bytes
    ObjSize,            \* ObjSize[f][o]: size of local object o of f, in bytes
    Word,               \* everything a 32-bit word of memory may hold
    Value,              \* the words a program computes
    None                \* no call in progress, no pointer held

VARIABLES
    stack,      \* the activations: a sequence of [fn, site, args, locals]
    ctl,        \* [at, site]: what the newest activation is doing
    out,        \* the arguments of the call being set up
    reg,        \* the result of the newest activation's last operation
    ret,        \* the value being returned
    ptr         \* None, or [depth, obj]: a pointer to a live local object

vars == <<stack, ctl, out, reg, ret, ptr>>

Depth == Len(stack)
Newest == stack[Depth]
Running == Depth > 0 /\ ctl.at \in {"run", "call", "back"}

\* The words of an object of n bytes.
WordsIn(n) == 0 .. (n \div 4 - 1)

\* Parameters and locals hold one word per index.  A fresh one holds some
\* word, and keeps it until it is stored to.
HoldsWords(contents, sizes) ==
    /\ DOMAIN contents = DOMAIN sizes
    /\ \A x \in DOMAIN sizes : contents[x] \in [WordsIn(sizes[x]) -> Word]

IsActivation(a, f, s, args) ==
    /\ a = [fn |-> f, site |-> s, args |-> args, locals |-> a.locals]
    /\ HoldsWords(a.args, Params[f])
    /\ HoldsWords(a.locals, ObjSize[f])

Init ==
    /\ Len(stack) = 1
    /\ IsActivation(stack[1], Main, Root, stack[1].args)
    /\ ctl = [at |-> "run", site |-> None]
    /\ out = << >>
    /\ ptr = None

-----------------------------------------------------------------------------

LoadLocal(o, k) ==
    /\ UNCHANGED <<ctl, ret, ptr, out, stack>>
    /\ reg' = Newest.locals[o][k]

StoreLocal(o, k, v) ==
    /\ UNCHANGED <<ctl, reg, ret, ptr, out>>
    /\ stack' = [stack EXCEPT ![Depth].locals[o][k] = v]

LoadArg(i, k) ==
    /\ UNCHANGED <<ctl, ret, ptr, out, stack>>
    /\ reg' = Newest.args[i][k]

TakeAddress(o) ==
    /\ ptr' = [depth |-> Depth, obj |-> o]
    /\ UNCHANGED <<ctl, reg, ret, out, stack>>

Pointee == WordsIn(ObjSize[stack[ptr.depth].fn][ptr.obj])

LoadIndirect(k) ==
    /\ UNCHANGED <<ctl, ret, ptr, out, stack>>
    /\ reg' = stack[ptr.depth].locals[ptr.obj][k]

StoreIndirect(k, v) ==
    /\ UNCHANGED <<ctl, reg, ret, ptr, out>>
    /\ stack' = [stack EXCEPT ![ptr.depth].locals[ptr.obj][k] = v]

BeginCall(s) ==
    /\ Depth > 0 /\ ctl.at = "run" /\ Caller[s] = Newest.fn
    /\ ctl' = [at |-> "call", site |-> s]
    /\ HoldsWords(out', Params[Callee[s]])
    /\ UNCHANGED <<stack, reg, ret, ptr>>

StoreArg(i, src) ==
    /\ ctl.at = "call"
    /\ out' = [out EXCEPT ![i] = src]
    /\ UNCHANGED <<stack, ctl, reg, ret, ptr>>

Call ==
    /\ ctl.at = "call"
    /\ Len(stack') = Depth + 1
    /\ SubSeq(stack', 1, Depth) = stack
    /\ IsActivation(stack'[Depth + 1], Callee[ctl.site], ctl.site, out)
    /\ ctl' = [at |-> "run", site |-> None]
    /\ out' = << >>
    /\ UNCHANGED <<reg, ret, ptr>>

Return(v) ==
    /\ Depth > 0 /\ ctl.at = "run"
    /\ ret' = v
    /\ ctl' = [at |-> "leave", site |-> None]
    /\ UNCHANGED <<stack, out, reg, ptr>>

\* Control goes back to the site the activation was called from; a pointer
\* to one of its locals is dead.
Leave ==
    /\ Depth > 0 /\ ctl.at = "leave"
    /\ ctl' = IF Newest.site = Root
              THEN [at |-> "done", site |-> None]
              ELSE [at |-> "back", site |-> Newest.site]
    /\ stack' = SubSeq(stack, 1, Depth - 1)
    /\ ptr' = IF ptr # None /\ ptr.depth = Depth THEN None ELSE ptr
    /\ UNCHANGED <<out, reg, ret>>

Resume ==
    /\ ctl.at = "back"
    /\ reg' = ret
    /\ ctl' = [at |-> "run", site |-> None]
    /\ UNCHANGED <<stack, out, ret, ptr>>

UseLocal ==
    /\ Running
    /\ \E o \in DOMAIN ObjSize[Newest.fn] :
          \/ TakeAddress(o)
          \/ \E k \in WordsIn(ObjSize[Newest.fn][o]) :
                LoadLocal(o, k) \/ \E v \in Value : StoreLocal(o, k, v)

UseArg ==
    /\ Running
    /\ \E i \in DOMAIN Params[Newest.fn] :
          \E k \in WordsIn(Params[Newest.fn][i]) : LoadArg(i, k)

UsePointer ==
    /\ Running /\ ptr # None
    /\ \E k \in Pointee : LoadIndirect(k) \/ \E v \in Value : StoreIndirect(k, v)

PassArg ==
    \E i \in DOMAIN out : \E src \in [DOMAIN out[i] -> Value] : StoreArg(i, src)

Next ==
    \/ UseLocal \/ UseArg \/ UsePointer
    \/ \E s \in Site : BeginCall(s)
    \/ PassArg
    \/ Call
    \/ \E v \in Value : Return(v)
    \/ Leave
    \/ Resume

Spec == Init /\ [][Next]_vars
=============================================================================
