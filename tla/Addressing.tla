----------------------------- MODULE Addressing -----------------------------
(***************************************************************************)
(* A memory operand from the DAG to the assembly file: LowerGlobalAddress, *)
(* SelectAddr, eliminateFrameIndex, and printMem.  An operand is           *)
(* base + dispReg + dispImm; each stage rewrites it, and reads in it what  *)
(* an earlier stage has left: symbols in place of registers, frame indices *)
(* that become f5 and an offset, a register 0 that means none.             *)
(***************************************************************************)
EXTENDS Integers, Sequences

CONSTANTS
    WordSize,      \* number of values of a word, a power of two
    Entries,       \* values of f5 when the function is entered
    Offsets,       \* offsets of frame objects: below 0 locals, from 0 arguments
    Align,         \* alignment of the frame object
    StackSizes,    \* sizes of frames
    Adjusts,       \* SPAdj: by how much a call has lowered f5 further
    Values,        \* values of registers and addresses of symbols
    Constants      \* constants in address computations, signed

ASSUME AddressingAssumption ==
    /\ WordSize \in Nat \ {0} /\ Align \in Nat \ {0}
    /\ \A S \in {Entries, StackSizes, Adjusts, Values} : S \subseteq Nat
    /\ Offsets \subseteq Int /\ Constants \subseteq Int

\* the alignment of f5 (F2003fFrameLowering)
StackAlign == 4

\* All are powers of two, so a bit below the alignment divides half of it, the
\* alignment divides the size of a word, and it divides that of f5 if smaller.
ASSUME PowerAssumption ==
    /\ \A b \in {1, 2, 4} : b < Align => Align % (2 * b) = 0
    /\ WordSize % Align = 0
    /\ Align <= StackAlign => StackAlign % Align = 0

VARIABLES
    env,           \* what the run of the program decides
    expr,          \* the address the program computes
    stage,         \* dag, lowered, selected, eliminated, printed
    operand        \* what the compiler has made of it

vars == <<env, expr, stage, operand>>

---------------------------------------------------------------------------
(* Nodes: SelectAddr looks at two levels of additions; a register stands   *)
(* for whatever is below.                                                  *)

Reg == [op |-> "reg"]
Other == [op |-> "other"]                      \* a register known to be aligned
FrameIndex == [op |-> "frame"]
Constant(c) == [op |-> "const", value |-> c]
GlobalAddress(off) == [op |-> "global", off |-> off]
Symbol == [op |-> "symbol"]                    \* external, block or jump table
Wrapper == [op |-> "wrapper"]
Add(x, y) == [op |-> "add", x |-> x, y |-> y]
Or(x, y) == [op |-> "or", x |-> x, y |-> y]

Leaf == {Reg, Other, FrameIndex, GlobalAddress(0), Symbol}
Const == {Constant(c) : c \in Constants}
Bit == {Constant(c) : c \in {1, 2, 4}}
Moved == {GlobalAddress(off) : off \in Constants}

Address ==
    Leaf \cup Const \cup Moved
    \cup {Add(x, y) : x \in Leaf, y \in Leaf \cup Const}
    \cup {Add(x, y) : x \in Moved, y \in {Reg} \cup Const}
    \cup {Add(x, y) : x \in {Reg}, y \in Moved}
    \cup {Add(Add(x, y), c) : x \in Leaf, y \in Leaf, c \in Const}
    \cup {Or(x, c) : x \in Leaf \cup Moved, c \in Bit}

\* what f5 holds when the operand is used
f5 == env.entry - env.stackSize - env.adjust

LeafValue(n) ==
    CASE n.op = "reg"    -> env.reg
      [] n.op = "other"  -> env.reg * Align
      [] n.op = "frame"  -> env.entry + env.offset
      [] n.op = "const"  -> n.value
      [] n.op = "global" -> env.label + n.off
      [] n.op \in {"symbol", "wrapper"} -> env.label

SumValue(n) == IF n.op = "add" THEN LeafValue(n.x) + LeafValue(n.y) ELSE LeafValue(n)

WithBit(v, b) == IF (v \div b) % 2 = 1 THEN v ELSE v + b

Value(n) ==
    CASE n.op = "add" -> SumValue(n.x) + SumValue(n.y)
      [] n.op = "or"  -> WithBit(SumValue(n.x) % WordSize, n.y.value)
      [] OTHER        -> LeafValue(n)

---------------------------------------------------------------------------
(* Lowering of symbols *)

LowerLeaf(n) ==
    CASE n.op = "global" /\ n.off # 0 -> Add(Wrapper, Constant(n.off))
      [] n.op = "global" /\ n.off = 0 -> Wrapper
      [] n.op = "symbol" -> Wrapper
      [] OTHER -> n

LowerSum(n) == IF n.op = "add" THEN Add(LowerLeaf(n.x), LowerLeaf(n.y)) ELSE LowerLeaf(n)

LowerOperation(n) ==
    CASE n.op = "add" -> Add(LowerSum(n.x), LowerSum(n.y))
      [] n.op = "or"  -> Or(LowerSum(n.x), n.y)
      [] OTHER        -> LowerLeaf(n)

---------------------------------------------------------------------------
(* Selection *)

NoReg == [op |-> "none"]
TargetFrameIndex == [op |-> "targetframe"]
TargetSymbol == [op |-> "target"]
F5 == [op |-> "f5"]

\* a node that is not folded is computed into a register: of a frame index,
\* the pseudo instruction ATAframe is made
VReg(n) == [op |-> "vreg", of |-> n]
Mem(base, dispReg, dispImm) == [base |-> base, dispReg |-> dispReg, dispImm |-> dispImm]

KnownAlign(n) == IF n.op \in {"frame", "other"} THEN Align ELSE 1

isBaseWithConstantOffset(n) ==
    \/ n.op = "add" /\ n.y.op = "const"
    \/ n.op = "or" /\ n.y.value < KnownAlign(n.x)

Target(n) == CASE n.op = "frame"   -> TargetFrameIndex
               [] n.op = "wrapper" -> TargetSymbol
               [] OTHER            -> VReg(n)

\* the sum of two nodes, a symbol of which can be the base
SelectSum(n, imm) ==
    CASE n.x.op = "wrapper" -> Mem(TargetSymbol, VReg(n.y), imm)
      [] n.x.op # "wrapper" /\ n.y.op = "wrapper" -> Mem(TargetSymbol, VReg(n.x), imm)
      [] OTHER -> Mem(VReg(n.x), VReg(n.y), imm)

HasWrapper(n) == n.op = "add" /\ "wrapper" \in {n.x.op, n.y.op}

\* Faulty: the constant beside a label and a register is forgotten
SelectAddrDropsConstant(n) ==
    CASE isBaseWithConstantOffset(n) ->
             IF HasWrapper(n.x) THEN SelectSum(n.x, 0)
             ELSE Mem(Target(n.x), NoReg, n.y.value)
      [] ~isBaseWithConstantOffset(n) /\ n.op = "add" -> SelectSum(n, 0)
      [] OTHER -> Mem(Target(n), NoReg, 0)

SelectAddr(n) ==
    CASE isBaseWithConstantOffset(n) ->
             IF HasWrapper(n.x) THEN SelectSum(n.x, n.y.value)
             ELSE Mem(Target(n.x), NoReg, n.y.value)
      [] ~isBaseWithConstantOffset(n) /\ n.op = "add" -> SelectSum(n, 0)
      [] OTHER -> Mem(Target(n), NoReg, 0)

---------------------------------------------------------------------------
(* Elimination of frame indices *)

Signed(v) == ((v + WordSize \div 2) % WordSize) - WordSize \div 2

FrameOffset == env.offset + env.stackSize + env.adjust

\* signed overflow of the int is undefined: it wraps, or the 64-bit immediate
\* operand gets the sum
Sums(v) == {v, Signed(v)}

\* ATAframe dst becomes krz dst f5, and ata dst offset unless it is 0
ATAframe == [op |-> "code", code |-> <<F5>> \o
                (IF FrameOffset = 0 THEN <<>> ELSE <<Constant(FrameOffset)>>)]

EliminateIn(n) == IF n = FrameIndex THEN ATAframe ELSE n

\* in a node computed into a register, every frame index
Eliminated(r) ==
    IF r.op # "vreg" THEN r
    ELSE IF r.of.op = "add"
         THEN VReg(Add(EliminateIn(r.of.x), EliminateIn(r.of.y)))
    ELSE IF r.of.op = "or" THEN VReg(Or(EliminateIn(r.of.x), r.of.y))
    ELSE VReg(EliminateIn(r.of))

eliminateFrameIndex(mem) ==
    IF mem.base = TargetFrameIndex
    THEN {Mem(F5, Eliminated(mem.dispReg), v) : v \in Sums(FrameOffset + mem.dispImm)}
    ELSE {Mem(Eliminated(mem.base), Eliminated(mem.dispReg), mem.dispImm)}

---------------------------------------------------------------------------
(* Printing *)

\* an immediate is printed as an unsigned number of 32 bits
printOperand(o) == IF o.op = "const" THEN Constant(o.value % WordSize) ELSE o

\* "base+reg+imm@", where a register 0 and an immediate 0 are left out
printMem(mem) ==
    Mem(printOperand(mem.base),
        IF mem.dispReg = NoReg THEN NoReg ELSE printOperand(mem.dispReg),
        IF mem.dispImm = 0 THEN NoReg ELSE printOperand(Constant(mem.dispImm)))

---------------------------------------------------------------------------
Init ==
    /\ env \in [entry : Entries, offset : Offsets, stackSize : StackSizes,
                adjust : Adjusts, reg : Values, label : Values]
    /\ env.entry % StackAlign = 0 /\ env.offset % Align = 0    \* (FrameLayout)
    /\ expr \in Address
    /\ stage = "dag"
    /\ operand = expr

Advance(from, to) == stage = from /\ stage' = to /\ UNCHANGED <<env, expr>>

Lower == Advance("dag", "lowered") /\ operand' = LowerOperation(operand)

Select == Advance("lowered", "selected") /\ operand' = SelectAddr(operand)

Eliminate == Advance("selected", "eliminated") /\ operand' \in eliminateFrameIndex(operand)

EmitOperand == Advance("eliminated", "printed") /\ operand' = printMem(operand)

Printed == stage = "printed" /\ UNCHANGED vars

Next == Lower \/ Select \/ Eliminate \/ EmitOperand \/ Printed

Spec == Init /\ [][Next]_vars

---------------------------------------------------------------------------
(* Properties *)

\* what the parts of an operand amount to when the program runs
CodeValue(n) ==
    IF n.op = "code" THEN f5 + (IF Len(n.code) = 1 THEN 0 ELSE n.code[2].value)
    ELSE LeafValue(n)

CodeSum(n) == IF n.op = "add" THEN CodeValue(n.x) + CodeValue(n.y) ELSE CodeValue(n)

RegValue(n) ==
    IF n.op = "or" THEN WithBit(CodeSum(n.x) % WordSize, n.y.value) ELSE CodeSum(n)

PartValue(p) ==
    CASE p.op = "none"   -> 0
      [] p.op = "f5"     -> f5
      [] p.op = "target" -> env.label
      [] p.op = "targetframe" -> env.entry + env.offset
      [] p.op = "const"  -> p.value
      [] p.op = "vreg"   -> RegValue(p.of)

OperandValue ==
    CASE stage \in {"dag", "lowered"} -> Value(operand)
      [] stage \in {"selected", "eliminated"} ->
             PartValue(operand.base) + PartValue(operand.dispReg) + operand.dispImm
      [] stage = "printed" ->
             PartValue(operand.base) + PartValue(operand.dispReg) + PartValue(operand.dispImm)

\* The frame object is where its alignment says.  The prologue does nothing for
\* alignments above that of f5.
InPlace == (env.entry + env.offset) % Align = 0
SetsBitOfFrame(n) == n.op = "or" /\ n.x.op = "frame"

\* Through every stage the operand denotes the address the program computes,
\* modulo the size of a word, wherever f5 is and whatever wraps around; but an OR
\* with a bit that the alignment of the object says is clear needs the object to
\* be in place, as it is if it asks for no more than the alignment of f5.  After
\* elimination no frame index is left, and the displacement is printed as an
\* unsigned word.  (LowerGlobalAddress, SelectAddr, eliminateFrameIndex, printMem)
AddressKept ==
    /\ (SetsBitOfFrame(expr) => InPlace \/ Align <= StackAlign) =>
           OperandValue % WordSize = Value(expr) % WordSize
    /\ stage \in {"eliminated", "printed"} =>
           VReg(FrameIndex) \notin {operand.base, operand.dispReg}
    /\ stage = "printed" =>
           operand.dispImm = NoReg \/ operand.dispImm \in {Constant(v) : v \in 0 .. WordSize - 1}

\* What isBaseWithConstantOffset is for: an OR it accepts is an addition, so that
\* the operand is right without conditions.
OrIsAddition == OperandValue % WordSize = Value(expr) % WordSize
===========================================================================
