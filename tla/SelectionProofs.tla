-------------------------- MODULE SelectionProofs --------------------------
(***************************************************************************)
(* What the instruction selector makes of addresses and of statements.     *)
(*                                                                         *)
(* A memory operand denotes the address the program computes, for every    *)
(* size of word, frame, call sequence, constant and value.  Each stage     *)
(* takes operands of one shape to operands of the next and keeps their     *)
(* value modulo the word size.  Lowering keeps it exactly; selection only  *)
(* changes an OR into an addition, where the bit is clear: in a frame      *)
(* object it is if the object asks for no more than the alignment of f5;   *)
(* elimination replaces entry + offset by f5 and the offset from it, which *)
(* may wrap around; printing takes a remainder.                            *)
(*                                                                         *)
(* The instructions selected for a statement do what it says, for every    *)
(* width of byte, size of memory and set of registers.  A word is four     *)
(* digits, its bytes, and the set of its bits: masks and joins are         *)
(* computed with bits, loads and stores with digits, and a shift is a      *)
(* division.  What remains is one case for each kind of statement.         *)
(***************************************************************************)
EXTENDS Addressing, SelectedCode, WellFoundedInduction, FiniteSetTheorems, TLAPS


---------------------------------------------------------------------------
(* Remainders *)

LEMMA Division ==
    ASSUME NEW w \in Nat \ {0}, NEW a \in Int
    PROVE  a \div w \in Int /\ a % w \in 0 .. w - 1 /\ a = w * (a \div w) + (a % w)
OBVIOUS

\* Numbers have the same remainder when they differ by a multiple.
LEMMA SameRemainder ==
    ASSUME NEW w \in Nat \ {0}, NEW a \in Int, NEW b \in Int
    PROVE  a % w = b % w <=> \E k \in Int : a = b + w * k
<1> DEFINE p == a \div w
           q == b \div w
           r == a % w
           s == b % w
<1>1. p \in Int /\ r \in 0 .. w - 1 /\ a = w * p + r
    OBVIOUS
<1>2. q \in Int /\ s \in 0 .. w - 1 /\ b = w * q + s
    OBVIOUS
<1> HIDE DEF p, q, r, s
<1>3. r = s => a = b + w * (p - q) /\ p - q \in Int
    BY <1>1, <1>2
<1>4. ASSUME NEW k \in Int, a = b + w * k PROVE r = s
    <2> DEFINE d == q + k - p
    <2>1. d \in Int /\ r - s = w * d
        BY <1>1, <1>2, <1>4
    <2> HIDE DEF d
    <2>2. CASE d >= 1
        <3>1. w * d >= w
            BY <2>1, <2>2
        <3> QED BY <3>1, <2>1, <1>1, <1>2
    <2>3. CASE d =< -1
        <3>1. w * d =< -w
            BY <2>1, <2>3
        <3> QED BY <3>1, <2>1, <1>1, <1>2
    <2>4. CASE d = 0
        BY <2>1, <2>4, <1>1, <1>2
    <2> QED BY <2>1, <2>2, <2>3, <2>4
<1>5. r = s <=> \E k \in Int : a = b + w * k
    BY <1>3, <1>4
<1> QED BY <1>5 DEF r, s

LEMMA RemainderOfSum ==
    ASSUME NEW w \in Nat \ {0}, NEW a \in Int, NEW b \in Int, NEW c \in Int, a % w = b % w
    PROVE  (a + c) % w = (b + c) % w
<1>1. PICK k \in Int : a = b + w * k
    BY SameRemainder
<1> DEFINE p == a + c
           q == b + c
<1>2. p \in Int /\ q \in Int /\ p = q + w * k
    BY <1>1
<1> HIDE DEF p, q
<1>3. p % w = q % w
    BY <1>2, SameRemainder
<1> QED BY <1>3 DEF p, q

LEMMA RemainderTwice ==
    ASSUME NEW w \in Nat \ {0}, NEW a \in Int
    PROVE  a % w \in 0 .. w - 1 /\ (a % w) % w = a % w
<1> DEFINE d == a \div w
           r == a % w
<1>1. r \in 0 .. w - 1 /\ d \in Int /\ a = w * d + r
    OBVIOUS
<1> HIDE DEF d, r
<1>2. r \in Int /\ a = r + w * d
    BY <1>1
<1>3. a % w = r % w
    BY <1>1, <1>2, SameRemainder
<1>4. r % w = r
    BY <1>3 DEF r
<1> QED BY <1>1, <1>4 DEF r

\* A number whose remainder is 0 is a multiple, and the other way round.
LEMMA ZeroRemainder ==
    ASSUME NEW w \in Nat \ {0}, NEW a \in Int
    PROVE  a % w = 0 <=> \E k \in Int : a = w * k
<1>1. 0 % w = 0
    OBVIOUS
<1>2. \A k \in Int : 0 + w * k = w * k
    OBVIOUS
<1>3. 0 \in Int
    OBVIOUS
<1>4. a % w = 0 % w <=> \E k \in Int : a = 0 + w * k
    BY <1>3, SameRemainder
<1> QED BY <1>1, <1>2, <1>4

LEMMA SignedKeepsRemainder ==
    ASSUME NEW v \in Int
    PROVE  Signed(v) \in Int /\ Signed(v) % WordSize = v % WordSize
<1> DEFINE h == WordSize \div 2
           u == v + h
           r == u % WordSize
<1>1. WordSize \in Nat \ {0} /\ h \in Int
    BY AddressingAssumption
<1> HIDE DEF h
<1>2. u \in Int
    BY <1>1
<1> HIDE DEF u
<1>3. r \in Int /\ r % WordSize = u % WordSize
    <2>1. r \in 0 .. WordSize - 1 /\ r % WordSize = u % WordSize
        BY <1>1, <1>2, RemainderTwice
    <2> QED BY <2>1, <1>1
<1>4. -h \in Int
    BY <1>1
<1> HIDE DEF r
<1>5. (r + (-h)) % WordSize = (u + (-h)) % WordSize
    BY <1>1, <1>2, <1>3, <1>4, RemainderOfSum
<1>6. r + (-h) = r - h /\ u + (-h) = v
    BY <1>1, <1>3 DEF u
<1>7. Signed(v) = r - h
    BY DEF Signed, r, u, h
<1> QED BY <1>1, <1>3, <1>5, <1>6, <1>7

---------------------------------------------------------------------------
(* The shapes operands have after each stage *)

EnvOK ==
    /\ env \in [entry : Nat, offset : Int, stackSize : Nat, adjust : Nat, reg : Nat, label : Nat]
    /\ env.entry % StackAlign = 0 /\ env.offset % Align = 0

LowLeaf == {Reg, Other, FrameIndex, Wrapper} \cup {Constant(c) : c \in Int}
LowSum == LowLeaf \cup {Add(x, y) : x \in LowLeaf, y \in LowLeaf}
LowOr == {Or(x, y) : x \in LowSum, y \in Bit}
Lowered == LowSum \cup LowOr \cup {Add(x, y) : x \in LowSum, y \in LowSum}

LEMMA LeafFacts ==
    ASSUME EnvOK, NEW n \in Leaf \cup Const \cup Moved
    PROVE  /\ n.op \notin {"add", "or"} /\ LeafValue(n) \in Int
           /\ LowerLeaf(n) \in LowSum /\ SumValue(LowerLeaf(n)) = LeafValue(n)
           /\ n \in Leaf \cup Const => LowerLeaf(n) \in LowLeaf
<1>1. /\ env.entry \in Int /\ env.offset \in Int /\ env.reg \in Nat /\ env.label \in Int
      /\ Align \in Nat /\ env.reg * Align \in Int
    BY AddressingAssumption DEF EnvOK
<1>2. CASE n = Reg
    BY <1>1, <1>2 DEF Reg, LeafValue, LowerLeaf, SumValue, LowLeaf, LowSum
<1>3. CASE n = Other
    BY <1>1, <1>3 DEF Other, LeafValue, LowerLeaf, SumValue, LowLeaf, LowSum
<1>4. CASE n = FrameIndex
    BY <1>1, <1>4 DEF FrameIndex, LeafValue, LowerLeaf, SumValue, LowLeaf, LowSum
<1>5. CASE n = Symbol
    BY <1>1, <1>5 DEF Symbol, Wrapper, LeafValue, LowerLeaf, SumValue, LowLeaf, LowSum
<1>6. ASSUME NEW c \in Int, n = Constant(c)
      PROVE  n.op \notin {"add", "or"} /\ LeafValue(n) \in Int /\ LowerLeaf(n) \in LowLeaf
             /\ SumValue(LowerLeaf(n)) = LeafValue(n)
    <2>1. n.op = "const" /\ n.value = c
        BY <1>6 DEF Constant
    <2>2. LowerLeaf(n) = n /\ n \in LowLeaf
        BY <2>1, <1>6 DEF LowerLeaf, LowLeaf
    <2> QED BY <2>1, <2>2 DEF LeafValue, SumValue
<1>7. ASSUME NEW off \in Int, n = GlobalAddress(off)
      PROVE  n.op \notin {"add", "or"} /\ LeafValue(n) \in Int /\ LowerLeaf(n) \in LowSum
             /\ SumValue(LowerLeaf(n)) = LeafValue(n) /\ (off = 0 => LowerLeaf(n) \in LowLeaf)
    <2>1. n.op = "global" /\ n.off = off /\ LeafValue(n) = env.label + off
        BY <1>7 DEF GlobalAddress, LeafValue
    <2>2. CASE off = 0
        <3>1. LowerLeaf(n) = Wrapper
            BY <2>1, <2>2 DEF LowerLeaf
        <3> QED BY <3>1, <2>1, <2>2, <1>1 DEF Wrapper, SumValue, LeafValue, LowLeaf, LowSum
    <2>3. CASE off # 0
        <3>1. LowerLeaf(n) = Add(Wrapper, Constant(off))
            BY <2>1, <2>3 DEF LowerLeaf
        <3>2. Wrapper \in LowLeaf /\ Constant(off) \in LowLeaf
            BY DEF LowLeaf
        <3>3. SumValue(Add(Wrapper, Constant(off))) = env.label + off
            BY DEF Add, Wrapper, Constant, SumValue, LeafValue
        <3> QED BY <3>1, <3>2, <3>3, <2>1, <2>3, <1>1 DEF LowSum
    <2> QED BY <2>2, <2>3
<1>8. LowLeaf \subseteq LowSum
    BY DEF LowSum
<1>9. \A off : GlobalAddress(off) \notin Const /\ (GlobalAddress(off) \in Leaf => off = 0)
    BY DEF GlobalAddress, Leaf, Const, Constant, Reg, Other, FrameIndex, Symbol
<1> QED BY <1>2, <1>3, <1>4, <1>5, <1>6, <1>7, <1>8, <1>9, AddressingAssumption
        DEF Leaf, Const, Moved

LEMMA LowLeafFacts ==
    ASSUME EnvOK, NEW n \in LowLeaf
    PROVE  /\ n.op \in {"reg", "other", "frame", "wrapper", "const"}
           /\ LeafValue(n) \in Int /\ SumValue(n) = LeafValue(n)
<1>1. /\ env.entry \in Int /\ env.offset \in Int /\ env.reg \in Nat /\ env.label \in Int
      /\ Align \in Nat /\ env.reg * Align \in Int
    BY AddressingAssumption DEF EnvOK
<1>2. n.op \in {"reg", "other", "frame", "wrapper", "const"} /\ (n.op = "const" => n.value \in Int)
    BY DEF LowLeaf, Reg, Other, FrameIndex, Wrapper, Constant
<1> QED BY <1>1, <1>2 DEF LeafValue, SumValue

LEMMA LowSumFacts ==
    ASSUME EnvOK, NEW n \in LowSum
    PROVE  /\ SumValue(n) \in Int /\ Value(n) = SumValue(n) /\ n.op # "or"
           /\ n \in LowLeaf \/ (n.op = "add" /\ n.x \in LowLeaf /\ n.y \in LowLeaf)
<1>1. CASE n \in LowLeaf
    BY <1>1, LowLeafFacts DEF Value
<1>2. CASE \E x, y \in LowLeaf : n = Add(x, y)
    <2>1. PICK x \in LowLeaf, y \in LowLeaf : n = Add(x, y)
        BY <1>2
    <2>2. n.op = "add" /\ n.x = x /\ n.y = y
        BY <2>1 DEF Add
    <2>3. SumValue(n) = LeafValue(x) + LeafValue(y) /\ Value(n) = SumValue(x) + SumValue(y)
        BY <2>2 DEF SumValue, Value
    <2> QED BY <2>2, <2>3, LowLeafFacts
<1> QED BY <1>1, <1>2 DEF LowSum

---------------------------------------------------------------------------
(* Lowering *)

LEMMA LowerFacts ==
    ASSUME EnvOK, NEW n \in Address
    PROVE  LowerOperation(n) \in Lowered /\ Value(LowerOperation(n)) = Value(n)
<1> DEFINE All == Leaf \cup Const \cup Moved
<1>1. \A x \in All : /\ LowerSum(x) = LowerLeaf(x) /\ LowerLeaf(x) \in LowSum
                     /\ SumValue(LowerLeaf(x)) = LeafValue(x) /\ SumValue(x) = LeafValue(x)
    BY LeafFacts DEF LowerSum, SumValue
<1>2. CASE n \in All
    <2>1. LowerOperation(n) = LowerLeaf(n) /\ Value(n) = LeafValue(n)
        BY <1>2, LeafFacts DEF LowerOperation, Value
    <2>2. LowerLeaf(n) \in LowSum /\ SumValue(LowerLeaf(n)) = LeafValue(n)
        BY <1>2, <1>1
    <2> QED BY <2>1, <2>2, LowSumFacts DEF Lowered
<1>3. ASSUME NEW x \in All, NEW y \in All, n = Add(x, y)
      PROVE  LowerOperation(n) \in Lowered /\ Value(LowerOperation(n)) = Value(n)
    <2>1. n.op = "add" /\ n.x = x /\ n.y = y
        BY <1>3 DEF Add
    <2>2. LowerOperation(n) = Add(LowerLeaf(x), LowerLeaf(y)) /\ Value(n) = LeafValue(x) + LeafValue(y)
        BY <2>1, <1>1 DEF LowerOperation, Value
    <2>3. Value(Add(LowerLeaf(x), LowerLeaf(y))) = SumValue(LowerLeaf(x)) + SumValue(LowerLeaf(y))
        BY DEF Add, Value
    <2> QED BY <2>2, <2>3, <1>1 DEF Lowered
<1>4. ASSUME NEW x \in Leaf, NEW y \in Leaf, NEW c \in Const, n = Add(Add(x, y), c)
      PROVE  LowerOperation(n) \in Lowered /\ Value(LowerOperation(n)) = Value(n)
    <2> DEFINE s == Add(LowerLeaf(x), LowerLeaf(y))
    <2>1. n.op = "add" /\ n.x.op = "add" /\ n.x.x = x /\ n.x.y = y /\ n.y = c
        BY <1>4 DEF Add
    <2>2. LowerSum(n.x) = s /\ LowerSum(n.y) = LowerLeaf(c)
        BY <2>1, <1>1 DEF LowerSum
    <2>3. LowerLeaf(x) \in LowLeaf /\ LowerLeaf(y) \in LowLeaf /\ LowerLeaf(c) \in LowSum
        BY LeafFacts
    <2>4. s \in LowSum
        BY <2>3 DEF LowSum
    <2>5. SumValue(s) = LeafValue(LowerLeaf(x)) + LeafValue(LowerLeaf(y))
        BY DEF Add, SumValue
    <2>6. SumValue(s) = LeafValue(x) + LeafValue(y)
        BY <2>3, <2>5, <1>1, LowLeafFacts
    <2>7. Value(n) = LeafValue(x) + LeafValue(y) + LeafValue(c)
        BY <2>1, <1>1 DEF Value, SumValue
    <2> HIDE DEF s
    <2>8. LowerOperation(n) = Add(s, LowerLeaf(c))
        BY <2>1, <2>2 DEF LowerOperation
    <2>9. Value(Add(s, LowerLeaf(c))) = SumValue(s) + SumValue(LowerLeaf(c))
        BY DEF Add, Value
    <2> QED BY <2>3, <2>4, <2>6, <2>7, <2>8, <2>9, <1>1 DEF Lowered
<1>5. ASSUME NEW x \in Leaf \cup Moved, NEW c \in Bit, n = Or(x, c)
      PROVE  LowerOperation(n) \in Lowered /\ Value(LowerOperation(n)) = Value(n)
    <2>1. n.op = "or" /\ n.x = x /\ n.y = c
        BY <1>5 DEF Or
    <2>2. LowerOperation(n) = Or(LowerLeaf(x), c)
        BY <2>1, <1>1 DEF LowerOperation
    <2>3. Value(n) = WithBit(LeafValue(x) % WordSize, c.value)
        BY <2>1, <1>1 DEF Value
    <2>4. Value(Or(LowerLeaf(x), c)) = WithBit(SumValue(LowerLeaf(x)) % WordSize, c.value)
        BY DEF Or, Value
    <2>5. LowerLeaf(x) \in LowSum
        BY <1>1
    <2>6. Or(LowerLeaf(x), c) \in Lowered
        BY <2>5 DEF Lowered, LowOr
    <2> QED BY <2>2, <2>3, <2>4, <2>6, <1>1
<1>6. \/ n \in All
      \/ \E x, y \in All : n = Add(x, y)
      \/ \E x, y \in Leaf, c \in Const : n = Add(Add(x, y), c)
      \/ \E x \in Leaf \cup Moved, c \in Bit : n = Or(x, c)
    <2>1. Reg \in Leaf
        BY DEF Leaf
    <2> QED BY <2>1 DEF Address
<1> QED BY <1>2, <1>3, <1>4, <1>5, <1>6

---------------------------------------------------------------------------
(* Selection *)

VRegs == {VReg(n) : n \in LowSum \cup LowOr}
SelectedOperands ==
    {Mem(b, r, i) : b \in {TargetFrameIndex, TargetSymbol} \cup VRegs,
                    r \in {NoReg} \cup VRegs, i \in Int}

MemValue(m) == PartValue(m.base) + PartValue(m.dispReg) + m.dispImm

\* A bit below the alignment a value is known to have is clear in it, and
\* setting it adds it.
LEMMA BitIsClear ==
    ASSUME EnvOK, NEW n \in LowSum, NEW b \in {1, 2, 4}, b < KnownAlign(n),
           n.op = "frame" => InPlace
    PROVE  WithBit(SumValue(n) % WordSize, b) % WordSize = (SumValue(n) + b) % WordSize
<1> DEFINE v == SumValue(n)
           u == v % WordSize
           d == v \div WordSize
<1>1. /\ Align \in Nat \ {0} /\ WordSize \in Nat \ {0} /\ b \in Nat \ {0}
      /\ env.entry + env.offset \in Int /\ env.reg \in Nat
    BY AddressingAssumption DEF EnvOK
<1>2. n.op \in {"frame", "other"} /\ b < Align
    BY <1>1 DEF KnownAlign
<1>3. v = LeafValue(n) /\ v \in Int
    BY <1>2, LowSumFacts, LowLeafFacts
<1>4. \E q \in Int : v = Align * q
    <2>1. CASE n.op = "frame"
        <3> DEFINE at == env.entry + env.offset
        <3>1. v = at /\ at % Align = 0 /\ at \in Int
            BY <2>1, <1>1, <1>3 DEF LeafValue, InPlace
        <3> HIDE DEF at, v
        <3>2. \E q \in Int : at = Align * q
            <4>1. Align \in Nat \ {0}
                BY <1>1
            <4> QED BY <4>1, <3>1, ZeroRemainder
        <3> QED BY <3>1, <3>2
    <2>2. CASE n.op = "other"
        <3>1. v = env.reg * Align
            BY <2>2, <1>3 DEF LeafValue
        <3>2. env.reg * Align = Align * env.reg /\ env.reg \in Int
            BY <1>1
        <3> HIDE DEF v
        <3>3. v = Align * env.reg
            BY <3>1, <3>2
        <3> QED BY <3>2, <3>3
    <2> QED BY <2>1, <2>2, <1>2
<1> HIDE DEF v
<1>5. PICK q \in Int : v = Align * q
    BY <1>4
<1>6. PICK m \in Int : Align = (2 * b) * m
    <2> DEFINE bb == 2 * b
    <2>1. bb \in Nat \ {0} /\ Align % bb = 0 /\ Align \in Int
        BY <1>1, <1>2, PowerAssumption
    <2> HIDE DEF bb
    <2>2. \E m \in Int : Align = bb * m
        BY <2>1, ZeroRemainder
    <2> QED BY <2>2 DEF bb
<1>7. PICK p \in Int : WordSize = Align * p
    <2>1. WordSize \in Int /\ Align \in Nat \ {0} /\ WordSize % Align = 0
        BY <1>1, PowerAssumption
    <2> QED BY <2>1, ZeroRemainder
<1>8. d \in Int /\ u \in 0 .. WordSize - 1 /\ v = WordSize * d + u
    <2>1. WordSize \in Nat \ {0} /\ v \in Int
        BY <1>1, <1>3
    <2> QED BY <2>1, Division
<1> HIDE DEF d, u
<1>9. \E t \in Int : u = (2 * b) * t
    <2>1. u = Align * q - (Align * p) * d
        BY <1>3, <1>5, <1>7, <1>8
    <2>2. u = Align * (q - p * d) /\ q - p * d \in Int
        BY <2>1, <1>1, <1>8
    <2>3. PICK k \in Int : u = Align * k
        BY <2>2
    <2>4. u = (2 * b) * (m * k) /\ m * k \in Int
        BY <2>3, <1>6
    <2> QED BY <2>4
<1>10. (u \div b) % 2 = 0
    <2>1. PICK t \in Int : u = (2 * b) * t
        BY <1>9
    <2>2. u \in Int
        BY <1>1, <1>8
    <2>3. CASE b = 1
        BY <2>1, <2>2, <2>3
    <2>4. CASE b = 2
        BY <2>1, <2>2, <2>4
    <2>5. CASE b = 4
        BY <2>1, <2>2, <2>5
    <2> QED BY <2>3, <2>4, <2>5
<1>11. WithBit(u, b) = u + b
    BY <1>10 DEF WithBit
<1>12. u % WordSize = v % WordSize /\ u \in Int /\ b \in Int
    BY <1>1, <1>3, <1>8, RemainderTwice DEF u
<1>13. (u + b) % WordSize = (v + b) % WordSize
    <2>1. WordSize \in Nat \ {0} /\ v \in Int
        BY <1>1, <1>3
    <2> QED BY <2>1, <1>12, RemainderOfSum, ZenonT(60)
<1> QED BY <1>11, <1>13 DEF u, v

LEMMA VRegFacts ==
    ASSUME EnvOK, NEW n \in LowSum \cup LowOr
    PROVE  PartValue(VReg(n)) = Value(n) /\ Value(n) \in Int
<1>1. PartValue(VReg(n)) = RegValue(n)
    BY DEF PartValue, VReg
<1>2. \A x \in LowLeaf : CodeValue(x) = LeafValue(x)
    BY LowLeafFacts DEF CodeValue
<1>3. \A x \in LowSum : CodeSum(x) = SumValue(x)
    <2> SUFFICES ASSUME NEW x \in LowSum PROVE CodeSum(x) = SumValue(x)
        OBVIOUS
    <2>1. CASE x \in LowLeaf
        BY <2>1, <1>2, LowLeafFacts DEF CodeSum
    <2>2. CASE x.op = "add" /\ x.x \in LowLeaf /\ x.y \in LowLeaf
        BY <2>2, <1>2 DEF CodeSum, SumValue
    <2> QED BY <2>1, <2>2, LowSumFacts
<1>4. CASE n \in LowSum
    BY <1>1, <1>3, <1>4, LowSumFacts DEF RegValue
<1>5. CASE n \in LowOr
    <2>1. PICK x \in LowSum, y \in Bit : n = Or(x, y)
        BY <1>5 DEF LowOr
    <2>2. n.op = "or" /\ n.x = x /\ n.y = y
        BY <2>1 DEF Or
    <2>3. y.value \in {1, 2, 4}
        BY DEF Bit, Constant
    <2>4. Value(n) = WithBit(SumValue(x) % WordSize, y.value) /\ RegValue(n) = Value(n)
        BY <2>2, <1>3 DEF Value, RegValue
    <2>5. SumValue(x) % WordSize \in Int
        BY LowSumFacts, AddressingAssumption
    <2>6. Value(n) \in Int
        BY <2>3, <2>4, <2>5 DEF WithBit
    <2> QED BY <1>1, <2>4, <2>6
<1> QED BY <1>4, <1>5

LEMMA TargetFacts ==
    ASSUME EnvOK, NEW n \in LowSum \cup LowOr
    PROVE  /\ Target(n) \in {TargetFrameIndex, TargetSymbol} \cup VRegs
           /\ PartValue(Target(n)) = Value(n)
<1>1. CASE n.op = "frame"
    <2>1. n \in LowSum
        BY <1>1 DEF LowOr, Or
    <2>2. Value(n) = env.entry + env.offset
        BY <1>1, <2>1, LowSumFacts DEF Value, LeafValue
    <2> QED BY <1>1, <2>2 DEF Target, TargetFrameIndex, PartValue
<1>2. CASE n.op = "wrapper"
    <2>1. Value(n) = env.label
        BY <1>2 DEF Value, LeafValue
    <2> QED BY <1>2, <2>1 DEF Target, TargetSymbol, PartValue
<1>3. CASE n.op \notin {"frame", "wrapper"}
    <2>1. Target(n) = VReg(n)
        BY <1>3 DEF Target
    <2> QED BY <2>1, VRegFacts DEF VRegs
<1> QED BY <1>1, <1>2, <1>3

LEMMA MemFacts ==
    ASSUME NEW b, NEW d, NEW i
    PROVE  MemValue(Mem(b, d, i)) = PartValue(b) + PartValue(d) + i
BY DEF MemValue, Mem

LEMMA SelectSumFacts ==
    ASSUME EnvOK, NEW n, n.x \in LowSum, n.y \in LowSum, NEW imm \in Int
    PROVE  /\ SelectSum(n, imm) \in SelectedOperands
           /\ MemValue(SelectSum(n, imm)) = SumValue(n.x) + SumValue(n.y) + imm
<1>1. /\ VReg(n.x) \in VRegs /\ PartValue(VReg(n.x)) = SumValue(n.x) /\ SumValue(n.x) \in Int
      /\ VReg(n.y) \in VRegs /\ PartValue(VReg(n.y)) = SumValue(n.y) /\ SumValue(n.y) \in Int
    BY VRegFacts, LowSumFacts DEF VRegs
<1>2. PartValue(TargetSymbol) = env.label
    BY DEF PartValue, TargetSymbol
<1>3. /\ Mem(TargetSymbol, VReg(n.y), imm) \in SelectedOperands
      /\ Mem(TargetSymbol, VReg(n.x), imm) \in SelectedOperands
      /\ Mem(VReg(n.x), VReg(n.y), imm) \in SelectedOperands
    BY <1>1 DEF SelectedOperands
<1>4. CASE n.x.op = "wrapper"
    <2>1. SumValue(n.x) = env.label
        BY <1>4 DEF SumValue, LeafValue
    <2>2. SelectSum(n, imm) = Mem(TargetSymbol, VReg(n.y), imm)
        BY <1>4 DEF SelectSum
    <2> QED BY <2>1, <2>2, <1>1, <1>2, <1>3, MemFacts
<1>5. CASE n.x.op # "wrapper" /\ n.y.op = "wrapper"
    <2>1. SumValue(n.y) = env.label
        BY <1>5 DEF SumValue, LeafValue
    <2>2. SelectSum(n, imm) = Mem(TargetSymbol, VReg(n.x), imm)
        BY <1>5 DEF SelectSum
    <2>3. MemValue(SelectSum(n, imm)) = SumValue(n.y) + SumValue(n.x) + imm
        BY <2>1, <2>2, <1>1, <1>2, MemFacts
    <2>4. SumValue(n.y) + SumValue(n.x) + imm = SumValue(n.x) + SumValue(n.y) + imm
        BY <1>1
    <2> QED BY <2>2, <2>3, <2>4, <1>3
<1>6. CASE n.x.op # "wrapper" /\ n.y.op # "wrapper"
    <2>1. SelectSum(n, imm) = Mem(VReg(n.x), VReg(n.y), imm)
        BY <1>6 DEF SelectSum
    <2> QED BY <2>1, <1>1, <1>3, MemFacts
<1> QED BY <1>4, <1>5, <1>6

\* A node as the base, with a constant or nothing beside it.
LEMMA BaseFacts ==
    ASSUME EnvOK, NEW n \in LowSum \cup LowOr, NEW imm \in Int
    PROVE  /\ Mem(Target(n), NoReg, imm) \in SelectedOperands
           /\ MemValue(Mem(Target(n), NoReg, imm)) = Value(n) + imm
<1>1. PartValue(NoReg) = 0
    BY DEF PartValue, NoReg
<1>2. MemValue(Mem(Target(n), NoReg, imm)) = Value(n) + 0 + imm
    BY <1>1, TargetFacts, MemFacts
<1>3. Mem(Target(n), NoReg, imm) \in SelectedOperands
    BY TargetFacts DEF SelectedOperands
<1> QED BY <1>2, <1>3, VRegFacts

LEMMA SelectFacts ==
    ASSUME EnvOK, NEW n \in Lowered
    PROVE  /\ SelectAddr(n) \in SelectedOperands
           /\ (SetsBitOfFrame(n) => InPlace) =>
                  MemValue(SelectAddr(n)) % WordSize = Value(n) % WordSize
<1>1. CASE n \in LowLeaf
    <2>1. SelectAddr(n) = Mem(Target(n), NoReg, 0)
        BY <1>1, LowLeafFacts DEF SelectAddr, isBaseWithConstantOffset
    <2>2. n \in LowSum /\ Value(n) \in Int
        BY <1>1, VRegFacts DEF LowSum
    <2> QED BY <2>1, <2>2, BaseFacts
<1>2. ASSUME NEW x \in LowSum, NEW y \in LowSum, n = Add(x, y)
      PROVE  SelectAddr(n) \in SelectedOperands /\ MemValue(SelectAddr(n)) = Value(n)
    <2>1. n.op = "add" /\ n.x = x /\ n.y = y
        BY <1>2 DEF Add
    <2>2. Value(n) = SumValue(x) + SumValue(y) /\ SumValue(x) \in Int /\ SumValue(y) \in Int
        BY <2>1, LowSumFacts DEF Value
    <2>3. CASE y.op = "const"
        <3>1. SumValue(y) = y.value
            BY <2>3 DEF SumValue, LeafValue
        <3>2. isBaseWithConstantOffset(n)
            BY <2>1, <2>3 DEF isBaseWithConstantOffset
        <3>3. CASE HasWrapper(x)
            <4>1. x.op = "add" /\ x.x \in LowSum /\ x.y \in LowSum
                  /\ SumValue(x) = SumValue(x.x) + SumValue(x.y)
                <5>1. x.op = "add"
                    BY <3>3 DEF HasWrapper
                <5>2. x.x \in LowLeaf /\ x.y \in LowLeaf
                    BY <5>1, LowSumFacts, LowLeafFacts
                <5> QED BY <5>1, <5>2, LowLeafFacts DEF LowSum, SumValue
            <4>2. SelectAddr(n) = SelectSum(x, y.value)
                BY <2>1, <3>2, <3>3 DEF SelectAddr
            <4> QED BY <4>1, <4>2, <3>1, <2>2, SelectSumFacts
        <3>4. CASE ~HasWrapper(x)
            <4>1. SelectAddr(n) = Mem(Target(x), NoReg, y.value)
                BY <2>1, <3>2, <3>4 DEF SelectAddr
            <4> QED BY <4>1, <3>1, <2>2, BaseFacts, LowSumFacts
        <3> QED BY <3>3, <3>4
    <2>4. CASE y.op # "const"
        <3>1. SelectAddr(n) = SelectSum(n, 0)
            BY <2>1, <2>4 DEF SelectAddr, isBaseWithConstantOffset
        <3>2. MemValue(SelectSum(n, 0)) = SumValue(x) + SumValue(y) + 0 /\ SelectSum(n, 0) \in SelectedOperands
            BY <2>1, SelectSumFacts
        <3> QED BY <3>1, <3>2, <2>2
    <2> QED BY <2>3, <2>4
<1>3. ASSUME NEW x \in LowSum, NEW c \in Bit, n = Or(x, c)
      PROVE  /\ SelectAddr(n) \in SelectedOperands
             /\ (SetsBitOfFrame(n) => InPlace) =>
                    MemValue(SelectAddr(n)) % WordSize = Value(n) % WordSize
    <2>1. n.op = "or" /\ n.x = x /\ n.y = c /\ c.value \in {1, 2, 4} /\ n \in LowOr
        BY <1>3 DEF Or, Bit, Constant, LowOr
    <2>2. Value(n) = WithBit(SumValue(x) % WordSize, c.value) /\ Value(n) \in Int
        BY <2>1, VRegFacts DEF Value
    <2>3. CASE c.value < KnownAlign(x)
        <3>1. ~HasWrapper(x)
            BY <2>1, <2>3 DEF KnownAlign, HasWrapper
        <3>2. SelectAddr(n) = Mem(Target(x), NoReg, c.value)
            BY <2>1, <2>3, <3>1 DEF SelectAddr, isBaseWithConstantOffset
        <3>3. c.value \in Int
            BY <2>1
        <3>4. SelectAddr(n) \in SelectedOperands /\ MemValue(SelectAddr(n)) = SumValue(x) + c.value
            BY <3>2, <3>3, BaseFacts, LowSumFacts
        <3>5. ASSUME SetsBitOfFrame(n) => InPlace
              PROVE  WithBit(SumValue(x) % WordSize, c.value) % WordSize = (SumValue(x) + c.value) % WordSize
            <4>1. x.op = "frame" => InPlace
                BY <2>1, <3>5 DEF SetsBitOfFrame
            <4> QED BY <4>1, <2>1, <2>3, BitIsClear
        <3> QED BY <3>4, <3>5, <2>2
    <2>4. CASE ~(c.value < KnownAlign(x))
        <3>1. SelectAddr(n) = Mem(Target(n), NoReg, 0)
            BY <2>1, <2>4 DEF SelectAddr, isBaseWithConstantOffset
        <3> QED BY <3>1, <2>1, <2>2, BaseFacts
    <2> QED BY <2>3, <2>4
<1>4. \/ n \in LowLeaf
      \/ \E x, y \in LowSum : n = Add(x, y)
      \/ \E x \in LowSum, c \in Bit : n = Or(x, c)
    BY DEF Lowered, LowSum, LowOr
<1> QED BY <1>1, <1>2, <1>3, <1>4

---------------------------------------------------------------------------
(* Elimination of frame indices *)

\* ATAframe computes the address of the object.
LEMMA EliminateInFacts ==
    ASSUME EnvOK, NEW n \in LowLeaf
    PROVE  /\ CodeValue(EliminateIn(n)) = LeafValue(n)
           /\ EliminateIn(n).op \notin {"add", "or"}
           /\ EliminateIn(n) # FrameIndex
<1>1. CASE n = FrameIndex
    <2>1. /\ env.entry \in Int /\ env.offset \in Int /\ env.stackSize \in Int /\ env.adjust \in Int
        BY DEF EnvOK
    <2>2. LeafValue(n) = f5 + FrameOffset /\ f5 \in Int /\ FrameOffset \in Int
        BY <1>1, <2>1 DEF FrameIndex, LeafValue, f5, FrameOffset
    <2>3. EliminateIn(n) = ATAframe /\ ATAframe.op = "code" /\ FrameIndex.op = "frame"
        BY <1>1 DEF EliminateIn, ATAframe, FrameIndex
    <2>4. CodeValue(ATAframe) = f5 + FrameOffset
        <3>1. CASE FrameOffset = 0
            <4>1. Len(ATAframe.code) = 1
                BY <3>1 DEF ATAframe
            <4> QED BY <4>1, <3>1, <2>2, <2>3 DEF CodeValue
        <3>2. CASE FrameOffset # 0
            <4>1. ATAframe.code = <<F5>> \o <<Constant(FrameOffset)>>
                BY <3>2 DEF ATAframe
            <4>2. Len(ATAframe.code) = 2 /\ ATAframe.code[2] = Constant(FrameOffset)
                BY <4>1
            <4>3. Constant(FrameOffset).value = FrameOffset
                BY DEF Constant
            <4> QED BY <4>2, <4>3, <2>3 DEF CodeValue
        <3> QED BY <3>1, <3>2
    <2> QED BY <2>2, <2>3, <2>4
<1>2. CASE n # FrameIndex
    <2>1. EliminateIn(n) = n
        BY <1>2 DEF EliminateIn
    <2> QED BY <2>1, <1>2, LowLeafFacts DEF CodeValue
<1> QED BY <1>1, <1>2

LEMMA EliminatedFacts ==
    ASSUME EnvOK, NEW r \in VRegs
    PROVE  /\ Eliminated(r).op = "vreg" /\ Eliminated(r) # VReg(FrameIndex)
           /\ PartValue(Eliminated(r)) = PartValue(r) /\ PartValue(r) \in Int
<1>1. PICK n \in LowSum \cup LowOr : r = VReg(n)
    BY DEF VRegs
<1>2. r.op = "vreg" /\ r.of = n /\ PartValue(r) = Value(n) /\ Value(n) \in Int
    BY <1>1, VRegFacts DEF VReg
<1>3. \A m : VReg(m).op = "vreg" /\ VReg(m).of = m /\ PartValue(VReg(m)) = RegValue(m)
    BY DEF VReg, PartValue
<1>4. FrameIndex.op = "frame"
    BY DEF FrameIndex
<1>5. CASE n \in LowLeaf
    <2>1. Eliminated(r) = VReg(EliminateIn(n))
        BY <1>2, <1>5, LowLeafFacts DEF Eliminated
    <2>2. RegValue(EliminateIn(n)) = LeafValue(n)
        BY <1>5, EliminateInFacts DEF RegValue, CodeSum
    <2>3. Value(n) = LeafValue(n)
        BY <1>5, LowLeafFacts DEF Value
    <2>4. EliminateIn(n) # FrameIndex
        BY <1>5, EliminateInFacts
    <2> QED BY <2>1, <2>2, <2>3, <2>4, <1>2, <1>3
<1>6. CASE n.op = "add" /\ n.x \in LowLeaf /\ n.y \in LowLeaf
    <2> DEFINE m == Add(EliminateIn(n.x), EliminateIn(n.y))
    <2>1. Eliminated(r) = VReg(m)
        BY <1>2, <1>6 DEF Eliminated
    <2>2. m.op = "add" /\ m.x = EliminateIn(n.x) /\ m.y = EliminateIn(n.y)
        BY DEF Add
    <2> HIDE DEF m
    <2>3. RegValue(m) = LeafValue(n.x) + LeafValue(n.y)
        BY <2>2, <1>6, EliminateInFacts DEF RegValue, CodeSum
    <2>4. Value(n) = LeafValue(n.x) + LeafValue(n.y)
        BY <1>6, LowLeafFacts DEF Value
    <2>5. m # FrameIndex
        BY <2>2, <1>4
    <2> QED BY <2>1, <2>3, <2>4, <2>5, <1>2, <1>3
<1>7. CASE n \in LowOr
    <2>1. PICK x \in LowSum, y \in Bit : n = Or(x, y)
        BY <1>7 DEF LowOr
    <2>2. n.op = "or" /\ n.x = x /\ n.y = y
        BY <2>1 DEF Or
    <2> DEFINE m == Or(EliminateIn(x), y)
    <2>3. Eliminated(r) = VReg(m)
        BY <1>2, <2>2 DEF Eliminated
    <2>4. m.op = "or" /\ m.x = EliminateIn(x) /\ m.y = y
        BY DEF Or
    <2> HIDE DEF m
    <2>5. CodeSum(EliminateIn(x)) = SumValue(x)
        <3>1. CASE x \in LowLeaf
            BY <3>1, EliminateInFacts, LowLeafFacts DEF CodeSum
        <3>2. CASE x.op = "add" /\ x.x \in LowLeaf /\ x.y \in LowLeaf
            <4>1. EliminateIn(x) = x
                BY <3>2, <1>4 DEF EliminateIn
            <4> QED BY <4>1, <3>2, LowLeafFacts DEF CodeSum, CodeValue, SumValue
        <3> QED BY <3>1, <3>2, LowSumFacts
    <2>6. RegValue(m) = Value(n)
        BY <2>2, <2>4, <2>5 DEF RegValue, Value
    <2>7. m # FrameIndex
        BY <2>4, <1>4
    <2> QED BY <2>3, <2>6, <2>7, <1>2, <1>3
<1> QED BY <1>5, <1>6, <1>7, LowSumFacts

\* What is left: f5, a label or a register as the base, a register or none, and a number.
NoFrameIndex(m) ==
    /\ m.base.op \in {"f5", "target", "vreg"} /\ m.dispReg.op \in {"none", "vreg"}
    /\ VReg(FrameIndex) \notin {m.base, m.dispReg}
    /\ PartValue(m.base) \in Int /\ PartValue(m.dispReg) \in Int /\ m.dispImm \in Int

LEMMA EliminateFacts ==
    ASSUME EnvOK, NEW m \in SelectedOperands, NEW e \in eliminateFrameIndex(m)
    PROVE  NoFrameIndex(e) /\ MemValue(e) % WordSize = MemValue(m) % WordSize
<1>1. PICK b \in {TargetFrameIndex, TargetSymbol} \cup VRegs, r \in {NoReg} \cup VRegs, i \in Int :
          m = Mem(b, r, i)
    BY DEF SelectedOperands
<1>2. m.base = b /\ m.dispReg = r /\ m.dispImm = i
    BY <1>1 DEF Mem
<1>3. /\ env.entry \in Int /\ env.offset \in Int /\ env.stackSize \in Int /\ env.adjust \in Int
      /\ env.label \in Int
    BY DEF EnvOK
<1>4. \A n : VReg(n).op = "vreg"
    BY DEF VReg
<1>5. /\ Eliminated(r).op \in {"none", "vreg"} /\ Eliminated(r) # VReg(FrameIndex)
      /\ PartValue(Eliminated(r)) = PartValue(r) /\ PartValue(r) \in Int
    <2>1. CASE r = NoReg
        <3>1. r.op = "none" /\ PartValue(r) = 0
            BY <2>1 DEF NoReg, PartValue
        <3>2. Eliminated(r) = r
            BY <3>1 DEF Eliminated
        <3> QED BY <3>1, <3>2, <1>4
    <2>2. CASE r \in VRegs
        BY <2>2, EliminatedFacts
    <2> QED BY <2>1, <2>2
<1>6. CASE b = TargetFrameIndex
    <2> DEFINE v == FrameOffset + i
    <2>1. PICK w \in Sums(v) : e = Mem(F5, Eliminated(r), w)
        BY <1>2, <1>6 DEF eliminateFrameIndex
    <2>2. e.base = F5 /\ e.dispReg = Eliminated(r) /\ e.dispImm = w
        BY <2>1 DEF Mem
    <2>3. F5.op = "f5" /\ PartValue(F5) = f5
        BY DEF F5, PartValue
    <2>4. f5 \in Int /\ FrameOffset \in Int /\ f5 + FrameOffset = env.entry + env.offset
        BY <1>3 DEF f5, FrameOffset
    <2>5. b.op = "targetframe" /\ PartValue(b) = env.entry + env.offset
        BY <1>6 DEF TargetFrameIndex, PartValue
    <2>6. v \in Int
        BY <2>4
    <2>7. MemValue(m) = v + (f5 + PartValue(r))
        BY <1>2, <1>5, <2>4, <2>5 DEF MemValue
    <2> HIDE DEF v
    <2>8. w \in Int /\ w % WordSize = v % WordSize
        BY <2>6, SignedKeepsRemainder DEF Sums
    <2>9. MemValue(e) = w + (f5 + PartValue(r))
        BY <1>5, <2>2, <2>3, <2>4, <2>8 DEF MemValue
    <2> DEFINE c == f5 + PartValue(r)
    <2>10. c \in Int
        BY <1>5, <2>4
    <2> HIDE DEF c
    <2>11. (w + c) % WordSize = (v + c) % WordSize
        BY <2>6, <2>8, <2>10, AddressingAssumption, RemainderOfSum
    <2>12. MemValue(e) % WordSize = MemValue(m) % WordSize
        BY <2>7, <2>9, <2>11 DEF c
    <2>13. NoFrameIndex(e)
        BY <1>4, <1>5, <2>2, <2>3, <2>4, <2>8 DEF NoFrameIndex
    <2> QED BY <2>12, <2>13
<1>7. CASE b # TargetFrameIndex
    <2>1. e = Mem(Eliminated(b), Eliminated(r), i)
        BY <1>2, <1>7 DEF eliminateFrameIndex
    <2>2. e.base = Eliminated(b) /\ e.dispReg = Eliminated(r) /\ e.dispImm = i
        BY <2>1 DEF Mem
    <2>3. /\ Eliminated(b).op \in {"target", "vreg"} /\ Eliminated(b) # VReg(FrameIndex)
          /\ PartValue(Eliminated(b)) = PartValue(b) /\ PartValue(b) \in Int
        <3>1. CASE b = TargetSymbol
            <4>1. b.op = "target" /\ PartValue(b) = env.label
                BY <3>1 DEF TargetSymbol, PartValue
            <4>2. Eliminated(b) = b
                BY <4>1 DEF Eliminated
            <4> QED BY <4>1, <4>2, <1>3, <1>4
        <3>2. CASE b \in VRegs
            BY <3>2, EliminatedFacts
        <3> QED BY <3>1, <3>2, <1>7
    <2>4. MemValue(e) = MemValue(m)
        BY <1>2, <1>5, <2>2, <2>3 DEF MemValue
    <2> QED BY <2>2, <2>3, <2>4, <1>5 DEF NoFrameIndex
<1> QED BY <1>6, <1>7

---------------------------------------------------------------------------
(* Printing *)

LEMMA PrintFacts ==
    ASSUME EnvOK, NEW m, NoFrameIndex(m)
    PROVE  /\ printMem(m).base = m.base /\ printMem(m).dispReg = m.dispReg
           /\ \/ printMem(m).dispImm = NoReg
              \/ printMem(m).dispImm \in {Constant(v) : v \in 0 .. WordSize - 1}
           /\ PartValue(printMem(m).dispImm) \in Int
           /\ PartValue(printMem(m).dispImm) % WordSize = m.dispImm % WordSize
<1> DEFINE imm == IF m.dispImm = 0 THEN NoReg ELSE printOperand(Constant(m.dispImm))
<1>1. m.base.op # "const" /\ m.dispReg.op # "const" /\ m.dispImm \in Int
    BY DEF NoFrameIndex
<1>2. printOperand(m.base) = m.base /\ printOperand(m.dispReg) = m.dispReg
    BY <1>1 DEF printOperand
<1>3. printMem(m).base = m.base /\ printMem(m).dispReg = m.dispReg /\ printMem(m).dispImm = imm
    BY <1>2 DEF printMem, Mem
<1>4. CASE m.dispImm = 0
    <2>1. imm = NoReg /\ PartValue(NoReg) = 0
        BY <1>4 DEF NoReg, PartValue
    <2> QED BY <1>3, <1>4, <2>1
<1>5. CASE m.dispImm # 0
    <2> DEFINE v == m.dispImm % WordSize
    <2>1. imm = Constant(v)
        BY <1>5 DEF printOperand, Constant
    <2>2. v \in 0 .. WordSize - 1 /\ v % WordSize = m.dispImm % WordSize
        <3>1. WordSize \in Nat \ {0}
            BY AddressingAssumption
        <3> QED BY <3>1, <1>1, RemainderTwice
    <2> HIDE DEF v
    <2>3. PartValue(Constant(v)) = v
        BY DEF PartValue, Constant
    <2>4. v \in Int
        BY <2>2, AddressingAssumption
    <2> QED BY <1>3, <2>1, <2>2, <2>3, <2>4
<1> QED BY <1>4, <1>5

---------------------------------------------------------------------------
(* The invariant *)

\* An OR with a bit of a frame object is folded only where the bit is clear.
BitTrusted == SetsBitOfFrame(expr) => InPlace

\* The operand has the shape of its stage and the value of the expression.
ShapeAndValue ==
    LET same(v) == BitTrusted => v % WordSize = Value(expr) % WordSize
    IN  /\ stage \in {"dag", "lowered", "selected", "eliminated", "printed"}
        /\ stage = "dag" => operand = expr
        /\ stage = "lowered" => /\ operand \in Lowered /\ Value(operand) = Value(expr)
                                /\ SetsBitOfFrame(operand) => SetsBitOfFrame(expr)
        /\ stage = "selected" => operand \in SelectedOperands /\ same(MemValue(operand))
        /\ stage = "eliminated" => NoFrameIndex(operand) /\ same(MemValue(operand))
        /\ stage = "printed" =>
              /\ VReg(FrameIndex) \notin {operand.base, operand.dispReg}
              /\ \/ operand.dispImm = NoReg
                 \/ operand.dispImm \in {Constant(v) : v \in 0 .. WordSize - 1}
              /\ same(PartValue(operand.base) + PartValue(operand.dispReg) + PartValue(operand.dispImm))

IInv == EnvOK /\ expr \in Address /\ ShapeAndValue

LEMMA InitIInv == Init => IInv
<1> SUFFICES ASSUME Init PROVE IInv
    OBVIOUS
<1>1. EnvOK
    BY AddressingAssumption DEF Init, EnvOK
<1>2. ShapeAndValue
    BY DEF Init, ShapeAndValue
<1> QED BY <1>1, <1>2 DEF Init, IInv

\* env does not change, so neither does what an operand amounts to.
LEMMA ValuesStay ==
    ASSUME env' = env
    PROVE  /\ EnvOK' <=> EnvOK
           /\ \A n : Value(n)' = Value(n)
           /\ \A n : PartValue(n)' = PartValue(n)
           /\ InPlace' <=> InPlace
<1>1. EnvOK' <=> EnvOK
    BY DEF EnvOK
<1>2. \A n : LeafValue(n)' = LeafValue(n)
    BY DEF LeafValue
<1>3. \A n : SumValue(n)' = SumValue(n)
    BY <1>2 DEF SumValue
<1>4. \A n : Value(n)' = Value(n)
    BY <1>2, <1>3 DEF Value
<1>5. f5' = f5
    BY DEF f5
<1>6. \A n : CodeValue(n)' = CodeValue(n)
    BY <1>2, <1>5 DEF CodeValue
<1>7. \A n : CodeSum(n)' = CodeSum(n)
    BY <1>6 DEF CodeSum
<1>8. \A n : RegValue(n)' = RegValue(n)
    BY <1>7 DEF RegValue
<1>9. \A n : PartValue(n)' = PartValue(n)
    BY <1>5, <1>8 DEF PartValue
<1>10. InPlace' <=> InPlace
    BY DEF InPlace
<1> QED BY <1>1, <1>4, <1>9, <1>10

\* Lowering makes no frame index.
LEMMA LoweredBit ==
    ASSUME NEW n \in Address, SetsBitOfFrame(LowerOperation(n))
    PROVE  SetsBitOfFrame(n)
<1>1. n.op \in {"add", "or"} \/ LowerOperation(n) = LowerLeaf(n)
    BY DEF LowerOperation
<1>2. \A m : LowerLeaf(m).op = "frame" => m.op = "frame"
    BY DEF LowerLeaf, Add, Wrapper
<1>3. CASE n.op = "add"
    BY <1>3 DEF LowerOperation, SetsBitOfFrame, Add
<1>4. CASE n.op = "or"
    <2>1. LowerOperation(n).x = LowerSum(n.x)
        BY <1>4 DEF LowerOperation, Or
    <2>2. LowerSum(n.x).op = "frame"
        BY <2>1 DEF SetsBitOfFrame
    <2>3. n.x.op = "frame"
        BY <2>2, <1>2 DEF LowerSum, Add
    <2> QED BY <1>4, <2>3 DEF SetsBitOfFrame
<1>5. CASE n.op \notin {"add", "or"}
    <2>1. LowerLeaf(n).op = "or"
        BY <1>1, <1>5 DEF SetsBitOfFrame
    <2> QED BY <2>1, <1>5 DEF LowerLeaf, Add, Wrapper
<1> QED BY <1>3, <1>4, <1>5

\* An object that asks for no more alignment than f5 has is in place.
LEMMA SmallInPlace ==
    ASSUME EnvOK, Align <= StackAlign
    PROVE  InPlace
<1>1. /\ Align \in Nat \ {0} /\ StackAlign \in Nat \ {0} /\ StackAlign % Align = 0
      /\ env.entry \in Int /\ env.offset \in Int
      /\ env.entry % StackAlign = 0 /\ env.offset % Align = 0
    BY AddressingAssumption, PowerAssumption DEF EnvOK, StackAlign
<1>2. PICK p \in Int : StackAlign = Align * p
    <2>1. StackAlign \in Int /\ StackAlign % Align = 0 /\ Align \in Nat \ {0}
        BY <1>1
    <2> QED BY <2>1, ZeroRemainder
<1>3. PICK q \in Int : env.entry = StackAlign * q
    BY <1>1, ZeroRemainder
<1>4. PICK t \in Int : env.offset = Align * t
    BY <1>1, ZeroRemainder
<1>5. env.entry + env.offset = Align * (p * q + t) /\ p * q + t \in Int
    BY <1>1, <1>2, <1>3, <1>4
<1>6. (Align * (p * q + t)) % Align = 0
    <2> DEFINE z == p * q + t
    <2>1. z \in Int /\ Align * z \in Int
        BY <1>1, <1>5
    <2> HIDE DEF z
    <2>2. (Align * z) % Align = 0
        BY <2>1, <1>1, ZeroRemainder
    <2> QED BY <2>2 DEF z
<1> QED BY <1>5, <1>6 DEF InPlace

LEMMA StepIInv ==
    ASSUME IInv, Lower \/ Select \/ Eliminate \/ EmitOperand
    PROVE  IInv'
<1>1. env' = env /\ expr' = expr
    BY DEF Lower, Select, Eliminate, EmitOperand, Advance
<1>2. EnvOK /\ EnvOK' /\ Value(expr)' = Value(expr) /\ expr' \in Address
    BY <1>1, ValuesStay DEF IInv
<1>7. BitTrusted' <=> BitTrusted
    BY <1>1, ValuesStay DEF BitTrusted, SetsBitOfFrame
<1>3. CASE Lower
    <2>1. stage' = "lowered" /\ operand' = LowerOperation(expr)
        BY <1>3 DEF Lower, Advance, IInv, ShapeAndValue
    <2>2. operand' \in Lowered /\ Value(operand') = Value(expr)
        BY <2>1, <1>2, LowerFacts DEF IInv
    <2>3. Value(operand)' = Value(expr)
        BY <1>1, <2>2, ValuesStay
    <2>4. SetsBitOfFrame(operand)' => SetsBitOfFrame(expr)'
        BY <1>1, <2>1, LoweredBit DEF IInv, SetsBitOfFrame
    <2> QED BY <2>1, <2>2, <2>3, <2>4, <1>2, <1>7 DEF IInv, ShapeAndValue
<1>4. CASE Select
    <2>1. /\ stage' = "selected" /\ operand' = SelectAddr(operand)
          /\ operand \in Lowered /\ Value(operand) = Value(expr)
          /\ SetsBitOfFrame(operand) => SetsBitOfFrame(expr)
        BY <1>4 DEF Select, Advance, IInv, ShapeAndValue
    <2>2. operand' \in SelectedOperands
        BY <2>1, <1>2, SelectFacts
    <2>3. MemValue(operand)' = MemValue(operand')
        BY <1>1, ValuesStay DEF MemValue
    <2>4. ASSUME BitTrusted PROVE MemValue(operand') % WordSize = Value(expr) % WordSize
        <3>1. SetsBitOfFrame(operand) => InPlace
            BY <2>1, <2>4, Zenon DEF BitTrusted
        <3> QED BY <2>1, <3>1, <1>2, SelectFacts
    <2> QED BY <2>1, <2>2, <2>3, <2>4, <1>2, <1>7 DEF IInv, ShapeAndValue
<1>5. CASE Eliminate
    <2>1. /\ stage' = "eliminated" /\ operand' \in eliminateFrameIndex(operand)
          /\ operand \in SelectedOperands
          /\ BitTrusted => MemValue(operand) % WordSize = Value(expr) % WordSize
        BY <1>5 DEF Eliminate, Advance, IInv, ShapeAndValue
    <2>2. NoFrameIndex(operand') /\ MemValue(operand') % WordSize = MemValue(operand) % WordSize
        BY <2>1, <1>2, EliminateFacts
    <2>3. MemValue(operand)' = MemValue(operand')
        BY <1>1, ValuesStay DEF MemValue
    <2>4. NoFrameIndex(operand)'
        BY <2>2, <1>1, ValuesStay DEF NoFrameIndex
    <2> QED BY <2>1, <2>2, <2>3, <2>4, <1>2, <1>7 DEF IInv, ShapeAndValue
<1>6. CASE EmitOperand
    <2>1. /\ stage' = "printed" /\ operand' = printMem(operand)
          /\ NoFrameIndex(operand)
          /\ BitTrusted => MemValue(operand) % WordSize = Value(expr) % WordSize
        BY <1>6 DEF EmitOperand, Advance, IInv, ShapeAndValue
    <2>2. /\ operand'.base = operand.base /\ operand'.dispReg = operand.dispReg
          /\ \/ operand'.dispImm = NoReg
             \/ operand'.dispImm \in {Constant(v) : v \in 0 .. WordSize - 1}
          /\ PartValue(operand'.dispImm) \in Int
          /\ PartValue(operand'.dispImm) % WordSize = operand.dispImm % WordSize
        BY <2>1, <1>2, PrintFacts
    <2> DEFINE c == PartValue(operand.base) + PartValue(operand.dispReg)
               i == PartValue(operand'.dispImm)
               j == operand.dispImm
    <2>3. c \in Int /\ i \in Int /\ j \in Int /\ i % WordSize = j % WordSize
        BY <2>1, <2>2 DEF NoFrameIndex
    <2>4. PartValue(operand.base)' + PartValue(operand.dispReg)' + PartValue(operand.dispImm)' = c + i
        BY <2>2, <1>1, ValuesStay
    <2>5. MemValue(operand) = c + j
        BY DEF MemValue
    <2> HIDE DEF c, i, j
    <2>6. (i + c) % WordSize = (j + c) % WordSize
        BY <2>3, AddressingAssumption, RemainderOfSum
    <2>7. i + c = c + i /\ j + c = c + j
        BY <2>3
    <2>8. (c + i) % WordSize = MemValue(operand) % WordSize
        BY <2>5, <2>6, <2>7
    <2>9. VReg(FrameIndex) \notin {operand'.base, operand'.dispReg}
        BY <2>1, <2>2 DEF NoFrameIndex
    <2> QED BY <2>1, <2>2, <2>4, <2>8, <2>9, <1>2, <1>7 DEF IInv, ShapeAndValue
<1> QED BY <1>3, <1>4, <1>5, <1>6

LEMMA NextIInv ==
    ASSUME IInv, [Next]_vars
    PROVE  IInv'
<1>1. CASE UNCHANGED vars
    <2>1. env' = env /\ expr' = expr /\ stage' = stage /\ operand' = operand
        BY <1>1 DEF vars
    <2>2. EnvOK' /\ expr' \in Address
        BY <2>1, ValuesStay DEF IInv
    <2>3. /\ Value(expr)' = Value(expr) /\ Value(operand)' = Value(operand)
          /\ PartValue(operand.base)' = PartValue(operand.base)
          /\ PartValue(operand.dispReg)' = PartValue(operand.dispReg)
          /\ PartValue(operand.dispImm)' = PartValue(operand.dispImm)
          /\ BitTrusted' <=> BitTrusted
        BY <2>1, ValuesStay DEF BitTrusted, SetsBitOfFrame
    <2>4. ShapeAndValue'
        BY <2>1, <2>3 DEF IInv, ShapeAndValue, MemValue, NoFrameIndex, SetsBitOfFrame
    <2> QED BY <2>2, <2>4 DEF IInv
<1> QED BY <1>1, StepIInv DEF Next, Printed

THEOREM Invariance == Spec => []IInv
<1>1. IInv /\ [Next]_vars => IInv'
    BY NextIInv
<1> QED BY <1>1, InitIInv, PTL DEF Spec

\* The operand printed for every address, in frames and call sequences of every
\* size, denotes that address, whatever wraps around; an address that sets a bit
\* of a frame object does if the object is in place or asks for no more than the
\* alignment of f5.  (LowerGlobalAddress, SelectAddr, eliminateFrameIndex, printMem)
THEOREM AddressAlwaysKept == Spec => []AddressKept
<1>1. IInv => AddressKept
    <2> SUFFICES ASSUME IInv PROVE AddressKept
        OBVIOUS
    <2>1. BitTrusted => OperandValue % WordSize = Value(expr) % WordSize
        <3>1. CASE stage \in {"dag", "lowered"}
            BY <3>1 DEF OperandValue, IInv, ShapeAndValue
        <3>2. CASE stage \in {"selected", "eliminated"}
            BY <3>2 DEF OperandValue, IInv, ShapeAndValue, MemValue
        <3>3. CASE stage = "printed"
            BY <3>3 DEF OperandValue, IInv, ShapeAndValue
        <3> QED BY <3>1, <3>2, <3>3 DEF IInv, ShapeAndValue
    <2>2. stage \in {"eliminated", "printed"} =>
              VReg(FrameIndex) \notin {operand.base, operand.dispReg}
        BY DEF IInv, ShapeAndValue, NoFrameIndex
    <2>3. stage = "printed" =>
              operand.dispImm = NoReg \/ operand.dispImm \in {Constant(v) : v \in 0 .. WordSize - 1}
        BY DEF IInv, ShapeAndValue
    <2>4. (SetsBitOfFrame(expr) => InPlace \/ Align <= StackAlign) => BitTrusted
        BY SmallInPlace DEF IInv, BitTrusted
    <2> QED BY <2>1, <2>2, <2>3, <2>4 DEF AddressKept
<1> QED BY <1>1, Invariance, PTL

---------------------------------------------------------------------------
(* Numbers. *)

Below == {ss \in Nat \X Nat : ss[1] < ss[2]}

\* Induction over a set of numbers, which needs no operator as a parameter.
LEMMA SetInduction ==
    ASSUME NEW T, 0 \in T, \A n \in Nat : n \in T => n + 1 \in T
    PROVE  Nat \subseteq T
<1> SUFFICES ASSUME Nat \ T # {} PROVE FALSE
    OBVIOUS
<1>1. IsWellFoundedOn(Below, Nat)
    BY NatLessThanWellFounded, Zenon DEF OpToRel, Below
<1>2. PICK x \in Nat \ T : \A y \in Nat \ T : ~ (<<y, x>> \in Below)
    BY <1>1, WFMin, Zenon
<1>3. \A y \in Nat \ T : ~ (y < x)
    BY <1>2 DEF Below
<1>4. x # 0 /\ x - 1 \in Nat /\ x - 1 < x /\ (x - 1) + 1 = x
    BY <1>2
<1> QED BY <1>2, <1>3, <1>4

---------------------------------------------------------------------------
(* Quotients and remainders. *)

\* A number has one quotient and one remainder.
LEMMA DivisionOnce ==
    ASSUME NEW w \in Nat \ {0}, NEW q \in Int, NEW r \in 0 .. w - 1, NEW a \in Int, a = w * q + r
    PROVE  a \div w = q /\ a % w = r
<1> DEFINE p == a \div w
           s == a % w
<1>1. p \in Int /\ s \in 0 .. w - 1 /\ a = w * p + s
    BY Division
<1> HIDE DEF p, s
<1> DEFINE d == p - q
<1>2. d \in Int /\ r - s = w * d /\ p = q + d
    BY <1>1
<1> HIDE DEF d
<1>3. ~ (d >= 1)
    <2> SUFFICES ASSUME d >= 1 PROVE FALSE
        OBVIOUS
    <2>1. w * d >= w
        BY <1>2
    <2> QED BY <2>1, <1>1, <1>2
<1>4. ~ (d <= -1)
    <2> SUFFICES ASSUME d <= -1 PROVE FALSE
        OBVIOUS
    <2>1. w * d <= -w
        BY <1>2
    <2> QED BY <2>1, <1>1, <1>2
<1>5. d = 0
    BY <1>2, <1>3, <1>4
<1>6. p = q /\ s = r
    BY <1>1, <1>2, <1>5
<1> QED BY <1>6 DEF p, s

\* Multiples come out of a quotient.
LEMMA DivisionOfSum ==
    ASSUME NEW w \in Nat \ {0}, NEW q \in Int, NEW a \in Int
    PROVE  (w * q + a) \div w = q + (a \div w) /\ (w * q + a) % w = a % w
<1> DEFINE p == a \div w
           s == a % w
           b == w * q + a
<1>1. p \in Int /\ s \in 0 .. w - 1 /\ a = w * p + s
    BY Division
<1> HIDE DEF p, s
<1>2. b \in Int /\ q + p \in Int /\ b = w * (q + p) + s
    BY <1>1
<1> HIDE DEF b
<1>3. b \div w = q + p /\ b % w = s
    BY <1>1, <1>2, DivisionOnce
<1> QED BY <1>3 DEF b, p, s

\* Dividing by a product is dividing twice.
LEMMA DivisionTwice ==
    ASSUME NEW v \in Nat \ {0}, NEW w \in Nat \ {0}, NEW a \in Int
    PROVE  a \div (v * w) = (a \div v) \div w
<1> DEFINE p == a \div v
           r == a % v
           q == p \div w
           s == p % w
<1>1. p \in Int /\ r \in 0 .. v - 1 /\ a = v * p + r
    BY Division
<1> HIDE DEF p, r
<1>2. q \in Int /\ s \in 0 .. w - 1 /\ p = w * q + s
    BY <1>1, Division
<1> HIDE DEF q, s
<1> DEFINE u == v * w
           t == v * s + r
<1>3. u \in Nat \ {0} /\ a = u * q + t
    BY <1>1, <1>2
<1>4. t \in 0 .. u - 1
    <2>1. v * s <= v * (w - 1)
        BY <1>2
    <2>2. v * (w - 1) = u - v
        OBVIOUS
    <2>3. v * s \in Nat /\ u \in Nat
        BY <1>2
    <2> DEFINE x == v * s
               y == v * (w - 1)
    <2>4. x <= y /\ y = u - v /\ x \in Nat /\ t = x + r /\ u \in Nat
        BY <2>1, <2>2, <2>3
    <2> HIDE DEF x, y, t, u
    <2> QED BY <2>4, <1>1
<1> HIDE DEF u, t
<1>5. a \div u = q
    BY <1>2, <1>3, <1>4, DivisionOnce
<1> QED BY <1>5 DEF u, q, p

---------------------------------------------------------------------------
(* Powers of two. *)

PowStep(f, i) == IF i = 0 THEN 1 ELSE 2 * f[i - 1]

\* f has the powers up to n.
PowersUpTo(f, n) == f \in [0 .. n -> Nat] /\ \A i \in 0 .. n : f[i] = PowStep(f, i)

LEMMA PowersExist ==
    ASSUME NEW n \in Nat
    PROVE  \E f : PowersUpTo(f, n)
<1> DEFINE T == {k \in Nat : \E f : PowersUpTo(f, k)}
<1>1. 0 \in T
    <2> DEFINE f == [i \in 0 .. 0 |-> 1]
    <2>1. f \in [0 .. 0 -> Nat] /\ \A i \in 0 .. 0 : f[i] = PowStep(f, i)
        BY DEF PowStep
    <2> HIDE DEF f
    <2> QED BY <2>1 DEF PowersUpTo
<1>2. ASSUME NEW k \in Nat, k \in T PROVE k + 1 \in T
    <2>1. PICK f : PowersUpTo(f, k)
        BY <1>2
    <2> DEFINE g == [i \in 0 .. k + 1 |-> IF i <= k THEN f[i] ELSE 2 * f[k]]
    <2>2. g \in [0 .. k + 1 -> Nat]
        BY <2>1 DEF PowersUpTo
    <2>3. ASSUME NEW i \in 0 .. k + 1 PROVE g[i] = PowStep(g, i)
        <3>1. CASE i <= k
            <4>1. g[i] = f[i] /\ f[i] = PowStep(f, i)
                BY <2>1, <3>1 DEF PowersUpTo
            <4>2. i # 0 => g[i - 1] = f[i - 1]
                BY <3>1
            <4> HIDE DEF g
            <4> QED BY <4>1, <4>2 DEF PowStep
        <3>2. CASE ~ (i <= k)
            <4>1. i = k + 1 /\ i # 0 /\ i - 1 = k
                BY <3>2
            <4>2. g[i] = 2 * f[k] /\ g[k] = f[k]
                BY <4>1
            <4> HIDE DEF g
            <4> QED BY <4>1, <4>2 DEF PowStep
        <3> QED BY <3>1, <3>2
    <2> HIDE DEF g
    <2>4. PowersUpTo(g, k + 1)
        BY <2>2, <2>3 DEF PowersUpTo
    <2> QED BY <2>4
<1> HIDE DEF T
<1>3. n \in T
    BY <1>1, <1>2, SetInduction
<1> QED BY <1>3 DEF T

LEMMA PowersAgree ==
    ASSUME NEW m \in Nat, NEW f, PowersUpTo(f, m), NEW n \in Nat, NEW g, PowersUpTo(g, n)
    PROVE  \A i \in Nat : i <= m /\ i <= n => f[i] = g[i]
<1> DEFINE T == {k \in Nat : k <= m /\ k <= n => f[k] = g[k]}
<1>1. 0 \in T
    BY DEF PowersUpTo, PowStep
<1>2. ASSUME NEW k \in Nat, k \in T PROVE k + 1 \in T
    <2> SUFFICES ASSUME k + 1 <= m, k + 1 <= n PROVE f[k + 1] = g[k + 1]
        OBVIOUS
    <2>1. k + 1 \in 0 .. m /\ k + 1 \in 0 .. n /\ k + 1 # 0 /\ (k + 1) - 1 = k /\ k <= m /\ k <= n
        OBVIOUS
    <2>2. f[k + 1] = 2 * f[k] /\ g[k + 1] = 2 * g[k]
        BY <2>1 DEF PowersUpTo, PowStep
    <2> QED BY <1>2, <2>1, <2>2
<1> HIDE DEF T
<1>3. Nat \subseteq T
    BY <1>1, <1>2, SetInduction
<1> QED BY <1>3, Zenon DEF T

LEMMA Pow2Unfolds == \A n \in Nat : Pow2[n] = PowStep(Pow2, n)
<1> DEFINE W(n) == CHOOSE f : PowersUpTo(f, n)
           F == [n \in Nat |-> W(n)[n]]
           Is(f) == f = [k \in Nat |-> IF k = 0 THEN 1 ELSE 2 * f[k - 1]]
<1>1. ASSUME NEW n \in Nat PROVE PowersUpTo(W(n), n)
    BY PowersExist
<1> HIDE DEF W
<1>2. ASSUME NEW n \in Nat PROVE F[n] = IF n = 0 THEN 1 ELSE 2 * F[n - 1]
    <2>1. F[n] = PowStep(W(n), n)
        <3>1. n \in 0 .. n
            OBVIOUS
        <3> QED BY <1>1, <3>1 DEF PowersUpTo
    <2>2. ASSUME n # 0 PROVE F[n - 1] = W(n)[n - 1]
        <3>1. n - 1 \in Nat /\ n - 1 <= n /\ n - 1 <= n - 1
            BY <2>2
        <3> DEFINE m == n - 1
        <3> HIDE DEF m
        <3>2. PowersUpTo(W(m), m) /\ PowersUpTo(W(n), n) /\ m \in Nat /\ m <= n /\ m <= m
            BY <1>1, <3>1 DEF m
        <3>3. W(m)[m] = W(n)[m]
            BY <3>2, PowersAgree
        <3> QED BY <3>1, <3>3 DEF m
    <2> HIDE DEF F
    <2> QED BY <2>1, <2>2 DEF PowStep
<1>3. Is(F)
    <2>1. F = [n \in Nat |-> F[n]]
        OBVIOUS
    <2> HIDE DEF F
    <2> QED BY <1>2, <2>1, Zenon
<1>4. Is(Pow2)
    <2> HIDE DEF F, Is
    <2>1. Pow2 = CHOOSE f : Is(f)
        BY DEF Pow2, Is
    <2> QED BY <1>3, <2>1
<1> QED BY <1>4 DEF PowStep

LEMMA Pow2Facts ==
    /\ Pow2[0] = 1
    /\ \A n \in Nat : Pow2[n + 1] = 2 * Pow2[n]
<1>1. \A n \in Nat : n + 1 \in Nat /\ n + 1 # 0 /\ (n + 1) - 1 = n
    OBVIOUS
<1> QED BY <1>1, Pow2Unfolds DEF PowStep

LEMMA Pow2Type ==
    ASSUME NEW n \in Nat
    PROVE  Pow2[n] \in Nat \ {0}
<1> DEFINE T == {k \in Nat : Pow2[k] \in Nat \ {0}}
<1>1. 0 \in T
    BY Pow2Facts
<1>2. ASSUME NEW k \in Nat, k \in T PROVE k + 1 \in T
    BY <1>2, Pow2Facts
<1> HIDE DEF T
<1>3. n \in T
    BY <1>1, <1>2, SetInduction
<1> QED BY <1>3 DEF T

LEMMA Pow2Sum ==
    ASSUME NEW m \in Nat, NEW n \in Nat
    PROVE  Pow2[m + n] = Pow2[m] * Pow2[n]
<1> DEFINE T == {k \in Nat : Pow2[m + k] = Pow2[m] * Pow2[k]}
<1>1. 0 \in T
    <2>1. Pow2[m + 0] = Pow2[m] /\ Pow2[0] = 1 /\ Pow2[m] \in Nat
        BY Pow2Facts, Pow2Type
    <2> QED BY <2>1
<1>2. ASSUME NEW k \in Nat, k \in T PROVE k + 1 \in T
    <2> DEFINE a == Pow2[m]
               b == Pow2[k]
               c == Pow2[k + 1]
               d == Pow2[m + k]
               e == Pow2[m + (k + 1)]
    <2>1. m + k \in Nat /\ m + (k + 1) = (m + k) + 1
        OBVIOUS
    <2>2. a \in Nat /\ b \in Nat /\ c = 2 * b /\ e = 2 * d /\ d = a * b
        BY <1>2, <2>1, Pow2Facts, Pow2Type
    <2> HIDE DEF a, b, c, d, e
    <2>3. e = a * c
        BY <2>2
    <2> QED BY <2>3 DEF a, c, e
<1> HIDE DEF T
<1>3. n \in T
    BY <1>1, <1>2, SetInduction
<1> QED BY <1>3 DEF T

---------------------------------------------------------------------------
(* Bits: BitAt(x, i) is 1 if bit i of x is set, else 0. *)

BitAt(x, i) == (x \div Pow2[i]) % 2

LEMMA BitType ==
    ASSUME NEW x \in Int, NEW i \in Nat
    PROVE  BitAt(x, i) \in {0, 1}
<1> DEFINE p == Pow2[i]
           q == x \div p
<1>1. p \in Nat \ {0}
    BY Pow2Type
<1> HIDE DEF p
<1>2. q \in Int
    BY <1>1
<1> HIDE DEF q
<1>3. q % 2 \in {0, 1}
    BY <1>2
<1> QED BY <1>3 DEF BitAt, q, p

\* The bits of a number made of two are theirs.
LEMMA LowBits ==
    ASSUME NEW k \in Nat, NEW i \in Nat, i < k, NEW low \in Int, NEW h \in Int
    PROVE  BitAt(low + h * Pow2[k], i) = BitAt(low, i)
<1> DEFINE j == k - i - 1
           p == Pow2[i]
           r == Pow2[j]
           q == low \div p
           x == low + h * Pow2[k]
           d == x \div p
<1>1. j \in Nat /\ k = (i + 1) + j
    OBVIOUS
<1> HIDE DEF j
<1>2. p \in Nat \ {0} /\ r \in Nat \ {0} /\ Pow2[k] = (2 * p) * r
    <2>1. Pow2[(i + 1) + j] = Pow2[i + 1] * r
        BY <1>1, Pow2Sum
    <2>2. Pow2[i + 1] = 2 * p
        BY Pow2Facts
    <2> QED BY <1>1, <2>1, <2>2, Pow2Type
<1> HIDE DEF p, r
<1> DEFINE m == h * r
<1>3. m \in Int /\ x = p * (2 * m) + low /\ 2 * m \in Int /\ q \in Int
    BY <1>2
<1> HIDE DEF x, m
<1>4. d = 2 * m + q
    BY <1>2, <1>3, DivisionOfSum
<1> HIDE DEF q, d
<1>5. d % 2 = q % 2
    <2>1. 2 \in Nat \ {0}
        OBVIOUS
    <2>2. (2 * m + q) % 2 = q % 2
        BY <1>3, <2>1, DivisionOfSum
    <2> QED BY <1>4, <2>2
<1> QED BY <1>5 DEF BitAt, d, q, x, p

LEMMA HighBits ==
    ASSUME NEW k \in Nat, NEW i \in Nat, i >= k, NEW low \in 0 .. Pow2[k] - 1, NEW h \in Int
    PROVE  BitAt(low + h * Pow2[k], i) = BitAt(h, i - k)
<1> DEFINE j == i - k
           p == Pow2[k]
           r == Pow2[j]
           x == low + h * p
<1>1. j \in Nat /\ i = k + j
    OBVIOUS
<1> HIDE DEF j
<1>2. p \in Nat \ {0} /\ r \in Nat \ {0} /\ Pow2[i] = p * r /\ low \in 0 .. p - 1
    BY <1>1, Pow2Sum, Pow2Type
<1> HIDE DEF p, r
<1>3. x \in Int /\ x = p * h + low
    BY <1>2
<1> HIDE DEF x
<1>4. x \div p = h
    BY <1>2, <1>3, DivisionOnce
<1>5. x \div (p * r) = h \div r
    <2>1. x \div (p * r) = (x \div p) \div r
        BY <1>2, <1>3, DivisionTwice, Zenon
    <2> QED BY <1>4, <2>1, Zenon
<1> QED BY <1>2, <1>5 DEF BitAt, x, p, r, j

\* A number too small to have bit i does not have it.
LEMMA SmallBits ==
    ASSUME NEW i \in Nat, NEW x \in 0 .. Pow2[i] - 1
    PROVE  BitAt(x, i) = 0
<1> DEFINE p == Pow2[i]
<1>1. p \in Nat \ {0} /\ x \in 0 .. p - 1 /\ 0 \in Int /\ x \in Int /\ x = p * 0 + x
    BY Pow2Type
<1> HIDE DEF p
<1>2. x \div p = 0
    BY <1>1, DivisionOnce
<1>3. 0 % 2 = 0
    OBVIOUS
<1> QED BY <1>2, <1>3, Zenon DEF BitAt, p

\* The top bit of a number, and the rest.
LEMMA TopBit ==
    ASSUME NEW w \in Nat, NEW x \in 0 .. Pow2[w + 1] - 1
    PROVE  \E low \in 0 .. Pow2[w] - 1, t \in {0, 1} :
               /\ x = low + t * Pow2[w]
               /\ BitAt(x, w) = t
               /\ \A i \in 0 .. w - 1 : BitAt(x, i) = BitAt(low, i)
<1> DEFINE p == Pow2[w]
           t == IF x >= p THEN 1 ELSE 0
           low == x - t * p
<1>1. p \in Nat \ {0} /\ Pow2[w + 1] = 2 * p
    BY Pow2Facts, Pow2Type
<1>2. low \in 0 .. p - 1 /\ t \in {0, 1} /\ x = low + t * p
    <2> HIDE DEF p
    <2> QED BY <1>1
<1> HIDE DEF t, low
<1>3. \A i \in 0 .. w - 1 : BitAt(x, i) = BitAt(low, i)
    <2>1. low \in Int /\ t \in Int
        BY <1>1, <1>2
    <2>2. \A i \in 0 .. w - 1 : i \in Nat /\ i < w
        OBVIOUS
    <2>3. \A i \in 0 .. w - 1 : BitAt(low + t * p, i) = BitAt(low, i)
        BY <2>1, <2>2, LowBits
    <2> QED BY <1>2, <2>3
<1>4. BitAt(x, w) = t
    <2>1. BitAt(low + t * p, w) = BitAt(t, w - w)
        BY <1>2, HighBits
    <2>2. w - w = 0 /\ Pow2[0] = 1
        BY Pow2Facts
    <2>3. BitAt(t, 0) = t
        <3>1. 0 \div 1 = 0 /\ 1 \div 1 = 1 /\ 0 % 2 = 0 /\ 1 % 2 = 1
            OBVIOUS
        <3> QED BY <1>2, <2>2, <3>1 DEF BitAt
    <2>4. BitAt(t, w - w) = t
        BY <2>2, <2>3, Zenon
    <2> QED BY <1>2, <2>1, <2>4, Zenon
<1> QED BY <1>2, <1>3, <1>4

LEMMA SameBits ==
    ASSUME NEW n \in Nat, NEW a \in 0 .. Pow2[n] - 1, NEW b \in 0 .. Pow2[n] - 1,
           \A i \in 0 .. n - 1 : BitAt(a, i) = BitAt(b, i)
    PROVE  a = b
<1> DEFINE T == {w \in Nat : \A x, y \in 0 .. Pow2[w] - 1 :
                    (\A i \in 0 .. w - 1 : BitAt(x, i) = BitAt(y, i)) => x = y}
<1>1. 0 \in T
    <2>1. Pow2[0] - 1 = 0
        BY Pow2Facts
    <2> QED BY <2>1
<1>2. ASSUME NEW w \in Nat, w \in T PROVE w + 1 \in T
    <2> SUFFICES ASSUME NEW x \in 0 .. Pow2[w + 1] - 1, NEW y \in 0 .. Pow2[w + 1] - 1,
                        \A i \in 0 .. (w + 1) - 1 : BitAt(x, i) = BitAt(y, i)
                 PROVE  x = y
        OBVIOUS
    <2>1. PICK xl \in 0 .. Pow2[w] - 1, xt \in {0, 1} :
              /\ x = xl + xt * Pow2[w] /\ BitAt(x, w) = xt
              /\ \A i \in 0 .. w - 1 : BitAt(x, i) = BitAt(xl, i)
        BY TopBit
    <2>2. PICK yl \in 0 .. Pow2[w] - 1, yt \in {0, 1} :
              /\ y = yl + yt * Pow2[w] /\ BitAt(y, w) = yt
              /\ \A i \in 0 .. w - 1 : BitAt(y, i) = BitAt(yl, i)
        BY TopBit
    <2>3. w \in 0 .. (w + 1) - 1 /\ \A i \in 0 .. w - 1 : i \in 0 .. (w + 1) - 1
        OBVIOUS
    <2>4. xt = yt
        BY <2>1, <2>2, <2>3, Zenon
    <2>5. \A i \in 0 .. w - 1 : BitAt(xl, i) = BitAt(yl, i)
        BY <2>1, <2>2, <2>3, Zenon
    <2>6. xl = yl
        BY <1>2, <2>5, Zenon
    <2> QED BY <2>1, <2>2, <2>4, <2>6, Zenon
<1> HIDE DEF T
<1>3. n \in T
    BY <1>1, <1>2, SetInduction
<1> QED BY <1>3, Zenon DEF T

LEMMA BitsExist ==
    ASSUME NEW n \in Nat, NEW S
    PROVE  \E x \in 0 .. Pow2[n] - 1 : \A i \in 0 .. n - 1 : BitAt(x, i) = 1 <=> i \in S
<1> DEFINE Has(x, w) == \A i \in 0 .. w - 1 : BitAt(x, i) = 1 <=> i \in S
           T == {w \in Nat : \E x \in 0 .. Pow2[w] - 1 : Has(x, w)}
<1>1. 0 \in T
    <2>1. 0 \in 0 .. Pow2[0] - 1 /\ \A i \in 0 .. 0 - 1 : FALSE
        BY Pow2Facts
    <2> QED BY <2>1
<1>2. ASSUME NEW w \in Nat, w \in T PROVE w + 1 \in T
    <2>1. PICK low \in 0 .. Pow2[w] - 1 : Has(low, w)
        BY <1>2
    <2> DEFINE p == Pow2[w]
               t == IF w \in S THEN 1 ELSE 0
               x == low + t * p
    <2>2. p \in Nat \ {0} /\ Pow2[w + 1] = 2 * p /\ low \in 0 .. p - 1 /\ t \in {0, 1}
        BY Pow2Facts, Pow2Type
    <2>3. x \in 0 .. Pow2[w + 1] - 1
        <3> HIDE DEF p, t
        <3> QED BY <2>2
    <2>4. BitAt(x, w) = t
        <3>1. BitAt(x, w) = BitAt(t, w - w)
            BY <2>2, HighBits
        <3>2. w - w = 0 /\ Pow2[0] = 1
            BY Pow2Facts
        <3>3. 0 \div 1 = 0 /\ 1 \div 1 = 1 /\ 0 % 2 = 0 /\ 1 % 2 = 1
            OBVIOUS
        <3> HIDE DEF t, x
        <3>4. BitAt(t, 0) = t
            BY <2>2, <3>2, <3>3 DEF BitAt
        <3> QED BY <3>1, <3>2, <3>4, Zenon
    <2>5. \A i \in 0 .. w - 1 : BitAt(x, i) = BitAt(low, i)
        <3>1. \A i \in 0 .. w - 1 : i \in Nat /\ i < w
            OBVIOUS
        <3>2. low \in Int /\ t \in Int
            BY <2>2
        <3> HIDE DEF t
        <3> QED BY <3>1, <3>2, LowBits
    <2>6. Has(x, w + 1)
        <3>1. \A i \in 0 .. (w + 1) - 1 : i = w \/ i \in 0 .. w - 1
            OBVIOUS
        <3>2. t = 1 <=> w \in S
            OBVIOUS
        <3> HIDE DEF t, x
        <3> QED BY <2>1, <2>4, <2>5, <3>1, <3>2, Zenon
    <2> HIDE DEF x, Has
    <2> QED BY <2>3, <2>6
<1> HIDE DEF T, Has
<1>3. n \in T
    BY <1>1, <1>2, SetInduction
<1> QED BY <1>3, Zenon DEF T, Has

---------------------------------------------------------------------------
(* Words. *)

Width == 4 * Bits

LEMMA SizeFacts ==
    /\ Bits \in Nat \ {0} /\ Width \in Nat \ {0} /\ Width = 4 * Bits
    /\ \A n \in Nat : n * Bits \in Nat
    /\ \A n \in Nat : Field(n) = Pow2[n * Bits] /\ Field(n) \in Nat \ {0}
    /\ Field(4) = Pow2[Width] /\ Word = 0 .. Pow2[Width] - 1
<1>1. Bits \in Nat \ {0} /\ Width \in Nat \ {0} /\ \A n \in Nat : n * Bits \in Nat
    BY MachineAssumption DEF Width
<1>2. \A n \in Nat : Field(n) = Pow2[n * Bits] /\ Field(n) \in Nat \ {0}
    BY <1>1, Pow2Type DEF Field
<1>3. Field(4) = Pow2[Width] /\ Word = 0 .. Pow2[Width] - 1
    BY DEF Field, Width, Word, Mask
<1> QED BY <1>1, <1>2, <1>3 DEF Width

LEMMA BitsOfWord ==
    ASSUME NEW x \in Word
    PROVE  /\ BitsOf[x] \in SUBSET (0 .. Width - 1)
           /\ \A i \in 0 .. Width - 1 : i \in BitsOf[x] <=> BitAt(x, i) = 1
<1>1. BitsOf[x] = {i \in 0 .. Width - 1 : BitAt(x, i) = 1}
    BY Zenon DEF BitsOf, Width, BitAt
<1> QED BY <1>1

\* Words with the same bits are the same.
LEMMA WordsByBits ==
    ASSUME NEW x \in Word, NEW y \in Word,
           \A i \in 0 .. Width - 1 : BitAt(x, i) = 1 <=> BitAt(y, i) = 1
    PROVE  x = y
<1>1. Width \in Nat /\ x \in 0 .. Pow2[Width] - 1 /\ y \in 0 .. Pow2[Width] - 1
    BY SizeFacts
<1>2. \A i \in 0 .. Width - 1 : i \in Nat /\ x \in Int /\ y \in Int
    BY <1>1
<1>3. \A i \in 0 .. Width - 1 : BitAt(x, i) \in {0, 1} /\ BitAt(y, i) \in {0, 1}
    BY <1>2, BitType
<1>4. \A i \in 0 .. Width - 1 : BitAt(x, i) = BitAt(y, i)
    BY <1>3
<1> QED BY <1>1, <1>4, SameBits

LEMMA NumberFacts ==
    ASSUME NEW S \in SUBSET (0 .. Width - 1)
    PROVE  /\ Number[S] \in Word
           /\ \A i \in 0 .. Width - 1 : BitAt(Number[S], i) = 1 <=> i \in S
<1>1. PICK x \in 0 .. Pow2[Width] - 1 : \A i \in 0 .. Width - 1 : BitAt(x, i) = 1 <=> i \in S
    BY SizeFacts, BitsExist
<1>2. x \in Word
    BY SizeFacts
<1>3. BitsOf[x] = S
    BY <1>1, <1>2, BitsOfWord
<1>4. Number[S] = CHOOSE y \in Word : BitsOf[y] = S
    BY Zenon DEF Number, Width
<1>5. Number[S] \in Word /\ BitsOf[Number[S]] = S
    BY <1>2, <1>3, <1>4, Zenon
<1> QED BY <1>5, BitsOfWord

\* The bits of a conjunction, a disjunction and a difference.
LEMMA LogicFacts ==
    ASSUME NEW x \in Word, NEW y \in Word
    PROVE  /\ BitAnd(x, y) \in Word /\ BitOr(x, y) \in Word /\ BitXor(x, y) \in Word
           /\ \A i \in 0 .. Width - 1 : BitAt(BitAnd(x, y), i) = 1 <=> BitAt(x, i) = 1 /\ BitAt(y, i) = 1
           /\ \A i \in 0 .. Width - 1 : BitAt(BitOr(x, y), i) = 1 <=> BitAt(x, i) = 1 \/ BitAt(y, i) = 1
<1> DEFINE a == BitsOf[x]
           b == BitsOf[y]
           U == 0 .. Width - 1
<1>1. a \in SUBSET U /\ \A i \in U : i \in a <=> BitAt(x, i) = 1
    BY BitsOfWord
<1>2. b \in SUBSET U /\ \A i \in U : i \in b <=> BitAt(y, i) = 1
    BY BitsOfWord
<1> HIDE DEF a, b
<1>3. a \cap b \in SUBSET U /\ a \cup b \in SUBSET U /\ (a \cup b) \ (a \cap b) \in SUBSET U
    BY <1>1, <1>2
<1>4. BitAnd(x, y) = Number[a \cap b] /\ BitOr(x, y) = Number[a \cup b]
      /\ BitXor(x, y) = Number[(a \cup b) \ (a \cap b)]
    BY Zenon DEF BitAnd, BitOr, BitXor, a, b
<1>5. Number[a \cap b] \in Word /\ \A i \in U : BitAt(Number[a \cap b], i) = 1 <=> i \in a \cap b
    BY <1>3, NumberFacts
<1>6. Number[a \cup b] \in Word /\ \A i \in U : BitAt(Number[a \cup b], i) = 1 <=> i \in a \cup b
    BY <1>3, NumberFacts
<1>7. Number[(a \cup b) \ (a \cap b)] \in Word
    BY <1>3, NumberFacts
<1> HIDE DEF U
<1>8. \A i \in U : BitAt(BitAnd(x, y), i) = 1 <=> BitAt(x, i) = 1 /\ BitAt(y, i) = 1
    BY <1>1, <1>2, <1>4, <1>5, Zenon
<1>9. \A i \in U : BitAt(BitOr(x, y), i) = 1 <=> BitAt(x, i) = 1 \/ BitAt(y, i) = 1
    BY <1>1, <1>2, <1>4, <1>6, Zenon
<1> QED BY <1>4, <1>5, <1>6, <1>7, <1>8, <1>9, Zenon DEF U

\* The mask of k bits has them all, and no other.
LEMMA MaskBits ==
    ASSUME NEW k \in Nat, NEW i \in Nat
    PROVE  BitAt(Pow2[k] - 1, i) = 1 <=> i < k
<1> DEFINE T == {n \in Nat : \A j \in 0 .. n - 1 : BitAt(Pow2[n] - 1, j) = 1}
<1>1. 0 \in T
    OBVIOUS
<1>2. ASSUME NEW n \in Nat, n \in T PROVE n + 1 \in T
    <2> DEFINE p == Pow2[n]
               x == Pow2[n + 1] - 1
    <2>1. p \in Nat \ {0} /\ x = (p - 1) + 1 * p /\ p - 1 \in 0 .. p - 1 /\ p - 1 \in Int
        BY Pow2Facts, Pow2Type
    <2>2. \A j \in 0 .. n - 1 : BitAt(x, j) = 1
        <3>1. \A j \in 0 .. n - 1 : j \in Nat /\ j < n
            OBVIOUS
        <3>2. \A j \in 0 .. n - 1 : BitAt((p - 1) + 1 * p, j) = BitAt(p - 1, j)
            <4> DEFINE h == 1
            <4>1. h \in Int
                OBVIOUS
            <4> HIDE DEF h
            <4>2. \A j \in 0 .. n - 1 : BitAt((p - 1) + h * p, j) = BitAt(p - 1, j)
                BY <2>1, <3>1, <4>1, LowBits
            <4> QED BY <4>2 DEF h
        <3> QED BY <1>2, <2>1, <3>2
    <2>3. BitAt(x, n) = 1
        <3>1. BitAt((p - 1) + 1 * p, n) = BitAt(1, n - n)
            BY <2>1, HighBits
        <3>2. n - n = 0 /\ Pow2[0] = 1 /\ 1 \div 1 = 1 /\ 1 % 2 = 1
            BY Pow2Facts
        <3>3. BitAt(1, n - n) = 1
            BY <3>2, Zenon DEF BitAt
        <3> QED BY <2>1, <3>1, <3>3, Zenon
    <2>4. \A j \in 0 .. (n + 1) - 1 : j = n \/ j \in 0 .. n - 1
        OBVIOUS
    <2> HIDE DEF x
    <2>5. \A j \in 0 .. (n + 1) - 1 : BitAt(x, j) = 1
        BY <2>2, <2>3, <2>4, Zenon
    <2> QED BY <2>5 DEF x
<1> HIDE DEF T
<1>3. k \in T
    BY <1>1, <1>2, SetInduction
<1>4. CASE i < k
    <2>1. i \in 0 .. k - 1
        BY <1>4
    <2> QED BY <1>3, <1>4, <2>1, Zenon DEF T
<1>5. CASE ~ (i < k)
    <2> DEFINE p == Pow2[k]
               q == Pow2[i]
               r == Pow2[i - k]
    <2>1. i - k \in Nat /\ i = k + (i - k)
        BY <1>5
    <2>2. p \in Nat \ {0} /\ r \in Nat \ {0} /\ q = p * r /\ q \in Nat
        BY <2>1, Pow2Sum, Pow2Type
    <2> HIDE DEF p, q, r
    <2>3. p <= q
        BY <2>2
    <2>4. p - 1 \in 0 .. q - 1
        BY <2>2, <2>3
    <2>5. BitAt(p - 1, i) = 0
        BY <2>4, SmallBits DEF q
    <2> QED BY <1>5, <2>5 DEF p
<1> QED BY <1>4, <1>5

LEMMA Pow2Monotone ==
    ASSUME NEW m \in Nat, NEW n \in Nat, m <= n
    PROVE  Pow2[m] <= Pow2[n]
<1> DEFINE p == Pow2[m]
           q == Pow2[n]
           r == Pow2[n - m]
<1>1. n - m \in Nat /\ n = m + (n - m)
    OBVIOUS
<1>2. p \in Nat \ {0} /\ r \in Nat \ {0} /\ q = p * r
    BY <1>1, Pow2Sum, Pow2Type
<1> HIDE DEF p, q, r
<1>3. p <= q
    BY <1>2
<1> QED BY <1>3 DEF p, q

LEMMA NoHighBits ==
    ASSUME NEW k \in Nat, NEW low \in 0 .. Pow2[k] - 1, NEW i \in Nat, i >= k
    PROVE  BitAt(low, i) = 0
<1>1. Pow2[k] <= Pow2[i] /\ Pow2[k] \in Nat /\ Pow2[i] \in Nat
    BY Pow2Monotone, Pow2Type
<1>2. low \in 0 .. Pow2[i] - 1
    BY <1>1
<1> QED BY <1>2, SmallBits

\* A mask takes a remainder.
LEMMA AndMask ==
    ASSUME NEW x \in Word, NEW k \in 0 .. Width
    PROVE  BitAnd(x, Pow2[k] - 1) = x % Pow2[k]
<1> DEFINE p == Pow2[k]
           w == Pow2[Width]
           low == x % p
           h == x \div p
           U == 0 .. Width - 1
<1>1. /\ p \in Nat \ {0} /\ w \in Nat \ {0} /\ p <= w /\ k \in Nat /\ Width \in Nat
      /\ Word = 0 .. w - 1
    <2>1. Width \in Nat /\ Word = 0 .. w - 1
        BY SizeFacts
    <2>2. k \in Nat /\ k <= Width
        BY <2>1
    <2>3. Pow2[k] <= Pow2[Width]
        BY <2>1, <2>2, Pow2Monotone
    <2>4. Pow2[k] \in Nat \ {0} /\ Pow2[Width] \in Nat \ {0}
        BY <2>1, <2>2, Pow2Type
    <2> QED BY <2>1, <2>2, <2>3, <2>4
<1>2. x \in Nat /\ x < w
    <2> HIDE DEF p, w
    <2> QED BY <1>1
<1>3. h \in Int /\ low \in 0 .. p - 1 /\ x = p * h + low
    <2>1. x \in Int
        BY <1>2
    <2> HIDE DEF p
    <2> QED BY <1>1, <2>1, Division
<1> HIDE DEF h, low
<1>4. x = low + h * p /\ low \in Int /\ low \in Word /\ p - 1 \in Word /\ h \in Int
    <2> HIDE DEF p, w
    <2> QED BY <1>1, <1>3
<1>5. ASSUME NEW i \in U
      PROVE  BitAt(BitAnd(x, p - 1), i) = 1 <=> BitAt(low, i) = 1
    <2>1. i \in Nat
        BY <1>1
    <2>2. BitAt(BitAnd(x, p - 1), i) = 1 <=> BitAt(x, i) = 1 /\ BitAt(p - 1, i) = 1
        BY <1>4, LogicFacts
    <2>3. BitAt(p - 1, i) = 1 <=> i < k
        BY <1>1, <2>1, MaskBits
    <2>4. i < k => BitAt(x, i) = BitAt(low, i)
        <3> SUFFICES ASSUME i < k PROVE BitAt(x, i) = BitAt(low, i)
            OBVIOUS
        <3>1. BitAt(low + h * p, i) = BitAt(low, i)
            BY <1>1, <1>4, <2>1, LowBits, ZenonT(60)
        <3> QED BY <1>4, <3>1
    <2>5. ~ (i < k) => BitAt(low, i) = 0
        <3> SUFFICES ASSUME ~ (i < k) PROVE BitAt(low, i) = 0
            OBVIOUS
        <3>1. i >= k
            BY <1>1, <2>1
        <3> QED BY <1>1, <1>3, <2>1, <3>1, NoHighBits
    <2> QED BY <2>2, <2>3, <2>4, <2>5
<1>6. BitAnd(x, p - 1) \in Word
    BY <1>4, LogicFacts
<1> DEFINE y == BitAnd(x, p - 1)
<1> HIDE DEF y, p, U
<1>7. y \in Word /\ \A i \in U : BitAt(y, i) = 1 <=> BitAt(low, i) = 1
    BY <1>5, <1>6 DEF y
<1>8. y = low
    BY <1>4, <1>7, WordsByBits DEF U
<1> QED BY <1>8 DEF y, p, low

\* Numbers that share no bits are added by joining them.
LEMMA OrSum ==
    ASSUME NEW k \in Nat, NEW low \in 0 .. Pow2[k] - 1, NEW h \in Nat,
           low + h * Pow2[k] \in Word
    PROVE  BitOr(low, h * Pow2[k]) = low + h * Pow2[k]
<1> DEFINE p == Pow2[k]
           w == Pow2[Width]
           x == h * p
           y == low + x
           z == BitOr(low, x)
           U == 0 .. Width - 1
<1>1. p \in Nat \ {0} /\ w \in Nat \ {0} /\ Width \in Nat /\ Word = 0 .. w - 1
    BY SizeFacts, Pow2Type
<1>2. x \in Nat /\ low \in Nat /\ y \in Word /\ x \in Word /\ low \in Word
    <2> HIDE DEF w
    <2>1. p \in Nat /\ low \in 0 .. p - 1 /\ low + h * p \in 0 .. w - 1 /\ w \in Nat
        BY <1>1
    <2> HIDE DEF p
    <2>2. h * p \in Nat
        BY <2>1
    <2> QED BY <1>1, <2>1, <2>2
<1>3. ASSUME NEW i \in U
      PROVE  BitAt(z, i) = 1 <=> BitAt(y, i) = 1
    <2>1. i \in Nat /\ 0 \in Int /\ h \in Int /\ low \in Int
        BY <1>1, <1>2
    <2>2. BitAt(z, i) = 1 <=> BitAt(low, i) = 1 \/ BitAt(x, i) = 1
        <3> HIDE DEF x
        <3> QED BY <1>2, LogicFacts
    <2>3. BitAt(0, i) = 0 /\ 0 \in 0 .. p - 1
        <3>1. 0 \in 0 .. Pow2[i] - 1
            BY <2>1, Pow2Type
        <3> QED BY <1>1, <2>1, <3>1, SmallBits
    <2>4. 0 + h * p = x
        <3> HIDE DEF p
        <3> QED BY <1>1
    <2>5. CASE i < k
        <3>1. BitAt(0 + h * p, i) = BitAt(0, i)
            BY <2>1, <2>5, LowBits
        <3>2. BitAt(low + h * p, i) = BitAt(low, i)
            BY <2>1, <2>5, LowBits
        <3>3. BitAt(x, i) = 0 /\ BitAt(y, i) = BitAt(low, i)
            BY <2>3, <2>4, <3>1, <3>2, Zenon
        <3>4. 0 # 1
            OBVIOUS
        <3> QED BY <2>2, <3>3, <3>4, Zenon
    <2>6. CASE ~ (i < k)
        <3>1. i >= k
            BY <2>1, <2>6
        <3>2. BitAt(0 + h * p, i) = BitAt(h, i - k)
            BY <2>1, <2>3, <3>1, HighBits
        <3>3. BitAt(low + h * p, i) = BitAt(h, i - k)
            BY <2>1, <3>1, HighBits
        <3>4. BitAt(low, i) = 0
            BY <2>1, <3>1, NoHighBits
        <3>5. BitAt(x, i) = BitAt(y, i)
            BY <2>4, <3>2, <3>3, Zenon
        <3>6. 0 # 1
            OBVIOUS
        <3> QED BY <2>2, <3>4, <3>5, <3>6, Zenon
    <2> QED BY <2>5, <2>6
<1>4. z \in Word
    <2> HIDE DEF x
    <2> QED BY <1>2, LogicFacts
<1> DEFINE yy == y
           zz == z
<1> HIDE DEF yy, zz
<1>5. yy \in Word /\ zz \in Word /\ \A i \in U : BitAt(zz, i) = 1 <=> BitAt(yy, i) = 1
    BY <1>2, <1>3, <1>4, Zenon DEF yy, zz
<1>6. zz = yy
    BY <1>5, WordsByBits
<1> QED BY <1>6, Zenon DEF yy, zz

---------------------------------------------------------------------------
(* Fields of a word. *)

LEMMA FieldProduct ==
    ASSUME NEW m \in Nat, NEW n \in Nat
    PROVE  Field(m + n) = Field(m) * Field(n)
<1>1. m * Bits \in Nat /\ n * Bits \in Nat /\ (m + n) * Bits = m * Bits + n * Bits
    BY SizeFacts
<1> QED BY <1>1, Pow2Sum DEF Field

\* The sizes of bytes, half words, three bytes and words.
Sizes(b, c, d, w) ==
    /\ b \in Nat /\ b >= 2 /\ c = b * b /\ d = c * b /\ w = d * b
    /\ w = c * c /\ w = b * d

LEMMA FieldFacts ==
    /\ Sizes(Field(1), Field(2), Field(3), Field(4)) /\ Field(0) = 1
    /\ Byte = 0 .. Field(1) - 1 /\ Word = 0 .. Field(4) - 1
<1>1. /\ Field(2) = Field(1) * Field(1) /\ Field(3) = Field(2) * Field(1)
      /\ Field(4) = Field(3) * Field(1) /\ Field(4) = Field(2) * Field(2)
      /\ Field(4) = Field(1) * Field(3)
    <2>1. 1 + 1 = 2 /\ 2 + 1 = 3 /\ 3 + 1 = 4 /\ 2 + 2 = 4 /\ 1 + 3 = 4
          /\ 1 \in Nat /\ 2 \in Nat /\ 3 \in Nat
        OBVIOUS
    <2>2. /\ Field(1 + 1) = Field(1) * Field(1) /\ Field(2 + 1) = Field(2) * Field(1)
          /\ Field(3 + 1) = Field(3) * Field(1) /\ Field(2 + 2) = Field(2) * Field(2)
          /\ Field(1 + 3) = Field(1) * Field(3)
        BY <2>1, FieldProduct
    <2> QED BY <2>1, <2>2
<1>2. Field(0) = 1
    BY SizeFacts, Pow2Facts DEF Field
<1>3. Field(1) \in Nat /\ Field(1) >= 2
    <2>1. Field(1) = Pow2[Bits] /\ Bits \in Nat /\ 1 \in Nat /\ 1 <= Bits
        BY SizeFacts DEF Field
    <2>2. Pow2[0 + 1] = 2 * Pow2[0] /\ Pow2[0] = 1
        BY Pow2Facts
    <2>3. Pow2[1] = 2
        BY <2>2
    <2>4. Pow2[1] <= Pow2[Bits] /\ Pow2[Bits] \in Nat
        BY <2>1, Pow2Monotone, Pow2Type
    <2> QED BY <2>1, <2>3, <2>4
<1>4. Sizes(Field(1), Field(2), Field(3), Field(4))
    BY <1>1, <1>3, Zenon DEF Sizes
<1> QED BY <1>2, <1>4, Zenon DEF Byte, Word, Mask

---------------------------------------------------------------------------
(* The operations on words give words. *)

LEMMA WordModulo ==
    ASSUME NEW x \in Int
    PROVE  x % Field(4) \in Word
<1> DEFINE w == Field(4)
<1>1. w \in Nat \ {0} /\ Word = 0 .. w - 1
    BY SizeFacts, FieldFacts
<1> HIDE DEF w
<1>2. x % w \in 0 .. w - 1
    BY <1>1, Division
<1> QED BY <1>1, <1>2 DEF w

LEMMA WordIsNat == Word \subseteq Nat /\ Word \subseteq Int
BY SizeFacts, FieldFacts

LEMMA ArithmeticFacts ==
    ASSUME NEW x \in Word, NEW y \in Word
    PROVE  /\ (x + y) % Field(4) \in Word /\ (x - y) % Field(4) \in Word
           /\ Complement(x) \in Word /\ Complement(Complement(x)) = x
<1>1. x + y \in Int /\ x - y \in Int
    BY WordIsNat
<1>2. (x + y) % Field(4) \in Word /\ (x - y) % Field(4) \in Word
    BY <1>1, WordModulo
<1>3. Complement(x) \in Word /\ Complement(Complement(x)) = x
    <2> DEFINE w == Field(4)
    <2>1. w \in Nat \ {0} /\ Word = 0 .. w - 1
        BY SizeFacts, FieldFacts
    <2>2. Complement(x) = w - 1 - x /\ Complement(Complement(x)) = w - 1 - (w - 1 - x)
        BY DEF Complement, Mask
    <2> HIDE DEF w
    <2> QED BY <2>1, <2>2
<1> QED BY <1>2, <1>3

\* A quotient of a word is a word, and small if the divisor is large.
LEMMA ShiftFacts ==
    ASSUME NEW x \in Word, NEW k \in 0 .. Width - 1
    PROVE  /\ ShiftLeft(x, k) \in Word /\ ShiftRight(x, k) \in Word
           /\ ShiftSigned(x, k) \in Word
<1> DEFINE p == Pow2[k]
           e == Pow2[Width - k]
           w == Field(4)
           q == x \div p
<1>1. k \in Nat /\ Width - k \in Nat /\ Width = k + (Width - k)
    BY SizeFacts
<1>2. p \in Nat \ {0} /\ e \in Nat \ {0} /\ w = p * e /\ w \in Nat \ {0} /\ Word = 0 .. w - 1
    <2>1. Pow2[k + (Width - k)] = p * e
        BY <1>1, Pow2Sum
    <2> QED BY <1>1, <2>1, Pow2Type, SizeFacts, FieldFacts
<1>3. x \in Int
    BY WordIsNat
<1>4. PICK r \in 0 .. p - 1 : x = p * q + r /\ q \in Int
    <2> HIDE DEF p
    <2> QED BY <1>2, <1>3, Division
<1>5. ShiftLeft(x, k) \in Word
    <2>1. x * p \in Int
        BY <1>2, <1>3
    <2> QED BY <2>1, WordModulo DEF ShiftLeft
<1>6. Width = 4 * Bits
    BY DEF Width
<1>7. ShiftRight(x, k) = q /\ ShiftSigned(x, k) \in {q, q + w - e}
    BY <1>6, Zenon DEF ShiftRight, ShiftSigned
<1> HIDE DEF p, e, w, q
<1>8. q \in Int /\ 0 <= q /\ q < e
    <2>1. ~ (q < 0)
        <3> SUFFICES ASSUME q <= -1 PROVE FALSE
            BY <1>4
        <3>1. p * q <= -p
            BY <1>2, <1>4
        <3> QED BY <1>2, <1>4, <3>1
    <2>2. ~ (q >= e)
        <3> SUFFICES ASSUME q >= e PROVE FALSE
            OBVIOUS
        <3>1. p * q >= p * e
            BY <1>2, <1>4
        <3> QED BY <1>2, <1>4, <3>1
    <2> QED BY <1>2, <1>4, <2>1, <2>2
<1>9. e <= w
    BY <1>2
<1> QED BY <1>2, <1>5, <1>7, <1>8, <1>9

---------------------------------------------------------------------------
(* The bytes of a word. *)

Digits(x, h0, h1, h2, h3) == x = h0 * Field(3) + h1 * Field(2) + h2 * Field(1) + h3

\* The four bytes of a word are found by dividing.
LEMMA DigitFacts ==
    ASSUME NEW h0 \in Byte, NEW h1 \in Byte, NEW h2 \in Byte, NEW h3 \in Byte,
           NEW x, Digits(x, h0, h1, h2, h3)
    PROVE  /\ x \in Word /\ h0 * Field(1) + h1 \in Nat /\ h2 * Field(1) + h3 \in Nat
           /\ x \div Field(3) = h0 /\ (x \div Field(2)) % Field(1) = h1
           /\ (x \div Field(1)) % Field(1) = h2 /\ x % Field(1) = h3
           /\ x \div Field(2) = h0 * Field(1) + h1 /\ x % Field(2) = h2 * Field(1) + h3
           /\ x % Field(3) = h1 * Field(2) + h2 * Field(1) + h3
<1> DEFINE b == Field(1)
           c == Field(2)
           d == Field(3)
           w == Field(4)
           u == h0 * b + h1
           v == u * b + h2
           s == h2 * b + h3
           t == h1 * c + s
<1>1. Sizes(b, c, d, w) /\ Byte = 0 .. b - 1 /\ Word = 0 .. w - 1
    BY FieldFacts
<1>2. x = h0 * d + h1 * c + h2 * b + h3
    BY DEF Digits
<1> HIDE DEF b, c, d, w
<1>3. /\ b \in Nat \ {0} /\ c \in Nat \ {0} /\ d \in Nat \ {0} /\ w \in Nat \ {0}
      /\ c = b * b /\ d = c * b /\ w = d * b
    <2>1. b \in Nat /\ b >= 2 /\ c = b * b /\ d = c * b /\ w = d * b
        BY <1>1 DEF Sizes
    <2>2. c \in Nat /\ c >= b
        BY <2>1
    <2>3. d \in Nat /\ d >= c
        BY <2>1, <2>2
    <2>4. w \in Nat /\ w >= d
        BY <2>1, <2>2, <2>3
    <2> QED BY <2>1, <2>2, <2>3, <2>4
<1>4. h0 \in 0 .. b - 1 /\ h1 \in 0 .. b - 1 /\ h2 \in 0 .. b - 1 /\ h3 \in 0 .. b - 1
    BY <1>1
\* a multiple of m, below m * n, and a rest below m
<1>5. ASSUME NEW m \in Nat \ {0}, NEW n \in Nat \ {0}, NEW g \in 0 .. n - 1, NEW r \in 0 .. m - 1
      PROVE  g * m + r \in 0 .. m * n - 1
    <2>1. g * m \in Nat /\ g * m <= (n - 1) * m
        BY <1>5
    <2>2. (n - 1) * m = m * n - m
        BY <1>5
    <2> DEFINE y == g * m
               z == m * n
    <2>3. y \in Nat /\ y <= z - m /\ z \in Nat
        BY <1>5, <2>1, <2>2
    <2> HIDE DEF y, z
    <2>4. y + r \in 0 .. z - 1
        BY <2>3
    <2> QED BY <2>4 DEF y, z
<1>6. u \in 0 .. c - 1 /\ s \in 0 .. c - 1
    BY <1>3, <1>4, <1>5
<1>7. t \in 0 .. d - 1
    <2> HIDE DEF s
    <2> QED BY <1>3, <1>4, <1>5, <1>6
<1>8. x = h0 * d + t /\ x = u * c + s /\ x = v * b + h3
    <2>1. h0 * d = h0 * b * c /\ h0 * d = h0 * b * b * b /\ h1 * c = h1 * b * b
        BY <1>3, <1>4
    <2>2. u * c = h0 * b * c + h1 * c
        BY <1>3, <1>4
    <2>3. v * b = h0 * b * b * b + h1 * b * b + h2 * b
        BY <1>3, <1>4
    <2> DEFINE k0 == h0 * d
               k1 == h1 * c
               k2 == h2 * b
    <2>4. /\ k0 \in Int /\ k1 \in Int /\ k2 \in Int /\ x = k0 + k1 + k2 + h3 /\ t = k1 + (k2 + h3)
          /\ s = k2 + h3 /\ u * c = k0 + k1 /\ v * b = k0 + k1 + k2
        BY <1>2, <1>3, <1>4, <2>1, <2>2, <2>3
    <2> HIDE DEF k0, k1, k2, t, s, u, v
    <2>5. x = k0 + t /\ x = u * c + s /\ x = v * b + h3
        BY <1>4, <2>4
    <2> QED BY <2>5 DEF k0
<1>9. v \in Int /\ u \in Int /\ s \in Int /\ t \in Int /\ x \in Int
    <2>1. u \in Int /\ s \in Int /\ t \in Int
        BY <1>3, <1>6, <1>7
    <2> HIDE DEF u, s, t
    <2> QED BY <1>3, <1>4, <1>8, <2>1
<1>10. x \in Word
    <2>1. h0 * d + t \in 0 .. d * b - 1
        <3> HIDE DEF t
        <3> QED BY <1>3, <1>4, <1>5, <1>7
    <2> QED BY <1>1, <1>3, <1>8, <2>1, Zenon
<1> DEFINE uu == u
           vv == v
           ss == s
           tt == t
<1>11. /\ uu \in Int /\ vv \in Int /\ ss \in 0 .. c - 1 /\ tt \in 0 .. d - 1 /\ uu \in 0 .. c - 1
       /\ x = d * h0 + tt /\ x = c * uu + ss /\ x = b * vv + h3
       /\ uu = b * h0 + h1 /\ vv = b * uu + h2 /\ x \in Int /\ h0 \in Int
    BY <1>3, <1>4, <1>6, <1>7, <1>8, <1>9
<1>12. uu = h0 * b + h1 /\ ss = h2 * b + h3 /\ tt = h1 * c + ss
    OBVIOUS
<1> HIDE DEF uu, vv, ss, tt
<1>13. x \div d = h0 /\ x % d = tt
    <2>1. d \in Nat \ {0} /\ h0 \in Int /\ tt \in 0 .. d - 1 /\ x \in Int /\ x = d * h0 + tt
        BY <1>3, <1>11
    <2> QED BY <2>1, DivisionOnce, ZenonT(60)
<1>14. x \div c = uu /\ x % c = ss
    <2>1. c \in Nat \ {0} /\ uu \in Int /\ ss \in 0 .. c - 1 /\ x \in Int /\ x = c * uu + ss
        BY <1>3, <1>11
    <2> QED BY <2>1, DivisionOnce, ZenonT(60)
<1>15. x \div b = vv /\ x % b = h3
    <2>1. b \in Nat \ {0} /\ vv \in Int /\ h3 \in 0 .. b - 1 /\ x \in Int /\ x = b * vv + h3
        BY <1>3, <1>4, <1>11
    <2> QED BY <2>1, DivisionOnce, ZenonT(60)
<1>16. uu % b = h1 /\ vv % b = h2
    <2>1. b \in Nat \ {0} /\ uu \in Int /\ vv \in Int /\ h0 \in Int
          /\ h1 \in 0 .. b - 1 /\ h2 \in 0 .. b - 1 /\ uu = b * h0 + h1 /\ vv = b * uu + h2
        BY <1>3, <1>4, <1>11
    <2>2. uu % b = h1
        BY <2>1, DivisionOnce, ZenonT(60)
    <2>3. vv % b = h2
        BY <2>1, DivisionOnce, ZenonT(60)
    <2> QED BY <2>2, <2>3
<1>17. uu \in Nat /\ ss \in Nat
    BY <1>3, <1>11
<1>18. tt = h1 * c + h2 * b + h3
    BY <1>12, <1>3, <1>4
<1> USE <1>10, <1>12, <1>13, <1>14, <1>15, <1>16, <1>17, <1>18
<1> QED BY Zenon DEF b, c, d

\* And every word has four bytes.
LEMMA DigitsExist ==
    ASSUME NEW x \in Word
    PROVE  \E h0, h1, h2, h3 \in Byte : Digits(x, h0, h1, h2, h3)
<1> DEFINE b == Field(1)
           c == Field(2)
           d == Field(3)
           w == Field(4)
           v == x \div b
           h3 == x % b
           u == v \div b
           h2 == v % b
           h0 == u \div b
           h1 == u % b
<1>1. Sizes(b, c, d, w) /\ Byte = 0 .. b - 1 /\ Word = 0 .. w - 1
    BY FieldFacts
<1> HIDE DEF b, c, d, w
<1>2. b \in Nat \ {0} /\ b \in Nat /\ c = b * b /\ d = c * b /\ w = d * b /\ x \in 0 .. w - 1
    BY <1>1 DEF Sizes
<1>3. x \in Int
    BY WordIsNat
<1>4. v \in Int /\ h3 \in 0 .. b - 1 /\ x = b * v + h3
    BY <1>2, <1>3, Division
<1> HIDE DEF v, h3
<1>5. u \in Int /\ h2 \in 0 .. b - 1 /\ v = b * u + h2
    BY <1>2, <1>4, Division
<1> HIDE DEF u, h2
<1>6. h0 \in Int /\ h1 \in 0 .. b - 1 /\ u = b * h0 + h1
    BY <1>2, <1>5, Division
<1> HIDE DEF h0, h1
<1>7. ASSUME NEW y \in Int, NEW z \in Int, NEW r \in 0 .. b - 1, y = b * z + r, NEW m \in Nat,
             0 <= y, y < m * b
      PROVE  0 <= z /\ z < m
    <2>1. ~ (z <= -1)
        <3> SUFFICES ASSUME z <= -1 PROVE FALSE
            OBVIOUS
        <3>1. b * z <= -b
            BY <1>2, <1>7
        <3> QED BY <1>2, <1>7, <3>1
    <2>2. ~ (z >= m)
        <3> SUFFICES ASSUME z >= m PROVE FALSE
            OBVIOUS
        <3>1. b * z >= m * b
            BY <1>2, <1>7
        <3> DEFINE bz == b * z
                   mb == m * b
        <3>2. bz \in Int /\ mb \in Int /\ bz >= mb /\ y = bz + r /\ y < mb
            BY <1>2, <1>7, <3>1
        <3> HIDE DEF bz, mb
        <3> QED BY <1>2, <1>7, <3>2
    <2> QED BY <1>7, <2>1, <2>2
<1>8. c \in Nat /\ d \in Nat /\ w \in Nat
    <2>1. c \in Nat
        BY <1>2
    <2>2. d \in Nat
        BY <1>2, <2>1
    <2> QED BY <1>2, <2>1, <2>2
<1>9. 0 <= v /\ v < d
    <2>1. 0 <= x /\ x < d * b
        BY <1>2, <1>8
    <2> QED BY <1>3, <1>4, <1>7, <1>8, <2>1
<1>10. 0 <= u /\ u < c
    <2>1. v < c * b
        BY <1>2, <1>9
    <2> QED BY <1>4, <1>5, <1>7, <1>8, <1>9, <2>1
<1>11. 0 <= h0 /\ h0 < b
    <2>1. u < b * b
        BY <1>2, <1>10
    <2> QED BY <1>2, <1>5, <1>6, <1>7, <1>10, <2>1
<1>12. h0 \in 0 .. b - 1
    BY <1>2, <1>6, <1>11
<1>13. x = h0 * d + h1 * c + h2 * b + h3
    <2>1. v = b * b * h0 + b * h1 + h2
        BY <1>2, <1>5, <1>6
    <2>2. b * v = b * b * b * h0 + b * b * h1 + b * h2
        BY <1>2, <1>5, <1>6, <2>1
    <2>3. h0 * d = b * b * b * h0 /\ h1 * c = b * b * h1 /\ h2 * b = b * h2
        BY <1>2, <1>5, <1>6
    <2> QED BY <1>4, <2>2, <2>3
<1>14. Digits(x, h0, h1, h2, h3)
    BY <1>13 DEF Digits, b, c, d
<1> QED BY <1>1, <1>4, <1>5, <1>6, <1>12, <1>14

---------------------------------------------------------------------------
(* Memory. *)

Memories == [0 .. Last -> Byte]
Machine == [mem : Memories, regs : [Regs -> Word]]

\* f sums up the bytes read.
Loads(f, mem, n, a) ==
    /\ LoadBytes(mem, n, a) = f[n]
    /\ f = [i \in 0 .. n |-> IF i = 0 THEN 0
                             ELSE f[i - 1] + mem[a + i - 1] * Field(Position(n, i - 1))]

LEMMA LoadUnfolds ==
    ASSUME NEW mem, NEW a, NEW n \in 0 .. 4
    PROVE  \E f : Loads(f, mem, n, a)
<1> DEFINE t(i) == mem[a + i - 1] * Field(Position(n, i - 1))
           Is(f) == f = [i \in 0 .. n |-> IF i = 0 THEN 0 ELSE f[i - 1] + t(i)]
           F == [i \in 0 .. n |-> IF i = 0 THEN 0
                                  ELSE IF i = 1 THEN 0 + t(1)
                                  ELSE IF i = 2 THEN (0 + t(1)) + t(2)
                                  ELSE IF i = 3 THEN ((0 + t(1)) + t(2)) + t(3)
                                  ELSE (((0 + t(1)) + t(2)) + t(3)) + t(4)]
           L == CHOOSE f : Is(f)
<1>1. Is(F)
    <2> HIDE DEF t
    <2>1. ASSUME NEW i \in 0 .. n, i # 0
          PROVE  F[i] = F[i - 1] + t(i)
        <3>1. i \in {1, 2, 3, 4} /\ i - 1 \in 0 .. n
            BY <2>1
        <3>2. CASE i = 1
            BY <3>1, <3>2
        <3>3. CASE i = 2
            BY <3>1, <3>3
        <3>4. CASE i = 3
            BY <3>1, <3>4
        <3>5. CASE i = 4
            BY <3>1, <3>5
        <3> QED BY <3>1, <3>2, <3>3, <3>4, <3>5
    <2>2. F = [i \in 0 .. n |-> F[i]] /\ (0 \in 0 .. n => F[0] = 0)
        OBVIOUS
    <2> HIDE DEF F
    <2>3. \A i \in 0 .. n : F[i] = IF i = 0 THEN 0 ELSE F[i - 1] + t(i)
        BY <2>1, <2>2
    <2> QED BY <2>2, <2>3, Zenon
<1> HIDE DEF F
<1>2. Is(L)
    <2> HIDE DEF Is
    <2> QED BY <1>1, Zenon
<1>3. LoadBytes(mem, n, a) = L[n]
    BY Zenon DEF LoadBytes
<1> HIDE DEF L
<1>4. Loads(L, mem, n, a)
    BY <1>2, <1>3 DEF Loads
<1> QED BY <1>4

\* Numbers in memory, byte by byte, the first one the highest.
LEMMA LoadFacts ==
    ASSUME NEW mem \in Memories, NEW a \in Addr
    PROVE  /\ LoadBytes(mem, 1, a) = mem[a]
           /\ LoadBytes(mem, 2, a) = mem[a] * Field(1) + mem[a + 1]
           /\ LoadBytes(mem, 4, a) = WordAt(mem, a)
<1> DEFINE h0 == mem[a]
           h1 == mem[a + 1]
           h2 == mem[a + 2]
           h3 == mem[a + 3]
<1>1. a \in Int /\ a \in 0 .. Last /\ a + 1 \in 0 .. Last /\ a + 2 \in 0 .. Last /\ a + 3 \in 0 .. Last
    BY MachineAssumption DEF Addr
<1>2. h0 \in Int /\ h1 \in Int /\ h2 \in Int /\ h3 \in Int
    <2>1. h0 \in Byte /\ h1 \in Byte /\ h2 \in Byte /\ h3 \in Byte
        BY <1>1 DEF Memories
    <2>2. Byte \subseteq Int
        BY FieldFacts, SizeFacts
    <2> QED BY <2>1, <2>2
<1>3. a + 1 - 1 = a /\ a + 2 - 1 = a + 1 /\ a + 3 - 1 = a + 2 /\ a + 4 - 1 = a + 3
    BY <1>1
<1>4. Field(0) = 1 /\ Field(1) \in Int /\ Field(2) \in Int /\ Field(3) \in Int
    BY FieldFacts, SizeFacts
<1>5. LoadBytes(mem, 1, a) = h0
    <2>0. 1 \in 0 .. 4
        OBVIOUS
    <2>1. PICK f : Loads(f, mem, 1, a)
        BY <2>0, LoadUnfolds, Zenon
    <2>2. f[0] = 0 /\ f[1] = f[0] + mem[a + 1 - 1] * Field(Position(1, 0))
        BY <2>1 DEF Loads
    <2>3. Position(1, 0) = 0
        BY DEF Position
    <2> QED BY <1>2, <1>3, <1>4, <2>1, <2>2, <2>3 DEF Loads
<1>6. LoadBytes(mem, 2, a) = h0 * Field(1) + h1
    <2>0. 2 \in 0 .. 4
        OBVIOUS
    <2>1. PICK f : Loads(f, mem, 2, a)
        BY <2>0, LoadUnfolds, Zenon
    <2>2. /\ f[0] = 0 /\ f[1] = f[0] + mem[a + 1 - 1] * Field(Position(2, 0))
          /\ f[2] = f[1] + mem[a + 2 - 1] * Field(Position(2, 1))
        BY <2>1 DEF Loads
    <2>3. Position(2, 0) = 1 /\ Position(2, 1) = 0
        BY DEF Position
    <2> QED BY <1>2, <1>3, <1>4, <2>1, <2>2, <2>3 DEF Loads
<1>7. LoadBytes(mem, 4, a) = h0 * Field(3) + h1 * Field(2) + h2 * Field(1) + h3
    <2>0. 4 \in 0 .. 4
        OBVIOUS
    <2>1. PICK f : Loads(f, mem, 4, a)
        BY <2>0, LoadUnfolds, Zenon
    <2>2. /\ f[0] = 0 /\ f[1] = f[0] + mem[a + 1 - 1] * Field(Position(4, 0))
          /\ f[2] = f[1] + mem[a + 2 - 1] * Field(Position(4, 1))
          /\ f[3] = f[2] + mem[a + 3 - 1] * Field(Position(4, 2))
          /\ f[4] = f[3] + mem[a + 4 - 1] * Field(Position(4, 3))
        BY <2>1 DEF Loads
    <2>3. Position(4, 0) = 3 /\ Position(4, 1) = 2 /\ Position(4, 2) = 1 /\ Position(4, 3) = 0
        BY DEF Position
    <2> QED BY <1>2, <1>3, <1>4, <2>1, <2>2, <2>3 DEF Loads
<1> QED BY <1>5, <1>6, <1>7 DEF WordAt

LEMMA BytesAt ==
    ASSUME NEW mem \in Memories, NEW a \in Addr
    PROVE  /\ mem[a] \in Byte /\ mem[a + 1] \in Byte /\ mem[a + 2] \in Byte /\ mem[a + 3] \in Byte
           /\ Digits(WordAt(mem, a), mem[a], mem[a + 1], mem[a + 2], mem[a + 3])
           /\ WordAt(mem, a) \in Word
<1>1. a \in Int /\ a \in 0 .. Last /\ a + 1 \in 0 .. Last /\ a + 2 \in 0 .. Last /\ a + 3 \in 0 .. Last
    BY MachineAssumption DEF Addr
<1>2. mem[a] \in Byte /\ mem[a + 1] \in Byte /\ mem[a + 2] \in Byte /\ mem[a + 3] \in Byte
    BY <1>1 DEF Memories
<1>3. Digits(WordAt(mem, a), mem[a], mem[a + 1], mem[a + 2], mem[a + 3])
    BY DEF Digits, WordAt
<1>4. WordAt(mem, a) \in Word
    BY <1>2, <1>3, DigitFacts
<1> QED BY <1>2, <1>3, <1>4

\* The memory with four bytes replaced.
FourBytes(mem, a, h0, h1, h2, h3) ==
    [b \in 0 .. Last |-> IF b = a THEN h0 ELSE IF b = a + 1 THEN h1
                         ELSE IF b = a + 2 THEN h2 ELSE IF b = a + 3 THEN h3 ELSE mem[b]]

\* Writing a word writes its four bytes.
LEMMA WriteWord ==
    ASSUME NEW mem \in Memories, NEW a \in Addr, NEW v,
           NEW h0 \in Byte, NEW h1 \in Byte, NEW h2 \in Byte, NEW h3 \in Byte,
           Digits(v, h0, h1, h2, h3)
    PROVE  /\ WithWord(mem, a, v) = FourBytes(mem, a, h0, h1, h2, h3)
           /\ FourBytes(mem, a, h0, h1, h2, h3) \in Memories
<1>1. a \in Int /\ a \in 0 .. Last /\ a + 1 \in 0 .. Last /\ a + 2 \in 0 .. Last /\ a + 3 \in 0 .. Last
      /\ a # a + 1 /\ a # a + 2 /\ a # a + 3 /\ a + 1 # a + 2 /\ a + 1 # a + 3 /\ a + 2 # a + 3
    BY MachineAssumption DEF Addr
<1>2. /\ v \div Field(3) = h0 /\ (v \div Field(2)) % Field(1) = h1
      /\ (v \div Field(1)) % Field(1) = h2 /\ v % Field(1) = h3
    BY DigitFacts
<1>3. WithWord(mem, a, v) = [mem EXCEPT ![a] = h0, ![a + 1] = h1, ![a + 2] = h2, ![a + 3] = h3]
    BY <1>2, Zenon DEF WithWord
<1>4. DOMAIN mem = 0 .. Last /\ \A b \in 0 .. Last : mem[b] \in Byte
    BY DEF Memories
<1> DEFINE a1 == a + 1
           a2 == a + 2
           a3 == a + 3
           U == 0 .. Last
           f == [mem EXCEPT ![a] = h0, ![a1] = h1, ![a2] = h2, ![a3] = h3]
           g == [b \in U |-> IF b = a THEN h0 ELSE IF b = a1 THEN h1
                         ELSE IF b = a2 THEN h2 ELSE IF b = a3 THEN h3 ELSE mem[b]]
<1>5. /\ a \in U /\ a1 \in U /\ a2 \in U /\ a3 \in U /\ a # a1 /\ a # a2 /\ a # a3
      /\ a1 # a2 /\ a1 # a3 /\ a2 # a3 /\ DOMAIN mem = U /\ mem \in [U -> Byte]
    BY <1>1, <1>4 DEF Memories
<1> HIDE DEF a1, a2, a3, U
<1>6. f = g
    BY <1>5
<1>7. g \in [U -> Byte]
    BY <1>5
<1> HIDE DEF f, g
<1>8. WithWord(mem, a, v) = f
    BY <1>3, Zenon DEF f, a1, a2, a3
<1>9. FourBytes(mem, a, h0, h1, h2, h3) = g
    BY Zenon DEF FourBytes, g, a1, a2, a3, U
<1> QED BY <1>6, <1>7, <1>8, <1>9 DEF U, Memories

\* What the DAG's stores write: the low bytes of the number.
LEMMA StoreFacts ==
    ASSUME NEW mem \in Memories, NEW a \in Addr, NEW v,
           NEW h0 \in Byte, NEW h1 \in Byte, NEW h2 \in Byte, NEW h3 \in Byte,
           Digits(v, h0, h1, h2, h3)
    PROVE  /\ StoreBytes(mem, 4, a, v) = FourBytes(mem, a, h0, h1, h2, h3)
           /\ StoreBytes(mem, 2, a, v) = FourBytes(mem, a, h2, h3, mem[a + 2], mem[a + 3])
           /\ StoreBytes(mem, 1, a, v) = FourBytes(mem, a, h3, mem[a + 1], mem[a + 2], mem[a + 3])
<1>1. a \in Int /\ DOMAIN mem = 0 .. Last /\ \A b \in 0 .. Last : b \in Int
    BY MachineAssumption DEF Addr, Memories
<1> DEFINE P(n, i) == (v \div Field(Position(n, i))) % Field(1)
<1>2. /\ P(4, 0) = h0 /\ P(4, 1) = h1 /\ P(4, 2) = h2 /\ P(4, 3) = h3
      /\ P(2, 0) = h2 /\ P(2, 1) = h3 /\ P(1, 0) = h3
    <2>1. /\ Position(4, 0) = 3 /\ Position(4, 1) = 2 /\ Position(4, 2) = 1 /\ Position(4, 3) = 0
          /\ Position(2, 0) = 1 /\ Position(2, 1) = 0 /\ Position(1, 0) = 0
        BY DEF Position
    <2>2. /\ v \div Field(3) = h0 /\ (v \div Field(2)) % Field(1) = h1 /\ v \in Word
          /\ (v \div Field(1)) % Field(1) = h2 /\ v % Field(1) = h3
        BY DigitFacts
    <2>3. (v \div Field(0)) % Field(1) = h3
        <3>1. v \div 1 = v /\ Field(0) = 1
            BY <2>2, WordIsNat, FieldFacts
        <3> QED BY <2>2, <3>1
    <2>4. (v \div Field(3)) % Field(1) = h0
        <3> DEFINE b == Field(1)
        <3>1. h0 \in 0 .. b - 1 /\ b \in Nat \ {0} /\ 0 \in Int /\ h0 \in Int
            BY FieldFacts, SizeFacts
        <3> HIDE DEF b
        <3>2. h0 = b * 0 + h0
            BY <3>1
        <3>3. h0 % b = h0
            BY <3>1, <3>2, DivisionOnce
        <3> QED BY <2>2, <3>3 DEF b
    <2> QED BY <2>1, <2>2, <2>3, <2>4, Zenon
<1>3. /\ StoreBytes(mem, 4, a, v) =
            [b \in 0 .. Last |-> IF b \in a .. a + 4 - 1 THEN P(4, b - a) ELSE mem[b]]
      /\ StoreBytes(mem, 2, a, v) =
            [b \in 0 .. Last |-> IF b \in a .. a + 2 - 1 THEN P(2, b - a) ELSE mem[b]]
      /\ StoreBytes(mem, 1, a, v) =
            [b \in 0 .. Last |-> IF b \in a .. a + 1 - 1 THEN P(1, b - a) ELSE mem[b]]
    BY <1>1 DEF StoreBytes
<1> HIDE DEF P
<1>4. StoreBytes(mem, 4, a, v) = FourBytes(mem, a, h0, h1, h2, h3)
    <2>1. \A b \in 0 .. Last :
             (IF b \in a .. a + 4 - 1 THEN P(4, b - a) ELSE mem[b])
             = IF b = a THEN h0 ELSE IF b = a + 1 THEN h1
               ELSE IF b = a + 2 THEN h2 ELSE IF b = a + 3 THEN h3 ELSE mem[b]
        BY <1>1, <1>2
    <2> QED BY <1>3, <2>1 DEF FourBytes
<1>5. StoreBytes(mem, 2, a, v) = FourBytes(mem, a, h2, h3, mem[a + 2], mem[a + 3])
    <2>1. \A b \in 0 .. Last :
             (IF b \in a .. a + 2 - 1 THEN P(2, b - a) ELSE mem[b])
             = IF b = a THEN h2 ELSE IF b = a + 1 THEN h3
               ELSE IF b = a + 2 THEN mem[a + 2] ELSE IF b = a + 3 THEN mem[a + 3] ELSE mem[b]
        BY <1>1, <1>2
    <2> QED BY <1>3, <2>1 DEF FourBytes
<1>6. StoreBytes(mem, 1, a, v) = FourBytes(mem, a, h3, mem[a + 1], mem[a + 2], mem[a + 3])
    <2>1. \A b \in 0 .. Last :
             (IF b \in a .. a + 1 - 1 THEN P(1, b - a) ELSE mem[b])
             = IF b = a THEN h3 ELSE IF b = a + 1 THEN mem[a + 1]
               ELSE IF b = a + 2 THEN mem[a + 2] ELSE IF b = a + 3 THEN mem[a + 3] ELSE mem[b]
        BY <1>1, <1>2
    <2> QED BY <1>3, <2>1 DEF FourBytes
<1> QED BY <1>4, <1>5, <1>6

---------------------------------------------------------------------------
(* Bytes and half words at the top of a word. *)

\* A word of w numbers is a part of g numbers above one of f, k bits wide.
Split(f, g, w, k) ==
    /\ f \in Nat \ {0} /\ g \in Nat \ {0} /\ w \in Nat \ {0} /\ w = g * f
    /\ k \in 0 .. Width - 1 /\ f = Pow2[k] /\ Pow2[4 * Bits - k] = g
    /\ Word = 0 .. w - 1 /\ \E e \in Nat : g = 2 * e

LEMMA SplitFacts ==
    ASSUME NEW n \in {1, 2}
    PROVE  Split(Field(4 - n), Field(n), Field(4), (4 - n) * Bits)
<1> DEFINE f == Field(4 - n)
           g == Field(n)
           w == Field(4)
           k == (4 - n) * Bits
<1>1. /\ n \in Nat /\ 4 - n \in Nat /\ n + (4 - n) = 4 /\ n * Bits \in Nat
      /\ Bits \in Nat \ {0}
    <2>1. n \in Nat /\ 4 - n \in Nat /\ n + (4 - n) = 4
        OBVIOUS
    <2> QED BY <2>1, SizeFacts
<1>2. k \in 0 .. Width - 1 /\ 4 * Bits - k = n * Bits /\ k \in Nat
    <2>1. CASE n = 1
        <3>1. k = 3 * Bits /\ Width = 4 * Bits /\ n * Bits = 1 * Bits
            BY <2>1, SizeFacts
        <3> HIDE DEF k
        <3> QED BY <1>1, <3>1
    <2>2. CASE n = 2
        <3>1. k = 2 * Bits /\ Width = 4 * Bits /\ n * Bits = 2 * Bits
            BY <2>2, SizeFacts
        <3> HIDE DEF k
        <3> QED BY <1>1, <3>1
    <2> QED BY <2>1, <2>2
<1>3. f \in Nat \ {0} /\ g \in Nat \ {0} /\ w \in Nat \ {0} /\ Word = 0 .. w - 1
    BY <1>1, SizeFacts, FieldFacts
<1>4. w = g * f
    <2>1. Field(n + (4 - n)) = g * f
        BY <1>1, FieldProduct
    <2> QED BY <1>1, <2>1
<1>5. f = Pow2[k] /\ Pow2[4 * Bits - k] = g
    BY <1>2, Zenon DEF Field
<1>6. \E e \in Nat : g = 2 * e
    <2> DEFINE j == n * Bits - 1
    <2>1. j \in Nat /\ n * Bits = j + 1
        <3>1. n * Bits = 1 * Bits \/ n * Bits = 2 * Bits
            OBVIOUS
        <3> DEFINE nb == n * Bits
        <3>2. nb = 1 * Bits \/ nb = 2 * Bits
            BY <3>1
        <3> HIDE DEF nb
        <3>3. nb - 1 \in Nat /\ nb = (nb - 1) + 1
            BY <1>1, <3>2
        <3> QED BY <3>3 DEF nb
    <2> HIDE DEF j
    <2>2. Pow2[j + 1] = 2 * Pow2[j] /\ Pow2[j] \in Nat
        BY <2>1, Pow2Facts, Pow2Type
    <2> QED BY <2>1, <2>2 DEF Field
<1> QED BY <1>2, <1>3, <1>4, <1>5, <1>6, Zenon DEF Split

\* The top of a word, shifted down, is the number there with its sign.
LEMMA SignedTop ==
    ASSUME NEW n \in {1, 2}, NEW x \in Word
    PROVE  /\ x \div Field(4 - n) \in 0 .. Field(n) - 1
           /\ ShiftSigned(x, (4 - n) * Bits) = Extended(n, x \div Field(4 - n))
<1> DEFINE f == Field(4 - n)
           g == Field(n)
           w == Field(4)
           k == (4 - n) * Bits
           q == x \div f
           r == x % f
<1>1. Split(f, g, w, k)
    BY SplitFacts
<1>2. ShiftSigned(x, k) = (IF 2 * x >= w THEN x \div Pow2[k] + w - Pow2[4 * Bits - k]
                                          ELSE x \div Pow2[k])
    BY Zenon DEF ShiftSigned, ShiftRight
<1>3. Extended(n, q) = IF 2 * q >= g THEN q + w - g ELSE q
    BY Zenon DEF Extended
<1> HIDE DEF f, g, w, k
<1>4. /\ f \in Nat \ {0} /\ g \in Nat \ {0} /\ w \in Nat \ {0} /\ w = g * f
      /\ f = Pow2[k] /\ Pow2[4 * Bits - k] = g /\ x \in 0 .. w - 1 /\ x \in Int
    BY <1>1 DEF Split
<1>5. q \in Int /\ r \in 0 .. f - 1 /\ x = f * q + r
    BY <1>4, Division
<1>6. ShiftSigned(x, k) = IF 2 * x >= w THEN q + w - g ELSE q
    BY <1>2, <1>4, Zenon
<1> HIDE DEF q, r
<1>7. q \in 0 .. g - 1
    <2>1. ~ (q <= -1)
        <3> SUFFICES ASSUME q <= -1 PROVE FALSE
            OBVIOUS
        <3>1. f * q <= -f
            BY <1>4, <1>5
        <3> QED BY <1>4, <1>5, <3>1
    <2>2. ~ (q >= g)
        <3> SUFFICES ASSUME q >= g PROVE FALSE
            OBVIOUS
        <3>1. f * q >= g * f
            BY <1>4, <1>5
        <3> DEFINE fq == f * q
        <3>2. fq \in Int /\ fq >= w /\ x = fq + r
            BY <1>4, <1>5, <3>1
        <3> HIDE DEF fq
        <3> QED BY <1>4, <1>5, <3>2
    <2> QED BY <1>4, <1>5, <2>1, <2>2
<1>8. 2 * x >= w <=> 2 * q >= g
    <2>1. PICK e \in Nat : g = 2 * e
        BY <1>1 DEF Split
    <2>2. w = 2 * (e * f)
        BY <1>4, <2>1
    <2>3. q >= e => f * q >= e * f
        BY <1>4, <1>5, <2>1
    <2>4. q <= e - 1 => f * q <= e * f - f
        <3> SUFFICES ASSUME q <= e - 1 PROVE f * q <= e * f - f
            OBVIOUS
        <3>1. f * q <= f * (e - 1)
            BY <1>4, <1>5, <2>1
        <3>2. f * (e - 1) = e * f - f
            BY <1>4, <2>1
        <3> QED BY <3>1, <3>2
    <2> DEFINE fq == f * q
               ef == e * f
    <2>5. /\ fq \in Int /\ ef \in Int /\ x = fq + r /\ w = 2 * ef
          /\ (q >= e => fq >= ef) /\ (q <= e - 1 => fq <= ef - f)
        BY <1>4, <1>5, <2>1, <2>2, <2>3, <2>4
    <2> HIDE DEF fq, ef
    <2>6. CASE q >= e
        BY <1>4, <1>5, <2>1, <2>5, <2>6
    <2>7. CASE ~ (q >= e)
        BY <1>4, <1>5, <2>1, <2>5, <2>7
    <2> QED BY <2>6, <2>7
<1>9. ShiftSigned(x, k) = Extended(n, q)
    BY <1>3, <1>6, <1>8, Zenon
<1> QED BY <1>7, <1>9, Zenon DEF f, g, k, q

\* The sign does not reach the bits of the number.
LEMMA ExtendedFacts ==
    ASSUME NEW n \in {1, 2}, NEW q \in 0 .. Field(n) - 1
    PROVE  Extended(n, q) \in Word /\ Extended(n, q) % Field(n) = q
<1> DEFINE f == Field(4 - n)
           g == Field(n)
           w == Field(4)
           k == (4 - n) * Bits
           x == Extended(n, q)
<1>1. Split(f, g, w, k)
    BY SplitFacts
<1>2. x = q \/ x = q + w - g
    BY Zenon DEF Extended
<1>3. q \in 0 .. g - 1
    OBVIOUS
<1> HIDE DEF f, g, w, k, x
<1>4. /\ f \in Nat \ {0} /\ g \in Nat \ {0} /\ w \in Nat \ {0} /\ w = g * f
      /\ Word = 0 .. w - 1 /\ q \in Int
    BY <1>1, <1>3 DEF Split
<1>5. PICK h \in Int : x = g * h + q
    <2>1. CASE x = q
        <3>1. 0 \in Int /\ q = g * 0 + q
            BY <1>4
        <3> QED BY <2>1, <3>1
    <2>2. CASE x = q + w - g
        <3>1. g * (f - 1) = w - g /\ f - 1 \in Int
            BY <1>4
        <3>2. x = g * (f - 1) + q
            BY <1>4, <2>2, <3>1
        <3> QED BY <3>1, <3>2
    <2> QED BY <1>2, <2>1, <2>2
<1>6. g <= w
    BY <1>4
<1>7. x \in Word /\ x \in Int
    BY <1>2, <1>3, <1>4, <1>6
<1>8. x % g = q
    <2>1. g \in Nat \ {0} /\ h \in Int /\ q \in 0 .. g - 1 /\ x \in Int /\ x = g * h + q
        BY <1>3, <1>4, <1>5, <1>7
    <2> QED BY <2>1, DivisionOnce, ZenonT(60)
<1> QED BY <1>7, <1>8 DEF x, g

\* Shifting a number to the top of a word keeps its low part.
LEMMA ShiftedTop ==
    ASSUME NEW n \in {1, 2}, NEW y \in Word
    PROVE  /\ ShiftLeft(y, (4 - n) * Bits) = (y % Field(n)) * Field(4 - n)
           /\ ShiftLeft(y, (4 - n) * Bits) \in Word
           /\ y % Field(n) \in 0 .. Field(n) - 1
           /\ ((y % Field(n)) * Field(4 - n)) \div Field(4 - n) = y % Field(n)
<1> DEFINE f == Field(4 - n)
           g == Field(n)
           w == Field(4)
           k == (4 - n) * Bits
           q == y \div g
           r == y % g
           z == ShiftLeft(y, k)
<1>1. Split(f, g, w, k)
    BY SplitFacts
<1>2. z = (y * Pow2[k]) % w
    BY Zenon DEF ShiftLeft
<1>3. z \in Word
    <2>1. k \in 0 .. Width - 1
        BY <1>1 DEF Split
    <2> HIDE DEF k
    <2> QED BY <2>1, ShiftFacts
<1> HIDE DEF f, g, w, k, z
<1>4. /\ f \in Nat \ {0} /\ g \in Nat \ {0} /\ w \in Nat \ {0} /\ w = g * f
      /\ f = Pow2[k] /\ Word = 0 .. w - 1 /\ y \in Int
    BY <1>1 DEF Split
<1>5. q \in Int /\ r \in 0 .. g - 1 /\ y = g * q + r
    BY <1>4, Division
<1> HIDE DEF q, r
<1> DEFINE a == y * f
           s == r * f
<1>6. a \in Int /\ s \in Int /\ a = w * q + s /\ s >= 0 /\ s <= (g - 1) * f
    <2>1. a = g * q * f + r * f
        BY <1>4, <1>5
    <2>2. w * q = g * q * f
        BY <1>4, <1>5
    <2>3. r * f >= 0 /\ r * f <= (g - 1) * f
        BY <1>4, <1>5
    <2>4. a \in Int /\ s \in Int
        BY <1>4, <1>5
    <2>5. a = w * q + s
        BY <2>1, <2>2, Zenon
    <2> QED BY <2>3, <2>4, <2>5
<1>7. (g - 1) * f = w - f
    BY <1>4
<1>8. s \in 0 .. w - 1
    <2> DEFINE m == (g - 1) * f
    <2> HIDE DEF s, a
    <2>1. m = w - f /\ s \in Int /\ s >= 0 /\ s <= m
        BY <1>6, <1>7, Zenon DEF m
    <2>2. w \in Int /\ f \in Int /\ f >= 1
        BY <1>4
    <2> HIDE DEF m
    <2> QED BY <2>1, <2>2
<1> HIDE DEF a
<1>9. a % w = s
    <2> HIDE DEF s
    <2>1. w \in Nat \ {0} /\ q \in Int /\ s \in 0 .. w - 1 /\ a \in Int /\ a = w * q + s
        BY <1>4, <1>5, <1>6, <1>8, Zenon
    <2> QED BY <2>1, DivisionOnce, ZenonT(60)
<1>10. s \div f = r
    <2>1. s = f * r + 0 /\ 0 \in 0 .. f - 1 /\ r \in Int
        BY <1>4, <1>5
    <2> HIDE DEF s
    <2> QED BY <1>4, <1>6, <2>1, DivisionOnce
<1>11. z = s
    BY <1>2, <1>4, <1>9, Zenon DEF a
<1> QED BY <1>3, <1>5, <1>10, <1>11, Zenon DEF f, g, k, r, s, z

\* krz8c and krz16c join the low part of a word and a new top.
LEMMA JoinedTop ==
    ASSUME NEW n \in {1, 2}, NEW x \in Word, NEW y \in Word
    PROVE  /\ BitOr(BitAnd(x, Mask(4 - n)), ShiftLeft(y, (4 - n) * Bits))
                 = (x % Field(4 - n)) + (y % Field(n)) * Field(4 - n)
           /\ BitOr(BitAnd(x, Mask(4 - n)), ShiftLeft(y, (4 - n) * Bits)) \in Word
<1> DEFINE f == Field(4 - n)
           g == Field(n)
           w == Field(4)
           k == (4 - n) * Bits
           low == x % f
           h == y % g
           z == ShiftLeft(y, k)
           v == BitAnd(x, Mask(4 - n))
<1>1. Split(f, g, w, k)
    BY SplitFacts
<1>2. h \in 0 .. g - 1 /\ z = h * f
    BY ShiftedTop
<1>3. v = BitAnd(x, f - 1)
    BY Zenon DEF Mask
<1> HIDE DEF f, g, w, k, z, h, v
<1>4. /\ f \in Nat \ {0} /\ g \in Nat \ {0} /\ w \in Nat \ {0} /\ w = g * f
      /\ f = Pow2[k] /\ k \in 0 .. Width - 1 /\ Word = 0 .. w - 1 /\ x \in Int
    BY <1>1 DEF Split
<1>5. k \in 0 .. Width /\ k \in Nat
    BY <1>4, SizeFacts
<1>6. v = x % f
    <2>1. BitAnd(x, Pow2[k] - 1) = x % Pow2[k]
        BY <1>5, AndMask
    <2> QED BY <1>3, <1>4, <2>1, Zenon
<1>7. low \in 0 .. f - 1
    BY <1>4, Division
<1> HIDE DEF low
<1>8. low + h * f \in Word /\ h \in Nat
    <2>1. h * f >= 0 /\ h * f <= (g - 1) * f /\ h * f \in Int
        <3>1. h \in Int /\ h >= 0 /\ h <= g - 1 /\ f \in Int /\ f >= 0 /\ g - 1 \in Int
            BY <1>2, <1>4
        <3> DEFINE m == g - 1
        <3> HIDE DEF m
        <3>2. h * f >= 0 /\ h * f <= m * f /\ h * f \in Int
            BY <3>1 DEF m
        <3> QED BY <3>2 DEF m
    <2>2. (g - 1) * f = w - f
        BY <1>4
    <2> DEFINE hf == h * f
    <2>3. hf \in Int /\ hf >= 0 /\ hf <= w - f
        BY <2>1, <2>2
    <2> HIDE DEF hf
    <2>4. low + hf \in Word
        <3>1. f \in Int /\ w \in Int /\ Word = 0 .. w - 1 /\ low \in Int /\ 0 <= low /\ low < f
            BY <1>4, <1>7
        <3> QED BY <2>3, <3>1
    <2> QED BY <1>2, <2>4 DEF hf
<1>9. BitOr(low, h * f) = low + h * f
    <2>1. low \in 0 .. Pow2[k] - 1 /\ low + h * Pow2[k] \in Word
        BY <1>4, <1>7, <1>8
    <2>2. BitOr(low, h * Pow2[k]) = low + h * Pow2[k]
        BY <1>5, <1>8, <2>1, OrSum
    <2> QED BY <1>4, <2>2, Zenon
<1>10. v = low
    BY <1>6 DEF low
<1>11. BitOr(v, z) = low + h * f
    BY <1>2, <1>9, <1>10, Zenon
<1>12. BitOr(v, z) = low + h * f /\ BitOr(v, z) \in Word
    BY <1>8, <1>11, Zenon
<1> QED BY <1>12, Zenon DEF f, g, k, z, h, v, low

---------------------------------------------------------------------------
(* Instructions, one after the other. *)

\* f has the machine after each instruction of the code.
Runs(f, m, code) ==
    /\ Run(m, code) = f[Len(code)]
    /\ f = [k \in 0 .. Len(code) |-> IF k = 0 THEN m ELSE Step(f[k - 1], code[k])]

LEMMA RunUnfolds ==
    ASSUME NEW m, NEW code, Len(code) \in 0 .. 3
    PROVE  \E f : Runs(f, m, code)
<1> DEFINE n == Len(code)
           t(x, i) == Step(x, code[i])
           Is(f) == f = [k \in 0 .. n |-> IF k = 0 THEN m ELSE t(f[k - 1], k)]
           F == [k \in 0 .. n |-> IF k = 0 THEN m ELSE IF k = 1 THEN t(m, 1)
                                  ELSE IF k = 2 THEN t(t(m, 1), 2) ELSE t(t(t(m, 1), 2), 3)]
           L == CHOOSE f : Is(f)
<1>1. Is(F)
    <2> HIDE DEF t, n
    <2>0. n \in 0 .. 3
        BY DEF n
    <2>1. ASSUME NEW i \in 0 .. n, i # 0
          PROVE  F[i] = t(F[i - 1], i)
        <3>1. i \in {1, 2, 3} /\ i - 1 \in 0 .. n
            BY <2>0, <2>1
        <3>2. CASE i = 1
            BY <3>1, <3>2
        <3>3. CASE i = 2
            BY <3>1, <3>3
        <3>4. CASE i = 3
            BY <3>1, <3>4
        <3> QED BY <3>1, <3>2, <3>3, <3>4
    <2>2. F = [i \in 0 .. n |-> F[i]] /\ (0 \in 0 .. n => F[0] = m)
        OBVIOUS
    <2> HIDE DEF F
    <2>3. \A i \in 0 .. n : F[i] = IF i = 0 THEN m ELSE t(F[i - 1], i)
        BY <2>1, <2>2
    <2> QED BY <2>2, <2>3, Zenon
<1> HIDE DEF F
<1>2. Is(L)
    <2> HIDE DEF Is
    <2> QED BY <1>1, Zenon
<1>3. Run(m, code) = L[n]
    BY Zenon DEF Run
<1> HIDE DEF L
<1>4. Runs(L, m, code)
    BY <1>2, <1>3 DEF Runs
<1> QED BY <1>4

LEMMA RunOne ==
    ASSUME NEW m, NEW i
    PROVE  Run(m, <<i>>) = Step(m, i)
<1> DEFINE code == <<i>>
<1>1. Len(code) = 1 /\ code[1] = i
    OBVIOUS
<1> HIDE DEF code
<1>2. PICK f : Runs(f, m, code)
    <2>1. Len(code) \in 0 .. 3
        BY <1>1
    <2> QED BY <2>1, RunUnfolds, Zenon
<1>3. Run(m, code) = Step(m, i)
    BY <1>1, <1>2 DEF Runs
<1> QED BY <1>3 DEF code

LEMMA RunTwo ==
    ASSUME NEW m, NEW i, NEW j
    PROVE  Run(m, <<i, j>>) = Step(Step(m, i), j)
<1> DEFINE code == <<i, j>>
<1>1. Len(code) = 2 /\ code[1] = i /\ code[2] = j
    OBVIOUS
<1> HIDE DEF code
<1>2. PICK f : Runs(f, m, code)
    <2>1. Len(code) \in 0 .. 3
        BY <1>1
    <2> QED BY <2>1, RunUnfolds, Zenon
<1>3. Run(m, code) = Step(Step(m, i), j)
    BY <1>1, <1>2 DEF Runs
<1> QED BY <1>3 DEF code

LEMMA RunThree ==
    ASSUME NEW m, NEW i, NEW j, NEW k
    PROVE  Run(m, <<i, j, k>>) = Step(Step(Step(m, i), j), k)
<1> DEFINE code == <<i, j, k>>
<1>1. Len(code) = 3 /\ code[1] = i /\ code[2] = j /\ code[3] = k
    OBVIOUS
<1> HIDE DEF code
<1>2. PICK f : Runs(f, m, code)
    <2>1. Len(code) \in 0 .. 3
        BY <1>1
    <2> QED BY <2>1, RunUnfolds, Zenon
<1>3. Run(m, code) = Step(Step(Step(m, i), j), k)
    BY <1>1, <1>2 DEF Runs
<1> QED BY <1>3 DEF code

---------------------------------------------------------------------------
(* Operands. *)

LEMMA InRegisterFacts ==
    ASSUME NEW o \in InRegister
    PROVE  o.in = "reg" /\ o.reg \in Regs /\ o \in Destination
BY DEF InRegister, Register, Destination

LEMMA InMemoryFacts ==
    ASSUME NEW o \in InMemory
    PROVE  o.in = "mem" /\ o.addr \in Addr /\ o \in Destination
BY DEF InMemory, Memory, Destination

LEMMA DestinationFacts ==
    ASSUME NEW o \in Destination
    PROVE  o \in InRegister \/ o \in InMemory
BY DEF InMemory, InRegister, Destination

LEMMA ImmediateFacts ==
    ASSUME NEW m, NEW v
    PROVE  Get(m, Immediate(v)) = v /\ Operand(m, Immediate(v)) = v
<1>1. Immediate(v).in = "imm" /\ Immediate(v).value = v
    BY DEF Immediate
<1> HIDE DEF Immediate
<1> QED BY <1>1 DEF Get, Operand

\* The machine reads what the node reads.
LEMMA OperandFacts ==
    ASSUME NEW m \in Machine, NEW o \in Source
    PROVE  Get(m, o) = Operand(m, o) /\ Operand(m, o) \in Word
<1>1. CASE o \in InRegister
    <2>1. o.in = "reg" /\ o.reg \in Regs
        BY <1>1, InRegisterFacts
    <2>2. m.regs[o.reg] \in Word
        BY <2>1 DEF Machine
    <2> QED BY <2>1, <2>2 DEF Get, Operand
<1>2. CASE o \in InMemory
    <2>1. o.in = "mem" /\ o.addr \in Addr /\ m.mem \in Memories
        BY <1>2, InMemoryFacts DEF Machine
    <2>2. Get(m, o) = WordAt(m.mem, o.addr) /\ Operand(m, o) = LoadBytes(m.mem, 4, o.addr)
        BY <2>1 DEF Get, Operand
    <2>3. LoadBytes(m.mem, 4, o.addr) = WordAt(m.mem, o.addr) /\ WordAt(m.mem, o.addr) \in Word
        BY <2>1, LoadFacts, BytesAt
    <2> QED BY <2>2, <2>3
<1>3. CASE o \in {Immediate(1), Immediate(Mask(4) - 1)}
    <2>1. 1 \in Word /\ Mask(4) - 1 \in Word
        <3> DEFINE w == Field(4)
        <3>1. \E b, d \in Nat : b >= 2 /\ d >= 1 /\ w = b * d
            <4>1. Sizes(Field(1), Field(2), Field(3), w) /\ Field(3) \in Nat \ {0} /\ Field(1) \in Nat
                BY FieldFacts, SizeFacts
            <4> HIDE DEF w
            <4> QED BY <4>1 DEF Sizes
        <3>2. Word = 0 .. w - 1 /\ Mask(4) = w - 1
            BY FieldFacts, Zenon DEF Mask
        <3> HIDE DEF w
        <3>3. w >= 2 /\ w \in Nat
            BY <3>1
        <3> QED BY <3>2, <3>3
    <2> QED BY <1>3, <2>1, ImmediateFacts
<1> QED BY <1>1, <1>2, <1>3 DEF Source, Destination, InRegister, InMemory

WithRegister(m, r, v) == [m EXCEPT !.regs[r] = v]
WithMemory(m, mem) == [m EXCEPT !.mem = mem]

\* The machine writes a word as the node does.
LEMMA PutFacts ==
    ASSUME NEW m \in Machine, NEW o \in Destination, NEW v \in Word
    PROVE  /\ o.in = "reg" => Put(m, o, v) = WithRegister(m, o.reg, v)
           /\ o.in # "reg" => Put(m, o, v) = WithMemory(m, StoreBytes(m.mem, 4, o.addr, v))
           /\ Put(m, o, v) \in Machine
<1>1. CASE o \in InRegister
    <2>1. o.in = "reg" /\ o.reg \in Regs
        BY <1>1, InRegisterFacts
    <2>2. Put(m, o, v) = WithRegister(m, o.reg, v)
        BY <2>1 DEF Put, WithRegister
    <2>3. WithRegister(m, o.reg, v) \in Machine
        BY <2>1 DEF Machine, WithRegister
    <2> QED BY <2>1, <2>2, <2>3
<1>2. CASE o \in InMemory
    <2>1. o.in = "mem" /\ o.addr \in Addr /\ m.mem \in Memories
        BY <1>2, InMemoryFacts DEF Machine
    <2>2. PICK h0, h1, h2, h3 \in Byte : Digits(v, h0, h1, h2, h3)
        BY DigitsExist
    <2>3. /\ WithWord(m.mem, o.addr, v) = StoreBytes(m.mem, 4, o.addr, v)
          /\ WithWord(m.mem, o.addr, v) \in Memories
        BY <2>1, <2>2, WriteWord, StoreFacts
    <2>4. Put(m, o, v) = WithMemory(m, WithWord(m.mem, o.addr, v))
        BY <2>1 DEF Put, WithMemory
    <2>5. \A mem \in Memories : WithMemory(m, mem) \in Machine
        BY DEF Machine, WithMemory
    <2> QED BY <2>1, <2>3, <2>4, <2>5
<1> QED BY <1>1, <1>2, DestinationFacts

LEMMA PutTwice ==
    ASSUME NEW m \in Machine, NEW o \in InRegister, NEW u \in Word, NEW v \in Word
    PROVE  /\ Get(Put(m, o, u), o) = u /\ Put(Put(m, o, u), o, v) = Put(m, o, v)
           /\ Put(m, o, u) \in Machine
<1>1. o.in = "reg" /\ o.reg \in Regs /\ o \in Destination
    BY InRegisterFacts
<1>2. Put(m, o, u) = WithRegister(m, o.reg, u) /\ Put(m, o, v) = WithRegister(m, o.reg, v)
      /\ Put(m, o, u) \in Machine
    BY <1>1, PutFacts
<1>3. Put(Put(m, o, u), o, v) = WithRegister(Put(m, o, u), o.reg, v)
    BY <1>1, <1>2, PutFacts
<1>4. WithRegister(WithRegister(m, o.reg, u), o.reg, v) = WithRegister(m, o.reg, v)
    BY <1>1 DEF WithRegister, Machine
<1>5. WithRegister(m, o.reg, u).regs[o.reg] = u
    BY <1>1 DEF WithRegister, Machine
<1>6. Get(Put(m, o, u), o) = u
    BY <1>1, <1>2, <1>5 DEF Get
<1> QED BY <1>2, <1>3, <1>4, <1>6

\* What a statement of a whole word means, when it is done by one write.
LEMMA WholeWord ==
    ASSUME NEW m \in Machine, NEW s, s.op # "truncstore", s.dst \in Destination,
           NEW v \in NodeValues(m, s), v \in Word
    PROVE  Put(m, s.dst, v) \in Meaning(m, s) /\ Put(m, s.dst, v) \in Machine
<1> DEFINE N == NodeValues(m, s)
           R(x) == IF s.dst.in = "reg" THEN WithRegister(m, s.dst.reg, x)
                   ELSE WithMemory(m, StoreBytes(m.mem, 4, s.dst.addr, x))
<1>1. Meaning(m, s) = {R(x) : x \in N}
    BY Zenon DEF Meaning, WithRegister, WithMemory
<1>2. Put(m, s.dst, v) = R(v) /\ Put(m, s.dst, v) \in Machine
    BY PutFacts
<1> HIDE DEF R, N
<1>3. v \in N
    BY DEF N
<1> QED BY <1>1, <1>2, <1>3

---------------------------------------------------------------------------
(* Statements. *)

LEMMA ComputeFacts ==
    \A x, y :
        /\ Compute("krz", x, y) = y
        /\ Compute("krz8i", x, y) = ShiftSigned(y, 3 * Bits)
        /\ Compute("krz16i", x, y) = ShiftSigned(y, 2 * Bits)
        /\ Compute("krz8c", x, y) = BitOr(BitAnd(x, Mask(3)), ShiftLeft(y, 3 * Bits))
        /\ Compute("krz16c", x, y) = BitOr(BitAnd(x, Mask(2)), ShiftLeft(y, 2 * Bits))
        /\ Compute("nac", x, y) = Complement(x)
        /\ Compute("ata", x, y) = (x + y) % Field(4)
        /\ Compute("nta", x, y) = (x - y) % Field(4)
        /\ Compute("ada", x, y) = BitAnd(x, y)
        /\ Compute("ekc", x, y) = BitOr(x, y)
        /\ Compute("dal", x, y) = Complement(BitXor(x, y))
        /\ Compute("dto", x, y) = ShiftRight(x, y)
        /\ Compute("dro", x, y) = ShiftLeft(x, y)
        /\ Compute("dtosna", x, y) = ShiftSigned(x, y)
<1> TAKE x, y
<1>1. Compute("krz", x, y) = y
    BY DEF Compute
<1>2. Compute("krz8i", x, y) = ShiftSigned(y, 3 * Bits)
    BY DEF Compute, krz8i_node
<1>3. Compute("krz16i", x, y) = ShiftSigned(y, 2 * Bits)
    BY DEF Compute, krz16i_node
<1>4. Compute("krz8c", x, y) = BitOr(BitAnd(x, Mask(3)), ShiftLeft(y, 3 * Bits))
    BY DEF Compute, krz8c_node
<1>5. Compute("krz16c", x, y) = BitOr(BitAnd(x, Mask(2)), ShiftLeft(y, 2 * Bits))
    BY DEF Compute, krz16c_node
<1>6. Compute("nac", x, y) = Complement(x)
    BY DEF Compute
<1>7. Compute("ata", x, y) = (x + y) % Field(4) /\ Compute("nta", x, y) = (x - y) % Field(4)
    BY DEF Compute
<1>8. Compute("ada", x, y) = BitAnd(x, y) /\ Compute("ekc", x, y) = BitOr(x, y)
      /\ Compute("dal", x, y) = Complement(BitXor(x, y))
    BY DEF Compute
<1>9. Compute("dto", x, y) = ShiftRight(x, y) /\ Compute("dro", x, y) = ShiftLeft(x, y)
      /\ Compute("dtosna", x, y) = ShiftSigned(x, y)
    BY DEF Compute
<1> QED BY <1>1, <1>2, <1>3, <1>4, <1>5, <1>6, <1>7, <1>8, <1>9

\* The narrow instructions, by the size they are for.
LEMMA NarrowFacts ==
    ASSUME NEW n \in {1, 2}, NEW x, NEW y
    PROVE  /\ Compute(SextLoad(n), x, y) = ShiftSigned(y, (4 - n) * Bits)
           /\ Compute(TruncStore(n), x, y)
                 = BitOr(BitAnd(x, Mask(4 - n)), ShiftLeft(y, (4 - n) * Bits))
<1>1. CASE n = 1
    <2>1. 4 - n = 3
        BY <1>1
    <2>2. SextLoad(n) = "krz8i" /\ TruncStore(n) = "krz8c"
        BY <1>1 DEF SextLoad, TruncStore
    <2> QED BY <2>1, <2>2, ComputeFacts, Zenon
<1>2. CASE n = 2
    <2>1. 4 - n = 2
        BY <1>2
    <2>2. SextLoad(n) = "krz16i" /\ TruncStore(n) = "krz16c"
        BY <1>2 DEF SextLoad, TruncStore
    <2> QED BY <2>1, <2>2, ComputeFacts, Zenon
<1> QED BY <1>1, <1>2

LEMMA StepFacts ==
    ASSUME NEW m, NEW mnemonic, NEW dst, NEW y
    PROVE  Step(m, Instr(mnemonic, dst, y)) = Put(m, dst, Compute(mnemonic, Get(m, dst), Get(m, y)))
<1> DEFINE i == Instr(mnemonic, dst, y)
<1>1. i.mnemonic = mnemonic /\ i.dst = dst /\ i.y = y
    BY DEF Instr
<1> HIDE DEF i
<1>2. Step(m, i) = Put(m, dst, Compute(mnemonic, Get(m, dst), Get(m, y)))
    BY <1>1, Zenon DEF Step
<1> QED BY <1>2 DEF i

\* The instructions for s do what it says and keep the machine a machine.
Kept(m, s) == Run(m, Selected(s)) \in Meaning(m, s) /\ Run(m, Selected(s)) \in Machine

LEMMA OneInstruction ==
    ASSUME NEW m \in Machine, NEW s, s.op # "truncstore", s.dst \in Destination,
           NEW mnemonic, NEW y, Selected(s) = <<Instr(mnemonic, s.dst, y)>>,
           Compute(mnemonic, Get(m, s.dst), Get(m, y)) \in NodeValues(m, s),
           Compute(mnemonic, Get(m, s.dst), Get(m, y)) \in Word
    PROVE  Kept(m, s)
<1> DEFINE v == Compute(mnemonic, Get(m, s.dst), Get(m, y))
           i == Instr(mnemonic, s.dst, y)
<1>1. Step(m, i) = Put(m, s.dst, v)
    BY StepFacts
<1>2. Put(m, s.dst, v) \in Meaning(m, s) /\ Put(m, s.dst, v) \in Machine
    <2> HIDE DEF v
    <2>1. v \in NodeValues(m, s) /\ v \in Word
        BY DEF v
    <2> QED BY <2>1, WholeWord
<1> HIDE DEF v, i
<1>3. Run(m, <<i>>) = Step(m, i)
    BY RunOne
<1>4. Selected(s) = <<i>>
    BY DEF i
<1>5. Run(m, Selected(s)) = Put(m, s.dst, v)
    BY <1>1, <1>3, <1>4
<1> QED BY <1>2, <1>5 DEF Kept

---------------------------------------------------------------------------
(* Statements of one instruction. *)

LEMMA StatementFacts ==
    ASSUME NEW ops, NEW ns, NEW dsts, NEW ys, NEW s \in Statement(ops, ns, dsts, ys)
    PROVE  s.op \in ops /\ s.n \in ns /\ s.dst \in dsts /\ s.y \in ys
BY DEF Statement

LEMMA DestinationIsSource == Destination \subseteq Source
BY DEF Source

LEMMA MemoryIsSource == InMemory \subseteq Source /\ InRegister \subseteq Source
BY DEF Source, Destination, InMemory, InRegister

LEMMA CopyKept ==
    ASSUME NEW m \in Machine, NEW s \in Statement({"copy"}, {4}, Destination, Source)
    PROVE  Kept(m, s)
<1>1. s.op = "copy" /\ s.dst \in Destination /\ s.y \in Source
    BY StatementFacts
<1>2. Selected(s) = <<Instr("krz", s.dst, s.y)>>
    BY <1>1 DEF Selected
<1>3. NodeValues(m, s) = {Operand(m, s.y)}
    BY <1>1 DEF NodeValues
<1>4. Compute("krz", Get(m, s.dst), Get(m, s.y)) = Operand(m, s.y) /\ Operand(m, s.y) \in Word
    BY <1>1, OperandFacts, ComputeFacts
<1>5. s.op # "truncstore"
    BY <1>1
<1> QED BY <1>1, <1>2, <1>3, <1>4, <1>5, OneInstruction

\* A narrow load finds its number at the top of the word it reads.
LEMMA NarrowLoad ==
    ASSUME NEW m \in Machine, NEW s, s.n \in {1, 2}, s.y \in InMemory
    PROVE  /\ LoadBytes(m.mem, s.n, s.y.addr) \in 0 .. Field(s.n) - 1
           /\ Compute(SextLoad(s.n), Get(m, s.dst), Get(m, s.y))
                 = Extended(s.n, LoadBytes(m.mem, s.n, s.y.addr))
<1> DEFINE q == LoadBytes(m.mem, s.n, s.y.addr)
           x == WordAt(m.mem, s.y.addr)
           v == Compute(SextLoad(s.n), Get(m, s.dst), Get(m, s.y))
<1>1. s.n \in {1, 2}
    OBVIOUS
<1>2. s.y.in = "mem" /\ s.y.addr \in Addr /\ m.mem \in Memories
    BY InMemoryFacts DEF Machine
<1>3. Get(m, s.y) = x /\ x \in Word
    BY <1>2, BytesAt DEF Get
<1>4. x \div Field(4 - s.n) = q
    <2> DEFINE h0 == m.mem[s.y.addr]
               h1 == m.mem[s.y.addr + 1]
    <2>1. x \div Field(3) = h0 /\ x \div Field(2) = h0 * Field(1) + h1
        <3> DEFINE a == s.y.addr
                   mem == m.mem
        <3>1. a \in Addr /\ mem \in Memories
            BY <1>2
        <3> HIDE DEF a, mem
        <3>2. /\ mem[a] \in Byte /\ mem[a + 1] \in Byte /\ mem[a + 2] \in Byte /\ mem[a + 3] \in Byte
              /\ Digits(WordAt(mem, a), mem[a], mem[a + 1], mem[a + 2], mem[a + 3])
            BY <3>1, BytesAt
        <3>3. WordAt(mem, a) \div Field(3) = mem[a]
              /\ WordAt(mem, a) \div Field(2) = mem[a] * Field(1) + mem[a + 1]
            BY <3>2, DigitFacts
        <3> QED BY <3>3, Zenon DEF a, mem
    <2>2. /\ LoadBytes(m.mem, 1, s.y.addr) = h0
          /\ LoadBytes(m.mem, 2, s.y.addr) = h0 * Field(1) + h1
        BY <1>2, LoadFacts
    <2>3. CASE s.n = 1
        <3>1. 4 - s.n = 3
            BY <2>3
        <3> QED BY <2>1, <2>2, <2>3, <3>1, Zenon
    <2>4. CASE s.n = 2
        <3>1. 4 - s.n = 2
            BY <2>4
        <3> QED BY <2>1, <2>2, <2>4, <3>1, Zenon
    <2> QED BY <1>1, <2>3, <2>4
<1>5. q \in 0 .. Field(s.n) - 1 /\ v = Extended(s.n, q)
    <2>1. x \div Field(4 - s.n) \in 0 .. Field(s.n) - 1
          /\ ShiftSigned(x, (4 - s.n) * Bits) = Extended(s.n, x \div Field(4 - s.n))
        BY <1>1, <1>3, SignedTop, Zenon
    <2>2. v = ShiftSigned(x, (4 - s.n) * Bits)
        BY <1>1, <1>3, NarrowFacts, Zenon
    <2> QED BY <1>4, <2>1, <2>2, Zenon
<1> QED BY <1>5

LEMMA LoadKept ==
    ASSUME NEW m \in Machine,
           NEW s \in Statement({"extload", "sextload"}, {1, 2}, Destination, InMemory)
    PROVE  Kept(m, s)
<1> DEFINE q == LoadBytes(m.mem, s.n, s.y.addr)
           v == Compute(SextLoad(s.n), Get(m, s.dst), Get(m, s.y))
<1>1. s.op \in {"extload", "sextload"} /\ s.n \in {1, 2} /\ s.dst \in Destination /\ s.y \in InMemory
    BY StatementFacts
<1>2. Selected(s) = <<Instr(SextLoad(s.n), s.dst, s.y)>> /\ s.op # "truncstore"
    BY <1>1 DEF Selected
<1>3. q \in 0 .. Field(s.n) - 1 /\ v = Extended(s.n, q)
    BY <1>1, NarrowLoad
<1> HIDE DEF q, v
<1>4. v \in Word /\ v % Field(s.n) = q
    BY <1>1, <1>3, ExtendedFacts
<1>5. v \in NodeValues(m, s)
    <2>1. CASE s.op = "extload"
        <3>1. NodeValues(m, s) = {u \in Word : u % Field(s.n) = q}
            BY <2>1 DEF NodeValues, q
        <3> QED BY <1>4, <3>1
    <2>2. CASE s.op = "sextload"
        <3>1. NodeValues(m, s) = {Extended(s.n, q)}
            BY <2>2 DEF NodeValues, q
        <3> QED BY <1>3, <3>1
    <2> QED BY <1>1, <2>1, <2>2
<1> QED BY <1>1, <1>2, <1>4, <1>5, OneInstruction DEF v

LEMMA TopKept ==
    ASSUME NEW m \in Machine, NEW s \in Statement({"top"}, {1, 2}, Destination, InRegister)
    PROVE  Kept(m, s)
<1> DEFINE y == Operand(m, s.y)
           v == Compute(SextLoad(s.n), Get(m, s.dst), Get(m, s.y))
<1>1. s.op = "top" /\ s.n \in {1, 2} /\ s.dst \in Destination /\ s.y \in Source
    BY StatementFacts, MemoryIsSource
<1>2. Selected(s) = <<Instr(SextLoad(s.n), s.dst, s.y)>> /\ s.op # "truncstore"
    BY <1>1 DEF Selected
<1>3. NodeValues(m, s) = {ShiftSigned(y, (4 - s.n) * Bits)}
    BY <1>1 DEF NodeValues
<1>4. Get(m, s.y) = y /\ y \in Word
    BY <1>1, OperandFacts
<1>5. v = ShiftSigned(y, (4 - s.n) * Bits)
    BY <1>1, <1>4, NarrowFacts, Zenon
<1>6. v \in Word
    <2>1. (4 - s.n) * Bits \in 0 .. Width - 1
        BY <1>1, SplitFacts, Zenon DEF Split
    <2> QED BY <1>4, <1>5, <2>1, ShiftFacts, Zenon
<1>7. v \in NodeValues(m, s)
    BY <1>3, <1>5
<1> QED BY <1>1, <1>2, <1>6, <1>7, OneInstruction

LEMMA SetTopKept ==
    ASSUME NEW m \in Machine, NEW s \in Statement({"settop"}, {1, 2}, InRegister, Source)
    PROVE  Kept(m, s)
<1> DEFINE x == Operand(m, s.dst)
           y == Operand(m, s.y)
           v == Compute(TruncStore(s.n), Get(m, s.dst), Get(m, s.y))
<1>1. s.op = "settop" /\ s.n \in {1, 2} /\ s.dst \in InRegister /\ s.y \in Source
    BY StatementFacts
<1>2. s.dst \in Destination /\ s.dst \in Source
    BY <1>1, InRegisterFacts, MemoryIsSource
<1>3. Selected(s) = <<Instr(TruncStore(s.n), s.dst, s.y)>> /\ s.op # "truncstore"
    BY <1>1 DEF Selected
<1>4. NodeValues(m, s) = {BitOr(BitAnd(x, Mask(4 - s.n)), ShiftLeft(y, (4 - s.n) * Bits))}
    BY <1>1 DEF NodeValues
<1>5. Get(m, s.dst) = x /\ x \in Word /\ Get(m, s.y) = y /\ y \in Word
    BY <1>1, <1>2, OperandFacts
<1>6. v = BitOr(BitAnd(x, Mask(4 - s.n)), ShiftLeft(y, (4 - s.n) * Bits))
    BY <1>1, <1>5, NarrowFacts, ZenonT(60)
<1>7. v \in Word
    BY <1>1, <1>5, <1>6, JoinedTop, ZenonT(60)
<1>8. v \in NodeValues(m, s)
    BY <1>4, <1>6
<1> QED BY <1>2, <1>3, <1>7, <1>8, OneInstruction

LEMMA BinOpFacts ==
    /\ BinOp["add"] = "ata" /\ BinOp["sub"] = "nta" /\ BinOp["and"] = "ada" /\ BinOp["or"] = "ekc"
    /\ BinOp["xnor"] = "dal" /\ BinOp["srl"] = "dto" /\ BinOp["shl"] = "dro"
    /\ BinOp["sra"] = "dtosna"
BY DEF BinOp

LEMMA ArithmeticKept ==
    ASSUME NEW m \in Machine, NEW s \in Statement(BinOps \ {"xor"}, {4}, Destination, Source)
    PROVE  Kept(m, s)
<1> DEFINE x == Operand(m, s.dst)
           y == Operand(m, s.y)
           v == Compute(BinOp[s.op], Get(m, s.dst), Get(m, s.y))
<1>1. s.op \in {"add", "sub", "and", "or", "xnor"} /\ s.dst \in Destination /\ s.y \in Source
    BY StatementFacts DEF BinOps
<1>2. Selected(s) = <<Instr(BinOp[s.op], s.dst, s.y)>> /\ s.op # "truncstore"
    BY <1>1 DEF Selected
<1>3. Get(m, s.dst) = x /\ x \in Word /\ Get(m, s.y) = y /\ y \in Word
    BY <1>1, OperandFacts, DestinationIsSource
<1>4. v = Compute(BinOp[s.op], x, y)
    BY <1>3, Zenon
<1>5. s.op = "add" => NodeValues(m, s) = {(x + y) % Field(4)}
    BY DEF NodeValues
<1>6. s.op = "sub" => NodeValues(m, s) = {(x - y) % Field(4)}
    BY DEF NodeValues
<1>7. s.op = "and" => NodeValues(m, s) = {BitAnd(x, y)}
    BY DEF NodeValues
<1>8. s.op = "or" => NodeValues(m, s) = {BitOr(x, y)}
    BY DEF NodeValues
<1>9. s.op = "xnor" => NodeValues(m, s) = {Complement(BitXor(x, y))}
    BY DEF NodeValues
<1> DEFINE N == NodeValues(m, s)
<1> HIDE DEF x, y, v, N
<1>10. v \in Word /\ N = {v}
    <2>1. CASE s.op = "add"
        <3>0. BinOp[s.op] = "ata"
            BY <2>1, BinOpFacts
        <3>1. v = (x + y) % Field(4)
            <4>1. v = Compute("ata", x, y)
                BY <1>4, <3>0, Zenon
            <4> QED BY <4>1, ComputeFacts
        <3> QED BY <1>3, <1>5, <2>1, <3>1, ArithmeticFacts, Zenon DEF N
    <2>2. CASE s.op = "sub"
        <3>0. BinOp[s.op] = "nta"
            BY <2>2, BinOpFacts
        <3>1. v = (x - y) % Field(4)
            <4>1. v = Compute("nta", x, y)
                BY <1>4, <3>0, Zenon
            <4> QED BY <4>1, ComputeFacts
        <3> QED BY <1>3, <1>6, <2>2, <3>1, ArithmeticFacts, Zenon DEF N
    <2>3. CASE s.op = "and"
        <3>0. BinOp[s.op] = "ada"
            BY <2>3, BinOpFacts
        <3>1. v = BitAnd(x, y)
            <4>1. v = Compute("ada", x, y)
                BY <1>4, <3>0, Zenon
            <4> QED BY <4>1, ComputeFacts
        <3> QED BY <1>3, <1>7, <2>3, <3>1, LogicFacts, Zenon DEF N
    <2>4. CASE s.op = "or"
        <3>0. BinOp[s.op] = "ekc"
            BY <2>4, BinOpFacts
        <3>1. v = BitOr(x, y)
            <4>1. v = Compute("ekc", x, y)
                BY <1>4, <3>0, Zenon
            <4> QED BY <4>1, ComputeFacts
        <3> QED BY <1>3, <1>8, <2>4, <3>1, LogicFacts, Zenon DEF N
    <2>5. CASE s.op = "xnor"
        <3>0. BinOp[s.op] = "dal"
            BY <2>5, BinOpFacts
        <3>1. v = Complement(BitXor(x, y))
            <4>1. v = Compute("dal", x, y)
                BY <1>4, <3>0, Zenon
            <4> QED BY <4>1, ComputeFacts
        <3>2. BitXor(x, y) \in Word
            BY <1>3, LogicFacts, Zenon
        <3>3. v \in Word
            BY <3>1, <3>2, ArithmeticFacts, Zenon
        <3> QED BY <1>9, <2>5, <3>1, <3>3, Zenon DEF N
    <2> QED BY <1>1, <2>1, <2>2, <2>3, <2>4, <2>5
<1>11. v \in NodeValues(m, s)
    BY <1>10 DEF N
<1> QED BY <1>1, <1>2, <1>10, <1>11, OneInstruction DEF v

LEMMA ShiftKept ==
    ASSUME NEW m \in Machine,
           NEW s \in Statement(Shifts, {4}, Destination, {Immediate(k) : k \in 0 .. 4 * Bits - 1})
    PROVE  Kept(m, s)
<1> DEFINE x == Operand(m, s.dst)
           y == Operand(m, s.y)
           v == Compute(BinOp[s.op], Get(m, s.dst), Get(m, s.y))
           K == 0 .. Width - 1
<1>1. s.op \in {"srl", "shl", "sra"} /\ s.dst \in Destination /\ s.y \in {Immediate(k) : k \in K}
    BY StatementFacts, Zenon DEF Shifts, Width
<1>2. Selected(s) = <<Instr(BinOp[s.op], s.dst, s.y)>> /\ s.op # "truncstore"
    BY <1>1 DEF Selected
<1>3. Get(m, s.dst) = x /\ x \in Word
    BY <1>1, OperandFacts, DestinationIsSource
<1>4. Get(m, s.y) = y /\ y \in K
    <2> HIDE DEF K
    <2>1. PICK k \in K : s.y = Immediate(k)
        BY <1>1
    <2> QED BY <2>1, ImmediateFacts, Zenon
<1>5. v = Compute(BinOp[s.op], x, y)
    BY <1>3, <1>4, Zenon
<1>6. s.op = "srl" => NodeValues(m, s) = {ShiftRight(x, y)}
    BY DEF NodeValues
<1>7. s.op = "shl" => NodeValues(m, s) = {ShiftLeft(x, y)}
    BY DEF NodeValues
<1>8. s.op = "sra" => NodeValues(m, s) = {ShiftSigned(x, y)}
    BY DEF NodeValues
<1> DEFINE N == NodeValues(m, s)
<1> HIDE DEF x, y, v, N
<1>9. ShiftRight(x, y) \in Word /\ ShiftLeft(x, y) \in Word /\ ShiftSigned(x, y) \in Word
    BY <1>3, <1>4, ShiftFacts
<1>10. v \in Word /\ N = {v}
    <2>1. CASE s.op = "srl"
        <3>0. BinOp[s.op] = "dto"
            BY <2>1, BinOpFacts
        <3>1. v = ShiftRight(x, y)
            <4>1. v = Compute("dto", x, y)
                BY <1>5, <3>0, Zenon
            <4> QED BY <4>1, ComputeFacts
        <3> QED BY <1>6, <1>9, <2>1, <3>1, Zenon DEF N
    <2>2. CASE s.op = "shl"
        <3>0. BinOp[s.op] = "dro"
            BY <2>2, BinOpFacts
        <3>1. v = ShiftLeft(x, y)
            <4>1. v = Compute("dro", x, y)
                BY <1>5, <3>0, Zenon
            <4> QED BY <4>1, ComputeFacts
        <3> QED BY <1>7, <1>9, <2>2, <3>1, Zenon DEF N
    <2>3. CASE s.op = "sra"
        <3>0. BinOp[s.op] = "dtosna"
            BY <2>3, BinOpFacts
        <3>1. v = ShiftSigned(x, y)
            <4>1. v = Compute("dtosna", x, y)
                BY <1>5, <3>0, Zenon
            <4> QED BY <4>1, ComputeFacts
        <3> QED BY <1>8, <1>9, <2>3, <3>1, Zenon DEF N
    <2> QED BY <1>1, <2>1, <2>2, <2>3
<1>11. v \in NodeValues(m, s)
    BY <1>10 DEF N
<1> QED BY <1>1, <1>2, <1>10, <1>11, OneInstruction DEF v

LEMMA NotKept ==
    ASSUME NEW m \in Machine, NEW s \in Statement({"not"}, {4}, Destination, {Immediate(0)})
    PROVE  Kept(m, s)
<1> DEFINE x == Operand(m, s.dst)
           v == Compute("nac", Get(m, s.dst), Get(m, s.dst))
<1>1. s.op = "not" /\ s.dst \in Destination
    BY StatementFacts
<1>2. Selected(s) = <<Instr("nac", s.dst, s.dst)>> /\ s.op # "truncstore"
    BY <1>1 DEF Selected
<1>3. Get(m, s.dst) = x /\ x \in Word
    BY <1>1, OperandFacts, DestinationIsSource
<1>4. NodeValues(m, s) = {Complement(x)}
    BY <1>1 DEF NodeValues
<1>5. v = Complement(x)
    BY <1>3, ComputeFacts, Zenon
<1>6. v \in Word
    BY <1>3, <1>5, ArithmeticFacts, Zenon
<1>7. v \in NodeValues(m, s)
    BY <1>4, <1>5
<1> QED BY <1>1, <1>2, <1>6, <1>7, OneInstruction

\* A narrow store keeps the rest of the word it reads and writes.
LEMMA TruncStoreKept ==
    ASSUME NEW m \in Machine, NEW s \in Statement({"truncstore"}, {1, 2}, InMemory, Source)
    PROVE  Kept(m, s)
<1> DEFINE mem == m.mem
           a == s.dst.addr
           x == WordAt(mem, a)
           y == Operand(m, s.y)
           v == Compute(TruncStore(s.n), Get(m, s.dst), Get(m, s.y))
           i == Instr(TruncStore(s.n), s.dst, s.y)
           h0 == mem[a]
           h1 == mem[a + 1]
           h2 == mem[a + 2]
           h3 == mem[a + 3]
<1>1. s.op = "truncstore" /\ s.n \in {1, 2} /\ s.dst \in InMemory /\ s.y \in Source
    BY StatementFacts
<1>2. s.dst.in = "mem" /\ a \in Addr /\ s.dst \in Destination /\ mem \in Memories
    BY <1>1, InMemoryFacts DEF Machine
<1>3. Selected(s) = <<i>>
    BY <1>1 DEF Selected
<1>4. Meaning(m, s) = {WithMemory(m, StoreBytes(mem, s.n, a, y))}
    <2>1. NodeValues(m, s) = {y}
        BY <1>1 DEF NodeValues
    <2>2. Meaning(m, s) = {WithMemory(m, StoreBytes(mem, s.n, a, u)) : u \in NodeValues(m, s)}
        BY <1>1, <1>2 DEF Meaning, WithMemory
    <2> HIDE DEF y, mem, a
    <2> QED BY <2>1, <2>2
<1>5. Get(m, s.dst) = x /\ Get(m, s.y) = y /\ y \in Word
    BY <1>1, <1>2, OperandFacts DEF Get
<1>6. /\ h0 \in Byte /\ h1 \in Byte /\ h2 \in Byte /\ h3 \in Byte
      /\ Digits(x, h0, h1, h2, h3) /\ x \in Word
    <2> HIDE DEF mem, a
    <2> QED BY <1>2, BytesAt
<1>7. v = (x % Field(4 - s.n)) + (y % Field(s.n)) * Field(4 - s.n) /\ v \in Word
    <2>1. v = BitOr(BitAnd(x, Mask(4 - s.n)), ShiftLeft(y, (4 - s.n) * Bits))
        BY <1>1, <1>5, NarrowFacts, ZenonT(60)
    <2> HIDE DEF v, x, y
    <2> QED BY <1>1, <1>5, <1>6, <2>1, JoinedTop, ZenonT(60)
<1>8. Step(m, i) = WithMemory(m, WithWord(mem, a, v))
    <2>1. Step(m, i) = Put(m, s.dst, v)
        BY StepFacts
    <2> HIDE DEF v, i
    <2> QED BY <1>2, <2>1 DEF Put, WithMemory
<1> HIDE DEF mem, a, x, y, v, i, h0, h1, h2, h3
<1>9. PICK k0, k1, k2, k3 \in Byte : Digits(y, k0, k1, k2, k3)
    BY <1>5, DigitsExist
<1>10. /\ y % Field(1) = k3 /\ y % Field(2) = k2 * Field(1) + k3
       /\ x % Field(3) = h1 * Field(2) + h2 * Field(1) + h3 /\ x % Field(2) = h2 * Field(1) + h3
    <2>1. y % Field(1) = k3 /\ y % Field(2) = k2 * Field(1) + k3
        BY <1>9, DigitFacts
    <2>2. x % Field(3) = h1 * Field(2) + h2 * Field(1) + h3 /\ x % Field(2) = h2 * Field(1) + h3
        BY <1>6, DigitFacts
    <2> QED BY <2>1, <2>2
<1>11. /\ Field(1) \in Int /\ Field(2) \in Int /\ Field(3) \in Int /\ Field(3) = Field(2) * Field(1)
       /\ h0 \in Int /\ h1 \in Int /\ h2 \in Int /\ h3 \in Int /\ k2 \in Int /\ k3 \in Int
    <2>1. Byte \subseteq Int /\ Sizes(Field(1), Field(2), Field(3), Field(4))
          /\ Field(1) \in Int /\ Field(2) \in Int /\ Field(3) \in Int
        BY FieldFacts, SizeFacts
    <2>2. Field(3) = Field(2) * Field(1)
        BY <2>1, Zenon DEF Sizes
    <2> QED BY <1>6, <2>1, <2>2
<1>12. WithWord(mem, a, v) = StoreBytes(mem, s.n, a, y) /\ WithWord(mem, a, v) \in Memories
    <2>1. CASE s.n = 1
        <3>1. 4 - s.n = 3
            BY <2>1
        <3>2. v = (h1 * Field(2) + h2 * Field(1) + h3) + k3 * Field(3)
            BY <1>7, <1>10, <2>1, <3>1, Zenon
        <3>3. Digits(v, k3, h1, h2, h3)
            <4> DEFINE p == h1 * Field(2)
                       q == h2 * Field(1)
                       r == k3 * Field(3)
            <4>1. p \in Int /\ q \in Int /\ r \in Int /\ v = (p + q + h3) + r /\ h3 \in Int
                BY <1>11, <3>2
            <4> HIDE DEF p, q, r
            <4>2. v = r + p + q + h3
                BY <4>1
            <4> QED BY <4>2 DEF p, q, r, Digits
        <3>4. WithWord(mem, a, v) = FourBytes(mem, a, k3, h1, h2, h3)
              /\ FourBytes(mem, a, k3, h1, h2, h3) \in Memories
            BY <1>2, <1>6, <1>9, <3>3, WriteWord, Zenon
        <3>5. StoreBytes(mem, 1, a, y) = FourBytes(mem, a, k3, h1, h2, h3)
            BY <1>2, <1>9, StoreFacts DEF h1, h2, h3
        <3> QED BY <2>1, <3>4, <3>5, Zenon
    <2>2. CASE s.n = 2
        <3>1. 4 - s.n = 2
            BY <2>2
        <3>2. v = (h2 * Field(1) + h3) + (k2 * Field(1) + k3) * Field(2)
            BY <1>7, <1>10, <2>2, <3>1, Zenon
        <3>3. Digits(v, k2, k3, h2, h3)
            <4> DEFINE p == k3 * Field(2)
                       q == h2 * Field(1)
                       r == k2 * Field(3)
            <4>1. (k2 * Field(1) + k3) * Field(2) = k2 * (Field(2) * Field(1)) + p
                BY <1>11
            <4>2. k2 * (Field(2) * Field(1)) = r
                BY <1>11
            <4>3. p \in Int /\ q \in Int /\ r \in Int /\ h3 \in Int
                BY <1>11
            <4>4. v = (q + h3) + (r + p)
                BY <3>2, <4>1, <4>2, Zenon
            <4> HIDE DEF p, q, r
            <4>5. v = r + p + q + h3
                BY <4>3, <4>4
            <4> QED BY <4>5 DEF p, q, r, Digits
        <3>4. WithWord(mem, a, v) = FourBytes(mem, a, k2, k3, h2, h3)
              /\ FourBytes(mem, a, k2, k3, h2, h3) \in Memories
            BY <1>2, <1>6, <1>9, <3>3, WriteWord, Zenon
        <3>5. StoreBytes(mem, 2, a, y) = FourBytes(mem, a, k2, k3, h2, h3)
            BY <1>2, <1>9, StoreFacts DEF h2, h3
        <3> QED BY <2>2, <3>4, <3>5, Zenon
    <2> QED BY <1>1, <2>1, <2>2
<1>13. Run(m, <<i>>) = Step(m, i)
    BY RunOne
<1>14. Run(m, Selected(s)) = WithMemory(m, StoreBytes(mem, s.n, a, y))
    BY <1>3, <1>8, <1>12, <1>13
<1>15. \A f \in Memories : WithMemory(m, f) \in Machine
    BY DEF Machine, WithMemory
<1>16. WithMemory(m, StoreBytes(mem, s.n, a, y)) \in Machine
    BY <1>12, <1>15
<1> QED BY <1>4, <1>14, <1>16 DEF Kept

---------------------------------------------------------------------------
(* Statements of several instructions. *)

\* A first write to a register is lost when another one follows.
LEMMA LastWrite ==
    ASSUME NEW m \in Machine, NEW s, s.op # "truncstore", s.dst \in InRegister,
           NEW u \in Word, NEW v \in Word, v \in NodeValues(m, s),
           Run(m, Selected(s)) = Put(Put(m, s.dst, u), s.dst, v)
    PROVE  Kept(m, s)
<1>1. s.dst \in Destination
    BY InRegisterFacts
<1>2. Put(Put(m, s.dst, u), s.dst, v) = Put(m, s.dst, v)
    BY PutTwice
<1>3. Put(m, s.dst, v) \in Meaning(m, s) /\ Put(m, s.dst, v) \in Machine
    BY <1>1, WholeWord
<1> QED BY <1>2, <1>3 DEF Kept

LEMMA ZextLoadKept ==
    ASSUME NEW m \in Machine, NEW s \in Statement({"zextload"}, {1, 2}, InRegister, InMemory)
    PROVE  Kept(m, s)
<1> DEFINE q == LoadBytes(m.mem, s.n, s.y.addr)
           x == WordAt(m.mem, s.y.addr)
           u == Extended(s.n, q)
           mask == Immediate(Mask(s.n))
           i == Instr(SextLoad(s.n), s.dst, s.y)
           j == Instr("ada", s.dst, mask)
           after == Put(m, s.dst, u)
<1>1. s.op = "zextload" /\ s.n \in {1, 2} /\ s.dst \in InRegister /\ s.y \in InMemory
    BY StatementFacts
<1>2. Selected(s) = <<i, j>> /\ s.op # "truncstore"
    BY <1>1 DEF Selected, ZextLoad
<1>3. NodeValues(m, s) = {q}
    BY <1>1 DEF NodeValues
<1>4. q \in 0 .. Field(s.n) - 1
      /\ Compute(SextLoad(s.n), Get(m, s.dst), Get(m, s.y)) = u
    BY <1>1, NarrowLoad
<1> HIDE DEF q
<1>5. u \in Word /\ u % Field(s.n) = q
    BY <1>1, <1>4, ExtendedFacts
<1>6. Step(m, i) = after
    BY <1>4, StepFacts, Zenon
<1>7. Get(after, s.dst) = u /\ after \in Machine
    BY <1>1, <1>5, PutTwice
<1>8. BitAnd(u, Mask(s.n)) = q
    <2> DEFINE k == s.n * Bits
    <2>1. k \in 0 .. Width
        <3>1. Bits \in Nat \ {0} /\ Width = 4 * Bits /\ (s.n = 1 \/ s.n = 2)
            BY <1>1, SizeFacts
        <3>2. k = 1 * Bits \/ k = 2 * Bits
            BY <3>1
        <3> HIDE DEF k
        <3> QED BY <3>1, <3>2
    <2>2. Field(s.n) = Pow2[k] /\ Mask(s.n) = Pow2[k] - 1
        BY Zenon DEF Field, Mask
    <2> HIDE DEF k, u
    <2>3. BitAnd(u, Pow2[k] - 1) = u % Pow2[k]
        BY <1>5, <2>1, AndMask
    <2> QED BY <1>5, <2>2, <2>3, Zenon
<1>9. Step(after, j) = Put(after, s.dst, q)
    <2>1. Get(after, mask) = Mask(s.n)
        BY ImmediateFacts
    <2>2. Step(after, j) = Put(after, s.dst, Compute("ada", Get(after, s.dst), Get(after, mask)))
        BY StepFacts, Zenon
    <2> HIDE DEF after, mask, j, u
    <2>3. Compute("ada", Get(after, s.dst), Get(after, mask)) = BitAnd(u, Mask(s.n))
        <3>1. Compute("ada", u, Mask(s.n)) = BitAnd(u, Mask(s.n))
            BY ComputeFacts
        <3> QED BY <1>7, <2>1, <3>1, Zenon
    <2> QED BY <1>8, <2>2, <2>3, Zenon
<1>10. q \in Word
    <2>1. BitAnd(u, Mask(s.n)) \in Word
        <3>1. Mask(s.n) \in Word
            <4> DEFINE g == Field(s.n)
            <4>1. \E f \in Nat \ {0} : g \in Nat \ {0} /\ Word = 0 .. g * f - 1
                BY <1>1, SplitFacts DEF Split
            <4>2. Mask(s.n) = g - 1
                BY Zenon DEF Mask
            <4> HIDE DEF g
            <4>3. PICK f \in Nat \ {0} : g \in Nat \ {0} /\ Word = 0 .. g * f - 1
                BY <4>1
            <4>4. g * f >= g /\ g * f \in Nat
                BY <4>3
            <4> QED BY <4>2, <4>3, <4>4
        <3> HIDE DEF u
        <3> QED BY <1>5, <3>1, LogicFacts, Zenon
    <2> QED BY <1>8, <2>1, Zenon
<1> HIDE DEF i, j, u, after
<1>11. Run(m, <<i, j>>) = Step(Step(m, i), j)
    BY RunTwo
<1>12. Run(m, Selected(s)) = Put(Put(m, s.dst, u), s.dst, q)
    <2>1. Run(m, Selected(s)) = Put(after, s.dst, q)
        BY <1>2, <1>6, <1>9, <1>11
    <2> QED BY <2>1, Zenon DEF after
<1>13. q \in NodeValues(m, s)
    BY <1>3
<1> QED BY <1>1, <1>2, <1>5, <1>10, <1>12, <1>13, LastWrite

LEMMA SignExtendKept ==
    ASSUME NEW m \in Machine,
           NEW s \in Statement({"sign_extend_inreg"}, {1, 2}, InRegister, InRegister)
    PROVE  Kept(m, s)
<1> DEFINE y == Operand(m, s.y)
           k == (4 - s.n) * Bits
           t == ShiftLeft(y, k)
           r == y % Field(s.n)
           v == Extended(s.n, r)
           i == Instr("krz", s.dst, s.y)
           j == Instr("dro", s.dst, Immediate(k))
           l == Instr(SextLoad(s.n), s.dst, s.dst)
           m1 == Put(m, s.dst, y)
           m2 == Put(m1, s.dst, t)
<1>1. s.op = "sign_extend_inreg" /\ s.n \in {1, 2} /\ s.dst \in InRegister /\ s.y \in Source
    BY StatementFacts, MemoryIsSource
<1>2. Selected(s) = <<i, j, l>> /\ s.op # "truncstore"
    BY <1>1 DEF Selected, SignExtendInReg
<1>3. NodeValues(m, s) = {v}
    BY <1>1 DEF NodeValues
<1>4. Get(m, s.y) = y /\ y \in Word
    BY <1>1, OperandFacts
<1> HIDE DEF y, k
<1>5. /\ t = r * Field(4 - s.n) /\ t \in Word /\ r \in 0 .. Field(s.n) - 1
      /\ t \div Field(4 - s.n) = r
    <2>1. /\ ShiftLeft(y, k) = r * Field(4 - s.n) /\ ShiftLeft(y, k) \in Word
          /\ r \in 0 .. Field(s.n) - 1 /\ (r * Field(4 - s.n)) \div Field(4 - s.n) = r
        BY <1>1, <1>4, ShiftedTop, Zenon DEF k
    <2> QED BY <2>1, Zenon
<1> HIDE DEF t, r
<1>6. ShiftSigned(t, k) = v
    <2>1. ShiftSigned(t, k) = Extended(s.n, t \div Field(4 - s.n))
        BY <1>1, <1>5, SignedTop, Zenon DEF k
    <2> QED BY <1>5, <2>1, Zenon
<1>7. v \in Word
    BY <1>1, <1>5, ExtendedFacts
<1> HIDE DEF v
<1>8. Step(m, i) = m1
    <2>1. Compute("krz", Get(m, s.dst), y) = y
        BY ComputeFacts
    <2> QED BY <1>4, <2>1, StepFacts, Zenon
<1>9. Get(m1, s.dst) = y /\ m1 \in Machine
    BY <1>1, <1>4, PutTwice
<1> HIDE DEF m1, i
<1>10. Step(m1, j) = m2
    <2>1. Compute("dro", y, k) = t
        BY ComputeFacts DEF t
    <2>2. Get(m1, Immediate(k)) = k
        BY ImmediateFacts
    <2>3. Step(m1, j) = Put(m1, s.dst, Compute("dro", Get(m1, s.dst), Get(m1, Immediate(k))))
        BY StepFacts, Zenon
    <2> QED BY <1>9, <2>1, <2>2, <2>3, Zenon
<1>11. Get(m2, s.dst) = t /\ m2 \in Machine
    BY <1>1, <1>5, <1>9, PutTwice
<1>12. m2 = Put(m, s.dst, t)
    BY <1>1, <1>4, <1>5, PutTwice DEF m1
<1> HIDE DEF m2, j
<1>13. Step(m2, l) = Put(m2, s.dst, v)
    <2>1. Compute(SextLoad(s.n), t, t) = v
        BY <1>1, <1>6, NarrowFacts, Zenon DEF k
    <2>2. Step(m2, l) = Put(m2, s.dst, Compute(SextLoad(s.n), Get(m2, s.dst), Get(m2, s.dst)))
        BY StepFacts, Zenon
    <2> QED BY <1>11, <2>1, <2>2, Zenon
<1> HIDE DEF l
<1>14. Run(m, <<i, j, l>>) = Step(Step(Step(m, i), j), l)
    BY RunThree
<1>15. Run(m, Selected(s)) = Put(Put(m, s.dst, t), s.dst, v)
    BY <1>2, <1>8, <1>10, <1>12, <1>13, <1>14
<1>16. v \in NodeValues(m, s)
    BY <1>3
<1> QED BY <1>1, <1>2, <1>5, <1>7, <1>15, <1>16, LastWrite

LEMMA ExclusiveOrKept ==
    ASSUME NEW m \in Machine, NEW s \in Statement({"xor"}, {4}, InRegister, Source)
    PROVE  Kept(m, s)
<1> DEFINE x == Operand(m, s.dst)
           y == Operand(m, s.y)
           v == BitXor(x, y)
           u == Complement(v)
           i == Instr("dal", s.dst, s.y)
           j == Instr("nac", s.dst, s.dst)
           after == Put(m, s.dst, u)
<1>1. s.op = "xor" /\ s.dst \in InRegister /\ s.dst \in Source /\ s.y \in Source
    BY StatementFacts, MemoryIsSource
<1>2. Selected(s) = <<i, j>> /\ s.op # "truncstore"
    BY <1>1 DEF Selected, ExclusiveOr
<1>3. NodeValues(m, s) = {v}
    BY <1>1 DEF NodeValues
<1>4. Get(m, s.dst) = x /\ x \in Word /\ Get(m, s.y) = y /\ y \in Word
    BY <1>1, OperandFacts
<1> HIDE DEF x, y
<1>5. v \in Word
    BY <1>4, LogicFacts
<1>6. Step(m, i) = after
    <2>1. Compute("dal", x, y) = u
        BY ComputeFacts
    <2>2. Step(m, i) = Put(m, s.dst, Compute("dal", Get(m, s.dst), Get(m, s.y)))
        BY StepFacts, Zenon
    <2> QED BY <1>4, <2>1, <2>2, Zenon
<1> HIDE DEF v
<1>7. u \in Word /\ Complement(u) = v
    BY <1>5, ArithmeticFacts
<1>8. Get(after, s.dst) = u /\ after \in Machine
    BY <1>1, <1>7, PutTwice
<1>9. Step(after, j) = Put(after, s.dst, v)
    <2> HIDE DEF after, u
    <2>1. Compute("nac", u, u) = Complement(u)
        BY ComputeFacts
    <2>2. Step(after, j) = Put(after, s.dst, Compute("nac", Get(after, s.dst), Get(after, s.dst)))
        BY StepFacts, Zenon
    <2> QED BY <1>7, <1>8, <2>1, <2>2, Zenon
<1> HIDE DEF i, j, u, after
<1>10. Run(m, <<i, j>>) = Step(Step(m, i), j)
    BY RunTwo
<1>11. Run(m, Selected(s)) = Put(Put(m, s.dst, u), s.dst, v)
    <2>1. Run(m, Selected(s)) = Put(after, s.dst, v)
        BY <1>2, <1>6, <1>9, <1>10
    <2> QED BY <2>1, Zenon DEF after
<1>12. v \in NodeValues(m, s)
    BY <1>3
<1> QED BY <1>1, <1>2, <1>5, <1>7, <1>11, <1>12, LastWrite

---------------------------------------------------------------------------
(* Every statement, in every state. *)

LEMMA StatementsKept ==
    ASSUME NEW m \in Machine, NEW s \in Statements
    PROVE  Kept(m, s)
<1>1. \/ s \in Statement({"copy"}, {4}, Destination, Source)
      \/ s \in Statement({"truncstore"}, {1, 2}, InMemory, Source)
      \/ s \in Statement({"extload", "sextload"}, {1, 2}, Destination, InMemory)
      \/ s \in Statement({"zextload"}, {1, 2}, InRegister, InMemory)
      \/ s \in Statement({"sign_extend_inreg"}, {1, 2}, InRegister, InRegister)
      \/ s \in Statement({"top"}, {1, 2}, Destination, InRegister)
      \/ s \in Statement({"settop"}, {1, 2}, InRegister, Source)
      \/ s \in Statement(BinOps \ {"xor"}, {4}, Destination, Source)
      \/ s \in Statement({"xor"}, {4}, InRegister, Source)
      \/ s \in Statement(Shifts, {4}, Destination, {Immediate(k) : k \in 0 .. 4 * Bits - 1})
      \/ s \in Statement({"not"}, {4}, Destination, {Immediate(0)})
    BY Zenon DEF Statements
<1> QED BY <1>1, CopyKept, TruncStoreKept, LoadKept, ZextLoadKept, SignExtendKept, TopKept,
           SetTopKept, ArithmeticKept, ExclusiveOrKept, ShiftKept, NotKept, Zenon

\* The machine stays one of bytes and words.
THEOREM MachineAlwaysTyped == CodeSpec => [](machine \in Machine)
<1>1. CodeInit => machine \in Machine
    BY DEF CodeInit, Machine, Memories
<1>2. machine \in Machine /\ [CodeNext]_machine => (machine \in Machine)'
    <2> SUFFICES ASSUME machine \in Machine, [CodeNext]_machine PROVE machine' \in Machine
        OBVIOUS
    <2>1. CASE CodeNext
        <3>1. PICK s \in Statements : machine' = Run(machine, Selected(s))
            BY <2>1 DEF CodeNext, Execute
        <3> QED BY <3>1, StatementsKept DEF Kept
    <2>2. CASE UNCHANGED machine
        BY <2>2
    <2> QED BY <2>1, <2>2
<1> QED BY <1>1, <1>2, PTL DEF CodeSpec

\* The instructions selected for a statement do what LLVM says it does, for
\* bytes of every size, every memory and every set of registers: narrow loads
\* and stores at any address, and operands that overlap.  (F2003fInstrInfo.td)
THEOREM SelectionAlwaysKeepsMeaning == CodeSpec => []SelectionKeepsMeaning
<1>1. machine \in Machine => SelectionKeepsMeaning
    BY StatementsKept DEF SelectionKeepsMeaning, Kept
<1> QED BY <1>1, MachineAlwaysTyped, PTL
============================================================================
