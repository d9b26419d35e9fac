---------------------------- MODULE SelectedCode ----------------------------
(***************************************************************************)
(* The patterns of F2003fInstrInfo.td for moves, loads, stores and         *)
(* arithmetic, with the expansions F2003fTargetLowering asks for.          *)
(*                                                                         *)
(* A statement is a node of LLVM's DAG with its destination.  Selected     *)
(* gives the instructions for it.  The 2003f has no byte or half word      *)
(* loads: the instructions named krz8i, krz8c and so on work on the TOP of *)
(* a word, in a register as well as in memory, and serve as narrow loads   *)
(* and stores because memory is big-endian.                                *)
(***************************************************************************)
EXTENDS Integers, Sequences

CONSTANTS
    Bits,          \* bits of a byte
    Last,          \* last address of the memory
    Regs           \* registers

ASSUME MachineAssumption == Bits \in Nat \ {0} /\ Last \in Nat /\ Last >= 3

VARIABLE machine   \* the memory, byte by byte, and the registers

---------------------------------------------------------------------------
(* Words and memory *)

Pow2[k \in Nat] == IF k = 0 THEN 1 ELSE 2 * Pow2[k - 1]

Field(n) == Pow2[n * Bits]                    \* numbers of n bytes
Mask(n) == Field(n) - 1

Byte == 0 .. Mask(1)
Word == 0 .. Mask(4)
Addr == 0 .. Last - 3

\* a word is the set of its bits
BitsOf == [x \in Word |-> {i \in 0 .. 4 * Bits - 1 : (x \div Pow2[i]) % 2 = 1}]
Number == [S \in SUBSET (0 .. 4 * Bits - 1) |-> CHOOSE x \in Word : BitsOf[x] = S]

BitAnd(x, y) == Number[BitsOf[x] \cap BitsOf[y]]
BitOr(x, y) == Number[BitsOf[x] \cup BitsOf[y]]
BitXor(x, y) == Number[(BitsOf[x] \cup BitsOf[y]) \ (BitsOf[x] \cap BitsOf[y])]

ShiftLeft(x, k) == (x * Pow2[k]) % Field(4)
ShiftRight(x, k) == x \div Pow2[k]
Extended(n, x) == IF 2 * x >= Field(n) THEN x + Field(4) - Field(n) ELSE x
ShiftSigned(x, k) ==
    IF 2 * x >= Field(4)
    THEN ShiftRight(x, k) + Field(4) - Pow2[4 * Bits - k] ELSE ShiftRight(x, k)
Complement(x) == Mask(4) - x

\* a number of n bytes in memory, as the data layout "E" lays it out
PositionLittleEndian(n, i) == i               \* Faulty
Position(n, i) == n - 1 - i

LoadBytes(mem, n, a) ==
    LET sum[i \in 0 .. n] ==
            IF i = 0 THEN 0
            ELSE sum[i - 1] + mem[a + i - 1] * Field(Position(n, i - 1))
    IN  sum[n]

StoreBytes(mem, n, a, v) ==
    [b \in DOMAIN mem |->
        IF b \in a .. a + n - 1
        THEN (v \div Field(Position(n, b - a))) % Field(1) ELSE mem[b]]

Register(r) == [in |-> "reg", reg |-> r]
Memory(a) == [in |-> "mem", addr |-> a]
Immediate(v) == [in |-> "imm", value |-> v]

\* the machine reads and writes operands as words, most significant byte first
WordAt(mem, a) == mem[a] * Field(3) + mem[a + 1] * Field(2)
                  + mem[a + 2] * Field(1) + mem[a + 3]
WithWord(mem, a, v) ==
    [mem EXCEPT ![a] = v \div Field(3), ![a + 1] = (v \div Field(2)) % Field(1),
                ![a + 2] = (v \div Field(1)) % Field(1), ![a + 3] = v % Field(1)]

Get(m, o) == CASE o.in = "reg" -> m.regs[o.reg]
               [] o.in = "mem" -> WordAt(m.mem, o.addr)
               [] o.in = "imm" -> o.value

Put(m, o, v) == IF o.in = "reg" THEN [m EXCEPT !.regs[o.reg] = v]
                                ELSE [m EXCEPT !.mem = WithWord(@, o.addr, v)]

---------------------------------------------------------------------------
(* Statements *)

BinOps == {"add", "sub", "and", "or", "xor", "xnor"}
Shifts == {"srl", "shl", "sra"}

Destination == {Register(r) : r \in Regs} \cup {Memory(a) : a \in Addr}
Source == Destination \cup {Immediate(1), Immediate(Mask(4) - 1)}

\* op on the destination and the operand y, over n bytes
Statement(ops, ns, dsts, ys) == [op : ops, n : ns, dst : dsts, y : ys]

InRegister == {Register(r) : r \in Regs}
InMemory == {Memory(a) : a \in Addr}

Statements ==
    Statement({"copy"}, {4}, Destination, Source)
    \cup Statement({"truncstore"}, {1, 2}, InMemory, Source)
    \cup Statement({"extload", "sextload"}, {1, 2}, Destination, InMemory)
    \cup Statement({"zextload"}, {1, 2}, InRegister, InMemory)
    \cup Statement({"sign_extend_inreg"}, {1, 2}, InRegister, InRegister)
    \cup Statement({"top"}, {1, 2}, Destination, InRegister)
    \cup Statement({"settop"}, {1, 2}, InRegister, Source)
    \cup Statement(BinOps \ {"xor"}, {4}, Destination, Source)
    \cup Statement({"xor"}, {4}, InRegister, Source)
    \cup Statement(Shifts, {4}, Destination, {Immediate(k) : k \in 0 .. 4 * Bits - 1})
    \cup Statement({"not"}, {4}, Destination, {Immediate(0)})

\* the value of a DAG operand: a full load where it is in memory
Operand(m, o) ==
    CASE o.in = "reg" -> m.regs[o.reg]
      [] o.in = "mem" -> LoadBytes(m.mem, 4, o.addr)
      [] o.in = "imm" -> o.value

\* the values LLVM allows a node to have
NodeValues(m, s) ==
    LET x == Operand(m, s.dst)
        y == Operand(m, s.y)
        narrow == LoadBytes(m.mem, s.n, s.y.addr)
    IN  CASE s.op \in {"copy", "truncstore"} -> {y}
          [] s.op = "extload"  -> {v \in Word : v % Field(s.n) = narrow}
          [] s.op = "sextload" -> {Extended(s.n, narrow)}
          [] s.op = "zextload" -> {narrow}
          [] s.op = "sign_extend_inreg" -> {Extended(s.n, y % Field(s.n))}
          [] s.op = "top"    -> {ShiftSigned(y, (4 - s.n) * Bits)}
          [] s.op = "settop" -> {BitOr(BitAnd(x, Mask(4 - s.n)), ShiftLeft(y, (4 - s.n) * Bits))}
          [] s.op = "add"  -> {(x + y) % Field(4)}
          [] s.op = "sub"  -> {(x - y) % Field(4)}
          [] s.op = "and"  -> {BitAnd(x, y)}
          [] s.op = "or"   -> {BitOr(x, y)}
          [] s.op = "xor"  -> {BitXor(x, y)}
          [] s.op = "xnor" -> {Complement(BitXor(x, y))}
          [] s.op = "srl"  -> {ShiftRight(x, y)}
          [] s.op = "shl"  -> {ShiftLeft(x, y)}
          [] s.op = "sra"  -> {ShiftSigned(x, y)}
          [] s.op = "not"  -> {Complement(x)}

Meaning(m, s) ==
    LET width == IF s.op = "truncstore" THEN s.n ELSE 4
    IN  {IF s.dst.in = "reg" THEN [m EXCEPT !.regs[s.dst.reg] = v]
         ELSE [m EXCEPT !.mem = StoreBytes(@, width, s.dst.addr, v)] : v \in NodeValues(m, s)}

---------------------------------------------------------------------------
(* Instructions *)

krz8i_node(a) == ShiftSigned(a, 3 * Bits)
krz16i_node(a) == ShiftSigned(a, 2 * Bits)
krz16c_node(a, b) == BitOr(BitAnd(a, Mask(2)), ShiftLeft(b, 2 * Bits))

krz8c_node(a, b) == BitOr(BitAnd(a, Mask(3)), ShiftLeft(b, 3 * Bits))

Compute(mnemonic, x, y) ==
    CASE mnemonic = "krz"    -> y
      [] mnemonic = "krz8i"  -> krz8i_node(y)
      [] mnemonic = "krz16i" -> krz16i_node(y)
      [] mnemonic = "krz8c"  -> krz8c_node(x, y)
      [] mnemonic = "krz16c" -> krz16c_node(x, y)
      [] mnemonic = "nac"    -> Complement(x)
      [] mnemonic = "ata"    -> (x + y) % Field(4)
      [] mnemonic = "nta"    -> (x - y) % Field(4)
      [] mnemonic = "ada"    -> BitAnd(x, y)
      [] mnemonic = "ekc"    -> BitOr(x, y)
      [] mnemonic = "dal"    -> Complement(BitXor(x, y))
      [] mnemonic = "dto"    -> ShiftRight(x, y)
      [] mnemonic = "dro"    -> ShiftLeft(x, y)
      [] mnemonic = "dtosna" -> ShiftSigned(x, y)

Instr(mnemonic, dst, y) == [mnemonic |-> mnemonic, dst |-> dst, y |-> y]

Step(m, i) == Put(m, i.dst, Compute(i.mnemonic, Get(m, i.dst), Get(m, i.y)))

Run(m, code) ==
    LET after[k \in 0 .. Len(code)] ==
            IF k = 0 THEN m ELSE Step(after[k - 1], code[k])
    IN  after[Len(code)]

SextLoad(n) == IF n = 1 THEN "krz8i" ELSE "krz16i"
TruncStore(n) == IF n = 1 THEN "krz8c" ELSE "krz16c"

BinOp == [add |-> "ata", sub |-> "nta", and |-> "ada", or |-> "ekc",
          xnor |-> "dal", srl |-> "dto", shl |-> "dro", sra |-> "dtosna"]

\* a ZEXTLOAD expands to an EXTLOAD and a mask
ZextLoad(s) == <<Instr(SextLoad(s.n), s.dst, s.y),
                 Instr("ada", s.dst, Immediate(Mask(s.n)))>>

\* a SIGN_EXTEND_INREG expands to two shifts, and the second one is krz8i
SignExtendInReg(s) ==
    <<Instr("krz", s.dst, s.y),
      Instr("dro", s.dst, Immediate((4 - s.n) * Bits)),
      Instr(SextLoad(s.n), s.dst, s.dst)>>

ExclusiveOr(s) == <<Instr("dal", s.dst, s.y), Instr("nac", s.dst, s.dst)>>

Selected(s) ==
    CASE s.op = "copy" -> <<Instr("krz", s.dst, s.y)>>
      [] s.op \in {"truncstore", "settop"} -> <<Instr(TruncStore(s.n), s.dst, s.y)>>
      [] s.op \in {"extload", "sextload", "top"} -> <<Instr(SextLoad(s.n), s.dst, s.y)>>
      [] s.op = "zextload" -> ZextLoad(s)
      [] s.op = "sign_extend_inreg" -> SignExtendInReg(s)
      [] s.op = "xor" -> ExclusiveOr(s)
      [] s.op = "not" -> <<Instr("nac", s.dst, s.dst)>>
      [] OTHER -> <<Instr(BinOp[s.op], s.dst, s.y)>>

---------------------------------------------------------------------------
CodeInit == machine \in [mem : [0 .. Last -> Byte], regs : [Regs -> Word]]

Execute(s) == machine' = Run(machine, Selected(s))

CodeNext == \E s \in Statements : Execute(s)

CodeSpec == CodeInit /\ [][CodeNext]_machine

---------------------------------------------------------------------------
(* Properties *)

\* In every state of the machine, the instructions selected for a statement
\* do what LLVM says the statement does, and touch nothing else: narrow loads
\* and stores at any address, in memory that overlaps their operand, and the
\* operations that read and write memory in one instruction.
\* (F2003fInstrInfo.td)
SelectionKeepsMeaning ==
    \A s \in Statements : Run(machine, Selected(s)) \in Meaning(machine, s)
===========================================================================
