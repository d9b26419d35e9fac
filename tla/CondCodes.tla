------------------------------ MODULE CondCodes ------------------------------
(***************************************************************************)
(* Comparisons: the condition codes of LLVM, those of `fi', and the        *)
(* pseudo instructions FIab_MALKRZc that stand for a comparison and the    *)
(* conditional move or jump that depends on it until the last pass before  *)
(* emission splits them.                                                   *)
(*                                                                         *)
(* A machine instruction is a record [op, fi, malkrz, ops].  An operand of *)
(* shape "r" (register) or "i" (immediate) takes one entry of ops, one of  *)
(* shape "m" (memory: base, register and immediate displacement) three.    *)
(***************************************************************************)
EXTENDS Integers, Sequences, SequencesExt

CONSTANT Half       \* half the number of words: 2^31 on the real machine

ASSUME HalfAssumption == Half \in Nat \ {0}

Words == 0 .. 2 * Half - 1
Signed(x) == IF x < Half THEN x ELSE x - 2 * Half

ISDCondCode == {"SETUGT", "SETULE", "SETUGE", "SETULT", "SETEQ", "SETNE",
                "SETGT", "SETLE", "SETGE", "SETLT"}

\* What LLVM's condition codes mean.
ISDHolds(isd, l, r) ==
    CASE isd = "SETUGT" -> l > r
      [] isd = "SETULE" -> l =< r
      [] isd = "SETUGE" -> l >= r
      [] isd = "SETULT" -> l < r
      [] isd = "SETEQ"  -> l = r
      [] isd = "SETNE"  -> l # r
      [] isd = "SETGT"  -> Signed(l) > Signed(r)
      [] isd = "SETLE"  -> Signed(l) =< Signed(r)
      [] isd = "SETGE"  -> Signed(l) >= Signed(r)
      [] isd = "SETLT"  -> Signed(l) < Signed(r)

CondCode == 0 .. 3 \cup 6 .. 11

\* What fi compares: LLONYS, XTLONYS, XOLONYS, XYLONYS (unsigned), CLO, NIV,
\* LLO, XTLO, XOLO, XYLO (signed).
FiHolds(cc, l, r) ==
    CASE cc = 0  -> l > r
      [] cc = 1  -> l =< r
      [] cc = 2  -> l >= r
      [] cc = 3  -> l < r
      [] cc = 6  -> l = r
      [] cc = 7  -> l # r
      [] cc = 8  -> Signed(l) > Signed(r)
      [] cc = 9  -> Signed(l) =< Signed(r)
      [] cc = 10 -> Signed(l) >= Signed(r)
      [] cc = 11 -> Signed(l) < Signed(r)
      [] OTHER   -> FALSE

getF2003fCC(isd) ==
    CASE isd = "SETUGT" -> 0
      [] isd = "SETULE" -> 1
      [] isd = "SETUGE" -> 2
      [] isd = "SETULT" -> 3
      [] isd = "SETEQ"  -> 6
      [] isd = "SETNE"  -> 7
      [] isd = "SETGT"  -> 8
      [] isd = "SETLE"  -> 9
      [] isd = "SETGE"  -> 10
      [] isd = "SETLT"  -> 11

OppositeByNext(cc) == cc + 1    \* Faulty: only right for the even codes.

\* CC ^ 1.
OppositeF2003fCC(cc) == IF cc % 2 = 0 THEN cc + 1 ELSE cc - 1

-----------------------------------------------------------------------------
(* FI_MALKRZ. *)

NumOperands(shape) == IF shape = "m" THEN 3 ELSE 1

\* The entries of the operand x.
Operand(x, shape) == [k \in 1 .. NumOperands(shape) |-> <<x, k>>]

\* A move has its destination, the source tied to it, and the new source; a
\* jump has its target only.
MalkrzNumOperands(malkrz) == IF malkrz = "x" THEN 1 ELSE 2 + NumOperands(malkrz)
FiNumOperands(fi) == NumOperands(fi[1]) + NumOperands(fi[2]) + 1

\* The patterns for F2003fbrcc: a jump if the comparison holds.
FI_MALKRZx(fi, dest, cc) ==
    [op |-> "fi_malkrz", fi |-> fi, malkrz |-> "x",
     ops |-> <<dest>> \o Operand("lhs", fi[1]) \o Operand("rhs", fi[2]) \o <<cc>>]

LowerBR_CC(isd, fi, dest) == FI_MALKRZx(fi, dest, getF2003fCC(isd))

\* The patterns for F2003fselectcc: the register holding the false value is
\* the destination and may be given the true one.
FI_MALKRZ(fi, src, cc) ==
    [op |-> "fi_malkrz", fi |-> fi, malkrz |-> src,
     ops |-> << <<"false", 1>>, <<"false", 1>> >> \o Operand("true", src)
             \o Operand("lhs", fi[1]) \o Operand("rhs", fi[2]) \o <<cc>>]

LowerSELECT_CC(isd, fi, src) == FI_MALKRZ(fi, src, getF2003fCC(isd))

\* The two instructions FiMalkrz makes of a pseudo instruction.
FiOf(instr) ==
    [op |-> "fi", fi |-> instr.fi, malkrz |-> "none",
     ops |-> SubSeq(instr.ops, MalkrzNumOperands(instr.malkrz) + 1,
                    MalkrzNumOperands(instr.malkrz) + FiNumOperands(instr.fi))]
MalkrzOf(instr) ==
    [op |-> "malkrz", fi |-> <<"none", "none">>, malkrz |-> instr.malkrz,
     ops |-> SubSeq(instr.ops, 1, MalkrzNumOperands(instr.malkrz))]

\* runOnMachineFunction, for a block.
ExpandFiMalkrz(code) ==
    FlattenSeq([i \in DOMAIN code |->
        IF code[i].op = "fi_malkrz" THEN <<FiOf(code[i]), MalkrzOf(code[i])>>
        ELSE <<code[i]>>])

-----------------------------------------------------------------------------
(* The machine. *)

\* What an operand is worth when the compared values are p = <<l, r>>; a
\* mixture of the entries of two operands is junk.
Worth(entries, shape, p) ==
    CASE entries = Operand("lhs", shape) -> p[1]
      [] entries = Operand("rhs", shape) -> p[2]
      [] OTHER -> -1

\* Does the comparison with these operands hold?
Compare(fi, ops, p) ==
    LET n1 == NumOperands(fi[1])
        n2 == NumOperands(fi[2])
    IN  FiHolds(ops[n1 + n2 + 1], Worth(SubSeq(ops, 1, n1), fi[1], p),
                                  Worth(SubSeq(ops, n1 + 1, n1 + n2), fi[2], p))

\* The state of the machine after a conditional move or jump is taken.
Taken(m, malkrz, ops) ==
    IF malkrz = "x" THEN [m EXCEPT !.to = ops[1]]
    ELSE [m EXCEPT !.dst = SubSeq(ops, 3, 2 + NumOperands(malkrz))[1][1]]

\* One instruction; `to' is the block jumped to, `dst' the register a select
\* leaves its value in, `flag' what the last fi found.
Execute(m, instr, p, none) ==
    IF m.to # none THEN m
    ELSE CASE instr.op = "krz" -> [m EXCEPT !.to = instr.ops[1]]
           [] instr.op = "dosnud" -> [m EXCEPT !.to = "return"]
           [] instr.op = "fi" -> [m EXCEPT !.flag = Compare(instr.fi, instr.ops, p)]
           [] instr.op = "malkrz" ->
                IF m.flag THEN Taken(m, instr.malkrz, instr.ops) ELSE m
           [] instr.op = "fi_malkrz" ->
                LET n == MalkrzNumOperands(instr.malkrz)
                IN  IF Compare(instr.fi, SubSeq(instr.ops, n + 1, Len(instr.ops)), p)
                    THEN Taken(m, instr.malkrz, SubSeq(instr.ops, 1, n))
                    ELSE m

\* Where the code of a block leads, and what a select in it yields; the
\* register of a select starts out with its tied source.
Outcome(code, p, falls, none) ==
    LET start == [to |-> none, dst |-> "false", flag |-> FALSE]
        m == FoldLeft(LAMBDA acc, instr : Execute(acc, instr, p, none), start, code)
    IN  [to |-> IF m.to = none THEN falls ELSE m.to, dst |-> m.dst]
=============================================================================
