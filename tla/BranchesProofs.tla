--------------------------- MODULE BranchesProofs ---------------------------
(***************************************************************************)
(* Comparisons, and the end of a machine basic block: whatever the passes  *)
(* make of the terminators, the block leads where the source program says, *)
(* and analyzeBranch tells the passes what the block does, for any blocks, *)
(* any operand shapes and any width of words.                              *)
(*                                                                         *)
(* The invariant says that the code is pre \o Terms(T, F, C): a select, if *)
(* any, and terminators that lead to T if the condition C holds and else   *)
(* to F, no block meaning the one that follows; or that it returns.  Every *)
(* rewriting yields terminators (T2, F2, C2) that are the Same: they lead  *)
(* where the old ones lead, for all values compared.  What the folds in    *)
(* analyzeBranch, Outcome and ExpandFiMalkrz compute of such code is found *)
(* by unfolding them, one instruction at a time.                           *)
(***************************************************************************)
EXTENDS Branches, FiniteSetTheorems, SequenceTheorems, WellFoundedInduction, TLAPS

\* Words and their signed readings are integers.
LEMMA SignedIsInt ==
    ASSUME NEW x \in Words
    PROVE  x \in Int /\ Signed(x) \in Int
  BY HalfAssumption DEF Words, Signed

\* getF2003fCC: for every condition the back end lowers, fi with the chosen
\* code holds exactly if the condition does.
THEOREM LoweredConditionsAgree ==
    ASSUME NEW isd \in ISDCondCode, NEW l \in Words, NEW r \in Words
    PROVE  /\ getF2003fCC(isd) \in CondCode
           /\ FiHolds(getF2003fCC(isd), l, r) <=> ISDHolds(isd, l, r)
  <1>1. l \in Int /\ r \in Int /\ Signed(l) \in Int /\ Signed(r) \in Int
    BY SignedIsInt
  <1>2. CASE isd = "SETUGT"
    BY <1>1, <1>2 DEF getF2003fCC, CondCode, FiHolds, ISDHolds
  <1>3. CASE isd = "SETULE"
    BY <1>1, <1>3 DEF getF2003fCC, CondCode, FiHolds, ISDHolds
  <1>4. CASE isd = "SETUGE"
    BY <1>1, <1>4 DEF getF2003fCC, CondCode, FiHolds, ISDHolds
  <1>5. CASE isd = "SETULT"
    BY <1>1, <1>5 DEF getF2003fCC, CondCode, FiHolds, ISDHolds
  <1>6. CASE isd = "SETEQ"
    BY <1>1, <1>6 DEF getF2003fCC, CondCode, FiHolds, ISDHolds
  <1>7. CASE isd = "SETNE"
    BY <1>1, <1>7 DEF getF2003fCC, CondCode, FiHolds, ISDHolds
  <1>8. CASE isd = "SETGT"
    BY <1>1, <1>8 DEF getF2003fCC, CondCode, FiHolds, ISDHolds
  <1>9. CASE isd = "SETLE"
    BY <1>1, <1>9 DEF getF2003fCC, CondCode, FiHolds, ISDHolds
  <1>10. CASE isd = "SETGE"
    BY <1>1, <1>10 DEF getF2003fCC, CondCode, FiHolds, ISDHolds
  <1>11. CASE isd = "SETLT"
    BY <1>1, <1>11 DEF getF2003fCC, CondCode, FiHolds, ISDHolds
  <1> QED
    BY <1>2, <1>3, <1>4, <1>5, <1>6, <1>7, <1>8, <1>9, <1>10, <1>11 DEF ISDCondCode

\* OppositeF2003fCC, which reverseBranchCondition uses: the opposite code is a
\* code, holds exactly if the code does not, and its opposite is the code.
THEOREM OppositeNegates ==
    ASSUME NEW cc \in CondCode, NEW l \in Words, NEW r \in Words
    PROVE  /\ OppositeF2003fCC(cc) \in CondCode
           /\ FiHolds(OppositeF2003fCC(cc), l, r) <=> ~FiHolds(cc, l, r)
           /\ OppositeF2003fCC(OppositeF2003fCC(cc)) = cc
  <1>1. l \in Int /\ r \in Int /\ Signed(l) \in Int /\ Signed(r) \in Int
    BY SignedIsInt
  <1>2. CASE cc \in {0, 2, 6, 8, 10}
    <2>1. OppositeF2003fCC(cc) = cc + 1 /\ OppositeF2003fCC(cc + 1) = cc
      BY <1>2 DEF OppositeF2003fCC
    <2> QED
      BY <1>1, <1>2, <2>1 DEF CondCode, FiHolds
  <1>3. CASE cc \in {1, 3, 7, 9, 11}
    <2>1. OppositeF2003fCC(cc) = cc - 1 /\ OppositeF2003fCC(cc - 1) = cc
      BY <1>3 DEF OppositeF2003fCC
    <2> QED
      BY <1>1, <1>3, <2>1 DEF CondCode, FiHolds
  <1> QED
    BY <1>2, <1>3 DEF CondCode

\* The operands of a comparison and its code, and a branch condition as
\* analyzeBranch describes it.
CutOf(fi, cc) == Operand("lhs", fi[1]) \o Operand("rhs", fi[2]) \o <<cc>>
CondOf(fi, cc) == << fi >> \o CutOf(fi, cc)
Conds == {CondOf(fi, cc) : fi \in Shape \X Shape, cc \in CondCode}

\* What operand lists and conditions are made of.
Cell == (Shape \X Shape) \cup ({"lhs", "rhs", "true", "false"} \X (1 .. 3)) \cup CondCode \cup Block

LEMMA OppositeIsCode ==
    ASSUME NEW cc \in CondCode
    PROVE  OppositeF2003fCC(cc) \in CondCode
  BY DEF OppositeF2003fCC, CondCode

\* What SubSeq takes apart, \o has put together.
LEMMA Splits ==
    ASSUME NEW a \in Seq(Cell), NEW b \in Seq(Cell)
    PROVE  /\ SubSeq(a \o b, 1, Len(a)) = a
           /\ SubSeq(a \o b, Len(a) + 1, Len(a) + Len(b)) = b
  OBVIOUS

\* A sequence with one more element in front.
LEMMA TailOfPrepended ==
    ASSUME NEW x \in Cell, NEW s \in Seq(Cell)
    PROVE  /\ <<x>> \o s \in Seq(Cell) /\ Len(<<x>> \o s) = Len(s) + 1
           /\ (<<x>> \o s)[1] = x /\ Tail(<<x>> \o s) = s
  OBVIOUS

\* An operand of each shape.
LEMMA OperandSeq ==
    ASSUME NEW x \in {"lhs", "rhs", "true", "false"}, NEW s \in Shape
    PROVE  /\ NumOperands(s) \in 1 .. 3
           /\ Operand(x, s) \in Seq(Cell) /\ Len(Operand(x, s)) = NumOperands(s)
           /\ \A k \in 1 .. NumOperands(s) : Operand(x, s)[k] = <<x, k>>
<1>1. NumOperands(s) \in 1 .. 3
  BY DEF NumOperands
<1>2. \A k \in 1 .. NumOperands(s) : Operand(x, s)[k] = <<x, k>> /\ <<x, k>> \in Cell
  BY <1>1 DEF Operand, Cell
<1>3. Operand(x, s) \in [1 .. NumOperands(s) -> Cell]
  BY <1>2 DEF Operand
<1>4. ASSUME NEW n \in Nat, NEW f \in [1 .. n -> Cell] PROVE f \in Seq(Cell) /\ Len(f) = n
  OBVIOUS
<1>5. NumOperands(s) \in Nat
  BY <1>1
<1>6. Operand(x, s) \in Seq(Cell) /\ Len(Operand(x, s)) = NumOperands(s)
  BY <1>3, <1>4, <1>5, Zenon
<1> QED BY <1>1, <1>2, <1>6

\* The two operands of a comparison are never taken for one another.
LEMMA OperandsDiffer ==
    ASSUME NEW s \in Shape
    PROVE  Operand("lhs", s) # Operand("rhs", s)
<1>1. 1 \in 1 .. NumOperands(s)
  BY OperandSeq
<1>2. Operand("lhs", s)[1] = <<"lhs", 1>> /\ Operand("rhs", s)[1] = <<"rhs", 1>>
  BY <1>1, OperandSeq
<1> QED BY <1>2

\* Where the operands and the code lie in what a comparison is made of.
LEMMA CutShape ==
    ASSUME NEW fi \in Shape \X Shape, NEW cc \in CondCode
    PROVE  LET n == NumOperands(fi[1])
               m == NumOperands(fi[2])
               s == CutOf(fi, cc)
           IN  /\ s \in Seq(Cell) /\ Len(s) = n + m + 1 /\ Len(s) = FiNumOperands(fi)
               /\ s[n + m + 1] = cc
               /\ SubSeq(s, 1, n) = Operand("lhs", fi[1])
               /\ SubSeq(s, n + 1, n + m) = Operand("rhs", fi[2])
<1> DEFINE A == Operand("lhs", fi[1])
           B == Operand("rhs", fi[2])
           n == NumOperands(fi[1])
           m == NumOperands(fi[2])
<1>1. n \in 1 .. 3 /\ A \in Seq(Cell) /\ Len(A) = n /\ m \in 1 .. 3 /\ B \in Seq(Cell) /\ Len(B) = m
  BY OperandSeq
<1>2. <<cc>> \in Seq(Cell)
  BY DEF Cell
<1>3. CutOf(fi, cc) = (A \o B) \o <<cc>> /\ FiNumOperands(fi) = n + m + 1
  BY DEF CutOf, FiNumOperands
<1> HIDE DEF A, B, n, m
<1> DEFINE s == (A \o B) \o <<cc>>
<1>4. A \o B \in Seq(Cell) /\ Len(A \o B) = n + m
  BY <1>1
<1>5. s \in Seq(Cell) /\ Len(s) = n + m + 1 /\ s[n + m + 1] = cc
  <2> DEFINE Z == A \o B
  <2>1. Z \in Seq(Cell) /\ Len(Z) = n + m /\ n \in Nat /\ m \in Nat
    BY <1>1, <1>4
  <2> HIDE DEF Z
  <2>2. Z \o <<cc>> \in Seq(Cell) /\ Len(Z \o <<cc>>) = n + m + 1
    BY <1>2, <2>1
  <2>3. (Z \o <<cc>>)[n + m + 1] = cc
    BY <2>1
  <2> QED BY <2>2, <2>3 DEF Z
<1>6. s = A \o (B \o <<cc>>) /\ B \o <<cc>> \in Seq(Cell) /\ Len(B \o <<cc>>) = m + 1
  BY <1>1, <1>2, ConcatAssociative
<1>7. SubSeq(s, 1, n) = A
  BY <1>1, <1>6, Splits
<1>8. SubSeq(s, n + 1, n + m) = B
  BY <1>1, <1>2
<1> QED BY <1>3, <1>5, <1>7, <1>8 DEF A, B, n, m

\* What a condition compares: the two operands, with its code.
Holds(C, p) == Compare(C[1], Tail(C), p)

LEMMA CutCompares ==
    ASSUME NEW fi \in Shape \X Shape, NEW cc \in CondCode, NEW p
    PROVE  Compare(fi, CutOf(fi, cc), p) = FiHolds(cc, p[1], p[2])
<1>1. fi[1] \in Shape /\ fi[2] \in Shape
  OBVIOUS
<1>2. Worth(Operand("lhs", fi[1]), fi[1], p) = p[1] /\ Worth(Operand("rhs", fi[2]), fi[2], p) = p[2]
  BY <1>1, OperandsDiffer DEF Worth
<1> QED BY <1>2, CutShape, Zenon DEF Compare

\* A condition holds if fi with its code does, for the values compared.
LEMMA CondHolds ==
    ASSUME NEW fi \in Shape \X Shape, NEW cc \in CondCode
    PROVE  /\ CondOf(fi, cc) \in Seq(Cell) /\ CondOf(fi, cc) # << >>
           /\ CondOf(fi, cc)[1] = fi /\ Tail(CondOf(fi, cc)) = CutOf(fi, cc)
           /\ Len(CondOf(fi, cc)) = FiNumOperands(fi) + 1
           /\ \A p : Holds(CondOf(fi, cc), p) = FiHolds(cc, p[1], p[2])
<1>1. CutOf(fi, cc) \in Seq(Cell) /\ Len(CutOf(fi, cc)) = FiNumOperands(fi) /\ fi \in Cell
  BY CutShape, Zenon DEF Cell
<1>2. /\ CondOf(fi, cc) \in Seq(Cell) /\ Len(CondOf(fi, cc)) = FiNumOperands(fi) + 1
      /\ CondOf(fi, cc)[1] = fi /\ Tail(CondOf(fi, cc)) = CutOf(fi, cc)
  BY <1>1, TailOfPrepended, Zenon DEF CondOf
<1>3. FiNumOperands(fi) \in Nat
  BY <1>1
<1>4. CondOf(fi, cc) # << >>
  BY <1>2, <1>3
<1> QED BY <1>2, <1>4, CutCompares, Zenon DEF Holds

\* Only the last entry, the code, is changed.
LEMMA ReversedCond ==
    ASSUME NEW fi \in Shape \X Shape, NEW cc \in CondCode
    PROVE  reverseBranchCondition(CondOf(fi, cc)) = CondOf(fi, OppositeF2003fCC(cc))
<1> DEFINE d == OppositeF2003fCC(cc)
           Y == Operand("lhs", fi[1]) \o Operand("rhs", fi[2])
           X == <<fi>> \o Y
<1>1. d \in CondCode /\ <<fi>> \in Seq(Cell) /\ <<cc>> \in Seq(Cell) /\ <<d>> \in Seq(Cell)
      /\ cc \in Cell /\ d \in Cell
  BY OppositeIsCode DEF Cell
<1>2. Y \in Seq(Cell)
  BY OperandSeq
<1>3. CondOf(fi, cc) = <<fi>> \o (Y \o <<cc>>) /\ CondOf(fi, d) = <<fi>> \o (Y \o <<d>>)
  BY DEF CondOf, CutOf
<1> HIDE DEF Y
<1>4. CondOf(fi, cc) = X \o <<cc>> /\ CondOf(fi, d) = X \o <<d>>
  BY <1>1, <1>2, <1>3, ConcatAssociative
<1>5. X \in Seq(Cell)
  BY <1>1, <1>2
<1> HIDE DEF X
<1> DEFINE s == X \o <<cc>>
           t == X \o <<d>>
           r == [s EXCEPT ![Len(s)] = d]
<1>6. /\ s \in Seq(Cell) /\ Len(s) = Len(X) + 1 /\ s[Len(s)] = cc /\ Len(X) \in Nat
      /\ t \in Seq(Cell) /\ Len(t) = Len(X) + 1 /\ t[Len(s)] = d
      /\ \A i \in 1 .. Len(X) : s[i] = t[i]
  BY <1>1, <1>5
<1> HIDE DEF s, t
<1>7. r \in Seq(Cell) /\ Len(r) = Len(X) + 1 /\ r[Len(s)] = d /\ \A i \in 1 .. Len(X) : r[i] = s[i]
  BY <1>1, <1>6
<1> HIDE DEF r
<1>8. r = t
  BY <1>6, <1>7, SeqEqual
<1>9. reverseBranchCondition(s) = r
  BY <1>6, Zenon DEF reverseBranchCondition, r, d
<1> QED BY <1>4, <1>8, <1>9 DEF s, t

-----------------------------------------------------------------------------
(* Folds.  analyzeBranch folds AnalyzeOne over the instructions from the    *)
(* last to the first, Outcome folds Execute from the first to the last.     *)

Below == {ss \in Nat \X Nat : ss[1] < ss[2]}

\* Induction in the form of sets.
LEMMA SetInduction ==
    ASSUME NEW T, 0 \in T, \A n \in Nat : n \in T => n + 1 \in T
    PROVE  Nat \subseteq T
<1> SUFFICES ASSUME Nat \ T # {} PROVE FALSE
  OBVIOUS
<1>1. IsWellFoundedOn(Below, Nat)
  BY NatLessThanWellFounded, Zenon DEF OpToRel, Below
<1>2. PICK x \in Nat \ T : \A y \in Nat \ T : ~ (<<y, x>> \in Below)
  BY <1>1, WFMin, Zenon
<1>3. \A y \in Nat \ T : ~ (y < x)
  BY <1>2 DEF Below
<1>4. x # 0 /\ x - 1 \in Nat /\ x - 1 < x /\ (x - 1) + 1 = x
  BY <1>2
<1> QED BY <1>2, <1>3, <1>4

\* The two folds as one.
Analyzing(follower, allow) == <<"analyze", follower, allow>>
Running(p) == <<"run", p>>
Do(how, instr, acc) ==
    IF how[1] = "analyze" THEN AnalyzeOne(instr, acc, how[2], how[3])
    ELSE Execute(acc, instr, how[2], None)
Turn(how, s) == IF how[1] = "analyze" THEN Min(s) ELSE Max(s)

Folds(g, how, base, seq, S) ==
    g = [s \in SUBSET S |-> IF s = {} THEN base
                            ELSE Do(how, seq[Turn(how, s)], g[s \ {Turn(how, s)}])]

\* Each turn of a fold takes one element of the set.
LEMMA TurnFacts ==
    ASSUME NEW n \in Nat, NEW s \in SUBSET (1 .. n), s # {}, NEW how
    PROVE  /\ Turn(how, s) \in s /\ IsFiniteSet(s) /\ Cardinality(s) \in Nat
           /\ Cardinality(s \ {Turn(how, s)}) = Cardinality(s) - 1
<1> DEFINE T == {k \in Nat : \A r \in SUBSET (1 .. k) : r # {} =>
                    /\ \E x \in r : \A y \in r : x >= y
                    /\ \E x \in r : \A y \in r : x =< y}
<1>1. 0 \in T
  <2>1. 1 .. 0 = {}
    OBVIOUS
  <2> QED BY <2>1
<1>2. ASSUME NEW k \in Nat, k \in T PROVE k + 1 \in T
  <2>1. ASSUME NEW r \in SUBSET (1 .. k + 1), r # {}
        PROVE  /\ \E x \in r : \A y \in r : x >= y
               /\ \E x \in r : \A y \in r : x =< y
    <3> DEFINE q == r \ {k + 1}
    <3>1. q \in SUBSET (1 .. k)
      OBVIOUS
    <3>2. CASE q = {}
      <4>1. r = {k + 1}
        BY <2>1, <3>2
      <4> QED BY <4>1
    <3>3. CASE q # {}
      <4>1. PICK x \in q : \A y \in q : x >= y
        BY <1>2, <3>1, <3>3
      <4>2. PICK z \in q : \A y \in q : z =< y
        BY <1>2, <3>1, <3>3
      <4>3. \A y \in r : y \in q \/ y = k + 1
        OBVIOUS
      <4>4. \A y \in r : z =< y
        BY <3>1, <4>2, <4>3
      <4>5. CASE k + 1 \in r
        <5>1. \A y \in r : k + 1 >= y
          OBVIOUS
        <5> QED BY <4>4, <4>5, <5>1
      <4>6. CASE k + 1 \notin r
        <5>1. q = r
          BY <4>6
        <5> QED BY <4>1, <4>4, <5>1
      <4> QED BY <4>5, <4>6
    <3> QED BY <3>2, <3>3
  <2> QED BY <2>1
<1> HIDE DEF T
<1>3. n \in T
  BY <1>1, <1>2, SetInduction
<1>4. (\E x \in s : \A y \in s : x >= y) /\ (\E x \in s : \A y \in s : x =< y)
  BY <1>3 DEF T
<1>5. Max(s) \in s /\ Min(s) \in s
  BY <1>4 DEF Max, Min
<1>6. IsFiniteSet(s)
  <2>1. IsFiniteSet(1 .. n)
    BY FS_Interval
  <2> QED BY <2>1, FS_Subset
<1>7. Turn(how, s) \in s
  BY <1>5 DEF Turn
<1> QED BY <1>6, <1>7, FS_RemoveElement, FS_CardinalityType

LEMMA NoElements ==
    ASSUME NEW n \in Nat, NEW s \in SUBSET (1 .. n)
    PROVE  /\ Cardinality(s) \in Nat /\ Cardinality(s) <= n
           /\ Cardinality(s) = 0 <=> s = {}
<1>1. IsFiniteSet(1 .. n) /\ Cardinality(1 .. n) = n
  BY FS_Interval
<1>2. IsFiniteSet(s) /\ Cardinality(s) <= n
  BY <1>1, FS_Subset
<1> QED BY <1>2, FS_CardinalityType, FS_EmptySet, Zenon

\* Folds of sequences that begin alike agree on what they have in common.
LEMMA FoldsAgree ==
    ASSUME NEW n \in Nat, NEW m \in Nat, n <= m, NEW how, NEW base, NEW seq, NEW seq2,
           \A i \in 1 .. n : seq[i] = seq2[i],
           NEW g, NEW h, Folds(g, how, base, seq, 1 .. n), Folds(h, how, base, seq2, 1 .. m)
    PROVE  \A s \in SUBSET (1 .. n) : g[s] = h[s]
<1> DEFINE c(s) == Turn(how, s)
           T == {k \in Nat : \A s \in SUBSET (1 .. n) : Cardinality(s) = k => g[s] = h[s]}
<1>1. ASSUME NEW s \in SUBSET (1 .. n)
      PROVE  /\ g[s] = (IF s = {} THEN base ELSE Do(how, seq[c(s)], g[s \ {c(s)}]))
             /\ h[s] = (IF s = {} THEN base ELSE Do(how, seq2[c(s)], h[s \ {c(s)}]))
  <2>1. s \in SUBSET (1 .. m)
    OBVIOUS
  <2> QED BY <2>1, Zenon DEF Folds
<1>2. 0 \in T
  <2>1. ASSUME NEW s \in SUBSET (1 .. n), Cardinality(s) = 0 PROVE g[s] = h[s]
    <3>1. s = {}
      BY <2>1, NoElements
    <3> QED BY <1>1, <3>1
  <2> QED BY <2>1
<1>3. ASSUME NEW k \in Nat, k \in T PROVE k + 1 \in T
  <2>1. ASSUME NEW s \in SUBSET (1 .. n), Cardinality(s) = k + 1 PROVE g[s] = h[s]
    <3>1. s # {}
      BY <2>1, NoElements
    <3>2. c(s) \in s /\ s \ {c(s)} \in SUBSET (1 .. n) /\ Cardinality(s \ {c(s)}) = k
      <4>1. c(s) \in s /\ Cardinality(s \ {c(s)}) = Cardinality(s) - 1
        BY <3>1, TurnFacts, Zenon
      <4>2. Cardinality(s \ {c(s)}) = k
        <5> HIDE DEF c
        <5> QED BY <2>1, <4>1
      <4> QED BY <4>1, <4>2, Zenon
    <3>3. g[s \ {c(s)}] = h[s \ {c(s)}] /\ seq[c(s)] = seq2[c(s)]
      BY <1>3, <3>2
    <3> HIDE DEF c
    <3> QED BY <1>1, <3>1, <3>3, Zenon
  <2> QED BY <2>1
<1> HIDE DEF T
<1>4. Nat \subseteq T
  BY <1>2, <1>3, SetInduction
<1> QED BY <1>4, NoElements DEF T

\* There is a fold of every sequence.
LEMMA FoldsExist ==
    ASSUME NEW n \in Nat, NEW how, NEW base, NEW seq
    PROVE  \E g : Folds(g, how, base, seq, 1 .. n)
<1> DEFINE c(s) == Turn(how, s)
           Step(g, s) == IF s = {} THEN base ELSE Do(how, seq[c(s)], g[s \ {c(s)}])
           Upto(g, k) == \A s \in SUBSET (1 .. n) : Cardinality(s) <= k => g[s] = Step(g, s)
           T == {k \in Nat : \E g : Upto(g, k)}
<1>1. 0 \in T
  <2> DEFINE g == [s \in SUBSET (1 .. n) |-> base]
  <2>1. ASSUME NEW s \in SUBSET (1 .. n), Cardinality(s) <= 0 PROVE g[s] = Step(g, s)
    <3>1. s = {}
      BY <2>1, NoElements
    <3> QED BY <3>1
  <2>2. Upto(g, 0)
    BY <2>1
  <2> HIDE DEF Upto
  <2> QED BY <2>2
<1>2. ASSUME NEW k \in Nat, k \in T PROVE k + 1 \in T
  <2>1. PICK g : Upto(g, k)
    BY <1>2
  <2> DEFINE h == [s \in SUBSET (1 .. n) |-> Step(g, s)]
  <2>2. \A s \in SUBSET (1 .. n) : h[s] = Step(g, s)
    OBVIOUS
  <2> HIDE DEF h
  <2>3. ASSUME NEW s \in SUBSET (1 .. n), Cardinality(s) <= k + 1 PROVE h[s] = Step(h, s)
    <3>1. CASE s = {}
      BY <2>2, <3>1
    <3>2. CASE s # {}
      <4>1. /\ s \ {c(s)} \in SUBSET (1 .. n) /\ Cardinality(s) \in Nat
            /\ Cardinality(s \ {c(s)}) = Cardinality(s) - 1
        BY <3>2, TurnFacts
      <4>2. Cardinality(s \ {c(s)}) <= k
        BY <2>3, <4>1
      <4>3. g[s \ {c(s)}] = Step(g, s \ {c(s)})
        BY <2>1, <4>1, <4>2
      <4>4. h[s \ {c(s)}] = g[s \ {c(s)}]
        BY <2>2, <4>1, <4>3
      <4> QED BY <2>2, <3>2, <4>4
    <3> QED BY <3>1, <3>2
  <2>4. Upto(h, k + 1)
    BY <2>3
  <2> HIDE DEF Upto
  <2> QED BY <2>4
<1> HIDE DEF T
<1>3. Nat \subseteq T
  BY <1>1, <1>2, SetInduction
<1>4. PICK g : Upto(g, n)
  BY <1>3 DEF T
<1>5. ASSUME NEW s \in SUBSET (1 .. n) PROVE g[s] = Step(g, s)
  <2>1. Cardinality(s) <= n
    BY NoElements
  <2> QED BY <1>4, <2>1
<1> DEFINE h == [s \in SUBSET (1 .. n) |-> g[s]]
<1>6. \A s \in SUBSET (1 .. n) : h[s] = g[s] /\ s \ {c(s)} \in SUBSET (1 .. n)
  OBVIOUS
<1>7. \A s \in SUBSET (1 .. n) : Step(g, s) = Step(h, s)
  BY <1>6
<1>8. h = [s \in SUBSET (1 .. n) |-> Step(h, s)]
  BY <1>5, <1>7
<1>9. Folds(h, how, base, seq, 1 .. n)
  BY <1>8 DEF Folds
<1> QED BY <1>9

AnalysisStart == [TBB |-> None, FBB |-> None, Cond |-> << >>, keep |-> << >>,
                  failed |-> FALSE, stop |-> FALSE]

\* The recursion of FoldRight in analyzeBranch, and that of FoldLeft in Outcome.
AnalyzeFolds(g, instrs, follower, allow) ==
    g = [s \in SUBSET (DOMAIN instrs) |->
            IF s = {} THEN AnalysisStart
            ELSE AnalyzeOne(instrs[Min(s)], g[s \ {Min(s)}], follower, allow)]

RunStart == [to |-> None, dst |-> "false", flag |-> FALSE]

RunFolds(g, instrs, p) ==
    g = [s \in SUBSET (DOMAIN instrs) |->
            IF s = {} THEN RunStart
            ELSE Execute(g[s \ {Max(s)}], instrs[Max(s)], p, None)]

\* The machine after the code.
RunOf(instrs, p) == (CHOOSE g : RunFolds(g, instrs, p))[DOMAIN instrs]

\* analyzeBranch is such a fold.
LEMMA AnalyzeIsFold ==
    ASSUME NEW n \in Nat, NEW instrs, DOMAIN instrs = 1 .. n, NEW follower, NEW allow
    PROVE  \E g : /\ Folds(g, Analyzing(follower, allow), AnalysisStart, instrs, 1 .. n)
                  /\ analyzeBranch(instrs, follower, allow) = g[1 .. n]
<1> DEFINE how == Analyzing(follower, allow)
           R(g) == AnalyzeFolds(g, instrs, follower, allow)
<1>1. \A s : Turn(how, s) = Min(s)
  BY DEF Turn, Analyzing
<1>2. \A instr, acc : Do(how, instr, acc) = AnalyzeOne(instr, acc, follower, allow)
  BY DEF Do, Analyzing
<1> HIDE DEF how
<1>3. analyzeBranch(instrs, follower, allow) = (CHOOSE g : R(g))[DOMAIN instrs]
  BY Zenon DEF analyzeBranch, FoldRight, MapThenFoldSet, AnalyzeFolds, AnalysisStart
<1>0. ASSUME NEW g PROVE Folds(g, how, AnalysisStart, instrs, 1 .. n) <=> R(g)
  <2> DEFINE Mine(s) == IF s = {} THEN AnalysisStart ELSE Do(how, instrs[Turn(how, s)], g[s \ {Turn(how, s)}])
             Theirs(s) == IF s = {} THEN AnalysisStart ELSE AnalyzeOne(instrs[Min(s)], g[s \ {Min(s)}], follower, allow)
  <2>1. \A s : Mine(s) = Theirs(s)
    BY <1>1, <1>2
  <2> HIDE DEF Mine, Theirs
  <2>2. [s \in SUBSET (1 .. n) |-> Mine(s)] = [s \in SUBSET (1 .. n) |-> Theirs(s)]
    BY <2>1
  <2> QED BY <2>2 DEF Folds, AnalyzeFolds, Mine, Theirs
<1>4. PICK f : Folds(f, how, AnalysisStart, instrs, 1 .. n)
  BY FoldsExist
<1>5. R(f)
  BY <1>0, <1>4
<1> DEFINE g == CHOOSE g : R(g)
<1>6. R(g)
  BY <1>5, Zenon
<1> HIDE DEF g
<1>7. Folds(g, how, AnalysisStart, instrs, 1 .. n)
  BY <1>0, <1>6
<1> QED BY <1>3, <1>7 DEF g, how

\* So is running code.
LEMMA RunIsFold ==
    ASSUME NEW n \in Nat, NEW instrs, DOMAIN instrs = 1 .. n, NEW p
    PROVE  \E g : /\ Folds(g, Running(p), RunStart, instrs, 1 .. n)
                  /\ RunOf(instrs, p) = g[1 .. n]
<1> DEFINE how == Running(p)
           R(g) == RunFolds(g, instrs, p)
<1>1. \A s : Turn(how, s) = Max(s)
  BY DEF Turn, Running
<1>2. \A instr, acc : Do(how, instr, acc) = Execute(acc, instr, p, None)
  BY DEF Do, Running
<1> HIDE DEF how
<1>0. ASSUME NEW g PROVE Folds(g, how, RunStart, instrs, 1 .. n) <=> R(g)
  <2> DEFINE Mine(s) == IF s = {} THEN RunStart ELSE Do(how, instrs[Turn(how, s)], g[s \ {Turn(how, s)}])
             Theirs(s) == IF s = {} THEN RunStart ELSE Execute(g[s \ {Max(s)}], instrs[Max(s)], p, None)
  <2>1. \A s : Mine(s) = Theirs(s)
    BY <1>1, <1>2
  <2> HIDE DEF Mine, Theirs
  <2>2. [s \in SUBSET (1 .. n) |-> Mine(s)] = [s \in SUBSET (1 .. n) |-> Theirs(s)]
    BY <2>1
  <2> QED BY <2>2 DEF Folds, RunFolds, Mine, Theirs
<1>4. PICK f : Folds(f, how, RunStart, instrs, 1 .. n)
  BY FoldsExist
<1>5. R(f)
  BY <1>0, <1>4
<1> DEFINE g == CHOOSE g : R(g)
<1>6. R(g)
  BY <1>5, Zenon
<1> HIDE DEF g
<1>7. Folds(g, how, RunStart, instrs, 1 .. n)
  BY <1>0, <1>6
<1> QED BY <1>7 DEF g, how, RunOf

LEMMA OutcomeOfRun ==
    ASSUME NEW instrs, NEW p, NEW f
    PROVE  Outcome(instrs, p, f, None) =
               [to |-> IF RunOf(instrs, p).to = None THEN f ELSE RunOf(instrs, p).to,
                dst |-> RunOf(instrs, p).dst]
  BY Zenon DEF Outcome, FoldLeft, MapThenFoldSet, RunOf, RunFolds, RunStart

-----------------------------------------------------------------------------
LEMMA RunOfNothing ==
    ASSUME NEW p
    PROVE  RunOf(<< >>, p) = RunStart
<1>1. DOMAIN << >> = 1 .. 0 /\ 1 .. 0 = {}
  OBVIOUS
<1>2. PICK g : Folds(g, Running(p), RunStart, << >>, 1 .. 0) /\ RunOf(<< >>, p) = g[1 .. 0]
  BY <1>1, RunIsFold
<1>3. g[{}] = RunStart
  BY <1>2 DEF Folds
<1> QED BY <1>1, <1>2, <1>3

\* One more instruction.
LEMMA RunOfMore ==
    ASSUME NEW n \in Nat, NEW s, NEW t, DOMAIN s = 1 .. n, DOMAIN t = 1 .. n + 1,
           \A i \in 1 .. n : t[i] = s[i], NEW p
    PROVE  RunOf(t, p) = Execute(RunOf(s, p), t[n + 1], p, None)
<1>1. PICK g : Folds(g, Running(p), RunStart, s, 1 .. n) /\ RunOf(s, p) = g[1 .. n]
  BY RunIsFold
<1>2. PICK h : Folds(h, Running(p), RunStart, t, 1 .. n + 1) /\ RunOf(t, p) = h[1 .. n + 1]
  <2>1. n + 1 \in Nat
    OBVIOUS
  <2> QED BY <2>1, RunIsFold
<1>3. h[1 .. n] = g[1 .. n]
  <2>1. n + 1 \in Nat /\ n <= n + 1 /\ 1 .. n \in SUBSET (1 .. n)
    OBVIOUS
  <2>2. \A i \in 1 .. n : s[i] = t[i]
    OBVIOUS
  <2>3. \A r \in SUBSET (1 .. n) : g[r] = h[r]
    <3> DEFINE k == n + 1
               how == Running(p)
    <3>1. k \in Nat /\ n <= k
      OBVIOUS
    <3>2. Folds(g, how, RunStart, s, 1 .. n) /\ Folds(h, how, RunStart, t, 1 .. k)
      BY <1>1, <1>2
    <3> HIDE DEF k, how
    <3> QED BY <2>2, <3>1, <3>2, FoldsAgree
  <2> QED BY <2>1, <2>3
<1>4. Turn(Running(p), 1 .. n + 1) = n + 1
  <2>1. Max(1 .. n + 1) = n + 1
    BY DEF Max
  <2> QED BY <2>1 DEF Turn, Running
<1>5. (1 .. n + 1) \ {n + 1} = 1 .. n /\ 1 .. n + 1 # {}
  OBVIOUS
<1>6. h[1 .. n + 1] = Do(Running(p), t[n + 1], h[1 .. n])
  <2> DEFINE S == 1 .. n + 1
             how == Running(p)
  <2>1. S \in SUBSET S /\ S # {} /\ S \ {Turn(how, S)} = 1 .. n /\ Turn(how, S) = n + 1
    BY <1>4, <1>5
  <2>2. Folds(h, how, RunStart, t, S)
    BY <1>2
  <2> HIDE DEF S, how
  <2>3. h[S] = Do(how, t[Turn(how, S)], h[S \ {Turn(how, S)}])
    BY <2>1, <2>2, Zenon DEF Folds
  <2> QED BY <2>1, <2>3 DEF S, how
<1> QED BY <1>1, <1>2, <1>3, <1>6 DEF Do, Running

\* analyzeBranch of at most three instructions, from the last to the first.
LEMMA AnalyzeNothing ==
    ASSUME NEW l, NEW m
    PROVE  analyzeBranch(<< >>, l, m) = AnalysisStart
<1>1. DOMAIN << >> = 1 .. 0 /\ 1 .. 0 = {}
  OBVIOUS
<1>2. PICK g : Folds(g, Analyzing(l, m), AnalysisStart, << >>, 1 .. 0)
               /\ analyzeBranch(<< >>, l, m) = g[1 .. 0]
  BY <1>1, AnalyzeIsFold
<1>3. g[{}] = AnalysisStart
  BY <1>2 DEF Folds
<1> QED BY <1>1, <1>2, <1>3

\* analyzeBranch looks at the last instruction first.
LEMMA AnalyzeSome ==
    ASSUME NEW n \in 1 .. 3, NEW seq, DOMAIN seq = 1 .. n, NEW l, NEW m
    PROVE  LET One(i, acc) == AnalyzeOne(seq[i], acc, l, m)
           IN  /\ n = 1 => analyzeBranch(seq, l, m) = One(1, AnalysisStart)
               /\ n = 2 => analyzeBranch(seq, l, m) = One(1, One(2, AnalysisStart))
               /\ n = 3 => analyzeBranch(seq, l, m) = One(1, One(2, One(3, AnalysisStart)))
<1> DEFINE how == Analyzing(l, m)
           One(i, acc) == AnalyzeOne(seq[i], acc, l, m)
<1>1. \A s : Turn(how, s) = Min(s)
  BY DEF Turn, Analyzing
<1>2. \A i, acc : Do(how, seq[i], acc) = One(i, acc)
  BY DEF Do, Analyzing
<1>3. /\ Min({1}) = 1 /\ Min({2}) = 2 /\ Min({3}) = 3 /\ Min({1, 2}) = 1 /\ Min({2, 3}) = 2
      /\ Min({1, 2, 3}) = 1
  BY DEF Min
<1>4. PICK g : Folds(g, how, AnalysisStart, seq, 1 .. n) /\ analyzeBranch(seq, l, m) = g[1 .. n]
  BY AnalyzeIsFold
<1> HIDE DEF how, One
<1>5. ASSUME NEW s \in SUBSET (1 .. n)
      PROVE  g[s] = IF s = {} THEN AnalysisStart ELSE One(Min(s), g[s \ {Min(s)}])
  BY <1>1, <1>2, <1>4, Zenon DEF Folds
<1>6. g[{}] = AnalysisStart
  BY <1>5
<1>7. CASE n = 1
  <2>1. 1 .. n = {1} /\ {1} \ {1} = {}
    BY <1>7
  <2>2. g[{1}] = One(1, g[{}])
    BY <1>3, <1>5, <2>1
  <2> QED BY <1>4, <1>6, <1>7, <2>1, <2>2 DEF One
<1>8. CASE n = 2
  <2>1. 1 .. n = {1, 2} /\ {1, 2} \ {1} = {2} /\ {2} \ {2} = {} /\ {1, 2} # {} /\ {2} # {}
    BY <1>8
  <2>4. {2} \in SUBSET (1 .. n) /\ {1, 2} \in SUBSET (1 .. n)
    BY <2>1
  <2>2. g[{2}] = One(2, g[{}])
    BY <1>3, <1>5, <2>1, <2>4, ZenonT(40)
  <2>3. g[{1, 2}] = One(1, g[{2}])
    BY <1>3, <1>5, <2>1, <2>4, ZenonT(40)
  <2> QED BY <1>4, <1>6, <1>8, <2>1, <2>2, <2>3 DEF One
<1>9. CASE n = 3
  <2>1. /\ 1 .. n = {1, 2, 3} /\ {1, 2, 3} \ {1} = {2, 3} /\ {2, 3} \ {2} = {3} /\ {3} \ {3} = {}
        /\ {1, 2, 3} # {} /\ {2, 3} # {} /\ {3} # {}
    BY <1>9
  <2>5. {3} \in SUBSET (1 .. n) /\ {2, 3} \in SUBSET (1 .. n) /\ {1, 2, 3} \in SUBSET (1 .. n)
    BY <2>1
  <2>2. g[{3}] = One(3, g[{}])
    BY <1>3, <1>5, <2>1, <2>5, ZenonT(40)
  <2>3. g[{2, 3}] = One(2, g[{3}])
    BY <1>3, <1>5, <2>1, <2>5, ZenonT(40)
  <2>4. g[{1, 2, 3}] = One(1, g[{2, 3}])
    BY <1>3, <1>5, <2>1, <2>5, ZenonT(40)
  <2> QED BY <1>4, <1>6, <1>9, <2>1, <2>2, <2>3, <2>4 DEF One
<1> QED BY <1>7, <1>8, <1>9

-----------------------------------------------------------------------------
(* The code of a block. *)

\* Nothing, or a select.
Selects == {LowerSELECT_CC(isd, fi, src) : isd \in ISDCondCode, fi \in Shape \X Shape, src \in Shape}
Pre == {<< >>} \cup {<<sel>> : sel \in Selects}

\* The conditional branch to T.
Jump(T, C) == [op |-> "fi_malkrz", fi |-> C[1], malkrz |-> "x", ops |-> <<T>> \o Tail(C)]

\* The terminators that lead to T if C holds, or is empty, and else to F.
Terms(T, F, C) ==
    CASE T = None -> << >>
      [] T # None /\ C = << >> -> <<Krz(T)>>
      [] T # None /\ C # << >> /\ F = None -> <<Jump(T, C)>>
      [] OTHER -> <<Jump(T, C), Krz(F)>>

Ways(T, F, C) ==
    /\ T \in Block \cup {None} /\ F \in Block \cup {None} /\ C \in Conds \cup {<< >>}
    /\ T = None => C = << >>
    /\ C = << >> => F = None

\* A condition has operands.
LEMMA CondType ==
    ASSUME NEW C \in Conds
    PROVE  C \in Seq(Cell) /\ C # << >> /\ Len(C) \in Nat \ {0} /\ C = << C[1] >> \o Tail(C)
           /\ Tail(C) \in Seq(Cell)
<1>1. PICK fi \in Shape \X Shape, cc \in CondCode : C = CondOf(fi, cc)
  BY DEF Conds
<1>2. C \in Seq(Cell) /\ C # << >> /\ C[1] = fi /\ Tail(C) = CutOf(fi, cc)
  BY <1>1, CondHolds, ZenonT(40)
<1>3. C = << C[1] >> \o Tail(C)
  BY <1>1, <1>2, Zenon DEF CondOf
<1> QED BY <1>2, <1>3, EmptySeq, LenProperties, HeadTailProperties

\* A conditional branch carries its condition whole.
LEMMA JumpFacts ==
    ASSUME NEW C \in Conds, NEW T \in Block
    PROVE  /\ Jump(T, C).op = "fi_malkrz" /\ Jump(T, C).malkrz = "x" /\ Jump(T, C).fi = C[1]
           /\ Jump(T, C).ops[1] = T /\ Tail(Jump(T, C).ops) = Tail(C)
           /\ Jump(T, C).ops \in Seq(Cell)
           /\ << Jump(T, C).fi >> \o Tail(Jump(T, C).ops) = C
           /\ IsBranch(Jump(T, C))
<1>1. Tail(C) \in Seq(Cell) /\ C = << C[1] >> \o Tail(C) /\ T \in Cell
  BY CondType DEF Cell
<1>2. Jump(T, C).ops = <<T>> \o Tail(C)
  BY DEF Jump
<1>3. Jump(T, C).ops[1] = T /\ Tail(Jump(T, C).ops) = Tail(C) /\ Jump(T, C).ops \in Seq(Cell)
  <2> DEFINE s == Tail(C)
  <2>1. s \in Seq(Cell)
    BY <1>1
  <2> HIDE DEF s
  <2>2. (<<T>> \o s)[1] = T /\ Tail(<<T>> \o s) = s /\ <<T>> \o s \in Seq(Cell)
    BY <1>1, <2>1, TailOfPrepended
  <2> QED BY <1>2, <2>2 DEF s
<1>4. /\ Jump(T, C).op = "fi_malkrz" /\ Jump(T, C).malkrz = "x" /\ Jump(T, C).fi = C[1]
  BY DEF Jump
<1> QED BY <1>1, <1>3, <1>4 DEF IsBranch

\* LowerBR_CC makes such a branch.
LEMMA LoweredBranch ==
    ASSUME NEW fi \in Shape \X Shape, NEW cc \in CondCode, NEW T \in Block
    PROVE  FI_MALKRZx(fi, T, cc) = Jump(T, CondOf(fi, cc))
<1> DEFINE A == Operand("lhs", fi[1])
           B == Operand("rhs", fi[2])
<1>1. A \in Seq(Cell) /\ B \in Seq(Cell) /\ <<cc>> \in Seq(Cell) /\ <<T>> \in Seq(Cell)
  BY OperandSeq DEF Cell
<1>2. CutOf(fi, cc) = (A \o B) \o <<cc>>
  BY DEF CutOf
<1>3. FI_MALKRZx(fi, T, cc) = [op |-> "fi_malkrz", fi |-> fi, malkrz |-> "x",
                               ops |-> ((<<T>> \o A) \o B) \o <<cc>>]
  BY DEF FI_MALKRZx
<1> HIDE DEF A, B
<1>4. A \o B \in Seq(Cell)
  BY <1>1
<1>5. <<T>> \o ((A \o B) \o <<cc>>) = (<<T>> \o (A \o B)) \o <<cc>>
  BY <1>1, <1>4, ConcatAssociative
<1>6. <<T>> \o (A \o B) = (<<T>> \o A) \o B
  BY <1>1, ConcatAssociative
<1>7. CondOf(fi, cc)[1] = fi /\ Tail(CondOf(fi, cc)) = CutOf(fi, cc)
  BY CondHolds, ZenonT(40)
<1> QED BY <1>2, <1>3, <1>5, <1>6, <1>7, Zenon DEF Jump

\* A select: the operands of the move, then those of the comparison.
IsSelect(sel, isd, fi, src) ==
    \E X \in Seq(Cell) :
        /\ sel.op = "fi_malkrz" /\ sel.fi = fi /\ sel.malkrz = src
        /\ sel.ops = X \o CutOf(fi, getF2003fCC(isd))
        /\ Len(X) = MalkrzNumOperands(src)
        /\ SubSeq(X, 3, 2 + NumOperands(src)) = Operand("true", src)

LEMMA SelectFacts ==
    ASSUME NEW isd \in ISDCondCode, NEW fi \in Shape \X Shape, NEW src \in Shape,
           NEW sel, sel = LowerSELECT_CC(isd, fi, src)
    PROVE  IsSelect(sel, isd, fi, src)
<1>1. sel = LowerSELECT_CC(isd, fi, src)
  OBVIOUS
<1> DEFINE A == Operand("lhs", fi[1])
           B == Operand("rhs", fi[2])
           S == Operand("true", src)
           cc == getF2003fCC(isd)
           D == << <<"false", 1>>, <<"false", 1>> >>
<1>2. cc \in CondCode
  BY DEF getF2003fCC, CondCode, ISDCondCode
<1>3. A \in Seq(Cell) /\ B \in Seq(Cell) /\ <<cc>> \in Seq(Cell) /\ S \in Seq(Cell) /\ D \in Seq(Cell)
      /\ Len(S) = NumOperands(src) /\ NumOperands(src) \in 1 .. 3
  BY <1>2, OperandSeq DEF Cell
<1>4. CutOf(fi, cc) = (A \o B) \o <<cc>>
  BY DEF CutOf
<1>5. sel = [op |-> "fi_malkrz", fi |-> fi, malkrz |-> src,
             ops |-> (((D \o S) \o A) \o B) \o <<cc>>]
  BY <1>1, Zenon DEF LowerSELECT_CC, FI_MALKRZ
<1>6. src # "x" /\ MalkrzNumOperands(src) = 2 + NumOperands(src)
  BY BranchAssumption DEF MalkrzNumOperands
<1> HIDE DEF A, B, S, cc
<1> DEFINE X == D \o S
<1>7. X \in Seq(Cell) /\ Len(X) = 2 + NumOperands(src) /\ SubSeq(X, 3, 2 + NumOperands(src)) = S
  <2>1. Len(D) = 2
    OBVIOUS
  <2> HIDE DEF D
  <2>2. SubSeq(D \o S, Len(D) + 1, Len(D) + Len(S)) = S /\ D \o S \in Seq(Cell)
        /\ Len(D \o S) = Len(D) + Len(S)
    BY <1>3, Splits, SMTT(30)
  <2> QED BY <1>3, <2>1, <2>2
<1> HIDE DEF X
<1>8. A \o B \in Seq(Cell)
  BY <1>3
<1>9. X \o ((A \o B) \o <<cc>>) = ((X \o A) \o B) \o <<cc>>
  <2>1. X \o ((A \o B) \o <<cc>>) = (X \o (A \o B)) \o <<cc>>
    <3>1. X \in Seq(Cell) /\ <<cc>> \in Seq(Cell)
      BY <1>3, <1>7
    <3> QED BY <1>8, <3>1, ConcatAssociative, SMTT(30)
  <2>2. X \o (A \o B) = (X \o A) \o B
    <3>1. X \in Seq(Cell) /\ A \in Seq(Cell) /\ B \in Seq(Cell)
      BY <1>3, <1>7
    <3> QED BY <3>1, ConcatAssociative
  <2> QED BY <2>1, <2>2
<1>10. sel.ops = X \o CutOf(fi, cc) /\ sel.op = "fi_malkrz" /\ sel.fi = fi /\ sel.malkrz = src
  BY <1>4, <1>5, <1>9, SMTT(30) DEF X
<1>11. Len(X) = MalkrzNumOperands(src) /\ SubSeq(X, 3, 2 + NumOperands(src)) = S
  BY <1>6, <1>7
<1> QED BY <1>7, <1>10, <1>11, Zenon DEF S, cc, IsSelect

\* Truth values that are carried about, not looked into.
Yes == TRUE
No == FALSE

\* What a fold of AnalyzeOne carries.
Found(T, F, C, keep, failed, stop) ==
    [TBB |-> T, FBB |-> F, Cond |-> C, keep |-> keep, failed |-> failed, stop |-> stop]

Fields == {"TBB", "FBB", "Cond", "keep", "failed", "stop"}

\* A record is known by its fields.
LEMMA FoundFields ==
    ASSUME NEW T, NEW F, NEW C, NEW keep, NEW failed, NEW stop, NEW r
    PROVE  r = Found(T, F, C, keep, failed, stop) <=>
               /\ r = [z \in Fields |-> r[z]]
               /\ r.TBB = T /\ r.FBB = F /\ r.Cond = C
               /\ r.keep = keep /\ r.failed = failed /\ r.stop = stop
<1> DEFINE Has(x) == /\ x = [z \in Fields |-> x[z]]
                     /\ x.TBB = T /\ x.FBB = F /\ x.Cond = C
                     /\ x.keep = keep /\ x.failed = failed /\ x.stop = stop
           f == Found(T, F, C, keep, failed, stop)
<1>1. Has(f)
  BY DEF Found, Fields
<1> HIDE DEF f
<1>2. ASSUME Has(r) PROVE r = f
  <2>1. \A z \in Fields : r[z] = f[z]
    BY <1>1, <1>2 DEF Fields
  <2>2. [z \in Fields |-> r[z]] = [z \in Fields |-> f[z]]
    BY <2>1
  <2> QED BY <1>1, <1>2, <2>2
<1> QED BY <1>1, <1>2 DEF f

\* A record with four new fields.
Reset(a, c, f, t, q) == [a EXCEPT !.Cond = c, !.FBB = f, !.TBB = t, !.keep = q]

LEMMA FoundReset ==
    ASSUME NEW T, NEW F, NEW C, NEW keep, NEW failed, NEW stop, NEW c, NEW f, NEW t, NEW q
    PROVE  Reset(Found(T, F, C, keep, failed, stop), c, f, t, q) = Found(t, f, c, q, failed, stop)
<1> DEFINE a == Found(T, F, C, keep, failed, stop)
           b == Reset(a, c, f, t, q)
<1>1. /\ a = [z \in Fields |-> a[z]]
      /\ a.failed = failed /\ a.stop = stop
  BY FoundFields
<1> HIDE DEF a
<1>2. /\ b = [z \in Fields |-> b[z]]
      /\ b.TBB = t /\ b.FBB = f /\ b.Cond = c
      /\ b.keep = q /\ b.failed = failed /\ b.stop = stop
  BY <1>1 DEF Fields, Reset
<1> HIDE DEF b
<1>3. b = Found(t, f, c, q, failed, stop)
  BY <1>2, FoundFields
<1> QED BY <1>3 DEF a, b

\* Short sequences put together.
LEMMA Tuples ==
    ASSUME NEW a, NEW b, NEW c
    PROVE  /\ << >> \o << >> = << >> /\ << >> \o <<a>> = <<a>> /\ << >> \o <<a, b>> = <<a, b>>
           /\ <<a>> \o << >> = <<a>> /\ <<a>> \o <<b>> = <<a, b>> /\ <<a>> \o <<b, c>> = <<a, b, c>>
<1> DEFINE S == {a, b, c}
<1>1. << >> \in Seq(S) /\ <<a>> \in Seq(S) /\ <<b>> \in Seq(S) /\ <<a, b>> \in Seq(S)
      /\ <<b, c>> \in Seq(S) /\ <<a, b, c>> \in Seq(S)
  OBVIOUS
<1> HIDE DEF S
<1>2. << >> \o << >> = << >> /\ << >> \o <<a>> = <<a>> /\ << >> \o <<a, b>> = <<a, b>>
      /\ <<a>> \o << >> = <<a>>
  BY <1>1, ConcatEmptySeq
<1>3. <<a>> \o <<b>> = <<a, b>>
  <2>1. /\ <<a>> \o <<b>> \in Seq(S) /\ Len(<<a>> \o <<b>>) = 2 /\ Len(<<a, b>>) = 2
        /\ (<<a>> \o <<b>>)[1] = a /\ (<<a>> \o <<b>>)[2] = b
    BY <1>1
  <2>2. \A i \in 1 .. 2 : (<<a>> \o <<b>>)[i] = <<a, b>>[i]
    BY <2>1
  <2> QED BY <1>1, <2>1, <2>2, SeqEqual
<1>4. <<a>> \o <<b, c>> = <<a, b, c>>
  <2>1. /\ <<a>> \o <<b, c>> \in Seq(S) /\ Len(<<a>> \o <<b, c>>) = 3 /\ Len(<<a, b, c>>) = 3
        /\ (<<a>> \o <<b, c>>)[1] = a /\ (<<a>> \o <<b, c>>)[2] = b /\ (<<a>> \o <<b, c>>)[3] = c
    BY <1>1
  <2>2. \A i \in 1 .. 3 : (<<a>> \o <<b, c>>)[i] = <<a, b, c>>[i]
    BY <2>1
  <2> QED BY <1>1, <2>1, <2>2, SeqEqual
<1> QED BY <1>2, <1>3, <1>4

LEMMA MoreTuples ==
    ASSUME NEW a, NEW b, NEW c
    PROVE  <<a, b>> \o << >> = <<a, b>> /\ <<a, b>> \o <<c>> = <<a, b, c>>
<1> DEFINE S == {a, b, c}
<1>1. /\ <<a, b>> \in Seq(S) /\ <<c>> \in Seq(S) /\ <<a, b, c>> \in Seq(S)
  OBVIOUS
<1> HIDE DEF S
<1>2. <<a, b>> \o << >> = <<a, b>>
  BY <1>1, ConcatEmptySeq
<1>3. /\ <<a, b>> \o <<c>> \in Seq(S) /\ Len(<<a, b>> \o <<c>>) = 3 /\ Len(<<a, b, c>>) = 3
      /\ (<<a, b>> \o <<c>>)[1] = a /\ (<<a, b>> \o <<c>>)[2] = b /\ (<<a, b>> \o <<c>>)[3] = c
  BY <1>1
<1>4. \A i \in 1 .. 3 : (<<a, b>> \o <<c>>)[i] = <<a, b, c>>[i]
  BY <1>3
<1>5. <<a, b>> \o <<c>> = <<a, b, c>>
  BY <1>1, <1>3, <1>4, SeqEqual
<1> QED BY <1>2, <1>5

LEMMA SelectIsNoBranch ==
    ASSUME NEW sel \in Selects
    PROVE  sel.op = "fi_malkrz" /\ ~IsBranch(sel)
<1>1. PICK isd \in ISDCondCode, fi \in Shape \X Shape, src \in Shape : sel = LowerSELECT_CC(isd, fi, src)
  BY DEF Selects
<1>2. sel.op = "fi_malkrz" /\ sel.malkrz = src
  <2>1. IsSelect(sel, isd, fi, src)
    BY <1>1, SelectFacts
  <2> QED BY <2>1, Zenon DEF IsSelect
<1> QED BY <1>2, BranchAssumption DEF IsBranch

LEMMA AnalyzeKrz ==
    ASSUME NEW T, NEW keep, NEW l
    PROVE  /\ AnalyzeOne(Krz(T), Found(None, None, << >>, keep, No, No), l, FALSE) =
                  Found(T, None, << >>, <<Krz(T)>> \o keep, No, No)
           /\ AnalyzeOne(Krz(T), Found(None, None, << >>, keep, No, No), l, TRUE) =
                  IF T = l THEN Found(None, None, << >>, << >>, No, No)
                  ELSE Found(T, None, << >>, <<Krz(T)>>, No, No)
<1> DEFINE k == Krz(T)
<1>1. k.op = "krz" /\ k.ops[1] = T /\ IsBranch(k)
  BY DEF Krz, IsBranch
<1> HIDE DEF k
<1>2. AnalyzeOne(k, Found(None, None, << >>, keep, No, No), l, FALSE) =
          Found(k.ops[1], None, << >>, <<k>> \o keep, No, No)
  BY <1>1 DEF AnalyzeOne, Found, Yes, No
<1>3. AnalyzeOne(k, Found(None, None, << >>, keep, No, No), l, TRUE) =
          IF k.ops[1] = l THEN Found(None, None, << >>, << >>, No, No)
          ELSE Found(k.ops[1], None, << >>, <<k>>, No, No)
  <2> DEFINE a == Found(None, None, << >>, keep, No, No)
  <2>1. ~a.stop
    BY DEF Found, No
  <2>2. ASSUME NEW t, NEW q
        PROVE  Reset(a, << >>, None, t, q) = Found(t, None, << >>, q, No, No)
    BY FoundReset
  <2> HIDE DEF a
  <2>3. AnalyzeOne(k, a, l, TRUE) =
            IF k.ops[1] = l THEN Reset(a, << >>, None, None, << >>)
            ELSE Reset(a, << >>, None, k.ops[1], <<k>>)
    BY <1>1, <2>1 DEF AnalyzeOne, Reset
  <2> QED BY <2>2, <2>3 DEF a
<1>4. /\ AnalyzeOne(k, Found(None, None, << >>, keep, No, No), l, FALSE) =
             Found(T, None, << >>, <<k>> \o keep, No, No)
      /\ AnalyzeOne(k, Found(None, None, << >>, keep, No, No), l, TRUE) =
             IF T = l THEN Found(None, None, << >>, << >>, No, No)
             ELSE Found(T, None, << >>, <<k>>, No, No)
  BY <1>1, <1>2, <1>3
<1> QED BY <1>4 DEF k

LEMMA AnalyzeDosnud ==
    ASSUME NEW l, NEW m \in BOOLEAN
    PROVE  AnalyzeOne(Dosnud, AnalysisStart, l, m) = Found(None, None, << >>, <<Dosnud>>, Yes, Yes)
<1>1. Dosnud.op = "dosnud"
  BY DEF Dosnud
<1>2. <<Dosnud>> \o << >> = <<Dosnud>>
  BY Tuples
<1> QED BY <1>1, <1>2 DEF AnalyzeOne, AnalysisStart, Found, Yes, No

LEMMA AnalyzeJump ==
    ASSUME NEW C \in Conds, NEW T \in Block, NEW b, NEW keep, NEW l, NEW m \in BOOLEAN
    PROVE  AnalyzeOne(Jump(T, C), Found(b, None, << >>, keep, No, No), l, m) =
               Found(T, b, C, <<Jump(T, C)>> \o keep, No, No)
<1> DEFINE j == Jump(T, C)
<1>1. /\ j.op = "fi_malkrz" /\ IsBranch(j) /\ j.ops[1] = T /\ << j.fi >> \o Tail(j.ops) = C
  BY JumpFacts
<1> HIDE DEF j
<1>2. AnalyzeOne(j, Found(b, None, << >>, keep, No, No), l, m) =
          Found(j.ops[1], b, << j.fi >> \o Tail(j.ops), <<j>> \o keep, No, No)
  BY <1>1 DEF AnalyzeOne, Found, Yes, No
<1> QED BY <1>1, <1>2 DEF j

LEMMA AnalyzeSelect ==
    ASSUME NEW sel \in Selects, NEW T, NEW F, NEW C, NEW keep, NEW failed, NEW stop, NEW l, NEW m
    PROVE  AnalyzeOne(sel, Found(T, F, C, keep, failed, stop), l, m) =
               Found(T, F, C, <<sel>> \o keep, failed, Yes)
  BY SelectIsNoBranch DEF AnalyzeOne, Found, Yes, No

LEMMA FoundNothing == AnalysisStart = Found(None, None, << >>, << >>, No, No)
  BY DEF AnalysisStart, Found, No

LEMMA SelectTypes ==
    ASSUME NEW pre \in Pre
    PROVE  pre = << >> \/ \E sel \in Selects : pre = <<sel>>
  BY DEF Pre

\* The last instruction.
LEMMA AnalyzeLast ==
    ASSUME NEW l, NEW m \in BOOLEAN
    PROVE  /\ \A T : AnalyzeOne(Krz(T), AnalysisStart, l, m) =
                       IF m /\ T = l THEN AnalysisStart
                       ELSE Found(T, None, << >>, <<Krz(T)>>, No, No)
           /\ \A C \in Conds, T \in Block :
                  AnalyzeOne(Jump(T, C), AnalysisStart, l, m) =
                      Found(T, None, C, <<Jump(T, C)>>, No, No)
<1>1. ASSUME NEW T
      PROVE  AnalyzeOne(Krz(T), AnalysisStart, l, m) =
                 IF m /\ T = l THEN AnalysisStart
                 ELSE Found(T, None, << >>, <<Krz(T)>>, No, No)
  <2>1. <<Krz(T)>> \o << >> = <<Krz(T)>>
    BY Tuples
  <2>2. AnalyzeOne(Krz(T), AnalysisStart, l, FALSE) = Found(T, None, << >>, <<Krz(T)>>, No, No)
    <3>1. AnalyzeOne(Krz(T), Found(None, None, << >>, << >>, No, No), l, FALSE) =
              Found(T, None, << >>, <<Krz(T)>> \o << >>, No, No)
      BY AnalyzeKrz
    <3> QED BY <2>1, <3>1, FoundNothing
  <2>3. AnalyzeOne(Krz(T), AnalysisStart, l, TRUE) =
            IF T = l THEN AnalysisStart ELSE Found(T, None, << >>, <<Krz(T)>>, No, No)
    BY AnalyzeKrz, FoundNothing
  <2>4. m = TRUE \/ m = FALSE
    OBVIOUS
  <2> QED BY <2>2, <2>3, <2>4, Zenon
<1>2. ASSUME NEW C \in Conds, NEW T \in Block
      PROVE  AnalyzeOne(Jump(T, C), AnalysisStart, l, m) =
                 Found(T, None, C, <<Jump(T, C)>>, No, No)
  <2>1. <<Jump(T, C)>> \o << >> = <<Jump(T, C)>>
    BY Tuples
  <2>2. AnalyzeOne(Jump(T, C), AnalysisStart, l, m) =
            Found(T, None, C, <<Jump(T, C)>> \o << >>, No, No)
    BY AnalyzeJump, FoundNothing, Zenon
  <2> QED BY <2>1, <2>2, Zenon
<1> QED BY <1>1, <1>2, Zenon

\* The terminators, on their own.
LEMMA AnalyzeTerms ==
    ASSUME NEW T, NEW F, NEW C, Ways(T, F, C), NEW l, NEW m \in BOOLEAN,
           NEW T2, T2 = IF m /\ C = << >> /\ T = l THEN None ELSE T,
           NEW F2, F2 = IF m /\ F = l THEN None ELSE F
    PROVE  /\ T = None => analyzeBranch(<< >>, l, m) = Found(T2, F2, C, << >>, No, No)
           /\ T # None /\ C = << >> =>
                 AnalyzeOne(Krz(T), AnalysisStart, l, m) =
                     Found(T2, F2, C, Terms(T2, F2, C), No, No)
           /\ T # None /\ C # << >> /\ F = None =>
                 AnalyzeOne(Jump(T, C), AnalysisStart, l, m) =
                     Found(T2, F2, C, Terms(T2, F2, C), No, No)
           /\ T # None /\ C # << >> /\ F # None =>
                 AnalyzeOne(Jump(T, C), AnalyzeOne(Krz(F), AnalysisStart, l, m), l, m) =
                     Found(T2, F2, C, Terms(T2, F2, C), No, No)
<1>1. CASE T = None
  BY <1>1, AnalyzeNothing, FoundNothing DEF Ways
<1>2. CASE T # None /\ C = << >>
  <2>1. F = None /\ F2 = None
    BY <1>2 DEF Ways
  <2>2. CASE m /\ T = l
    <3>1. T2 = None
      BY <1>2, <2>2
    <3> QED BY <1>2, <2>1, <2>2, <3>1, AnalyzeLast, FoundNothing, Zenon DEF Terms
  <2>3. CASE ~(m /\ T = l)
    <3>1. T2 = T
      BY <1>2, <2>3
    <3>2. Terms(T2, F2, C) = <<Krz(T)>>
      BY <1>2, <3>1 DEF Terms
    <3>3. AnalyzeOne(Krz(T), AnalysisStart, l, m) = Found(T, None, << >>, <<Krz(T)>>, No, No)
      <4>1. AnalyzeOne(Krz(T), AnalysisStart, l, m) =
                IF m /\ T = l THEN AnalysisStart ELSE Found(T, None, << >>, <<Krz(T)>>, No, No)
        BY AnalyzeLast, ZenonT(40)
      <4> QED BY <2>3, <4>1, Zenon
    <3> QED BY <1>2, <2>1, <3>1, <3>2, <3>3
  <2> QED BY <2>2, <2>3
<1>3. CASE T # None /\ C # << >>
  <2>1. C \in Conds /\ T \in Block /\ T2 = T
    BY <1>3 DEF Ways
  <2>2. <<Jump(T, C)>> \o << >> = <<Jump(T, C)>>
        /\ <<Jump(T, C)>> \o <<Krz(F)>> = <<Jump(T, C), Krz(F)>>
    BY Tuples
  <2>3. AnalyzeOne(Jump(T, C), AnalysisStart, l, m) = Found(T, None, C, <<Jump(T, C)>>, No, No)
    BY <2>1, AnalyzeLast, ZenonT(40)
  <2>4. CASE F = None
    <3>1. F2 = None
      BY <2>4
    <3>2. Terms(T2, F2, C) = <<Jump(T, C)>>
      BY <1>3, <2>1, <3>1 DEF Terms
    <3> QED BY <1>3, <2>1, <2>3, <2>4, <3>1, <3>2, Zenon
  <2>5. CASE F # None
    <3>1. CASE m /\ F = l
      <4>1. F2 = None /\ AnalyzeOne(Krz(F), AnalysisStart, l, m) = AnalysisStart
        BY <3>1, AnalyzeLast, ZenonT(40)
      <4>2. Terms(T2, F2, C) = <<Jump(T, C)>>
        BY <1>3, <2>1, <4>1 DEF Terms
      <4> QED BY <1>3, <2>1, <2>3, <2>5, <4>1, <4>2, Zenon
    <3>2. CASE ~(m /\ F = l)
      <4>1. F2 = F
        BY <3>2
      <4>2. AnalyzeOne(Krz(F), AnalysisStart, l, m) = Found(F, None, << >>, <<Krz(F)>>, No, No)
        <5>1. AnalyzeOne(Krz(F), AnalysisStart, l, m) =
                  IF m /\ F = l THEN AnalysisStart ELSE Found(F, None, << >>, <<Krz(F)>>, No, No)
          BY AnalyzeLast, ZenonT(40)
        <5> QED BY <3>2, <5>1, Zenon
      <4>3. AnalyzeOne(Jump(T, C), Found(F, None, << >>, <<Krz(F)>>, No, No), l, m) =
                Found(T, F, C, <<Jump(T, C)>> \o <<Krz(F)>>, No, No)
        BY <2>1, AnalyzeJump, Zenon
      <4>4. Terms(T2, F2, C) = <<Jump(T, C), Krz(F)>>
        BY <1>3, <2>1, <2>5, <4>1 DEF Terms
      <4> QED BY <1>3, <2>1, <2>2, <2>5, <4>1, <4>2, <4>3, <4>4, Zenon
    <3> QED BY <3>1, <3>2
  <2> QED BY <2>4, <2>5
<1> QED BY <1>1, <1>2, <1>3

\* Terms, one by one.
LEMMA TermsForms ==
    ASSUME NEW T, NEW F, NEW C
    PROVE  /\ T = None => Terms(T, F, C) = << >>
           /\ T # None /\ C = << >> => Terms(T, F, C) = <<Krz(T)>>
           /\ T # None /\ C # << >> /\ F = None => Terms(T, F, C) = <<Jump(T, C)>>
           /\ T # None /\ C # << >> /\ F # None => Terms(T, F, C) = <<Jump(T, C), Krz(F)>>
  BY DEF Terms

\* The terminators below a select.
LEMMA AnalyzeCode ==
    ASSUME NEW pre \in Pre, NEW T, NEW F, NEW C, Ways(T, F, C), NEW l, NEW m \in BOOLEAN,
           NEW T2, T2 = IF m /\ C = << >> /\ T = l THEN None ELSE T,
           NEW F2, F2 = IF m /\ F = l THEN None ELSE F
    PROVE  \E stop : analyzeBranch(pre \o Terms(T, F, C), l, m) =
                         Found(T2, F2, C, pre \o Terms(T2, F2, C), No, stop)
<1> DEFINE One(i, acc) == AnalyzeOne(i, acc, l, m)
           K == Terms(T2, F2, C)
           R == Found(T2, F2, C, K, No, No)
<1>0. \A a, b, c : /\ analyzeBranch(<<a>>, l, m) = One(a, AnalysisStart)
                   /\ analyzeBranch(<<a, b>>, l, m) = One(a, One(b, AnalysisStart))
                   /\ analyzeBranch(<<a, b, c>>, l, m) = One(a, One(b, One(c, AnalysisStart)))
  <2> SUFFICES ASSUME NEW a, NEW b, NEW c
               PROVE  /\ analyzeBranch(<<a>>, l, m) = One(a, AnalysisStart)
                      /\ analyzeBranch(<<a, b>>, l, m) = One(a, One(b, AnalysisStart))
                      /\ analyzeBranch(<<a, b, c>>, l, m) = One(a, One(b, One(c, AnalysisStart)))
    OBVIOUS
  <2> HIDE DEF One
  <2>1. analyzeBranch(<<a>>, l, m) = One(a, AnalysisStart)
    BY AnalyzeSome DEF One
  <2>2. analyzeBranch(<<a, b>>, l, m) = One(a, One(b, AnalysisStart))
    BY AnalyzeSome DEF One
  <2>3. analyzeBranch(<<a, b, c>>, l, m) = One(a, One(b, One(c, AnalysisStart)))
    BY AnalyzeSome DEF One
  <2> QED BY <2>1, <2>2, <2>3
<1>1. T = None => /\ Terms(T, F, C) = << >> /\ analyzeBranch(<< >>, l, m) = R
                  /\ AnalysisStart = R
  <2>1. T = None => T2 = None /\ C = << >> /\ F2 = None
    BY DEF Ways
  <2> QED BY <2>1, TermsForms, AnalyzeNothing, FoundNothing
<1>7. /\ T # None /\ C = << >> => One(Krz(T), AnalysisStart) = R
      /\ T # None /\ C # << >> /\ F = None => One(Jump(T, C), AnalysisStart) = R
      /\ T # None /\ C # << >> /\ F # None =>
             One(Jump(T, C), One(Krz(F), AnalysisStart)) = R
  BY AnalyzeTerms
<1> HIDE DEF One, K, R
<1>2. T # None /\ C = << >> => Terms(T, F, C) = <<Krz(T)>> /\ One(Krz(T), AnalysisStart) = R
  BY <1>7, TermsForms, Zenon
<1>3. T # None /\ C # << >> /\ F = None =>
          Terms(T, F, C) = <<Jump(T, C)>> /\ One(Jump(T, C), AnalysisStart) = R
  BY <1>7, TermsForms, Zenon
<1>4. T # None /\ C # << >> /\ F # None =>
          /\ Terms(T, F, C) = <<Jump(T, C), Krz(F)>>
          /\ One(Jump(T, C), One(Krz(F), AnalysisStart)) = R
  BY <1>7, TermsForms, Zenon
<1>5. CASE pre = << >>
  <2>1. << >> \o K = K
    BY TermsForms, Tuples DEF K
  <2>2. << >> \o Terms(T, F, C) = Terms(T, F, C)
    BY TermsForms, Tuples
  <2>3. analyzeBranch(Terms(T, F, C), l, m) = R
    BY <1>0, <1>1, <1>2, <1>3, <1>4
  <2> QED BY <1>5, <2>1, <2>2, <2>3 DEF R, K
<1>6. CASE \E sel \in Selects : pre = <<sel>>
  <2>1. PICK sel \in Selects : pre = <<sel>>
    BY <1>6
  <2>2. One(sel, R) = Found(T2, F2, C, <<sel>> \o K, No, Yes)
    BY AnalyzeSelect DEF One, R
  <2>3. analyzeBranch(<<sel>> \o Terms(T, F, C), l, m) = One(sel, R)
    <3> DEFINE terms == Terms(T, F, C)
    <3>1. /\ <<sel>> \o << >> = <<sel>> /\ <<sel>> \o <<Krz(T)>> = <<sel, Krz(T)>>
          /\ <<sel>> \o <<Jump(T, C)>> = <<sel, Jump(T, C)>>
          /\ <<sel>> \o <<Jump(T, C), Krz(F)>> = <<sel, Jump(T, C), Krz(F)>>
      BY Tuples
    <3> HIDE DEF terms
    <3>2. /\ T = None => terms = << >> /\ AnalysisStart = R
          /\ T # None /\ C = << >> => terms = <<Krz(T)>> /\ One(Krz(T), AnalysisStart) = R
          /\ T # None /\ C # << >> /\ F = None =>
                terms = <<Jump(T, C)>> /\ One(Jump(T, C), AnalysisStart) = R
          /\ T # None /\ C # << >> /\ F # None =>
                terms = <<Jump(T, C), Krz(F)>> /\ One(Jump(T, C), One(Krz(F), AnalysisStart)) = R
      BY <1>1, <1>2, <1>3, <1>4 DEF terms
    <3>3. analyzeBranch(<<sel>> \o terms, l, m) = One(sel, R)
      <4>1. /\ analyzeBranch(<<sel>>, l, m) = One(sel, AnalysisStart)
            /\ analyzeBranch(<<sel, Krz(T)>>, l, m) = One(sel, One(Krz(T), AnalysisStart))
            /\ analyzeBranch(<<sel, Jump(T, C)>>, l, m) = One(sel, One(Jump(T, C), AnalysisStart))
            /\ analyzeBranch(<<sel, Jump(T, C), Krz(F)>>, l, m) =
                   One(sel, One(Jump(T, C), One(Krz(F), AnalysisStart)))
        BY <1>0, ZenonT(40)
      <4> QED BY <3>1, <3>2, <4>1
    <3> QED BY <3>3 DEF terms
  <2> QED BY <2>1, <2>2, <2>3 DEF K
<1> QED BY <1>5, <1>6, SelectTypes

\* What analyzeBranch returns for the code of a block, and what it leaves of
\* it.
LEMMA Analysis ==
    ASSUME NEW pre \in Pre, NEW T, NEW F, NEW C, Ways(T, F, C), NEW l, NEW m \in BOOLEAN,
           NEW T2, T2 = IF m /\ C = << >> /\ T = l THEN None ELSE T,
           NEW F2, F2 = IF m /\ F = l THEN None ELSE F
    PROVE  LET a == analyzeBranch(pre \o Terms(T, F, C), l, m)
           IN  /\ a.TBB = T2 /\ a.FBB = F2 /\ a.Cond = C /\ ~a.failed
               /\ a.keep = pre \o Terms(T2, F2, C)
<1>1. PICK stop : analyzeBranch(pre \o Terms(T, F, C), l, m) =
                      Found(T2, F2, C, pre \o Terms(T2, F2, C), No, stop)
  BY AnalyzeCode
<1> QED BY <1>1 DEF Found, No

\* A return is not analyzable, and left alone.
LEMMA AnalysisOfReturn ==
    ASSUME NEW pre \in Pre, NEW l, NEW m \in BOOLEAN
    PROVE  LET a == analyzeBranch(pre \o <<Dosnud>>, l, m)
           IN  a.failed /\ a.keep = pre \o <<Dosnud>>
<1> DEFINE R == Found(None, None, << >>, <<Dosnud>>, Yes, Yes)
<1>1. AnalyzeOne(Dosnud, AnalysisStart, l, m) = R
  BY AnalyzeDosnud
<1>2. CASE pre = << >>
  <2>1. << >> \o <<Dosnud>> = <<Dosnud>>
    BY Tuples
  <2>2. analyzeBranch(<<Dosnud>>, l, m) = R
    BY <1>1, AnalyzeSome
  <2> QED BY <1>2, <2>1, <2>2 DEF Found, Yes
<1>3. CASE \E sel \in Selects : pre = <<sel>>
  <2>1. PICK sel \in Selects : pre = <<sel>>
    BY <1>3
  <2>2. <<sel>> \o <<Dosnud>> = <<sel, Dosnud>>
    BY Tuples
  <2>3. analyzeBranch(<<sel, Dosnud>>, l, m) =
            AnalyzeOne(sel, AnalyzeOne(Dosnud, AnalysisStart, l, m), l, m)
    BY AnalyzeSome
  <2>4. analyzeBranch(<<sel, Dosnud>>, l, m) =
            Found(None, None, << >>, <<sel>> \o <<Dosnud>>, Yes, Yes)
    BY <1>1, <2>3, AnalyzeSelect
  <2>5. analyzeBranch(pre \o <<Dosnud>>, l, m) =
            Found(None, None, << >>, pre \o <<Dosnud>>, Yes, Yes)
    BY <2>1, <2>2, <2>4
  <2> QED BY <2>5 DEF Found, Yes
<1> QED BY <1>2, <1>3, SelectTypes

\* Only the terminators go.
LEMMA RemovedBranch ==
    ASSUME NEW pre \in Pre, NEW T, NEW F, NEW C, Ways(T, F, C)
    PROVE  removeBranch(pre \o Terms(T, F, C)) = pre
<1> DEFINE s == pre \o Terms(T, F, C)
           other == {i \in DOMAIN s : ~IsBranch(s[i])}
           last == CHOOSE i \in other \cup {0} : \A j \in other : j =< i
<1>1. \A B \in Block \cup {None} : IsBranch(Krz(B))
  BY DEF Krz, IsBranch
<1>2. T # None /\ C # << >> => IsBranch(Jump(T, C))
  BY JumpFacts DEF Ways
<1>3. CASE pre = << >>
  <2>1. /\ T = None => s = << >>
        /\ T # None /\ C = << >> => s = <<Krz(T)>>
        /\ T # None /\ C # << >> /\ F = None => s = <<Jump(T, C)>>
        /\ T # None /\ C # << >> /\ F # None => s = <<Jump(T, C), Krz(F)>>
    BY <1>3, TermsForms, Tuples
  <2> HIDE DEF s
  <2>2. \A i \in DOMAIN s : IsBranch(s[i])
    BY <1>1, <1>2, <2>1 DEF Ways
  <2>3. other = {}
    BY <2>2
  <2> HIDE DEF other
  <2>4. last = 0
    BY <2>3
  <2>5. SubSeq(s, 1, 0) = << >>
    BY SubSeqEmpty
  <2> QED BY <1>3, <2>4, <2>5 DEF removeBranch, s, other
<1>4. CASE \E sel \in Selects : pre = <<sel>>
  <2>1. PICK sel \in Selects : pre = <<sel>>
    BY <1>4
  <2>2. /\ T = None => s = <<sel>>
        /\ T # None /\ C = << >> => s = <<sel, Krz(T)>>
        /\ T # None /\ C # << >> /\ F = None => s = <<sel, Jump(T, C)>>
        /\ T # None /\ C # << >> /\ F # None => s = <<sel, Jump(T, C), Krz(F)>>
    <3> DEFINE terms == Terms(T, F, C)
    <3>1. /\ <<sel>> \o << >> = <<sel>> /\ <<sel>> \o <<Krz(T)>> = <<sel, Krz(T)>>
          /\ <<sel>> \o <<Jump(T, C)>> = <<sel, Jump(T, C)>>
          /\ <<sel>> \o <<Jump(T, C), Krz(F)>> = <<sel, Jump(T, C), Krz(F)>>
      BY Tuples
    <3>2. s = <<sel>> \o terms
      BY <2>1
    <3> HIDE DEF terms, s
    <3>3. /\ T = None => terms = << >>
          /\ T # None /\ C = << >> => terms = <<Krz(T)>>
          /\ T # None /\ C # << >> /\ F = None => terms = <<Jump(T, C)>>
          /\ T # None /\ C # << >> /\ F # None => terms = <<Jump(T, C), Krz(F)>>
      BY TermsForms DEF terms
    <3> QED BY <3>1, <3>2, <3>3
  <2> HIDE DEF s
  <2>3. ~IsBranch(sel)
    BY SelectIsNoBranch
  <2>4. 1 \in DOMAIN s /\ s[1] = sel /\ \A i \in DOMAIN s : i # 1 => IsBranch(s[i])
    BY <1>1, <1>2, <2>2 DEF Ways
  <2>5. other = {1}
    BY <2>3, <2>4
  <2> HIDE DEF other
  <2>6. last = 1
    <3>1. 1 \in other \cup {0} /\ \A j \in other : j =< 1
      BY <2>5
    <3>2. last \in other \cup {0} /\ \A j \in other : j =< last
      BY <3>1
    <3> HIDE DEF last
    <3> QED BY <2>5, <3>2
  <2>7. SubSeq(s, 1, 1) = <<sel>>
    <3>1. SubSeq(s, 1, 1) = [i \in 1 .. 1 |-> s[i]]
      BY <2>2, <2>4
    <3>2. <<sel>> = [i \in 1 .. 1 |-> sel]
      OBVIOUS
    <3>3. \A i \in 1 .. 1 : s[i] = sel
      BY <2>4
    <3> QED BY <3>1, <3>2, <3>3
  <2> HIDE DEF last
  <2> QED BY <2>1, <2>6, <2>7 DEF removeBranch, s, other, last
<1> QED BY <1>3, <1>4, SelectTypes

\* insertBranch puts in the terminators.
LEMMA InsertedBranch ==
    ASSUME NEW pre \in Pre, NEW T \in Block, NEW F, NEW C, Ways(T, F, C)
    PROVE  insertBranch(pre, T, F, C) = pre \o Terms(T, F, C)
<1>1. T # None
  BY BranchAssumption
<1>2. insertBranch(pre, T, F, C) =
          pre \o (IF C = << >> THEN <<Krz(T)>> ELSE <<Jump(T, C)>>)
              \o (IF C # << >> /\ F # None THEN <<Krz(F)>> ELSE << >>)
  BY Zenon DEF insertBranch, Jump
<1>3. \A a, b : /\ (pre \o <<a>>) \o << >> = pre \o <<a>>
                /\ (pre \o <<a>>) \o <<b>> = pre \o <<a, b>>
  <2> SUFFICES ASSUME NEW a, NEW b
               PROVE  /\ (pre \o <<a>>) \o << >> = pre \o <<a>>
                      /\ (pre \o <<a>>) \o <<b>> = pre \o <<a, b>>
    OBVIOUS
  <2>1. CASE pre = << >>
    BY <2>1, Tuples
  <2>2. CASE \E sel \in Selects : pre = <<sel>>
    <3>1. PICK sel \in Selects : pre = <<sel>>
      BY <2>2
    <3>2. <<sel, a>> \o << >> = <<sel, a>> /\ <<sel, a>> \o <<b>> = <<sel, a, b>>
      BY MoreTuples
    <3>3. pre \o <<a>> = <<sel, a>> /\ pre \o <<a, b>> = <<sel, a, b>>
      BY <3>1, Tuples
    <3> QED BY <3>2, <3>3
  <2> QED BY <2>1, <2>2, SelectTypes
<1> DEFINE J == Jump(T, C)
<1>7. /\ (pre \o <<Krz(T)>>) \o << >> = pre \o <<Krz(T)>>
      /\ (pre \o <<J>>) \o << >> = pre \o <<J>>
      /\ (pre \o <<J>>) \o <<Krz(F)>> = pre \o <<J, Krz(F)>>
  BY <1>3, Zenon
<1>8. Terms(T, F, C) = IF C = << >> THEN <<Krz(T)>> ELSE IF F = None THEN <<J>> ELSE <<J, Krz(F)>>
  BY <1>1, TermsForms
<1> HIDE DEF J
<1>9. insertBranch(pre, T, F, C) =
          (pre \o (IF C = << >> THEN <<Krz(T)>> ELSE <<J>>))
              \o (IF C # << >> /\ F # None THEN <<Krz(F)>> ELSE << >>)
  BY <1>2 DEF J
<1>4. CASE C = << >>
  BY <1>4, <1>7, <1>8, <1>9
<1>5. CASE C # << >> /\ F = None
  BY <1>5, <1>7, <1>8, <1>9
<1>6. CASE C # << >> /\ F # None
  BY <1>6, <1>7, <1>8, <1>9
<1> QED BY <1>4, <1>5, <1>6

-----------------------------------------------------------------------------
(* What the machine does with it. *)

Machine(to, dst, flag) == [to |-> to, dst |-> dst, flag |-> flag]

LEMMA MachineFields ==
    ASSUME NEW to, NEW dst, NEW flag, NEW x
    PROVE  LET m == Machine(to, dst, flag)
           IN  /\ m.to = to /\ m.dst = dst /\ m.flag = flag
               /\ [m EXCEPT !.to = x] = Machine(x, dst, flag)
               /\ [m EXCEPT !.dst = x] = Machine(to, x, flag)
               /\ [m EXCEPT !.flag = x] = Machine(to, dst, x)
  BY DEF Machine

\* Nothing is executed after a jump.
LEMMA ExecuteNothing ==
    ASSUME NEW to, to # None, NEW dst, NEW flag, NEW instr, NEW p
    PROVE  Execute(Machine(to, dst, flag), instr, p, None) = Machine(to, dst, flag)
  BY MachineFields DEF Execute

\* A jump is taken once.
LEMMA ExecuteKrz ==
    ASSUME NEW to, NEW dst, NEW flag, NEW p
    PROVE  Execute(Machine(None, dst, flag), Krz(to), p, None) = Machine(to, dst, flag)
<1>1. Krz(to).op = "krz" /\ Krz(to).ops[1] = to
  BY DEF Krz
<1> DEFINE k == Krz(to)
           m == Machine(None, dst, flag)
<1>2. m.to = None /\ [m EXCEPT !.to = to] = Machine(to, dst, flag)
  BY MachineFields
<1> HIDE DEF k, m
<1>3. Execute(m, k, p, None) = [m EXCEPT !.to = k.ops[1]]
  BY <1>1, <1>2 DEF Execute, k
<1> QED BY <1>1, <1>2, <1>3 DEF k, m

LEMMA ExecuteDosnud ==
    ASSUME NEW dst, NEW flag, NEW p
    PROVE  Execute(Machine(None, dst, flag), Dosnud, p, None) = Machine("return", dst, flag)
<1>1. Dosnud.op = "dosnud"
  BY DEF Dosnud
<1> DEFINE m == Machine(None, dst, flag)
<1>2. m.to = None /\ [m EXCEPT !.to = "return"] = Machine("return", dst, flag)
  BY MachineFields
<1> HIDE DEF m
<1>3. Execute(m, Dosnud, p, None) = [m EXCEPT !.to = "return"]
  BY <1>1, <1>2 DEF Execute
<1> QED BY <1>2, <1>3 DEF m

LEMMA FiHoldsType ==
    ASSUME NEW cc \in CondCode, NEW p \in Compared
    PROVE  FiHolds(cc, p[1], p[2]) \in BOOLEAN
<1>1. p[1] \in Int /\ p[2] \in Int /\ Signed(p[1]) \in Int /\ Signed(p[2]) \in Int
  BY SignedIsInt DEF Compared
<1> DEFINE l == p[1]
           r == p[2]
<1>2. l \in Int /\ r \in Int /\ Signed(l) \in Int /\ Signed(r) \in Int
  BY <1>1
<1> HIDE DEF l, r
<1>3. /\ FiHolds(0, l, r) \in BOOLEAN /\ FiHolds(1, l, r) \in BOOLEAN
      /\ FiHolds(2, l, r) \in BOOLEAN /\ FiHolds(3, l, r) \in BOOLEAN
      /\ FiHolds(6, l, r) \in BOOLEAN /\ FiHolds(7, l, r) \in BOOLEAN
  BY <1>2 DEF FiHolds
<1>4. /\ FiHolds(8, l, r) \in BOOLEAN /\ FiHolds(9, l, r) \in BOOLEAN
      /\ FiHolds(10, l, r) \in BOOLEAN /\ FiHolds(11, l, r) \in BOOLEAN
  BY <1>2 DEF FiHolds
<1>5. cc \in {0, 1, 2, 3, 6, 7, 8, 9, 10, 11}
  BY DEF CondCode
<1> QED BY <1>3, <1>4, <1>5 DEF l, r

\* A pseudo instruction with the operands X for malkrz and those that compare.
Conditional(x, X, fi, cc) ==
    /\ x.op = "fi_malkrz" /\ x.fi = fi /\ x.ops = X \o CutOf(fi, cc)
    /\ X \in Seq(Cell) /\ Len(X) = MalkrzNumOperands(x.malkrz)
    /\ fi \in Shape \X Shape /\ cc \in CondCode

\* It, and the two instructions it is split into.
LEMMA ExecuteConditional ==
    ASSUME NEW x, NEW X, NEW fi, NEW cc, Conditional(x, X, fi, cc), NEW dst, NEW flag, NEW p
    PROVE  LET h == FiHolds(cc, p[1], p[2])
               m == Machine(None, dst, flag)
           IN  /\ Execute(m, x, p, None) = IF h THEN Taken(m, x.malkrz, X) ELSE m
               /\ Execute(m, FiOf(x), p, None) = Machine(None, dst, h)
               /\ Execute(m, MalkrzOf(x), p, None) = IF m.flag THEN Taken(m, x.malkrz, X) ELSE m
<1> DEFINE h == FiHolds(cc, p[1], p[2])
           m == Machine(None, dst, flag)
           D == CutOf(fi, cc)
           n == MalkrzNumOperands(x.malkrz)
<1>0. /\ x.op = "fi_malkrz" /\ x.fi = fi /\ x.ops = X \o D
      /\ X \in Seq(Cell) /\ Len(X) = n
      /\ fi \in Shape \X Shape /\ cc \in CondCode
  BY DEF Conditional
<1>1. D \in Seq(Cell) /\ Len(D) = FiNumOperands(fi)
  BY <1>0, CutShape, Zenon
<1>2. Compare(fi, D, p) = h
  BY <1>0, CutCompares
<1>3. m.to = None /\ [m EXCEPT !.flag = h] = Machine(None, dst, h)
  BY MachineFields
<1> HIDE DEF D, h, m
<1>4. SubSeq(X \o D, 1, Len(X)) = X /\ SubSeq(X \o D, Len(X) + 1, Len(X) + Len(D)) = D
      /\ Len(X \o D) = Len(X) + Len(D)
  <2>1. SubSeq(X \o D, 1, Len(X)) = X /\ SubSeq(X \o D, Len(X) + 1, Len(X) + Len(D)) = D
    BY <1>0, <1>1, Splits, Zenon
  <2> QED BY <1>0, <1>1, <2>1, ConcatProperties
<1>5. SubSeq(x.ops, 1, n) = X /\ SubSeq(x.ops, n + 1, Len(x.ops)) = D
      /\ SubSeq(x.ops, n + 1, n + FiNumOperands(fi)) = D
  BY <1>0, <1>1, <1>4
<1>6. Execute(m, x, p, None) = IF h THEN Taken(m, x.malkrz, X) ELSE m
  <2>1. Execute(m, x, p, None) =
            IF Compare(x.fi, SubSeq(x.ops, n + 1, Len(x.ops)), p)
            THEN Taken(m, x.malkrz, SubSeq(x.ops, 1, n)) ELSE m
    BY <1>0, <1>3 DEF Execute
  <2> QED BY <1>0, <1>2, <1>5, <2>1
<1>7. Execute(m, FiOf(x), p, None) = Machine(None, dst, h)
  <2> DEFINE y == FiOf(x)
  <2>1. y.op = "fi" /\ y.fi = fi /\ y.ops = SubSeq(x.ops, n + 1, n + FiNumOperands(fi))
    BY <1>0 DEF FiOf
  <2> HIDE DEF y
  <2>2. Execute(m, y, p, None) = [m EXCEPT !.flag = Compare(y.fi, y.ops, p)]
    BY <1>3, <2>1 DEF Execute
  <2> QED BY <1>2, <1>3, <1>5, <2>1, <2>2 DEF y
<1>8. Execute(m, MalkrzOf(x), p, None) = IF m.flag THEN Taken(m, x.malkrz, X) ELSE m
  <2> DEFINE y == MalkrzOf(x)
  <2>1. y.op = "malkrz" /\ y.malkrz = x.malkrz /\ y.ops = SubSeq(x.ops, 1, n)
    BY <1>0 DEF MalkrzOf
  <2> HIDE DEF y
  <2>2. Execute(m, y, p, None) = IF m.flag THEN Taken(m, y.malkrz, y.ops) ELSE m
    BY <1>3, <2>1 DEF Execute
  <2> QED BY <1>5, <2>1, <2>2 DEF y
<1> QED BY <1>6, <1>7, <1>8 DEF h, m

\* A conditional branch and its two instructions.
LEMMA ExecuteJump ==
    ASSUME NEW C \in Conds, NEW T \in Block, NEW dst, NEW flag, NEW p \in Compared
    PROVE  LET m == Machine(None, dst, flag)
           IN  /\ Holds(C, p) \in BOOLEAN
               /\ Execute(m, Jump(T, C), p, None) = IF Holds(C, p) THEN Machine(T, dst, flag) ELSE m
               /\ Execute(m, FiOf(Jump(T, C)), p, None) = Machine(None, dst, Holds(C, p))
               /\ Execute(m, MalkrzOf(Jump(T, C)), p, None) =
                      IF m.flag THEN Machine(T, dst, flag) ELSE m
<1>1. PICK fi \in Shape \X Shape, cc \in CondCode : C = CondOf(fi, cc)
  BY DEF Conds
<1>2. C[1] = fi /\ Tail(C) = CutOf(fi, cc) /\ Holds(C, p) = FiHolds(cc, p[1], p[2])
  BY <1>1, CondHolds, ZenonT(40)
<1> DEFINE x == Jump(T, C)
           X == <<T>>
           m == Machine(None, dst, flag)
<1>3. /\ x.op = "fi_malkrz" /\ x.fi = fi /\ x.malkrz = "x" /\ x.ops = X \o CutOf(fi, cc)
  BY <1>2 DEF Jump
<1>4. X \in Seq(Cell) /\ Len(X) = MalkrzNumOperands(x.malkrz)
  BY <1>3 DEF Cell, MalkrzNumOperands
<1>5. Taken(m, x.malkrz, X) = Machine(T, dst, flag)
  BY <1>3, MachineFields DEF Taken
<1>6. Holds(C, p) \in BOOLEAN
  BY <1>2, FiHoldsType
<1> HIDE DEF X, x
<1>7. /\ Execute(m, x, p, None) = IF Holds(C, p) THEN Taken(m, x.malkrz, X) ELSE m
      /\ Execute(m, FiOf(x), p, None) = Machine(None, dst, Holds(C, p))
      /\ Execute(m, MalkrzOf(x), p, None) = IF m.flag THEN Taken(m, x.malkrz, X) ELSE m
  <2>1. Conditional(x, X, fi, cc)
    BY <1>3, <1>4 DEF Conditional
  <2> QED BY <1>2, <2>1, ExecuteConditional
<1> QED BY <1>5, <1>6, <1>7 DEF x

\* A select: what the source program says it yields, and its two instructions.
LEMMA ExecuteSelect ==
    ASSUME NEW isd \in ISDCondCode, NEW fi \in Shape \X Shape, NEW src \in Shape,
           NEW sel, sel = LowerSELECT_CC(isd, fi, src), NEW dst, NEW flag, NEW p \in Compared
    PROVE  LET m == Machine(None, dst, flag)
               h == FiHolds(getF2003fCC(isd), p[1], p[2])
           IN  /\ h \in BOOLEAN
               /\ Execute(m, sel, p, None) = IF h THEN Machine(None, "true", flag) ELSE m
               /\ Execute(m, FiOf(sel), p, None) = Machine(None, dst, h)
               /\ Execute(m, MalkrzOf(sel), p, None) =
                      IF m.flag THEN Machine(None, "true", flag) ELSE m
<1>1. PICK X \in Seq(Cell) :
          /\ sel.op = "fi_malkrz" /\ sel.fi = fi /\ sel.malkrz = src
          /\ sel.ops = X \o CutOf(fi, getF2003fCC(isd))
          /\ Len(X) = MalkrzNumOperands(src)
          /\ SubSeq(X, 3, 2 + NumOperands(src)) = Operand("true", src)
  <2>1. IsSelect(sel, isd, fi, src)
    BY SelectFacts
  <2> QED BY <2>1, Zenon DEF IsSelect
<1>2. getF2003fCC(isd) \in CondCode
  BY DEF getF2003fCC, CondCode, ISDCondCode
<1> DEFINE m == Machine(None, dst, flag)
           h == FiHolds(getF2003fCC(isd), p[1], p[2])
<1>4. h \in BOOLEAN
  BY <1>2, FiHoldsType
<1>5. Taken(m, src, X) = Machine(None, "true", flag)
  <2>1. src # "x"
    BY BranchAssumption
  <2>2. Operand("true", src)[1] = <<"true", 1>>
    <3>1. 1 \in 1 .. NumOperands(src)
      BY DEF NumOperands
    <3> QED BY <3>1, OperandSeq
  <2>3. SubSeq(X, 3, 2 + NumOperands(src))[1][1] = "true"
    <3>1. \A y : y = <<"true", 1>> => y[1] = "true"
      OBVIOUS
    <3> QED BY <1>1, <2>2, <3>1, Zenon
  <2>4. [m EXCEPT !.dst = "true"] = Machine(None, "true", flag)
    BY MachineFields
  <2> HIDE DEF m
  <2> QED BY <2>1, <2>3, <2>4 DEF Taken
<1>6. /\ Execute(m, sel, p, None) = IF h THEN Taken(m, src, X) ELSE m
      /\ Execute(m, FiOf(sel), p, None) = Machine(None, dst, h)
      /\ Execute(m, MalkrzOf(sel), p, None) = IF m.flag THEN Taken(m, src, X) ELSE m
  <2>1. Conditional(sel, X, fi, getF2003fCC(isd))
    BY <1>1, <1>2, Zenon DEF Conditional
  <2> HIDE DEF m, h
  <2>2. /\ Execute(m, sel, p, None) = IF h THEN Taken(m, sel.malkrz, X) ELSE m
        /\ Execute(m, FiOf(sel), p, None) = Machine(None, dst, h)
        /\ Execute(m, MalkrzOf(sel), p, None) = IF m.flag THEN Taken(m, sel.malkrz, X) ELSE m
    BY <2>1, ExecuteConditional DEF m, h
  <2> QED BY <1>1, <2>2, Zenon
<1> QED BY <1>4, <1>5, <1>6

-----------------------------------------------------------------------------
(* Where the code of a block leads. *)

\* A few instructions.
LEMMA RunOfFew ==
    ASSUME NEW a, NEW b, NEW c, NEW p
    PROVE  /\ RunOf(<<a>>, p) = Execute(RunStart, a, p, None)
           /\ RunOf(<<a, b>>, p) = Execute(RunOf(<<a>>, p), b, p, None)
           /\ RunOf(<<a, b, c>>, p) = Execute(RunOf(<<a, b>>, p), c, p, None)
<1>1. RunOf(<<a>>, p) = Execute(RunOf(<< >>, p), <<a>>[0 + 1], p, None)
  <2>1. 0 \in Nat /\ DOMAIN << >> = 1 .. 0 /\ DOMAIN <<a>> = 1 .. 0 + 1
        /\ \A i \in 1 .. 0 : <<a>>[i] = << >>[i]
    OBVIOUS
  <2> QED BY <2>1, RunOfMore, ZenonT(40)
<1>2. RunOf(<<a, b>>, p) = Execute(RunOf(<<a>>, p), <<a, b>>[1 + 1], p, None)
  <2>1. 1 \in Nat /\ DOMAIN <<a>> = 1 .. 1 /\ DOMAIN <<a, b>> = 1 .. 1 + 1
        /\ \A i \in 1 .. 1 : <<a, b>>[i] = <<a>>[i]
    OBVIOUS
  <2> QED BY <2>1, RunOfMore, ZenonT(40)
<1>3. RunOf(<<a, b, c>>, p) = Execute(RunOf(<<a, b>>, p), <<a, b, c>>[2 + 1], p, None)
  <2>1. 2 \in Nat /\ DOMAIN <<a, b>> = 1 .. 2 /\ DOMAIN <<a, b, c>> = 1 .. 2 + 1
        /\ \A i \in 1 .. 2 : <<a, b, c>>[i] = <<a, b>>[i]
    OBVIOUS
  <2> DEFINE s == <<a, b>>
             t == <<a, b, c>>
             n == 2
  <2>2. n \in Nat /\ DOMAIN s = 1 .. n /\ DOMAIN t = 1 .. n + 1 /\ \A i \in 1 .. n : t[i] = s[i]
    BY <2>1, Zenon
  <2> HIDE DEF s, t, n
  <2>3. RunOf(t, p) = Execute(RunOf(s, p), t[n + 1], p, None)
    BY <2>2, RunOfMore, Zenon
  <2> QED BY <2>3, Zenon DEF s, t, n
<1>4. <<a>>[0 + 1] = a /\ <<a, b>>[1 + 1] = b /\ <<a, b, c>>[2 + 1] = c
  OBVIOUS
<1> QED BY <1>1, <1>2, <1>3, <1>4, RunOfNothing

\* What the register of the select holds after it.
Yields(pre, p) == RunOf(pre, p).dst

\* What a select yields.
LEMMA RunOfSelect ==
    ASSUME NEW isd \in ISDCondCode, NEW fi \in Shape \X Shape, NEW src \in Shape, NEW p \in Compared
    PROVE  RunOf(<<LowerSELECT_CC(isd, fi, src)>>, p) =
               IF FiHolds(getF2003fCC(isd), p[1], p[2]) THEN Machine(None, "true", FALSE)
               ELSE Machine(None, "false", FALSE)
<1> DEFINE sel == LowerSELECT_CC(isd, fi, src)
           h == FiHolds(getF2003fCC(isd), p[1], p[2])
<1>1. RunStart = Machine(None, "false", FALSE)
  BY DEF RunStart, Machine
<1>2. RunOf(<<sel>>, p) = Execute(RunStart, sel, p, None)
  BY RunOfFew, ZenonT(40)
<1>3. ASSUME NEW flag
      PROVE  Execute(Machine(None, "false", flag), sel, p, None) =
                 IF h THEN Machine(None, "true", flag) ELSE Machine(None, "false", flag)
  BY ExecuteSelect
<1> HIDE DEF sel, h
<1>4. Execute(RunStart, sel, p, None) =
          IF h THEN Machine(None, "true", FALSE) ELSE Machine(None, "false", FALSE)
  BY <1>1, <1>3, Zenon
<1> QED BY <1>2, <1>4 DEF sel, h

\* A select leads nowhere.
LEMMA RunOfPre ==
    ASSUME NEW pre \in Pre, NEW p \in Compared
    PROVE  RunOf(pre, p) = Machine(None, Yields(pre, p), FALSE)
<1>1. RunOf(<< >>, p) = Machine(None, "false", FALSE)
  BY RunOfNothing DEF RunStart, Machine
<1>2. ASSUME NEW sel \in Selects
      PROVE  \/ RunOf(<<sel>>, p) = Machine(None, "true", FALSE)
             \/ RunOf(<<sel>>, p) = Machine(None, "false", FALSE)
  <2>1. PICK isd \in ISDCondCode, fi \in Shape \X Shape, src \in Shape : sel = LowerSELECT_CC(isd, fi, src)
    BY DEF Selects
  <2> QED BY <2>1, RunOfSelect, Zenon
<1>3. \/ RunOf(pre, p) = Machine(None, "true", FALSE)
      \/ RunOf(pre, p) = Machine(None, "false", FALSE)
  BY <1>1, <1>2, SelectTypes, Zenon
<1> QED BY <1>3 DEF Yields, Machine

\* The instructions after it.
LEMMA RunOfCode ==
    ASSUME NEW pre \in Pre, NEW p, NEW a, NEW b
    PROVE  /\ RunOf(pre \o << >>, p) = RunOf(pre, p)
           /\ RunOf(pre \o <<a>>, p) = Execute(RunOf(pre, p), a, p, None)
           /\ RunOf(pre \o <<a, b>>, p) = Execute(Execute(RunOf(pre, p), a, p, None), b, p, None)
<1>1. CASE pre = << >>
  <2>1. << >> \o << >> = << >> /\ << >> \o <<a>> = <<a>> /\ << >> \o <<a, b>> = <<a, b>>
    BY Tuples
  <2> QED BY <1>1, <2>1, RunOfNothing, RunOfFew
<1>2. CASE \E sel \in Selects : pre = <<sel>>
  <2>1. PICK sel \in Selects : pre = <<sel>>
    BY <1>2
  <2>2. <<sel>> \o << >> = <<sel>> /\ <<sel>> \o <<a>> = <<sel, a>>
        /\ <<sel>> \o <<a, b>> = <<sel, a, b>>
    BY Tuples
  <2> QED BY <2>1, <2>2, RunOfFew
<1> QED BY <1>1, <1>2, SelectTypes

To(b, f) == IF b = None THEN f ELSE b

Leads(T, F, C, p, f) == IF C = << >> \/ Holds(C, p) THEN To(T, f) ELSE To(F, f)

\* Where the code of a block leads.
LEMMA OutcomeOfCode ==
    ASSUME NEW pre \in Pre, NEW T, NEW F, NEW C, Ways(T, F, C), NEW p \in Compared, NEW f
    PROVE  Outcome(pre \o Terms(T, F, C), p, f, None) =
               [to |-> Leads(T, F, C, p, f), dst |-> Yields(pre, p)]
<1> DEFINE d == Yields(pre, p)
           M(to) == Machine(to, d, FALSE)
           s == pre \o Terms(T, F, C)
<1>1. RunOf(pre, p) = M(None)
  BY RunOfPre
<1>2. ASSUME NEW to, RunOf(s, p) = M(to)
      PROVE  Outcome(s, p, f, None) = [to |-> To(to, f), dst |-> d]
  BY <1>2, OutcomeOfRun DEF Machine, To
<1>3. \A to : Execute(M(None), Krz(to), p, None) = M(to)
  BY ExecuteKrz
<1>7. /\ RunOf(pre \o << >>, p) = M(None)
      /\ \A a, b : /\ RunOf(pre \o <<a>>, p) = Execute(M(None), a, p, None)
                  /\ RunOf(pre \o <<a, b>>, p) = Execute(Execute(M(None), a, p, None), b, p, None)
  <2>1. RunOf(pre \o << >>, p) = RunOf(pre, p)
    BY RunOfCode
  <2>2. ASSUME NEW a, NEW b
        PROVE  /\ RunOf(pre \o <<a>>, p) = Execute(RunOf(pre, p), a, p, None)
               /\ RunOf(pre \o <<a, b>>, p) = Execute(Execute(RunOf(pre, p), a, p, None), b, p, None)
    BY RunOfCode
  <2> HIDE DEF M
  <2> QED BY <1>1, <2>1, <2>2, Zenon
<1> HIDE DEF d
<1>8. C \in Conds /\ T \in Block =>
          /\ Holds(C, p) \in BOOLEAN
          /\ Execute(M(None), Jump(T, C), p, None) = IF Holds(C, p) THEN M(T) ELSE M(None)
  <2>1. ASSUME C \in Conds, T \in Block, NEW flag
        PROVE  LET m == Machine(None, d, flag)
               IN  /\ Holds(C, p) \in BOOLEAN
                   /\ Execute(m, Jump(T, C), p, None) = IF Holds(C, p) THEN Machine(T, d, flag) ELSE m
    BY <2>1, ExecuteJump
  <2> QED BY <2>1, Zenon
<1> HIDE DEF M
<1>4. CASE T = None
  <2>1. Terms(T, F, C) = << >> /\ C = << >>
    BY <1>4, TermsForms DEF Ways
  <2>2. RunOf(s, p) = M(None)
    BY <1>7, <2>1
  <2> QED BY <1>2, <1>4, <2>1, <2>2 DEF Leads, d
<1>5. CASE T # None /\ C = << >>
  <2>2. Terms(T, F, C) = <<Krz(T)>>
    BY <1>5, TermsForms
  <2>1. RunOf(s, p) = M(T)
    BY <1>3, <1>7, <2>2
  <2> QED BY <1>2, <1>5, <2>1 DEF Leads, d
<1>6. CASE T # None /\ C # << >>
  <2>1. C \in Conds /\ T \in Block
    BY <1>6 DEF Ways
  <2>2. Holds(C, p) \in BOOLEAN
        /\ Execute(M(None), Jump(T, C), p, None) = IF Holds(C, p) THEN M(T) ELSE M(None)
    BY <1>8, <2>1
  <2>3. \A i : Execute(M(T), i, p, None) = M(T)
    BY <1>6, ExecuteNothing DEF M
  <2>4. RunOf(s, p) = IF Holds(C, p) THEN M(T) ELSE M(F)
    <3>1. CASE F = None
      <4>1. Terms(T, F, C) = <<Jump(T, C)>>
        BY <1>6, <3>1, TermsForms
      <4>2. RunOf(s, p) = Execute(M(None), Jump(T, C), p, None)
        BY <1>7, <4>1, Zenon
      <4> QED BY <2>2, <3>1, <4>2
    <3>2. CASE F # None
      <4>1. RunOf(s, p) = Execute(Execute(M(None), Jump(T, C), p, None), Krz(F), p, None)
        <5>1. Terms(T, F, C) = <<Jump(T, C), Krz(F)>>
          BY <1>6, <3>2, TermsForms
        <5> QED BY <1>7, <5>1, Zenon
      <4> QED BY <1>3, <2>2, <2>3, <4>1
    <3> QED BY <3>1, <3>2
  <2> QED BY <1>2, <1>6, <2>2, <2>4 DEF Leads, d
<1> QED BY <1>4, <1>5, <1>6

\* A block that returns.
LEMMA OutcomeOfReturn ==
    ASSUME NEW pre \in Pre, NEW p \in Compared, NEW f
    PROVE  Outcome(pre \o <<Dosnud>>, p, f, None) = [to |-> "return", dst |-> Yields(pre, p)]
<1>2. RunOf(pre \o <<Dosnud>>, p) = Execute(RunOf(pre, p), Dosnud, p, None)
  BY RunOfCode
<1>1. RunOf(pre \o <<Dosnud>>, p) = Machine("return", Yields(pre, p), FALSE)
  BY <1>2, RunOfPre, ExecuteDosnud
<1> QED BY <1>1, OutcomeOfRun, BranchAssumption DEF Machine

\* The opposite condition.
LEMMA Reversed ==
    ASSUME NEW C \in Conds
    PROVE  LET D == reverseBranchCondition(C)
           IN  D \in Conds /\ D # << >> /\ \A p \in Compared : Holds(D, p) <=> ~ Holds(C, p)
<1>1. PICK fi \in Shape \X Shape, cc \in CondCode : C = CondOf(fi, cc)
  BY DEF Conds
<1>2. OppositeF2003fCC(cc) \in CondCode
  BY OppositeIsCode
<1>3. reverseBranchCondition(C) = CondOf(fi, OppositeF2003fCC(cc))
  BY <1>1, ReversedCond, Zenon
<1>4. reverseBranchCondition(C) \in Conds
  BY <1>2, <1>3 DEF Conds
<1>5. ASSUME NEW p \in Compared
      PROVE  Holds(reverseBranchCondition(C), p) <=> ~ Holds(C, p)
  <2>1. Holds(C, p) = FiHolds(cc, p[1], p[2])
    BY <1>1, CondHolds, ZenonT(40)
  <2>2. Holds(CondOf(fi, OppositeF2003fCC(cc)), p) = FiHolds(OppositeF2003fCC(cc), p[1], p[2])
    BY <1>2, CondHolds, ZenonT(40)
  <2>3. p[1] \in Words /\ p[2] \in Words
    BY DEF Compared
  <2>4. FiHolds(OppositeF2003fCC(cc), p[1], p[2]) <=> ~ FiHolds(cc, p[1], p[2])
    BY <2>3, OppositeNegates
  <2> QED BY <1>3, <2>1, <2>2, <2>4
<1> QED BY <1>4, <1>5, CondType

-----------------------------------------------------------------------------
(* FiMalkrz. *)

\* Sequences put together, up to three.
Flattens(a, b, c) ==
    /\ FlattenSeq(<< >>) = << >> /\ FlattenSeq(<<a>>) = a
    /\ FlattenSeq(<<a, b>>) = a \o b /\ FlattenSeq(<<a, b, c>>) = (a \o b) \o c

LEMMA FlattenFew ==
    ASSUME NEW a, NEW b, NEW c
    PROVE  Flattens(a, b, c)
<1> DEFINE Cat(x, y) == x \o y
           Is(ss, f) == f = [i \in 1 .. Len(ss) |-> IF i = 1 THEN ss[i] ELSE Cat(f[i - 1], ss[i])]
           Flat(ss) == CHOOSE f : Is(ss, f)
<1>1. ASSUME NEW ss, Len(ss) # 0 PROVE FlattenSeq(ss) = Flat(ss)[Len(ss)]
  BY <1>1, Zenon DEF FlattenSeq
<1>2. FlattenSeq(<< >>) = << >>
  BY DEF FlattenSeq
<1> HIDE DEF Cat
<1>3. ASSUME NEW ss, NEW f, Is(ss, f) PROVE Is(ss, Flat(ss))
  <2> HIDE DEF Is
  <2> QED BY <1>3
<1>4. FlattenSeq(<<a>>) = a
  <2> DEFINE ss == <<a>>
             f == [i \in 1 .. 1 |-> a]
             g == Flat(ss)
  <2>1. Len(ss) = 1 /\ ss[1] = a
    OBVIOUS
  <2>2. Is(ss, f)
    BY <2>1
  <2> HIDE DEF ss, f
  <2>3. Is(ss, g) /\ FlattenSeq(ss) = g[Len(ss)]
    <3>1. Is(ss, g)
      BY <1>3, <2>2
    <3>2. FlattenSeq(ss) = g[Len(ss)]
      <4>1. Len(ss) # 0
        BY <2>1
      <4> QED BY <1>1, <4>1, Zenon
    <3> QED BY <3>1, <3>2
  <2> HIDE DEF g
  <2>4. g[1] = a
    BY <2>1, <2>3
  <2> QED BY <2>1, <2>3, <2>4 DEF ss
<1>5. FlattenSeq(<<a, b>>) = Cat(a, b)
  <2> DEFINE ss == <<a, b>>
             f == [i \in 1 .. 2 |-> IF i = 1 THEN a ELSE Cat(a, b)]
             g == Flat(ss)
  <2>1. Len(ss) = 2 /\ ss[1] = a /\ ss[2] = b
    OBVIOUS
  <2>2. Is(ss, f)
    BY <2>1
  <2> HIDE DEF ss, f
  <2>3. Is(ss, g) /\ FlattenSeq(ss) = g[Len(ss)]
    <3>1. Is(ss, g)
      BY <1>3, <2>2
    <3>2. FlattenSeq(ss) = g[Len(ss)]
      <4>1. Len(ss) # 0
        BY <2>1
      <4> QED BY <1>1, <4>1, Zenon
    <3> QED BY <3>1, <3>2
  <2> HIDE DEF g
  <2>4. g[1] = a /\ g[2] = Cat(g[1], b)
    BY <2>1, <2>3
  <2> QED BY <2>1, <2>3, <2>4 DEF ss
<1>6. FlattenSeq(<<a, b, c>>) = Cat(Cat(a, b), c)
  <2> DEFINE ss == <<a, b, c>>
             f == [i \in 1 .. 3 |-> IF i = 1 THEN a ELSE IF i = 2 THEN Cat(a, b) ELSE Cat(Cat(a, b), c)]
             g == Flat(ss)
  <2>1. Len(ss) = 3 /\ ss[1] = a /\ ss[2] = b /\ ss[3] = c
    OBVIOUS
  <2>2. Is(ss, f)
    BY <2>1
  <2> HIDE DEF ss, f
  <2>3. Is(ss, g) /\ FlattenSeq(ss) = g[Len(ss)]
    <3>1. Is(ss, g)
      BY <1>3, <2>2
    <3>2. FlattenSeq(ss) = g[Len(ss)]
      <4>1. Len(ss) # 0
        BY <2>1
      <4> QED BY <1>1, <4>1, Zenon
    <3> QED BY <3>1, <3>2
  <2> HIDE DEF g
  <2>4. g[1] = a /\ g[2] = Cat(g[1], b) /\ g[3] = Cat(g[2], c)
    BY <2>1, <2>3
  <2> QED BY <2>1, <2>3, <2>4 DEF ss
<1> QED BY <1>2, <1>4, <1>5, <1>6, Zenon DEF Cat, Flattens

\* What an instruction becomes.
Split(x) == IF x.op = "fi_malkrz" THEN <<FiOf(x), MalkrzOf(x)>> ELSE <<x>>

Expands(a, b, c) ==
    /\ ExpandFiMalkrz(<< >>) = << >>
    /\ ExpandFiMalkrz(<<a>>) = Split(a)
    /\ ExpandFiMalkrz(<<a, b>>) = Split(a) \o Split(b)
    /\ ExpandFiMalkrz(<<a, b, c>>) = (Split(a) \o Split(b)) \o Split(c)

LEMMA ExpandFew ==
    ASSUME NEW a, NEW b, NEW c
    PROVE  Expands(a, b, c)
<1>1. \A s : ExpandFiMalkrz(s) = FlattenSeq([i \in DOMAIN s |-> Split(s[i])])
  BY Zenon DEF ExpandFiMalkrz, Split
<1> HIDE DEF Split
<1>2. /\ [i \in DOMAIN << >> |-> Split(<< >>[i])] = << >>
      /\ [i \in DOMAIN <<a>> |-> Split(<<a>>[i])] = <<Split(a)>>
      /\ [i \in DOMAIN <<a, b>> |-> Split(<<a, b>>[i])] = <<Split(a), Split(b)>>
      /\ [i \in DOMAIN <<a, b, c>> |-> Split(<<a, b, c>>[i])] = <<Split(a), Split(b), Split(c)>>
  OBVIOUS
<1>3. /\ ExpandFiMalkrz(<< >>) = FlattenSeq(<< >>)
      /\ ExpandFiMalkrz(<<a>>) = FlattenSeq(<<Split(a)>>)
      /\ ExpandFiMalkrz(<<a, b>>) = FlattenSeq(<<Split(a), Split(b)>>)
      /\ ExpandFiMalkrz(<<a, b, c>>) = FlattenSeq(<<Split(a), Split(b), Split(c)>>)
  BY <1>1, <1>2
<1>4. /\ FlattenSeq(<< >>) = << >> /\ FlattenSeq(<<Split(a)>>) = Split(a)
      /\ FlattenSeq(<<Split(a), Split(b)>>) = Split(a) \o Split(b)
      /\ FlattenSeq(<<Split(a), Split(b), Split(c)>>) = (Split(a) \o Split(b)) \o Split(c)
  <2> DEFINE x == Split(a)
             y == Split(b)
             z == Split(c)
  <2> HIDE DEF x, y, z
  <2>1. Flattens(x, y, z)
    BY FlattenFew, Zenon
  <2> QED BY <2>1, Zenon DEF x, y, z, Flattens
<1> QED BY <1>3, <1>4, Zenon DEF Expands

\* Run after s.
Steps(m, x, p) ==
    IF x.op = "fi_malkrz"
    THEN Execute(Execute(m, FiOf(x), p, None), MalkrzOf(x), p, None)
    ELSE Execute(m, x, p, None)

LEMMA RunOfOneMore ==
    ASSUME NEW S, NEW s \in Seq(S), NEW x \in S, NEW p
    PROVE  RunOf(s \o <<x>>, p) = Execute(RunOf(s, p), x, p, None)
<1> DEFINE n == Len(s)
           t == s \o <<x>>
<1>1. n \in Nat /\ DOMAIN s = 1 .. n /\ DOMAIN t = 1 .. n + 1 /\ t[n + 1] = x
      /\ \A i \in 1 .. n : t[i] = s[i]
  OBVIOUS
<1> HIDE DEF n, t
<1>2. RunOf(t, p) = Execute(RunOf(s, p), t[n + 1], p, None)
  BY <1>1, RunOfMore, Zenon
<1> QED BY <1>1, <1>2 DEF t

LEMMA RunOfSplit ==
    ASSUME NEW S, NEW s \in Seq(S), NEW x \in S, FiOf(x) \in S, MalkrzOf(x) \in S, NEW p
    PROVE  RunOf(s \o Split(x), p) = Steps(RunOf(s, p), x, p) /\ s \o Split(x) \in Seq(S)
<1>1. CASE x.op = "fi_malkrz"
  <2> DEFINE y == FiOf(x)
             z == MalkrzOf(x)
  <2>0. y \in S /\ z \in S
    OBVIOUS
  <2> HIDE DEF y, z
  <2>5. <<y>> \in Seq(S) /\ <<z>> \in Seq(S) /\ <<y, z>> \in Seq(S)
    BY <2>0
  <2>6. <<y, z>> = <<y>> \o <<z>>
    BY Tuples, Zenon
  <2>7. s \o <<y>> \in Seq(S) /\ s \o <<y, z>> \in Seq(S)
    BY <2>5, ConcatProperties, Zenon
  <2>1. <<y>> \in Seq(S) /\ <<z>> \in Seq(S) /\ <<y, z>> = <<y>> \o <<z>> /\ s \o <<y>> \in Seq(S)
        /\ s \o <<y, z>> \in Seq(S)
    BY <2>5, <2>6, <2>7
  <2>2. s \o <<y, z>> = (s \o <<y>>) \o <<z>>
    BY <2>1, ConcatAssociative
  <2>3. RunOf((s \o <<y>>) \o <<z>>, p) = Execute(RunOf(s \o <<y>>, p), z, p, None)
    BY <2>0, <2>1, RunOfOneMore
  <2>4. RunOf(s \o <<y>>, p) = Execute(RunOf(s, p), y, p, None)
    BY <2>0, RunOfOneMore
  <2> QED BY <1>1, <2>1, <2>2, <2>3, <2>4 DEF Split, Steps, y, z
<1>2. CASE x.op # "fi_malkrz"
  <2>1. Split(x) = <<x>> /\ s \o <<x>> \in Seq(S)
    BY <1>2 DEF Split
  <2> QED BY <1>2, <2>1, RunOfOneMore DEF Steps
<1> QED BY <1>1, <1>2

\* What a block is made of.
Instrs == Selects \cup {Jump(T, C) : T \in Block, C \in Conds} \cup {Krz(T) : T \in Block} \cup {Dosnud}

\* Two machines that differ in their flags at most.
Alike(m1, m2) == \E to, dst, f1, f2 : m1 = Machine(to, dst, f1) /\ m2 = Machine(to, dst, f2)

\* The two instructions do what the one does.
LEMMA StepsAlike ==
    ASSUME NEW x \in Instrs, NEW p \in Compared, NEW m1, NEW m2, Alike(m1, m2)
    PROVE  Alike(Steps(m1, x, p), Execute(m2, x, p, None))
<1>1. PICK to, dst, f1, f2 : m1 = Machine(to, dst, f1) /\ m2 = Machine(to, dst, f2)
  BY DEF Alike
<1> DEFINE M(b, d, f) == Machine(b, d, f)
<1>2. \A b, d, f, g : Alike(M(b, d, f), M(b, d, g))
  BY DEF Alike
<1>3. ASSUME to # None PROVE Alike(Steps(m1, x, p), Execute(m2, x, p, None))
  <2>1. \A i, f : Execute(M(to, dst, f), i, p, None) = M(to, dst, f)
    BY <1>3, ExecuteNothing
  <2>2. Steps(m1, x, p) = M(to, dst, f1) /\ Execute(m2, x, p, None) = M(to, dst, f2)
    <3> HIDE DEF M
    <3> QED BY <1>1, <2>1 DEF Steps, M
  <2> QED BY <1>2, <2>2
<1>4. ASSUME to = None PROVE Alike(Steps(m1, x, p), Execute(m2, x, p, None))
  <2>1. CASE x \in Selects
    <3>1. x.op = "fi_malkrz"
      BY <2>1, SelectIsNoBranch
    <3>0. PICK isd \in ISDCondCode, fi \in Shape \X Shape, src \in Shape : x = LowerSELECT_CC(isd, fi, src)
      BY <2>1 DEF Selects
    <3>2. PICK h \in BOOLEAN : \A f :
              /\ Execute(M(None, dst, f), x, p, None) = IF h THEN M(None, "true", f) ELSE M(None, dst, f)
              /\ Execute(M(None, dst, f), FiOf(x), p, None) = M(None, dst, h)
              /\ Execute(M(None, dst, f), MalkrzOf(x), p, None) =
                     IF M(None, dst, f).flag THEN M(None, "true", f) ELSE M(None, dst, f)
      BY <3>0, ExecuteSelect
    <3>3. \A f : M(None, dst, f).flag = f
      BY DEF Machine
    <3> HIDE DEF M
    <3>4. Steps(m1, x, p) = IF h THEN M(None, "true", h) ELSE M(None, dst, h)
      BY <1>1, <1>4, <3>1, <3>2, <3>3 DEF Steps, M
    <3>5. Execute(m2, x, p, None) = IF h THEN M(None, "true", f2) ELSE M(None, dst, f2)
      BY <1>1, <1>4, <3>2 DEF M
    <3> QED BY <1>2, <3>4, <3>5
  <2>2. CASE \E T \in Block, C \in Conds : x = Jump(T, C)
    <3>0. PICK T \in Block, C \in Conds : x = Jump(T, C)
      BY <2>2
    <3>1. x.op = "fi_malkrz"
      BY <3>0, JumpFacts
    <3>2. PICK h \in BOOLEAN : \A f :
              /\ Execute(M(None, dst, f), x, p, None) = IF h THEN M(T, dst, f) ELSE M(None, dst, f)
              /\ Execute(M(None, dst, f), FiOf(x), p, None) = M(None, dst, h)
              /\ Execute(M(None, dst, f), MalkrzOf(x), p, None) =
                     IF M(None, dst, f).flag THEN M(T, dst, f) ELSE M(None, dst, f)
      BY <3>0, ExecuteJump
    <3>3. \A f : M(None, dst, f).flag = f
      BY DEF Machine
    <3> HIDE DEF M
    <3>4. Steps(m1, x, p) = IF h THEN M(T, dst, h) ELSE M(None, dst, h)
      BY <1>1, <1>4, <3>1, <3>2, <3>3 DEF Steps, M
    <3>5. Execute(m2, x, p, None) = IF h THEN M(T, dst, f2) ELSE M(None, dst, f2)
      BY <1>1, <1>4, <3>2 DEF M
    <3> QED BY <1>2, <3>4, <3>5
  <2>3. CASE \E T \in Block : x = Krz(T)
    <3>0. PICK T \in Block : x = Krz(T)
      BY <2>3
    <3>1. x.op = "krz"
      BY <3>0 DEF Krz
    <3>2. Steps(m1, x, p) = M(T, dst, f1) /\ Execute(m2, x, p, None) = M(T, dst, f2)
      BY <1>1, <1>4, <3>0, <3>1, ExecuteKrz DEF Steps
    <3> QED BY <1>2, <3>2
  <2>4. CASE x = Dosnud
    <3>1. x.op = "dosnud"
      BY <2>4 DEF Dosnud
    <3>2. Steps(m1, x, p) = M("return", dst, f1) /\ Execute(m2, x, p, None) = M("return", dst, f2)
      BY <1>1, <1>4, <2>4, <3>1, ExecuteDosnud DEF Steps
    <3> QED BY <1>2, <3>2
  <2> QED BY <2>1, <2>2, <2>3, <2>4 DEF Instrs
<1> QED BY <1>3, <1>4

\* The split code runs as the code does, but for the flag.
LEMMA ExpandedRun ==
    ASSUME NEW a \in Instrs, NEW b \in Instrs, NEW c \in Instrs, NEW p \in Compared,
           NEW s \in {<< >>, <<a>>, <<a, b>>, <<a, b, c>>}
    PROVE  Alike(RunOf(ExpandFiMalkrz(s), p), RunOf(s, p))
<1> DEFINE S == {a, b, c, FiOf(a), FiOf(b), FiOf(c), MalkrzOf(a), MalkrzOf(b), MalkrzOf(c)}
<1>0. \A x \in {a, b, c} : x \in S /\ FiOf(x) \in S /\ MalkrzOf(x) \in S
  OBVIOUS
<1> HIDE DEF S
<1>11. ASSUME NEW t \in Seq(S), NEW x \in {a, b, c}
       PROVE  RunOf(t \o Split(x), p) = Steps(RunOf(t, p), x, p) /\ t \o Split(x) \in Seq(S)
  <2>1. x \in S /\ FiOf(x) \in S /\ MalkrzOf(x) \in S
    BY <1>0
  <2> QED BY <2>1, RunOfSplit
<1>12. a \in {a, b, c} /\ b \in {a, b, c} /\ c \in {a, b, c}
  OBVIOUS
<1>1. Alike(RunStart, RunStart) /\ RunOf(<< >>, p) = RunStart
  BY RunOfNothing DEF Alike, RunStart, Machine
<1>2. /\ RunOf(<< >> \o Split(a), p) = Steps(RunStart, a, p) /\ << >> \o Split(a) \in Seq(S)
  <2>1. << >> \in Seq(S)
    OBVIOUS
  <2>2. RunOf(<< >> \o Split(a), p) = Steps(RunOf(<< >>, p), a, p) /\ << >> \o Split(a) \in Seq(S)
    BY <1>11, <1>12, <2>1, Zenon
  <2> QED BY <1>1, <2>2, Zenon
<1>3. << >> \o Split(a) = Split(a)
  BY Tuples DEF Split
<1>4. /\ RunOf(Split(a) \o Split(b), p) = Steps(RunOf(Split(a), p), b, p)
      /\ Split(a) \o Split(b) \in Seq(S)
  <2>1. Split(a) \in Seq(S)
    BY <1>2, <1>3, Zenon
  <2> QED BY <1>11, <1>12, <2>1, Zenon
<1>5. RunOf((Split(a) \o Split(b)) \o Split(c), p) = Steps(RunOf(Split(a) \o Split(b), p), c, p)
  BY <1>4, <1>11, <1>12, Zenon
<1>6. Alike(RunOf(Split(a), p), RunOf(<<a>>, p))
  BY <1>1, <1>2, <1>3, StepsAlike, RunOfFew
<1>7. Alike(RunOf(Split(a) \o Split(b), p), RunOf(<<a, b>>, p))
  <2>1. Alike(Steps(RunOf(Split(a), p), b, p), Execute(RunOf(<<a>>, p), b, p, None))
    BY <1>6, StepsAlike, Zenon
  <2> QED BY <1>4, <2>1, RunOfFew, ZenonT(40)
<1>8. Alike(RunOf((Split(a) \o Split(b)) \o Split(c), p), RunOf(<<a, b, c>>, p))
  <2>1. Alike(Steps(RunOf(Split(a) \o Split(b), p), c, p), Execute(RunOf(<<a, b>>, p), c, p, None))
    BY <1>7, StepsAlike, Zenon
  <2> QED BY <1>5, <2>1, RunOfFew, ZenonT(40)
<1>9. /\ ExpandFiMalkrz(<< >>) = << >>
      /\ ExpandFiMalkrz(<<a>>) = Split(a)
      /\ ExpandFiMalkrz(<<a, b>>) = Split(a) \o Split(b)
      /\ ExpandFiMalkrz(<<a, b, c>>) = (Split(a) \o Split(b)) \o Split(c)
  <2>1. Expands(a, b, c)
    BY ExpandFew, Zenon
  <2> QED BY <2>1, Zenon DEF Expands
<1>10. s = << >> \/ s = <<a>> \/ s = <<a, b>> \/ s = <<a, b, c>>
  OBVIOUS
<1> QED BY <1>1, <1>6, <1>7, <1>8, <1>9, <1>10, Zenon

LEMMA ExpandedOutcome ==
    ASSUME NEW s, NEW p, NEW f, Alike(RunOf(ExpandFiMalkrz(s), p), RunOf(s, p))
    PROVE  Outcome(ExpandFiMalkrz(s), p, f, None) = Outcome(s, p, f, None)
<1>1. /\ RunOf(ExpandFiMalkrz(s), p).to = RunOf(s, p).to
      /\ RunOf(ExpandFiMalkrz(s), p).dst = RunOf(s, p).dst
  BY DEF Alike, Machine
<1> QED BY <1>1, OutcomeOfRun

\* FiMalkrz keeps where a block leads and what its select yields.
LEMMA ExpandedCode ==
    ASSUME NEW pre \in Pre, NEW T, NEW F, NEW C, Ways(T, F, C), NEW p \in Compared, NEW f
    PROVE  /\ Outcome(ExpandFiMalkrz(pre \o Terms(T, F, C)), p, f, None) =
                  Outcome(pre \o Terms(T, F, C), p, f, None)
           /\ Outcome(ExpandFiMalkrz(pre \o <<Dosnud>>), p, f, None) =
                  Outcome(pre \o <<Dosnud>>, p, f, None)
<1>1. \A sel \in Selects : sel \in Instrs
  BY DEF Instrs
<1>2. /\ T # None => Krz(T) \in Instrs
      /\ F # None => Krz(F) \in Instrs
      /\ T # None /\ C # << >> => Jump(T, C) \in Instrs
      /\ Dosnud \in Instrs
  BY DEF Instrs, Ways
<1> DEFINE Few(s) == \E a \in Instrs, b \in Instrs, c \in Instrs : s \in {<< >>, <<a>>, <<a, b>>, <<a, b, c>>}
<1>3. ASSUME NEW s, Few(s) PROVE Outcome(ExpandFiMalkrz(s), p, f, None) = Outcome(s, p, f, None)
  BY <1>3, ExpandedRun, ExpandedOutcome
<1>4. Few(<< >>) /\ \A a, b, c \in Instrs : Few(<<a>>) /\ Few(<<a, b>>) /\ Few(<<a, b, c>>)
  BY <1>2
<1> HIDE DEF Few
<1> DEFINE K == Terms(T, F, C)
<1>5. \/ K = << >> \/ \E a \in Instrs : K = <<a>> \/ \E b \in Instrs : K = <<a, b>>
  BY <1>2, TermsForms
<1> HIDE DEF K
<1>6. Few(pre \o K) /\ Few(pre \o <<Dosnud>>)
  <2>1. CASE pre = << >>
    <3>1. \A a, b : << >> \o << >> = << >> /\ << >> \o <<a>> = <<a>> /\ << >> \o <<a, b>> = <<a, b>>
      BY Tuples
    <3> QED BY <1>2, <1>4, <1>5, <2>1, <3>1
  <2>2. CASE \E sel \in Selects : pre = <<sel>>
    <3>1. PICK sel \in Selects : pre = <<sel>>
      BY <2>2
    <3>2. \A a, b : /\ <<sel>> \o << >> = <<sel>> /\ <<sel>> \o <<a>> = <<sel, a>>
                    /\ <<sel>> \o <<a, b>> = <<sel, a, b>>
      BY Tuples
    <3>3. sel \in Instrs
      BY <1>1
    <3>4. Few(<<sel>> \o <<Dosnud>>) /\ Few(<<sel>> \o << >>)
      BY <1>2, <1>4, <3>2, <3>3, Zenon
    <3>5. Few(<<sel>> \o K)
      <4>1. CASE K = << >>
        BY <3>4, <4>1, Zenon
      <4>2. CASE \E a \in Instrs : K = <<a>>
        BY <1>4, <3>2, <3>3, <4>2, Zenon
      <4>3. CASE \E a \in Instrs, b \in Instrs : K = <<a, b>>
        <5>1. PICK a \in Instrs, b \in Instrs : K = <<a, b>>
          BY <4>3
        <5>2. <<sel>> \o K = <<sel, a, b>> /\ Few(<<sel, a, b>>)
          BY <1>4, <3>2, <3>3, <5>1, Zenon
        <5> QED BY <5>2, Zenon
      <4> QED BY <1>5, <4>1, <4>2, <4>3
    <3> QED BY <3>1, <3>4, <3>5
  <2> QED BY <2>1, <2>2, SelectTypes
<1> QED BY <1>3, <1>6 DEF K

-----------------------------------------------------------------------------
(* Rewriting a block. *)

CodeOf(pre, T, F, C) == pre \o Terms(T, F, C)

\* Nothing but the select: the end is open.
LEMMA OpenCode ==
    ASSUME NEW pre \in Pre
    PROVE  pre = CodeOf(pre, None, None, << >>) /\ Ways(None, None, << >>)
<1>1. CASE pre = << >>
  BY <1>1, TermsForms, Tuples DEF CodeOf, Ways
<1>2. CASE \E sel \in Selects : pre = <<sel>>
  <2>1. PICK sel \in Selects : pre = <<sel>>
    BY <1>2
  <2>2. <<sel>> \o << >> = <<sel>>
    BY Tuples
  <2>3. Terms(None, None, << >>) = << >>
    BY TermsForms
  <2>4. pre = CodeOf(pre, None, None, << >>)
    BY <2>1, <2>2, <2>3, Zenon DEF CodeOf
  <2> QED BY <2>4 DEF Ways
<1> QED BY <1>1, <1>2, SelectTypes

\* What analyzeBranch finds, without changing the block and with.
LEMMA Analyzed ==
    ASSUME NEW pre \in Pre, NEW T, NEW F, NEW C, Ways(T, F, C), NEW l
    PROVE  LET a == analyzeBranch(CodeOf(pre, T, F, C), l, FALSE)
           IN  a.TBB = T /\ a.FBB = F /\ a.Cond = C /\ ~a.failed
<1> DEFINE m == FALSE
<1>1. m \in BOOLEAN
      /\ T = (IF m /\ C = << >> /\ T = l THEN None ELSE T)
      /\ F = (IF m /\ F = l THEN None ELSE F)
  OBVIOUS
<1> HIDE DEF m
<1> DEFINE a == analyzeBranch(pre \o Terms(T, F, C), l, m)
<1>2. a.TBB = T /\ a.FBB = F /\ a.Cond = C /\ ~a.failed
  BY <1>1, Analysis, SMTT(20)
<1> QED BY <1>2, Zenon DEF m, CodeOf

Clean(instrs, l) == analyzeBranch(instrs, l, TRUE)

\* With permission to change the block, jumps to the next one go.
LEMMA Cleaned ==
    ASSUME NEW pre \in Pre, NEW T, NEW F, NEW C, Ways(T, F, C), NEW l,
           NEW T2, T2 = IF C = << >> /\ T = l THEN None ELSE T,
           NEW F2, F2 = IF F = l THEN None ELSE F
    PROVE  LET a == Clean(CodeOf(pre, T, F, C), l)
           IN  /\ a.TBB = T2 /\ a.FBB = F2 /\ a.Cond = C /\ ~a.failed
               /\ a.keep = CodeOf(pre, T2, F2, C) /\ Ways(T2, F2, C)
<1> DEFINE m == TRUE
<1>1. m \in BOOLEAN
      /\ T2 = (IF m /\ C = << >> /\ T = l THEN None ELSE T)
      /\ F2 = (IF m /\ F = l THEN None ELSE F)
  OBVIOUS
<1> HIDE DEF m
<1> DEFINE a == analyzeBranch(pre \o Terms(T, F, C), l, m)
<1>2. a.TBB = T2 /\ a.FBB = F2 /\ a.Cond = C /\ ~a.failed /\ a.keep = pre \o Terms(T2, F2, C)
  BY <1>1, Analysis, SMTT(20)
<1>3. Ways(T2, F2, C)
  BY DEF Ways
<1> QED BY <1>2, <1>3, Zenon DEF m, CodeOf, Clean

\* removeBranch and insertBranch replace the terminators.
LEMMA RewrittenBranch ==
    ASSUME NEW pre \in Pre, NEW T, NEW F, NEW C, Ways(T, F, C),
           NEW X \in Block, NEW Y, NEW D, Ways(X, Y, D)
    PROVE  Rewritten(CodeOf(pre, T, F, C), X, Y, D) = CodeOf(pre, X, Y, D)
<1>1. removeBranch(CodeOf(pre, T, F, C)) = pre
  BY RemovedBranch DEF CodeOf
<1>2. insertBranch(pre, X, Y, D) = CodeOf(pre, X, Y, D)
  BY InsertedBranch DEF CodeOf
<1> QED BY <1>1, <1>2 DEF Rewritten

\* The blocks it may lead to, if f is the one after it.
Reached(T, F, C, f) == IF C = << >> THEN {To(T, f)} ELSE {To(T, f), To(F, f)}

\* The terminators (T2, F2, C2) lead, with the block n after the code, where
\* (T, F, C) lead with f after it.
Same(T, F, C, f, T2, F2, C2, n) ==
    /\ Ways(T2, F2, C2)
    /\ Reached(T2, F2, C2, n) = Reached(T, F, C, f)
    /\ \A p \in Compared : Leads(T2, F2, C2, p, n) = Leads(T, F, C, p, f)

\* Code with such terminators.
Becomes(instrs, pre, T, F, C, f, n) ==
    \E T2, F2, C2 : instrs = CodeOf(pre, T2, F2, C2) /\ Same(T, F, C, f, T2, F2, C2, n)

\* The same condition and the same targets.
LEMMA SameTargets ==
    ASSUME NEW T, NEW F, NEW C, NEW f, NEW n,
           NEW T2, NEW F2, Ways(T2, F2, C), To(T2, n) = To(T, f),
           C = << >> \/ To(F2, n) = To(F, f)
    PROVE  Same(T, F, C, f, T2, F2, C, n)
<1>1. Reached(T2, F2, C, n) = Reached(T, F, C, f)
  BY DEF Reached
<1>2. \A p \in Compared : Leads(T2, F2, C, p, n) = Leads(T, F, C, p, f)
  BY DEF Leads
<1> QED BY <1>1, <1>2 DEF Same

LEMMA BecomesSame ==
    ASSUME NEW pre \in Pre, NEW T, NEW F, NEW C, NEW f, NEW n,
           NEW T2, NEW F2, Ways(T2, F2, C), To(T2, n) = To(T, f),
           C = << >> \/ To(F2, n) = To(F, f)
    PROVE  Becomes(CodeOf(pre, T2, F2, C), pre, T, F, C, f, n)
  BY SameTargets DEF Becomes

\* The opposite condition and the targets exchanged.
LEMMA OppositeTargets ==
    ASSUME NEW T, NEW F, NEW C \in Conds, NEW f, NEW n,
           NEW T2 \in Block, NEW F2 \in Block \cup {None},
           To(T2, n) = To(F, f), To(F2, n) = To(T, f)
    PROVE  Same(T, F, C, f, T2, F2, reverseBranchCondition(C), n)
<1> DEFINE D == reverseBranchCondition(C)
<1>1. D \in Conds /\ D # << >> /\ C # << >> /\ \A p \in Compared : Holds(D, p) <=> ~ Holds(C, p)
  BY Reversed, CondType
<1>2. T2 # None
  BY BranchAssumption
<1> HIDE DEF D
<1>3. Ways(T2, F2, D)
  BY <1>1, <1>2 DEF Ways
<1>4. Reached(T2, F2, D, n) = Reached(T, F, C, f)
  BY <1>1 DEF Reached
<1>5. \A p \in Compared : Leads(T2, F2, D, p, n) = Leads(T, F, C, p, f)
  BY <1>1 DEF Leads
<1> QED BY <1>3, <1>4, <1>5 DEF D, Same

\* The opposite condition, with the targets swapped.
LEMMA BecomesReversed ==
    ASSUME NEW pre \in Pre, NEW T, NEW F, NEW C \in Conds, NEW f, NEW n,
           NEW T2 \in Block, NEW F2 \in Block \cup {None},
           To(T2, n) = To(F, f), To(F2, n) = To(T, f)
    PROVE  /\ Ways(T2, F2, reverseBranchCondition(C))
           /\ Becomes(CodeOf(pre, T2, F2, reverseBranchCondition(C)), pre, T, F, C, f, n)
<1>1. Same(T, F, C, f, T2, F2, reverseBranchCondition(C), n)
  BY OppositeTargets
<1> QED BY <1>1, Zenon DEF Becomes, Same

\* No condition, where both targets were the same.
LEMMA OneTarget ==
    ASSUME NEW T, NEW F, NEW C, NEW f, NEW n, NEW T2, Ways(T2, None, << >>),
           To(T2, n) = To(T, f), C = << >> \/ To(T, f) = To(F, f)
    PROVE  Same(T, F, C, f, T2, None, << >>, n)
<1>1. Reached(T2, None, << >>, n) = Reached(T, F, C, f)
  BY DEF Reached
<1>2. \A p \in Compared : Leads(T2, None, << >>, p, n) = Leads(T, F, C, p, f)
  BY DEF Leads
<1> QED BY <1>1, <1>2 DEF Same

LEMMA BecomesOne ==
    ASSUME NEW pre \in Pre, NEW T, NEW F, NEW C, NEW f, NEW n, NEW T2, Ways(T2, None, << >>),
           To(T2, n) = To(T, f), To(T, f) = To(F, f)
    PROVE  Becomes(CodeOf(pre, T2, None, << >>), pre, T, F, C, f, n)
  BY OneTarget DEF Becomes

\* One rewriting after another.
LEMMA BecomesTwice ==
    ASSUME NEW instrs, NEW pre, NEW T, NEW F, NEW C, NEW f, NEW T2, NEW F2, NEW C2, NEW g, NEW n,
           Same(T, F, C, f, T2, F2, C2, g), Becomes(instrs, pre, T2, F2, C2, g, n)
    PROVE  Becomes(instrs, pre, T, F, C, f, n)
  BY DEF Becomes, Same

\* What updateTerminator makes of a block.
LEMMA UpdatedCode ==
    ASSUME NEW pre \in Pre, NEW T, NEW F, NEW C, Ways(T, F, C), NEW f,
           succs = Reached(T, F, C, f), succs \subseteq Block, NEW n \in Block \cup {None}
    PROVE  Becomes(Updated(CodeOf(pre, T, F, C), n), pre, T, F, C, f, n)
<1> DEFINE instrs == CodeOf(pre, T, F, C)
           a == analyzeBranch(instrs, n, FALSE)
           other == FallthroughBB(T)
           Good(x) == Becomes(x, pre, T, F, C, f, n)
<1>1. a.TBB = T /\ a.FBB = F /\ a.Cond = C /\ ~a.failed
  BY Analyzed
<1>2. None \notin Block /\ succs # {}
  BY BranchAssumption DEF Reached
<1>3. ASSUME NEW X \in Block, NEW Y, NEW D, Ways(X, Y, D)
      PROVE  Rewritten(instrs, X, Y, D) = CodeOf(pre, X, Y, D)
  BY <1>3, RewrittenBranch
<1>4. removeBranch(instrs) = CodeOf(pre, None, None, << >>) /\ Ways(None, None, << >>)
  BY OpenCode, RemovedBranch DEF CodeOf
<1>5. Updated(instrs, n) =
          CASE succs = {} -> instrs
            [] succs # {} /\ C = << >> ->
                  IF T # None
                  THEN IF T = n THEN removeBranch(instrs) ELSE instrs
                  ELSE IF other = n THEN instrs
                       ELSE insertBranch(instrs, other, None, << >>)
            [] succs # {} /\ C # << >> /\ F # None ->
                  IF T = n
                  THEN Rewritten(instrs, F, None, reverseBranchCondition(C))
                  ELSE IF F = n THEN Rewritten(instrs, T, None, C)
                       ELSE instrs
            [] OTHER ->
                  IF other = None
                  THEN IF canFallThrough(instrs, n)
                       THEN IF T = n THEN removeBranch(instrs)
                            ELSE Rewritten(instrs, T, None, C)
                       ELSE Rewritten(instrs, T, None, << >>)
                  ELSE IF T = n
                       THEN Rewritten(instrs, other, None, reverseBranchCondition(C))
                       ELSE IF other # n THEN Rewritten(instrs, T, other, C)
                            ELSE instrs
  <2> HIDE DEF instrs
  <2>1. /\ a.TBB = T /\ a.FBB = F /\ a.Cond = C
    BY <1>1
  <2> QED BY <2>1, Zenon DEF Updated
<1>6. canFallThrough(instrs, n) => n \in succs
  BY DEF canFallThrough
<1>7. Ways(T, F, C)
  OBVIOUS
<1> HIDE DEF instrs, a
<1>8. CASE C = << >> /\ T # None
  <2>1. T \in Block /\ To(T, f) = T /\ To(T, n) = T
    BY <1>7, <1>8 DEF Ways, To
  <2>2. CASE T = n
    <3>1. To(None, n) = To(T, f) /\ C = << >>
      BY <1>8, <2>1, <2>2 DEF To
    <3>2. Good(CodeOf(pre, None, None, << >>))
      BY <1>4, <3>1, BecomesSame, Zenon
    <3> QED BY <1>2, <1>4, <1>5, <1>8, <2>2, <3>2 DEF instrs
  <2>3. CASE T # n
    <3>1. Good(instrs)
      BY <1>8, <2>1, BecomesSame, Zenon DEF instrs
    <3> QED BY <1>2, <1>5, <1>8, <2>3, <3>1 DEF instrs
  <2> QED BY <2>2, <2>3
<1>9. CASE C = << >> /\ T = None
  <2>1. succs = {f} /\ f \in Block /\ To(T, f) = f
    BY <1>9 DEF Reached, To
  <2>2. other = f
    BY <1>2, <1>9, <2>1 DEF FallthroughBB
  <2>3. CASE f = n
    <3>1. To(T, n) = To(T, f)
      BY <2>3
    <3>2. Good(instrs)
      BY <1>9, <3>1, BecomesSame, Zenon DEF instrs
    <3> QED BY <1>2, <1>5, <1>9, <2>2, <2>3, <3>2 DEF instrs
  <2>4. CASE f # n
    <3>1. instrs = pre
      BY <1>7, <1>9, OpenCode DEF instrs, Ways
    <3>2. Ways(f, None, << >>) /\ To(f, n) = f
      BY <1>2, <2>1 DEF Ways, To
    <3>3. insertBranch(pre, f, None, << >>) = CodeOf(pre, f, None, << >>)
      BY <2>1, <3>2, InsertedBranch DEF CodeOf
    <3>4. Good(CodeOf(pre, f, None, << >>))
      BY <1>9, <2>1, <3>2, BecomesSame
    <3> QED BY <1>2, <1>5, <1>9, <2>2, <2>4, <3>1, <3>3, <3>4 DEF instrs
  <2> QED BY <2>3, <2>4
<1>10. CASE C # << >> /\ F # None
  <2>1. T \in Block /\ F \in Block /\ C \in Conds /\ F \in Block \cup {None}
        /\ \A g : To(T, g) = T /\ To(F, g) = F
    BY <1>2, <1>7, <1>10 DEF Ways, To
  <2>2. CASE T = n
    <3>1. To(None, n) = To(T, f) /\ To(F, n) = To(F, f) /\ None \in Block \cup {None}
      BY <2>1, <2>2 DEF To
    <3>2. /\ Ways(F, None, reverseBranchCondition(C))
          /\ Good(CodeOf(pre, F, None, reverseBranchCondition(C)))
      BY <2>1, <3>1, BecomesReversed
    <3>3. Rewritten(instrs, F, None, reverseBranchCondition(C)) =
              CodeOf(pre, F, None, reverseBranchCondition(C))
      BY <1>3, <2>1, <3>2
    <3> QED BY <1>2, <1>5, <1>10, <2>2, <3>2, <3>3 DEF instrs
  <2>3. CASE T # n /\ F = n
    <3>1. To(None, n) = To(F, f) /\ To(T, n) = To(T, f)
      BY <2>1, <2>3 DEF To
    <3>2. Ways(T, None, C)
      BY <1>7, <1>10 DEF Ways
    <3>3. Good(CodeOf(pre, T, None, C))
      BY <3>1, <3>2, BecomesSame
    <3>4. Rewritten(instrs, T, None, C) = CodeOf(pre, T, None, C)
      BY <1>3, <2>1, <3>2
    <3> QED BY <1>2, <1>5, <1>10, <2>3, <3>3, <3>4 DEF instrs
  <2>4. CASE T # n /\ F # n
    <3>1. Good(instrs)
      BY <1>7, <2>1, BecomesSame DEF instrs
    <3> QED BY <1>2, <1>5, <1>10, <2>4, <3>1 DEF instrs
  <2> QED BY <2>2, <2>3, <2>4
<1>11. CASE C # << >> /\ F = None
  <2>1. T \in Block /\ C \in Conds /\ succs = {T, f} /\ f \in Block /\ To(F, f) = f
        /\ (\A g : To(T, g) = T /\ To(f, g) = f) /\ To(None, n) = n
    BY <1>2, <1>7, <1>11 DEF Ways, To, Reached
  <2>2. Updated(instrs, n) =
            IF other = None
            THEN IF canFallThrough(instrs, n)
                 THEN IF T = n THEN removeBranch(instrs) ELSE Rewritten(instrs, T, None, C)
                 ELSE Rewritten(instrs, T, None, << >>)
            ELSE IF T = n
                 THEN Rewritten(instrs, other, None, reverseBranchCondition(C))
                 ELSE IF other # n THEN Rewritten(instrs, T, other, C) ELSE instrs
    BY <1>2, <1>5, <1>11
  <2>3. CASE f = T
    <3>1. other = None /\ succs = {T}
      BY <2>1, <2>3 DEF FallthroughBB
    <3>2. Ways(T, None, << >>)
      BY <2>1, <1>2 DEF Ways
    <3>3. Good(CodeOf(pre, T, None, << >>))
      BY <2>1, <2>3, <3>2, BecomesOne
    <3>4. Rewritten(instrs, T, None, << >>) = CodeOf(pre, T, None, << >>)
      BY <1>3, <2>1, <3>2
    <3>5. T = n => Good(CodeOf(pre, None, None, << >>))
      BY <1>4, <2>1, <2>3, BecomesOne
    <3> QED BY <1>4, <1>6, <2>2, <3>1, <3>3, <3>4, <3>5 DEF instrs
  <2>4. CASE f # T
    <3>1. other = f /\ f # None
      BY <1>2, <2>1, <2>4 DEF FallthroughBB
    <3>2. CASE T = n
      <4>1. /\ Ways(f, None, reverseBranchCondition(C))
            /\ Good(CodeOf(pre, f, None, reverseBranchCondition(C)))
        BY <2>1, <3>2, BecomesReversed
      <4>2. Rewritten(instrs, f, None, reverseBranchCondition(C)) =
                CodeOf(pre, f, None, reverseBranchCondition(C))
        BY <1>3, <2>1, <4>1
      <4> QED BY <2>2, <3>1, <3>2, <4>1, <4>2 DEF instrs
    <3>3. CASE T # n /\ f # n
      <4>1. Ways(T, f, C)
        BY <1>7, <1>11, <2>1 DEF Ways
      <4>2. Good(CodeOf(pre, T, f, C))
        BY <2>1, <4>1, BecomesSame
      <4>3. Rewritten(instrs, T, f, C) = CodeOf(pre, T, f, C)
        BY <1>3, <2>1, <4>1
      <4> QED BY <2>2, <3>1, <3>3, <4>2, <4>3 DEF instrs
    <3>4. CASE T # n /\ f = n
      <4>1. Good(instrs)
        BY <1>7, <2>1, <3>4, BecomesSame DEF instrs
      <4> QED BY <2>2, <3>1, <3>4, <4>1 DEF instrs
    <3> QED BY <3>2, <3>3, <3>4
  <2> QED BY <2>3, <2>4
<1> QED BY <1>8, <1>9, <1>10, <1>11

\* An unconditional branch put after the terminators, as FixTail does.
LEMMA AddedBranch ==
    ASSUME NEW pre \in Pre, NEW T, NEW C, Ways(T, None, C), C = << >> => T = None, NEW f \in Block
    PROVE  insertBranch(CodeOf(pre, T, None, C), f, None, << >>) =
               IF C = << >> THEN CodeOf(pre, f, None, << >>) ELSE CodeOf(pre, T, f, C)
<1>1. None \notin Block
  BY BranchAssumption
<1>2. CASE C = << >>
  <2>1. CodeOf(pre, T, None, C) = pre /\ Ways(f, None, << >>)
    BY <1>1, <1>2, OpenCode DEF Ways
  <2>2. insertBranch(pre, f, None, << >>) = CodeOf(pre, f, None, << >>)
    BY <2>1, InsertedBranch DEF CodeOf
  <2> QED BY <1>2, <2>1, <2>2
<1>3. CASE C # << >>
  <2> DEFINE J == Jump(T, C)
             K == Krz(f)
  <2>1. T # None /\ f # None
    BY <1>1, <1>3 DEF Ways
  <2>2. Terms(T, None, C) = <<J>> /\ Terms(T, f, C) = <<J, K>>
    BY <1>3, <2>1, TermsForms
  <2>3. insertBranch(CodeOf(pre, T, None, C), f, None, << >>) = ((pre \o <<J>>) \o <<K>>) \o << >>
    BY <2>2, Zenon DEF insertBranch, CodeOf
  <2> HIDE DEF J, K
  <2>4. CASE pre = << >>
    <3>1. << >> \o <<J>> = <<J>> /\ <<J>> \o <<K>> = <<J, K>> /\ << >> \o <<J, K>> = <<J, K>>
      BY Tuples, Zenon
    <3>2. <<J, K>> \o << >> = <<J, K>>
      BY MoreTuples, Zenon
    <3> QED BY <1>3, <2>2, <2>3, <2>4, <3>1, <3>2, Zenon DEF CodeOf
  <2>5. CASE \E sel \in Selects : pre = <<sel>>
    <3>1. PICK sel \in Selects : pre = <<sel>>
      BY <2>5
    <3>2. <<sel>> \o <<J>> = <<sel, J>> /\ <<sel>> \o <<J, K>> = <<sel, J, K>>
      BY Tuples, Zenon
    <3>3. <<sel, J>> \o <<K>> = <<sel, J, K>>
      BY MoreTuples, Zenon
    <3>4. <<sel, J, K>> \o << >> = <<sel, J, K>>
      <4>1. <<sel, J, K>> \in Seq({sel, J, K})
        OBVIOUS
      <4> QED BY <4>1, ConcatEmptySeq
    <3> QED BY <1>3, <2>2, <2>3, <3>1, <3>2, <3>3, <3>4, Zenon DEF CodeOf
  <2> QED BY <2>4, <2>5, SelectTypes
<1> QED BY <1>2, <1>3

-----------------------------------------------------------------------------
(* The invariant: the block is a select, if any, and terminators that lead, *)
(* whatever is compared, where the source program says; or it returns.      *)

Leading(pre, T, F, C) ==
    /\ Ways(T, F, C) /\ code = CodeOf(pre, T, F, C)
    /\ succs = Reached(T, F, C, falls) /\ succs \subseteq Block
    /\ phase = "open" => F = None /\ (C = << >> => T = None)
    /\ \A p \in Compared : meant[p] = [to |-> Leads(T, F, C, p, falls), dst |-> Yields(pre, p)]

BranchesInv ==
    \E pre \in Pre, T \in Block \cup {None}, F \in Block \cup {None}, C \in Conds \cup {<< >>} :
        Leading(pre, T, F, C)

Returning(pre) ==
    /\ code = pre \o <<Dosnud>> /\ succs = {} /\ phase # "open"
    /\ \A p \in Compared : meant[p] = [to |-> "return", dst |-> Yields(pre, p)]

ReturnsInv == \E pre \in Pre : Returning(pre)

PhaseInv ==
    /\ phase \in {"placed", "moved", "open", "expanded"}
    /\ next \in Block \cup {None}
    /\ phase = "placed" => falls = next

IInv ==
    /\ PhaseInv
    /\ phase # "expanded" => BranchesInv \/ ReturnsInv
    /\ phase = "expanded" => ControlFlowKept

\* Steps that keep what a block does.
LEMMA Rewrites ==
    ASSUME NEW pre \in Pre, NEW T, NEW F, NEW C, Leading(pre, T, F, C),
           Becomes(code', pre, T, F, C, falls, falls'), phase' # "open",
           UNCHANGED <<succs, meant>>
    PROVE  BranchesInv'
<1>1. PICK T2, F2, C2 : code' = CodeOf(pre, T2, F2, C2) /\ Same(T, F, C, falls, T2, F2, C2, falls')
  BY DEF Becomes
<1>2. Leading(pre, T2, F2, C2)'
  BY <1>1 DEF Leading, Same
<1>3. T2 \in Block \cup {None} /\ F2 \in Block \cup {None} /\ C2 \in Conds \cup {<< >>}
  BY <1>1 DEF Same, Ways
<1> QED BY <1>2, <1>3, Zenon DEF BranchesInv

LEMMA Opens ==
    ASSUME NEW pre \in Pre, NEW T, NEW F, NEW C, Leading(pre, T, F, C),
           NEW T2, NEW C2, code' = CodeOf(pre, T2, None, C2),
           Same(T, F, C, falls, T2, None, C2, falls'), C2 = << >> => T2 = None,
           UNCHANGED <<succs, meant>>
    PROVE  BranchesInv'
<1>2. Leading(pre, T2, None, C2)'
  BY DEF Leading, Same
<1>3. T2 \in Block \cup {None} /\ None \in Block \cup {None} /\ C2 \in Conds \cup {<< >>}
  BY DEF Same, Ways
<1> QED BY <1>2, <1>3, Zenon DEF BranchesInv

\* A block that returns is left alone.
LEMMA ReturnKept ==
    ASSUME ReturnsInv, code' = code, phase' # "open", UNCHANGED <<succs, meant>>
    PROVE  ReturnsInv'
<1>1. PICK pre \in Pre : Returning(pre)
  BY DEF ReturnsInv
<1>2. Returning(pre)'
  BY <1>1 DEF Returning
<1> QED BY <1>2 DEF ReturnsInv

LEMMA ReturnFails ==
    ASSUME ReturnsInv, NEW l, NEW m \in BOOLEAN
    PROVE  analyzeBranch(code, l, m).failed /\ analyzeBranch(code, l, m).keep = code
  BY AnalysisOfReturn DEF ReturnsInv, Returning

\* analyzeBranch of a block that leads, when it may change it: what it finds
\* and what it keeps.
FoundBy(a, pre, T, F, C, T2, F2) ==
    /\ a.TBB = T2 /\ a.FBB = F2 /\ a.Cond = C /\ ~a.failed
    /\ a.keep = CodeOf(pre, T2, F2, C) /\ Ways(T2, F2, C)
    /\ Same(T, F, C, falls, T2, F2, C, falls)
    /\ T2 = IF C = << >> /\ T = next THEN None ELSE T
    /\ F2 = IF F = next THEN None ELSE F

LEMMA CleanedCode ==
    ASSUME NEW pre \in Pre, NEW T, NEW F, NEW C, Leading(pre, T, F, C), PhaseInv,
           phase \in {"placed", "open"}
    PROVE  \E T2, F2 : FoundBy(analyzeBranch(code, next, TRUE), pre, T, F, C, T2, F2)
<1> DEFINE T2 == IF C = << >> /\ T = next THEN None ELSE T
           F2 == IF F = next THEN None ELSE F
           a == analyzeBranch(code, next, TRUE)
<1>1. /\ a.TBB = T2 /\ a.FBB = F2 /\ a.Cond = C /\ ~a.failed
      /\ a.keep = CodeOf(pre, T2, F2, C) /\ Ways(T2, F2, C)
  <2>1. Ways(T, F, C) /\ code = CodeOf(pre, T, F, C) /\ a = Clean(code, next)
    BY DEF Leading, Clean
  <2>2. T2 = (IF C = << >> /\ T = next THEN None ELSE T) /\ F2 = (IF F = next THEN None ELSE F)
    OBVIOUS
  <2> HIDE DEF T2, F2, a
  <2> DEFINE b == Clean(CodeOf(pre, T, F, C), next)
  <2>3. /\ b.TBB = T2 /\ b.FBB = F2 /\ b.Cond = C /\ ~b.failed
        /\ b.keep = CodeOf(pre, T2, F2, C) /\ Ways(T2, F2, C)
    BY <2>1, <2>2, Cleaned
  <2> HIDE DEF b
  <2>4. a = b
    BY <2>1 DEF b
  <2> QED BY <2>3, <2>4
<1>2. To(T2, falls) = To(T, falls) /\ To(F2, falls) = To(F, falls)
  BY DEF Leading, PhaseInv, To
<1>3. /\ T2 = IF C = << >> /\ T = next THEN None ELSE T
      /\ F2 = IF F = next THEN None ELSE F
  OBVIOUS
<1> HIDE DEF T2, F2, a
<1>4. Same(T, F, C, falls, T2, F2, C, falls)
  BY <1>1, <1>2, SameTargets
<1>5. FoundBy(a, pre, T, F, C, T2, F2)
  BY <1>1, <1>3, <1>4 DEF FoundBy
<1> QED BY <1>5, Zenon DEF a

\* The terminators found can be rewritten, and what becomes of them becomes
\* of the block.
Workable(a, pre, T, F, C, T2, F2) ==
    /\ removeBranch(a.keep) = CodeOf(pre, None, None, << >>) /\ Ways(None, None, << >>)
    /\ \A X \in Block : \A Y, D : Ways(X, Y, D) =>
           Rewritten(a.keep, X, Y, D) = CodeOf(pre, X, Y, D)
    /\ \A instrs, n : Becomes(instrs, pre, T2, F2, C, falls, n) =>
                          Becomes(instrs, pre, T, F, C, falls, n)
    /\ Becomes(a.keep, pre, T, F, C, falls, falls)
    /\ a.TBB = T2 /\ a.FBB = F2 /\ a.Cond = C /\ ~a.failed
    /\ succs = Reached(T2, F2, C, falls) /\ succs \subseteq Block
    /\ Ways(T2, F2, C) /\ None \notin Block
    /\ C # << >> => C \in Conds /\ T2 \in Block
    /\ T2 # None => T2 \in Block
    /\ F2 # None => F2 \in Block /\ C # << >>
    /\ C = << >> /\ T2 = next => T2 = None
    /\ F2 = next => F2 = None

LEMMA FoundFacts ==
    ASSUME NEW pre \in Pre, NEW T, NEW F, NEW C, Leading(pre, T, F, C),
           NEW a, NEW T2, NEW F2, FoundBy(a, pre, T, F, C, T2, F2)
    PROVE  Workable(a, pre, T, F, C, T2, F2)
<1>1. /\ a.keep = CodeOf(pre, T2, F2, C) /\ Ways(T2, F2, C)
      /\ Same(T, F, C, falls, T2, F2, C, falls)
      /\ a.TBB = T2 /\ a.FBB = F2 /\ a.Cond = C /\ ~a.failed
      /\ C = << >> /\ T2 = next => T2 = None
      /\ F2 = next => F2 = None
  BY DEF FoundBy
<1>2. removeBranch(a.keep) = CodeOf(pre, None, None, << >>) /\ Ways(None, None, << >>)
  BY <1>1, OpenCode, RemovedBranch DEF CodeOf
<1>3. ASSUME NEW X \in Block, NEW Y, NEW D, Ways(X, Y, D)
      PROVE  Rewritten(a.keep, X, Y, D) = CodeOf(pre, X, Y, D)
  BY <1>1, <1>3, RewrittenBranch
<1>4. ASSUME NEW instrs, NEW n, Becomes(instrs, pre, T2, F2, C, falls, n)
      PROVE  Becomes(instrs, pre, T, F, C, falls, n)
  BY <1>1, <1>4, BecomesTwice
<1>5. Becomes(a.keep, pre, T, F, C, falls, falls)
  BY <1>1 DEF Becomes
<1>6. succs = Reached(T2, F2, C, falls) /\ succs \subseteq Block
  BY <1>1 DEF Same, Leading
<1>7. /\ None \notin Block
      /\ C # << >> => C \in Conds /\ T2 \in Block
      /\ T2 # None => T2 \in Block
      /\ F2 # None => F2 \in Block /\ C # << >>
  BY <1>1, BranchAssumption DEF Ways
<1> QED BY <1>1, <1>2, <1>3, <1>4, <1>5, <1>6, <1>7, Zenon DEF Workable

\* The rewritings of the passes keep where the block leads.
LEMMA OptimizePriorKeeps ==
    ASSUME NEW pre \in Pre, NEW T, NEW F, NEW C, Leading(pre, T, F, C), PhaseInv, OptimizePrior
    PROVE  Becomes(code', pre, T, F, C, falls, falls')
<1> DEFINE a == analyzeBranch(code, next, TRUE)
           Good(x) == Becomes(x, pre, T, F, C, falls, falls)
<1>1. phase = "placed" /\ falls = next /\ next # None /\ next \in Block /\ falls' = falls
  BY DEF OptimizePrior, PhaseInv
<1>2. code' = CASE ~a.failed /\ a.TBB # None /\ a.TBB = a.FBB ->
                       IF a.TBB = next THEN removeBranch(a.keep)
                       ELSE Rewritten(a.keep, a.TBB, None, << >>)
                [] ~a.failed /\ a.TBB # a.FBB /\ a.TBB = next /\ a.FBB = None ->
                       removeBranch(a.keep)
                [] ~a.failed /\ a.TBB # a.FBB /\ a.FBB = next ->
                       Rewritten(a.keep, a.TBB, None, a.Cond)
                [] ~a.failed /\ a.TBB # a.FBB /\ a.FBB # None /\ a.TBB = next ->
                       Rewritten(a.keep, a.FBB, None, reverseBranchCondition(a.Cond))
                [] OTHER -> a.keep
  BY Zenon DEF OptimizePrior
<1>3. PICK T2, F2 : FoundBy(a, pre, T, F, C, T2, F2)
  BY <1>1, CleanedCode
<1> HIDE DEF a
<1>4. /\ removeBranch(a.keep) = CodeOf(pre, None, None, << >>) /\ Ways(None, None, << >>)
      /\ \A X \in Block : \A Y, D : Ways(X, Y, D) =>
             Rewritten(a.keep, X, Y, D) = CodeOf(pre, X, Y, D)
      /\ \A instrs, n : Becomes(instrs, pre, T2, F2, C, falls, n) =>
                            Becomes(instrs, pre, T, F, C, falls, n)
      /\ Becomes(a.keep, pre, T, F, C, falls, falls)
      /\ a.TBB = T2 /\ a.FBB = F2 /\ a.Cond = C /\ ~a.failed
      /\ Ways(T2, F2, C) /\ None \notin Block
      /\ C # << >> => C \in Conds /\ T2 \in Block
      /\ T2 # None => T2 \in Block
      /\ F2 # None => F2 \in Block /\ C # << >>
      /\ C = << >> /\ T2 = next => T2 = None
      /\ F2 = next => F2 = None
  <2>1. Workable(a, pre, T, F, C, T2, F2)
    BY <1>3, FoundFacts
  <2> QED BY <2>1, Zenon DEF Workable
<1>5. ASSUME NEW x, Becomes(x, pre, T2, F2, C, falls, falls) PROVE Good(x)
  BY <1>4, <1>5, Zenon
<1> HIDE DEF Good
<1>6. \A b \in Block : To(b, falls) = b
  BY <1>4 DEF To
<1>7. To(None, falls) = falls
  BY DEF To
<1>8. CASE T2 # None /\ T2 = F2
  <2>1. T2 \in Block /\ T2 # next /\ Ways(T2, None, << >>)
    BY <1>1, <1>4, <1>8 DEF Ways
  <2>2. code' = Rewritten(a.keep, T2, None, << >>)
    BY <1>2, <1>4, <1>8, <2>1
  <2>3. code' = CodeOf(pre, T2, None, << >>)
    BY <1>4, <2>1, <2>2
  <2>4. Becomes(CodeOf(pre, T2, None, << >>), pre, T2, F2, C, falls, falls)
    BY <1>8, <2>1, BecomesOne
  <2> QED BY <1>1, <1>5, <2>3, <2>4 DEF Good
<1>9. CASE T2 # F2 /\ T2 = next /\ F2 = None
  <2>1. code' = CodeOf(pre, None, None, << >>)
    BY <1>2, <1>4, <1>9
  <2>2. To(T2, falls) = falls /\ To(F2, falls) = falls /\ To(None, falls) = falls
    BY <1>1, <1>6, <1>7, <1>9
  <2>3. Becomes(CodeOf(pre, None, None, << >>), pre, T2, F2, C, falls, falls)
    BY <1>4, <2>2, BecomesOne
  <2> QED BY <1>1, <1>5, <2>1, <2>3 DEF Good
<1>10. CASE T2 # F2 /\ F2 # None /\ T2 = next
  <2> DEFINE D == reverseBranchCondition(C)
  <2>1. F2 # next /\ F2 \in Block /\ C \in Conds /\ T2 \in Block
    BY <1>1, <1>4, <1>10
  <2>2. code' = Rewritten(a.keep, F2, None, D)
    BY <1>2, <1>4, <1>10, <2>1
  <2>3. To(F2, falls) = To(F2, falls) /\ To(None, falls) = To(T2, falls) /\ None \in Block \cup {None}
    BY <1>1, <1>6, <1>7, <1>10
  <2>4. Ways(F2, None, D) /\ Becomes(CodeOf(pre, F2, None, D), pre, T2, F2, C, falls, falls)
    BY <2>1, <2>3, BecomesReversed
  <2>5. code' = CodeOf(pre, F2, None, D)
    BY <1>4, <2>1, <2>2, <2>4
  <2> QED BY <1>1, <1>5, <2>4, <2>5 DEF Good
<1>11. CASE ~(T2 # None /\ T2 = F2) /\ ~(T2 # F2 /\ T2 = next /\ F2 = None)
            /\ ~(T2 # F2 /\ F2 # None /\ T2 = next)
  <2>1. F2 # next
    BY <1>1, <1>4
  <2>2. code' = a.keep
    BY <1>2, <1>4, <1>11, <2>1
  <2> QED BY <1>1, <1>4, <2>2
<1> QED BY <1>8, <1>9, <1>10, <1>11

LEMMA OptimizeLoopKeeps ==
    ASSUME NEW pre \in Pre, NEW T, NEW F, NEW C, Leading(pre, T, F, C), PhaseInv, OptimizeLoop
    PROVE  Becomes(code', pre, T, F, C, falls, falls')
<1> DEFINE a == analyzeBranch(code, next, TRUE)
<1>1. phase = "placed" /\ falls = next /\ falls' = falls
  BY DEF OptimizeLoop, PhaseInv
<1>2. code' = IF ~a.failed /\ a.FBB = Self /\ a.TBB \notin {None, Self}
              THEN Rewritten(a.keep, a.FBB, a.TBB, reverseBranchCondition(a.Cond))
              ELSE a.keep
  BY Zenon DEF OptimizeLoop
<1>3. PICK T2, F2 : FoundBy(a, pre, T, F, C, T2, F2)
  BY <1>1, CleanedCode
<1> HIDE DEF a
<1>4. /\ \A X \in Block : \A Y, D : Ways(X, Y, D) =>
             Rewritten(a.keep, X, Y, D) = CodeOf(pre, X, Y, D)
      /\ \A instrs, n : Becomes(instrs, pre, T2, F2, C, falls, n) =>
                            Becomes(instrs, pre, T, F, C, falls, n)
      /\ Becomes(a.keep, pre, T, F, C, falls, falls)
      /\ a.TBB = T2 /\ a.FBB = F2 /\ a.Cond = C /\ ~a.failed
      /\ None \notin Block
      /\ C # << >> => C \in Conds /\ T2 \in Block
      /\ F2 # None => F2 \in Block /\ C # << >>
  <2>1. Workable(a, pre, T, F, C, T2, F2)
    BY <1>3, FoundFacts
  <2> QED BY <2>1, Zenon DEF Workable
<1>5. CASE F2 = Self /\ T2 \notin {None, Self}
  <2> DEFINE D == reverseBranchCondition(C)
  <2>1. F2 \in Block /\ C \in Conds /\ T2 \in Block /\ T2 \in Block \cup {None}
    BY <1>4, <1>5, BranchAssumption
  <2>2. Ways(F2, T2, D) /\ Becomes(CodeOf(pre, F2, T2, D), pre, T2, F2, C, falls, falls)
    BY <2>1, BecomesReversed
  <2>3. code' = Rewritten(a.keep, F2, T2, D)
    BY <1>2, <1>4, <1>5
  <2>4. code' = CodeOf(pre, F2, T2, D)
    BY <1>4, <2>1, <2>2, <2>3
  <2> HIDE DEF D
  <2> QED BY <1>1, <1>4, <2>2, <2>4, Zenon
<1>6. CASE ~(F2 = Self /\ T2 \notin {None, Self})
  BY <1>1, <1>2, <1>4, <1>6
<1> QED BY <1>5, <1>6

LEMMA TakeTailKeeps ==
    ASSUME NEW pre \in Pre, NEW T, NEW F, NEW C, Leading(pre, T, F, C), PhaseInv,
           NEW into \in Block, TakeTail(into)
    PROVE  BranchesInv'
<1> DEFINE a == analyzeBranch(code, next, TRUE)
           here == a.Cond # << >> /\ a.TBB = into
           FBB == IF here /\ a.FBB = None THEN next ELSE a.FBB
           Cond == IF here THEN reverseBranchCondition(a.Cond) ELSE a.Cond
           Good(X, D) == Same(T, F, C, falls, X, None, D, into)
<1>1. phase = "placed" /\ falls = next /\ falls' = into /\ into \in succs /\ UNCHANGED <<succs, meant>>
  BY DEF TakeTail, PhaseInv
<1>2. code' = CASE a.TBB # None /\ Cond = << >> -> removeBranch(a.keep)
                [] a.TBB # None /\ Cond # << >> /\ FBB # None ->
                       Rewritten(a.keep, IF here THEN FBB ELSE a.TBB, None, Cond)
                [] OTHER -> a.keep
  BY Zenon DEF TakeTail
<1>3. PICK T2, F2 : FoundBy(a, pre, T, F, C, T2, F2)
  BY <1>1, CleanedCode
<1> HIDE DEF a
<1>4. /\ removeBranch(a.keep) = CodeOf(pre, None, None, << >>) /\ Ways(None, None, << >>)
      /\ \A X \in Block : \A Y, D : Ways(X, Y, D) =>
             Rewritten(a.keep, X, Y, D) = CodeOf(pre, X, Y, D)
      /\ a.TBB = T2 /\ a.FBB = F2 /\ a.Cond = C
      /\ succs = Reached(T2, F2, C, falls) /\ succs \subseteq Block
      /\ Ways(T2, F2, C) /\ None \notin Block
      /\ C # << >> => C \in Conds /\ T2 \in Block
      /\ T2 # None => T2 \in Block
      /\ F2 # None => F2 \in Block /\ C # << >>
  <2>1. Workable(a, pre, T, F, C, T2, F2)
    BY <1>3, FoundFacts
  <2> QED BY <2>1, Zenon DEF Workable
<1>5. a.keep = CodeOf(pre, T2, F2, C) /\ Same(T, F, C, falls, T2, F2, C, falls)
  BY <1>3 DEF FoundBy
<1>6. ASSUME NEW X, NEW D, Same(T2, F2, C, falls, X, None, D, into) PROVE Good(X, D)
  BY <1>5, <1>6 DEF Same
<1> HIDE DEF Good
<1>7. ASSUME NEW X, NEW D, Good(X, D), D = << >> => X = None, code' = CodeOf(pre, X, None, D)
      PROVE  BranchesInv'
  BY <1>1, <1>7, Opens DEF Good
<1>8. /\ \A b \in Block : \A f : To(b, f) = b
      /\ \A f : To(None, f) = f
  BY <1>4 DEF To
<1>9. into \in Block /\ None \in Block \cup {None}
  OBVIOUS
<1>10. CASE T2 = None
  <2>1. C = << >> /\ F2 = None /\ into = falls
    BY <1>1, <1>4, <1>8, <1>10 DEF Ways, Reached
  <2>2. Same(T2, F2, C, falls, None, None, << >>, into)
    BY <1>4, <1>10, <2>1, OneTarget
  <2>3. code' = CodeOf(pre, None, None, << >>)
    BY <1>2, <1>4, <1>5, <1>10, <2>1
  <2> QED BY <1>6, <1>7, <2>2, <2>3
<1>11. CASE T2 # None /\ C = << >>
  <2>1. T2 \in Block /\ into = T2
    BY <1>1, <1>4, <1>8, <1>11 DEF Reached
  <2>2. Same(T2, F2, C, falls, None, None, << >>, into)
    BY <1>4, <1>8, <1>11, <2>1, OneTarget
  <2>3. ~here /\ Cond = << >>
    BY <1>4, <1>11
  <2>4. code' = CodeOf(pre, None, None, << >>)
    BY <1>2, <1>4, <1>11, <2>3
  <2> QED BY <1>6, <1>7, <2>2, <2>4
<1>12. CASE C # << >> /\ T2 = into
  <2> DEFINE D == reverseBranchCondition(C)
             X == To(F2, falls)
  <2>1. here /\ Cond = D /\ C \in Conds /\ T2 \in Block /\ T2 # None
    BY <1>4, <1>12
  <2>2. X \in Block
    BY <1>4, <1>12 DEF Reached
  <2>3. FBB = X /\ X # None
    <3>1. FBB = IF F2 = None THEN next ELSE F2
      BY <1>4, <2>1
    <3> QED BY <1>1, <1>4, <2>2, <3>1 DEF To
  <2> HIDE DEF X, here, Cond, FBB
  <2>4. To(X, into) = To(F2, falls) /\ To(None, into) = To(T2, falls)
    BY <1>8, <1>12, <2>1, <2>2 DEF X
  <2>5. Same(T2, F2, C, falls, X, None, D, into)
    BY <1>9, <2>1, <2>2, <2>4, OppositeTargets
  <2>6. D # << >> /\ Ways(X, None, D)
    BY <2>1, <2>5, Reversed DEF Same
  <2>7. code' = Rewritten(a.keep, X, None, D)
    BY <1>2, <1>4, <2>1, <2>3, <2>6
  <2>8. code' = CodeOf(pre, X, None, D)
    BY <1>4, <2>2, <2>6, <2>7
  <2> QED BY <1>6, <1>7, <2>5, <2>6, <2>8
<1>13. CASE C # << >> /\ T2 # into
  <2>1. ~here /\ Cond = C /\ FBB = F2 /\ T2 \in Block /\ T2 # None /\ C \in Conds
    BY <1>4, <1>13
  <2>2. into = To(F2, falls)
    BY <1>1, <1>4, <1>8, <1>13, <2>1 DEF Reached
  <2>3. Ways(T2, None, C)
    BY <1>4, <1>13 DEF Ways
  <2>4. To(T2, into) = To(T2, falls) /\ To(None, into) = To(F2, falls)
    BY <1>8, <2>1, <2>2
  <2>5. Same(T2, F2, C, falls, T2, None, C, into)
    BY <2>3, <2>4, SameTargets
  <2>6. code' = CodeOf(pre, T2, None, C)
    <3>1. CASE F2 = None
      BY <1>2, <1>4, <1>5, <1>13, <2>1, <3>1
    <3>2. CASE F2 # None
      <4>1. code' = Rewritten(a.keep, T2, None, C)
        BY <1>2, <1>4, <1>13, <2>1, <3>2
      <4> QED BY <1>4, <2>1, <2>3, <4>1
    <3> QED BY <3>1, <3>2
  <2> QED BY <1>6, <1>7, <1>13, <2>5, <2>6
<1> QED BY <1>10, <1>11, <1>12, <1>13

LEMMA PutTailBackKeeps ==
    ASSUME NEW pre \in Pre, NEW T, NEW F, NEW C, Leading(pre, T, F, C), PhaseInv, PutTailBack
    PROVE  Becomes(code', pre, T, F, C, falls, falls')
<1> DEFINE a == analyzeBranch(code, next, TRUE)
<1>1. /\ phase = "open" /\ falls' = next
      /\ code' = IF next = falls THEN code ELSE FixTail(falls)
  BY DEF PutTailBack
<1>2. FixTail(falls) =
          IF next # None /\ a.TBB = next /\ a.Cond # << >> /\ a.FBB = None
          THEN Rewritten(a.keep, falls, None, reverseBranchCondition(a.Cond))
          ELSE insertBranch(a.keep, falls, None, << >>)
  BY Zenon DEF FixTail
<1>3. PICK T2, F2 : FoundBy(a, pre, T, F, C, T2, F2)
  BY <1>1, CleanedCode
<1> HIDE DEF a
<1>4. /\ \A X \in Block : \A Y, D : Ways(X, Y, D) =>
             Rewritten(a.keep, X, Y, D) = CodeOf(pre, X, Y, D)
      /\ a.TBB = T2 /\ a.FBB = F2 /\ a.Cond = C /\ None \notin Block
      /\ C # << >> => C \in Conds /\ T2 \in Block
  <2>1. Workable(a, pre, T, F, C, T2, F2)
    BY <1>3, FoundFacts
  <2> QED BY <2>1, Zenon DEF Workable
<1>5. /\ Ways(T, F, C) /\ code = CodeOf(pre, T, F, C) /\ F = None /\ (C = << >> => T = None)
      /\ succs = Reached(T, F, C, falls) /\ succs \subseteq Block
  BY <1>1 DEF Leading
<1>6. falls \in Block /\ \A f : To(F, f) = f
  BY <1>5 DEF Reached, To
<1>7. CASE next = falls
  <2>1. Becomes(code, pre, T, F, C, falls, next)
    BY <1>5, <1>7, BecomesSame
  <2> QED BY <1>1, <1>7, <2>1
<1>8. CASE next # falls
  <2>1. T2 = T /\ F2 = None /\ a.keep = CodeOf(pre, T, None, C)
    BY <1>3, <1>5 DEF FoundBy
  <2>2. CASE C # << >> /\ T = next
    <3> DEFINE D == reverseBranchCondition(C)
    <3>1. C \in Conds /\ T \in Block /\ None \in Block \cup {None} /\ next # None
      BY <1>4, <2>1, <2>2
    <3>2. code' = Rewritten(a.keep, falls, None, D)
      BY <1>1, <1>2, <1>4, <1>8, <2>1, <2>2, <3>1
    <3>3. To(falls, next) = To(F, falls) /\ To(None, next) = To(T, falls)
      BY <1>4, <1>5, <1>6, <2>2, <3>1 DEF To
    <3>4. Ways(falls, None, D) /\ Becomes(CodeOf(pre, falls, None, D), pre, T, F, C, falls, next)
      BY <1>6, <3>1, <3>3, BecomesReversed
    <3>5. code' = CodeOf(pre, falls, None, D)
      BY <1>4, <1>6, <3>2, <3>4
    <3> QED BY <1>1, <3>4, <3>5
  <2>3. CASE ~(C # << >> /\ T = next)
    <3>1. code' = insertBranch(CodeOf(pre, T, None, C), falls, None, << >>)
      BY <1>1, <1>2, <1>4, <1>8, <2>1, <2>3
    <3>2. Ways(T, None, C) /\ (C = << >> => T = None)
      BY <1>5
    <3>3. code' = IF C = << >> THEN CodeOf(pre, falls, None, << >>) ELSE CodeOf(pre, T, falls, C)
      BY <1>6, <3>1, <3>2, AddedBranch
    <3>4. CASE C = << >>
      <4>1. Ways(falls, None, C) /\ To(falls, next) = To(T, falls)
        BY <1>4, <1>5, <1>6, <3>4 DEF Ways, To
      <4>2. Becomes(CodeOf(pre, falls, None, C), pre, T, F, C, falls, next)
        BY <3>4, <4>1, BecomesSame
      <4> QED BY <1>1, <3>3, <3>4, <4>2
    <3>5. CASE C # << >>
      <4>1. Ways(T, falls, C) /\ To(falls, next) = To(F, falls) /\ To(T, next) = To(T, falls)
        BY <1>4, <1>5, <1>6, <2>1, <3>5 DEF Ways, To
      <4>2. Becomes(CodeOf(pre, T, falls, C), pre, T, F, C, falls, next)
        BY <4>1, BecomesSame
      <4> QED BY <1>1, <3>3, <3>5, <4>2
    <3> QED BY <3>4, <3>5
  <2> QED BY <2>2, <2>3
<1> QED BY <1>7, <1>8

LEMMA UpdateTerminatorKeeps ==
    ASSUME NEW pre \in Pre, NEW T, NEW F, NEW C, Leading(pre, T, F, C), PhaseInv, updateTerminator
    PROVE  Becomes(code', pre, T, F, C, falls, falls')
<1>1. /\ falls' = next /\ next \in Block \cup {None}
      /\ code' = IF analyzeBranch(code, next, FALSE).failed THEN code ELSE Updated(code, next)
  BY Zenon DEF updateTerminator, PhaseInv
<1>2. /\ Ways(T, F, C) /\ code = CodeOf(pre, T, F, C)
      /\ succs = Reached(T, F, C, falls) /\ succs \subseteq Block
  BY DEF Leading
<1>3. ~ analyzeBranch(CodeOf(pre, T, F, C), next, FALSE).failed
  BY <1>2, Analyzed
<1>4. code' = Updated(CodeOf(pre, T, F, C), next)
  BY <1>1, <1>2, <1>3, Zenon
<1>5. Becomes(Updated(CodeOf(pre, T, F, C), next), pre, T, F, C, falls, next)
  BY <1>1, <1>2, UpdatedCode
<1> QED BY <1>1, <1>4, <1>5

LEMMA OptimizeOrderKeeps ==
    ASSUME NEW pre \in Pre, NEW T, NEW F, NEW C, Leading(pre, T, F, C), PhaseInv, OptimizeOrder
    PROVE  Becomes(code', pre, T, F, C, falls, falls')
<1> DEFINE a == analyzeBranch(code, next, TRUE)
           D == reverseBranchCondition(C)
<1>1. phase = "placed" /\ falls = next /\ falls' = falls /\ next \in Block \cup {None}
  BY DEF OptimizeOrder, PhaseInv
<1>2. \/ code' = a.keep
      \/ /\ ~a.failed /\ a.TBB # None /\ a.Cond # << >> /\ a.FBB # None
         /\ code' = Updated(Rewritten(a.keep, a.FBB, a.TBB, reverseBranchCondition(a.Cond)), next)
  BY Zenon DEF OptimizeOrder
<1>3. PICK T2, F2 : FoundBy(a, pre, T, F, C, T2, F2)
  BY <1>1, CleanedCode
<1> HIDE DEF a
<1>4. /\ \A X \in Block : \A Y, E : Ways(X, Y, E) =>
             Rewritten(a.keep, X, Y, E) = CodeOf(pre, X, Y, E)
      /\ \A instrs, n : Becomes(instrs, pre, T2, F2, C, falls, n) =>
                            Becomes(instrs, pre, T, F, C, falls, n)
      /\ Becomes(a.keep, pre, T, F, C, falls, falls)
      /\ a.TBB = T2 /\ a.FBB = F2 /\ a.Cond = C /\ ~a.failed
      /\ succs = Reached(T2, F2, C, falls) /\ succs \subseteq Block
      /\ None \notin Block
      /\ C # << >> => C \in Conds /\ T2 \in Block
      /\ F2 # None => F2 \in Block /\ C # << >>
  <2>1. Workable(a, pre, T, F, C, T2, F2)
    BY <1>3, FoundFacts
  <2> QED BY <2>1, Zenon DEF Workable
<1>5. CASE code' = a.keep
  BY <1>1, <1>4, <1>5
<1>6. CASE /\ C # << >> /\ F2 # None
           /\ code' = Updated(Rewritten(a.keep, F2, T2, D), next)
  <2>1. F2 \in Block /\ C \in Conds /\ T2 \in Block /\ T2 \in Block \cup {None}
    BY <1>4, <1>6
  <2>2. To(F2, falls) = To(F2, falls) /\ To(T2, falls) = To(T2, falls)
    OBVIOUS
  <2>3. Same(T2, F2, C, falls, F2, T2, D, falls)
    BY <2>1, <2>2, OppositeTargets
  <2> HIDE DEF D
  <2>4. /\ Ways(F2, T2, D) /\ Rewritten(a.keep, F2, T2, D) = CodeOf(pre, F2, T2, D)
        /\ succs = Reached(F2, T2, D, falls)
    BY <1>4, <2>1, <2>3 DEF Same
  <2>5. Becomes(Updated(CodeOf(pre, F2, T2, D), next), pre, F2, T2, D, falls, next)
    BY <1>1, <1>4, <2>4, UpdatedCode
  <2>6. Becomes(code', pre, F2, T2, D, falls, falls)
    BY <1>1, <1>6, <2>4, <2>5
  <2>7. Becomes(code', pre, T2, F2, C, falls, falls)
    BY <2>3, <2>6, BecomesTwice
  <2> QED BY <1>1, <1>4, <2>7
<1> QED BY <1>2, <1>4, <1>5, <1>6

-----------------------------------------------------------------------------
(* The initial states. *)

\* What a block selected leads to.
LEMMA SelectedMeaning ==
    ASSUME NEW isd \in ISDCondCode, NEW fi \in Shape \X Shape, NEW src \in Shape \cup {"none"},
           NEW pre, pre = (IF src = "none" THEN << >> ELSE <<LowerSELECT_CC(isd, fi, src)>>),
           NEW p \in Compared
    PROVE  /\ pre \in Pre
           /\ Yields(pre, p) = IF ISDHolds(isd, p[1], p[2]) /\ src # "none" THEN "true" ELSE "false"
<1> DEFINE h == FiHolds(getF2003fCC(isd), p[1], p[2])
<1>1. h <=> ISDHolds(isd, p[1], p[2])
  BY LoweredConditionsAgree DEF Compared
<1>2. CASE src = "none"
  <2>1. Yields(<< >>, p) = "false"
    BY RunOfNothing DEF Yields, RunStart
  <2> QED BY <1>2, <2>1 DEF Pre
<1>3. CASE src # "none"
  <2>1. src \in Shape /\ pre = <<LowerSELECT_CC(isd, fi, src)>>
    BY <1>3
  <2>2. RunOf(pre, p) = IF h THEN Machine(None, "true", FALSE) ELSE Machine(None, "false", FALSE)
    <3>1. RunOf(<<LowerSELECT_CC(isd, fi, src)>>, p) =
              IF h THEN Machine(None, "true", FALSE) ELSE Machine(None, "false", FALSE)
      BY <2>1, RunOfSelect, Zenon
    <3> QED BY <2>1, <3>1, Zenon
  <2>3. RunOf(pre, p).dst = IF h THEN "true" ELSE "false"
    <3> HIDE DEF h
    <3>1. Machine(None, "true", FALSE).dst = "true" /\ Machine(None, "false", FALSE).dst = "false"
      BY DEF Machine
    <3> QED BY <2>2, <3>1
  <2>4. LowerSELECT_CC(isd, fi, src) \in Selects
    BY <2>1 DEF Selects
  <2>5. pre \in Pre
    BY <2>1, <2>4, Zenon DEF Pre
  <2> QED BY <1>1, <1>3, <2>3, <2>5, Zenon DEF Yields
<1> QED BY <1>2, <1>3

\* What the source program says of a block that ends in a conditional branch
\* to T, or else F.
SourceMeaning(isd, src, T, F) ==
    [p \in Compared |->
        IF ISDHolds(isd, p[1], p[2])
        THEN [to |-> T, dst |-> IF src = "none" THEN "false" ELSE "true"]
        ELSE [to |-> F, dst |-> "false"]]

LEMMA SourceMeaningIs ==
    ASSUME NEW isd \in ISDCondCode, NEW fi \in Shape \X Shape, NEW src \in Shape \cup {"none"},
           NEW pre, pre = (IF src = "none" THEN << >> ELSE <<LowerSELECT_CC(isd, fi, src)>>),
           NEW T, NEW F, NEW p \in Compared
    PROVE  SourceMeaning(isd, src, T, F)[p] =
               [to |-> IF ISDHolds(isd, p[1], p[2]) THEN T ELSE F, dst |-> Yields(pre, p)]
<1> DEFINE h == ISDHolds(isd, p[1], p[2])
<1>1. Yields(pre, p) = IF h /\ src # "none" THEN "true" ELSE "false"
  BY SelectedMeaning
<1>2. SourceMeaning(isd, src, T, F)[p] =
          IF h THEN [to |-> T, dst |-> IF src = "none" THEN "false" ELSE "true"]
          ELSE [to |-> F, dst |-> "false"]
  BY DEF SourceMeaning
<1> HIDE DEF h
<1>3. CASE h
  <2>1. /\ Yields(pre, p) = IF src = "none" THEN "false" ELSE "true"
        /\ (IF h THEN T ELSE F) = T
    BY <1>1, <1>3, Zenon
  <2>2. SourceMeaning(isd, src, T, F)[p] = [to |-> T, dst |-> IF src = "none" THEN "false" ELSE "true"]
    BY <1>2, <1>3, Zenon
  <2> QED BY <2>1, <2>2, Zenon DEF h
<1>4. CASE ~h
  <2>1. Yields(pre, p) = "false" /\ (IF h THEN T ELSE F) = F
    BY <1>1, <1>4, Zenon
  <2>2. SourceMeaning(isd, src, T, F)[p] = [to |-> F, dst |-> "false"]
    BY <1>2, <1>4, Zenon
  <2> QED BY <2>1, <2>2, Zenon DEF h
<1> QED BY <1>3, <1>4 DEF h

\* The code instruction selection leaves leads there.
LEMMA SelectedBlock ==
    ASSUME NEW isd \in ISDCondCode, NEW fi \in Shape \X Shape, NEW src \in Shape \cup {"none"},
           NEW pre, pre = (IF src = "none" THEN << >> ELSE <<LowerSELECT_CC(isd, fi, src)>>),
           NEW T \in Block, NEW F \in Block, phase = "placed", next \in Block \cup {None}, falls = next,
           \/ /\ code = pre \o <<LowerBR_CC(isd, fi, T), Krz(F)>>
              /\ succs = {T, F} /\ meant = SourceMeaning(isd, src, T, F)
           \/ /\ T = F
              /\ code = pre \o <<Krz(T)>> \/ (code = pre /\ T = next)
              /\ succs = {T} /\ meant = SourceMeaning(isd, src, T, T)
           \/ /\ T = F
              /\ code = pre \o <<Dosnud>>
              /\ succs = {} /\ meant = SourceMeaning(isd, src, "return", "return")
    PROVE  BranchesInv \/ ReturnsInv
<1> DEFINE h(p) == ISDHolds(isd, p[1], p[2])
           cc == getF2003fCC(isd)
           C == CondOf(fi, cc)
<1>1. pre \in Pre
  <2>1. <<0, 0>> \in Compared
    BY HalfAssumption DEF Compared, Words
  <2> QED BY <2>1, SelectedMeaning
<1>2. \A t, f, p : p \in Compared => SourceMeaning(isd, src, t, f)[p] =
                       [to |-> IF h(p) THEN t ELSE f, dst |-> Yields(pre, p)]
  BY SourceMeaningIs
<1>7. \A t, p : p \in Compared => SourceMeaning(isd, src, t, t)[p] = [to |-> t, dst |-> Yields(pre, p)]
  <2> SUFFICES ASSUME NEW t, NEW p \in Compared
               PROVE  SourceMeaning(isd, src, t, t)[p] = [to |-> t, dst |-> Yields(pre, p)]
    BY Zenon
  <2>1. SourceMeaning(isd, src, t, t)[p] = [to |-> IF h(p) THEN t ELSE t, dst |-> Yields(pre, p)]
    BY <1>2
  <2> HIDE DEF h
  <2>2. (IF h(p) THEN t ELSE t) = t
    BY Zenon
  <2> QED BY <2>1, <2>2, Zenon
<1>3. None \notin Block
  BY BranchAssumption
<1>4. CASE /\ code = pre \o <<LowerBR_CC(isd, fi, T), Krz(F)>>
           /\ succs = {T, F} /\ meant = SourceMeaning(isd, src, T, F)
  <2>1. getF2003fCC(isd) \in CondCode
    BY DEF getF2003fCC, CondCode, ISDCondCode
  <2>2. C \in Conds
    BY <2>1 DEF Conds
  <2>3. C # << >>
    BY <2>2, CondType
  <2>4. LowerBR_CC(isd, fi, T) = Jump(T, C)
    BY <2>1, LoweredBranch DEF LowerBR_CC
  <2>5. ASSUME NEW p \in Compared
        PROVE  Holds(C, p) <=> h(p)
    <3>1. FiHolds(cc, p[1], p[2]) <=> h(p)
      BY LoweredConditionsAgree DEF Compared
    <3>2. cc \in CondCode
      BY <2>1
    <3> HIDE DEF cc
    <3>3. Holds(C, p) = FiHolds(cc, p[1], p[2])
      BY <3>2, CondHolds, ZenonT(40)
    <3> QED BY <3>1, <3>3
  <2> HIDE DEF C, h
  <2>6. code = CodeOf(pre, T, F, C)
    <3>1. Terms(T, F, C) = <<Jump(T, C), Krz(F)>>
      BY <1>3, <2>3, TermsForms
    <3> QED BY <1>4, <2>4, <3>1, Zenon DEF CodeOf
  <2>7. Ways(T, F, C)
    BY <1>3, <2>2, <2>3 DEF Ways
  <2>8. succs = Reached(T, F, C, falls) /\ succs \subseteq Block
    BY <1>3, <1>4, <2>3 DEF Reached, To
  <2>9. ASSUME NEW p \in Compared
        PROVE  meant[p] = [to |-> Leads(T, F, C, p, falls), dst |-> Yields(pre, p)]
    <3>1. Leads(T, F, C, p, falls) = IF h(p) THEN T ELSE F
      BY <1>3, <2>3, <2>5 DEF Leads, To
    <3> QED BY <1>2, <1>4, <3>1
  <2>10. Leading(pre, T, F, C)
    BY <2>6, <2>7, <2>8, <2>9 DEF Leading
  <2> QED BY <1>1, <2>2, <2>10, Zenon DEF BranchesInv
<1>5. CASE /\ code = pre \o <<Krz(T)>> \/ (code = pre /\ T = next)
           /\ succs = {T} /\ meant = SourceMeaning(isd, src, T, T)
  <2>1. PICK t \in {T, None} : code = CodeOf(pre, t, None, << >>) /\ To(t, next) = T
    <3>1. CASE code = pre \o <<Krz(T)>>
      <4>1. Terms(T, None, << >>) = <<Krz(T)>>
        BY <1>3, TermsForms
      <4>2. code = CodeOf(pre, T, None, << >>)
        BY <3>1, <4>1, Zenon DEF CodeOf
      <4> QED BY <1>3, <4>2 DEF To
    <3>2. CASE code = pre /\ T = next
      <4>1. code = CodeOf(pre, None, None, << >>)
        BY <1>1, <3>2, OpenCode
      <4> QED BY <3>2, <4>1 DEF To
    <3> QED BY <1>5, <3>1, <3>2
  <2>2. Ways(t, None, << >>)
    BY <2>1 DEF Ways
  <2>3. succs = Reached(t, None, << >>, falls) /\ succs \subseteq Block
    BY <1>5, <2>1 DEF Reached
  <2>4. ASSUME NEW p \in Compared
        PROVE  meant[p] = [to |-> Leads(t, None, << >>, p, falls), dst |-> Yields(pre, p)]
    <3>1. Leads(t, None, << >>, p, falls) = T
      BY <2>1, Zenon DEF Leads
    <3> QED BY <1>5, <1>7, <3>1
  <2>5. Leading(pre, t, None, << >>)
    BY <2>1, <2>2, <2>3, <2>4 DEF Leading
  <2>6. t \in Block \cup {None} /\ None \in Block \cup {None} /\ << >> \in Conds \cup {<< >>}
    OBVIOUS
  <2> QED BY <1>1, <2>5, <2>6, Zenon DEF BranchesInv
<1>6. CASE /\ code = pre \o <<Dosnud>>
           /\ succs = {} /\ meant = SourceMeaning(isd, src, "return", "return")
  <2>1. ASSUME NEW p \in Compared
        PROVE  meant[p] = [to |-> "return", dst |-> Yields(pre, p)]
    BY <1>6, <1>7
  <2>2. Returning(pre)
    BY <1>6, <2>1 DEF Returning
  <2> QED BY <1>1, <2>2 DEF ReturnsInv
<1> QED BY <1>4, <1>5, <1>6

\* Instruction selection establishes the invariant,
LEMMA InitInv == Init => IInv
<1> SUFFICES ASSUME Init PROVE IInv
  OBVIOUS
<1>1. phase = "placed" /\ next \in Block \cup {None} /\ falls = next
  BY DEF Init, Others
<1>2. PICK isd \in ISDCondCode, fi \in Shape \X Shape, src \in Shape \cup {"none"},
           T \in Block, F \in Block :
          LET pre == IF src = "none" THEN << >> ELSE <<LowerSELECT_CC(isd, fi, src)>>
          IN  \/ /\ code = pre \o <<LowerBR_CC(isd, fi, T), Krz(F)>>
                 /\ succs = {T, F} /\ meant = SourceMeaning(isd, src, T, F)
              \/ /\ T = F
                 /\ code = pre \o <<Krz(T)>> \/ (code = pre /\ T = next)
                 /\ succs = {T} /\ meant = SourceMeaning(isd, src, T, T)
              \/ /\ T = F
                 /\ code = pre \o <<Dosnud>>
                 /\ succs = {} /\ meant = SourceMeaning(isd, src, "return", "return")
  BY Zenon DEF Init, SourceMeaning
<1>3. BranchesInv \/ ReturnsInv
  BY <1>1, <1>2, SelectedBlock, Zenon
<1> QED BY <1>1, <1>3 DEF IInv, PhaseInv

-----------------------------------------------------------------------------
(* The properties. *)

\* What the invariant says of the program.
LEMMA KeptByInv == IInv => ControlFlowKept
<1> SUFFICES ASSUME IInv, phase # "expanded", NEW p \in Compared
             PROVE  Outcome(code, p, falls, None) = meant[p]
  BY DEF IInv, ControlFlowKept
<1>1. CASE BranchesInv
  <2>1. PICK pre \in Pre, T \in Block \cup {None}, F \in Block \cup {None}, C \in Conds \cup {<< >>} :
            Leading(pre, T, F, C)
    BY <1>1, Zenon DEF BranchesInv
  <2>2. /\ Ways(T, F, C) /\ code = CodeOf(pre, T, F, C)
        /\ meant[p] = [to |-> Leads(T, F, C, p, falls), dst |-> Yields(pre, p)]
    BY <2>1 DEF Leading
  <2>3. Outcome(CodeOf(pre, T, F, C), p, falls, None) =
            [to |-> Leads(T, F, C, p, falls), dst |-> Yields(pre, p)]
    BY <2>2, OutcomeOfCode DEF CodeOf
  <2> QED BY <2>2, <2>3
<1>2. CASE ReturnsInv
  <2>1. PICK pre \in Pre : Returning(pre)
    BY <1>2 DEF ReturnsInv
  <2> QED BY <2>1, OutcomeOfReturn DEF Returning
<1> QED BY <1>1, <1>2 DEF IInv

LEMMA RightByInv == IInv => AnalysisIsRight
<1> DEFINE a == analyzeBranch(code, next, FALSE)
<1> SUFFICES ASSUME IInv, phase # "expanded", ~a.failed, NEW p \in Compared
             PROVE  meant[p].to = IF a.Cond = << >> \/ Compare(a.Cond[1], Tail(a.Cond), p)
                                  THEN To(a.TBB, falls) ELSE To(a.FBB, falls)
  BY Zenon DEF AnalysisIsRight, To
<1>1. ~ReturnsInv
  <2> DEFINE m == FALSE
  <2>1. m \in BOOLEAN /\ ~analyzeBranch(code, next, m).failed
    OBVIOUS
  <2> HIDE DEF m
  <2> QED BY <2>1, ReturnFails
<1>2. PICK pre \in Pre, T \in Block \cup {None}, F \in Block \cup {None}, C \in Conds \cup {<< >>} :
          Leading(pre, T, F, C)
  BY <1>1, Zenon DEF IInv, BranchesInv
<1>3. /\ Ways(T, F, C) /\ code = CodeOf(pre, T, F, C)
      /\ meant[p] = [to |-> Leads(T, F, C, p, falls), dst |-> Yields(pre, p)]
  BY <1>2 DEF Leading
<1>4. a.TBB = T /\ a.FBB = F /\ a.Cond = C
  <2> DEFINE b == analyzeBranch(CodeOf(pre, T, F, C), next, FALSE)
  <2>1. b.TBB = T /\ b.FBB = F /\ b.Cond = C
    <3>1. Ways(T, F, C)
      BY <1>3
    <3> HIDE DEF a
    <3>2. b.TBB = T /\ b.FBB = F /\ b.Cond = C /\ ~b.failed
      BY ONLY <3>1, Analyzed, pre \in Pre
    <3> QED BY <3>2
  <2> QED BY <1>3, <2>1, Zenon
<1> HIDE DEF a
<1>5. meant[p].to = Leads(T, F, C, p, falls)
  BY <1>3
<1> QED BY <1>4, <1>5 DEF Leads, Holds

-----------------------------------------------------------------------------
(* The steps. *)

\* The last step: nothing is left to rewrite.
LEMMA ExpandKeeps ==
    ASSUME IInv, Expand
    PROVE  IInv'
<1>1. /\ phase = "placed" /\ phase' = "expanded" /\ code' = ExpandFiMalkrz(code)
      /\ UNCHANGED <<next, falls, meant>>
  BY DEF Expand
<1>2. ASSUME NEW p \in Compared
      PROVE  Outcome(ExpandFiMalkrz(code), p, falls, None) = Outcome(code, p, falls, None)
  <2>1. CASE BranchesInv
    <3>1. PICK pre \in Pre, T \in Block \cup {None}, F \in Block \cup {None}, C \in Conds \cup {<< >>} :
              Leading(pre, T, F, C)
      BY <2>1, Zenon DEF BranchesInv
    <3>2. Ways(T, F, C) /\ code = pre \o Terms(T, F, C)
      BY <3>1 DEF Leading, CodeOf
    <3> QED BY <3>2, ExpandedCode
  <2>2. CASE ReturnsInv
    <3>1. PICK pre \in Pre : Returning(pre)
      BY <2>2 DEF ReturnsInv
    <3>2. Ways(None, None, << >>) /\ code = pre \o <<Dosnud>>
      BY <3>1 DEF Returning, Ways
    <3> QED BY <3>2, ExpandedCode
  <2> QED BY <1>1, <2>1, <2>2 DEF IInv
<1>3. ControlFlowKept
  BY KeptByInv
<1>4. ControlFlowKept'
  BY <1>1, <1>2, <1>3 DEF ControlFlowKept
<1>5. PhaseInv'
  BY <1>1 DEF IInv, PhaseInv
<1> QED BY <1>1, <1>4, <1>5 DEF IInv

\* The steps that rewrite a block that leads on, and leave one that returns.
LEMMA RewritesKeep ==
    ASSUME IInv, OptimizePrior \/ OptimizeLoop \/ PutTailBack \/ updateTerminator \/ OptimizeOrder
    PROVE  IInv'
<1>1. /\ phase \in {"placed", "moved", "open"} /\ phase' = "placed"
      /\ UNCHANGED <<succs, next, meant>> /\ falls' = next /\ PhaseInv'
  BY DEF IInv, PhaseInv, OptimizePrior, OptimizeLoop, PutTailBack, updateTerminator, OptimizeOrder
<1>2. CASE BranchesInv
  <2>1. PICK pre \in Pre, T \in Block \cup {None}, F \in Block \cup {None}, C \in Conds \cup {<< >>} :
            Leading(pre, T, F, C)
    BY <1>2, Zenon DEF BranchesInv
  <2>2. Becomes(code', pre, T, F, C, falls, falls')
    <3>1. PhaseInv
      BY DEF IInv
    <3> QED BY <2>1, <3>1, OptimizePriorKeeps, OptimizeLoopKeeps, PutTailBackKeeps,
               UpdateTerminatorKeeps, OptimizeOrderKeeps
  <2>3. BranchesInv'
    BY <1>1, <2>1, <2>2, Rewrites
  <2> QED BY <1>1, <2>3 DEF IInv
<1>3. CASE ReturnsInv
  <2>1. \A m \in BOOLEAN : /\ analyzeBranch(code, next, m).failed
                           /\ analyzeBranch(code, next, m).keep = code
    BY <1>3, ReturnFails
  <2>2. phase # "open"
    BY <1>3 DEF ReturnsInv, Returning
  <2>3. code' = code
    <3> DEFINE a == analyzeBranch(code, next, TRUE)
    <3>1. a.failed /\ a.keep = code /\ analyzeBranch(code, next, FALSE).failed
      BY <2>1, Zenon
    <3>2. CASE OptimizePrior
      <4>1. code' = CASE ~a.failed /\ a.TBB # None /\ a.TBB = a.FBB ->
                             IF a.TBB = next THEN removeBranch(a.keep)
                             ELSE Rewritten(a.keep, a.TBB, None, << >>)
                       [] ~a.failed /\ a.TBB # a.FBB /\ a.TBB = next /\ a.FBB = None ->
                             removeBranch(a.keep)
                       [] ~a.failed /\ a.TBB # a.FBB /\ a.FBB = next ->
                             Rewritten(a.keep, a.TBB, None, a.Cond)
                       [] ~a.failed /\ a.TBB # a.FBB /\ a.FBB # None /\ a.TBB = next ->
                             Rewritten(a.keep, a.FBB, None, reverseBranchCondition(a.Cond))
                       [] OTHER -> a.keep
        BY <3>2, Zenon DEF OptimizePrior
      <4> HIDE DEF a
      <4> QED BY <3>1, <4>1
    <3>3. CASE OptimizeLoop
      BY <3>1, <3>3, Zenon DEF OptimizeLoop
    <3>4. CASE PutTailBack
      BY <2>2, <3>4 DEF PutTailBack
    <3>5. CASE updateTerminator
      BY <3>1, <3>5, Zenon DEF updateTerminator
    <3>6. CASE OptimizeOrder
      BY <3>1, <3>6, Zenon DEF OptimizeOrder
    <3> QED BY <3>2, <3>3, <3>4, <3>5, <3>6
  <2>4. ReturnsInv'
    BY <1>1, <1>3, <2>3, ReturnKept
  <2> QED BY <1>1, <2>4 DEF IInv
<1> QED BY <1>1, <1>2, <1>3 DEF IInv

\* and every step keeps it.
LEMMA NextInv == IInv /\ [Next]_vars => IInv'
<1> SUFFICES ASSUME IInv, [Next]_vars PROVE IInv'
  OBVIOUS
<1>1. CASE OptimizePrior
  BY <1>1, RewritesKeep
<1>2. CASE OptimizeLoop
  BY <1>2, RewritesKeep
<1>3. ASSUME NEW into \in Block, TakeTail(into) PROVE IInv'
  <2>1. /\ phase = "placed" /\ phase' = "open" /\ next' = next
        /\ ~ analyzeBranch(code, next, TRUE).failed
    BY <1>3, Zenon DEF TakeTail
  <2>2. ~ReturnsInv
    <3> DEFINE m == TRUE
    <3>1. m \in BOOLEAN /\ ~analyzeBranch(code, next, m).failed
      BY <2>1, Zenon
    <3> HIDE DEF m
    <3> QED BY <3>1, ReturnFails
  <2>3. PICK pre \in Pre, T \in Block \cup {None}, F \in Block \cup {None}, C \in Conds \cup {<< >>} :
            Leading(pre, T, F, C)
    BY <2>1, <2>2, Zenon DEF IInv, BranchesInv
  <2>4. PhaseInv /\ PhaseInv'
    BY <2>1 DEF IInv, PhaseInv
  <2>5. BranchesInv'
    BY <1>3, <2>3, <2>4, TakeTailKeeps
  <2> QED BY <2>1, <2>4, <2>5 DEF IInv
<1>4. CASE PutTailBack
  BY <1>4, RewritesKeep
<1>5. ASSUME NEW n \in Others, Move(n) PROVE IInv'
  <2>1. /\ phase = "placed" /\ phase' = "moved" /\ next' \in Block \cup {None}
        /\ UNCHANGED <<code, succs, falls, meant>>
    BY <1>5 DEF Move, Others
  <2>2. ASSUME NEW pre, NEW T, NEW F, NEW C, Leading(pre, T, F, C)
        PROVE  Leading(pre, T, F, C)'
    BY <2>1, <2>2 DEF Leading
  <2>3. BranchesInv => BranchesInv'
    BY <2>2, Zenon DEF BranchesInv
  <2>4. ReturnsInv => ReturnsInv'
    BY <2>1, ReturnKept
  <2>5. PhaseInv'
    BY <2>1 DEF PhaseInv
  <2> QED BY <2>1, <2>3, <2>4, <2>5 DEF IInv
<1>6. CASE updateTerminator
  BY <1>6, RewritesKeep
<1>7. CASE OptimizeOrder
  BY <1>7, RewritesKeep
<1>8. CASE Expand
  BY <1>8, ExpandKeeps
<1>9. CASE UNCHANGED vars
  <2>1. UNCHANGED <<code, succs, next, phase, falls, meant>>
    BY <1>9 DEF vars
  <2>2. ASSUME NEW pre, NEW T, NEW F, NEW C, Leading(pre, T, F, C)
        PROVE  Leading(pre, T, F, C)'
    BY <2>1, <2>2 DEF Leading
  <2>3. BranchesInv => BranchesInv'
    BY <2>2, Zenon DEF BranchesInv
  <2>4. ReturnsInv => ReturnsInv'
    BY <2>1 DEF ReturnsInv, Returning
  <2>5. ControlFlowKept => ControlFlowKept'
    BY <2>1 DEF ControlFlowKept
  <2> QED BY <2>1, <2>3, <2>4, <2>5 DEF IInv, PhaseInv
<1> QED BY <1>1, <1>2, <1>3, <1>4, <1>5, <1>6, <1>7, <1>8, <1>9 DEF Next, Emitted

\* Whatever the passes make of a block's end, it leads where the source
\* program says, for all values compared, until FiMalkrz has split it.
THEOREM ControlFlowAlwaysKept == Spec => []ControlFlowKept
<1>1. IInv => ControlFlowKept
  BY KeptByInv
<1> QED BY <1>1, InitInv, NextInv, PTL DEF Spec

\* analyzeBranch never tells a pass anything else than what the block does.
THEOREM AnalysisAlwaysRight == Spec => []AnalysisIsRight
<1>1. IInv => AnalysisIsRight
  BY RightByInv
<1> QED BY <1>1, InitInv, NextInv, PTL DEF Spec
=============================================================================
