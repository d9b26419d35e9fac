-------------------------- MODULE PrintingProofs --------------------------
(***************************************************************************)
(* What is printed: the lines of the streamer, and the names in them.      *)
(*                                                                         *)
(* The streamer.  For every set of globals and every length of module: it  *)
(* never reads the alignment before it is set, and never holds back as     *)
(* much as a whole directive while values are emitted (BufferFits); what   *)
(* it writes is what AsmPrinter emits (BytesInOrder), padded only where a  *)
(* section ends (PaddingEndsSection); every label is on the unit of its    *)
(* object (LabelsMarkObjects); and it imports what is missing              *)
(* (ImportsAreUndefined).                                                  *)
(*                                                                         *)
(* EmitValueToAlignment can lower the alignment below what is held back,   *)
(* so BufferFits does not hold between EmitAlignment and EmitLabel: it is  *)
(* the assertion in EmitLabel that restores it.                            *)
(*                                                                         *)
(* Every step but EmitLabel is, for the other invariants, the same step:   *)
(* Emits(new, bytes, kept), which says what lines it writes for what bytes *)
(* and what labels the first line takes: all that wait, but for the last   *)
(* one where FinishImpl runs it together with an import.                   *)
(*                                                                         *)
(* The names.  For every program's names and numbers: the quotation of a   *)
(* name is a code that can be read in one way, starting from the left, so  *)
(* texts tell symbols and registers apart (TextTellsSymbols); and decimal  *)
(* numbers can be taken apart again, because no digit is an underscore     *)
(* (InventedNamesDiffer).                                                  *)
(***************************************************************************)
EXTENDS AsmStreamer, SymbolNames, SequenceTheorems, WellFoundedInduction, FiniteSetTheorems, TLAPS

Byte == (Symbol \cup {None}) \X Nat

-----------------------------------------------------------------------------
(* Sequences: induction over sets, which needs no operator as a parameter,  *)
(* and what FlattenSeq and Without make of their arguments.                 *)

Below == {ss \in Nat \X Nat : ss[1] < ss[2]}

\* Induction over a set of numbers, which needs no operator as a parameter.
LEMMA SetInduction ==
    ASSUME NEW T, 0 \in T, \A n \in Nat : n \in T => n + 1 \in T
    PROVE  Nat \subseteq T
<1> SUFFICES ASSUME Nat \ T # {} PROVE FALSE
    OBVIOUS
<1>1. IsWellFoundedOn(Below, Nat)
    BY NatLessThanWellFounded, Zenon DEF OpToRel, Below
<1>2. PICK x \in Nat \ T : \A y \in Nat \ T : ~ (<<y, x>> \in Below)
    BY <1>1, WFMin, Zenon
<1>3. \A y \in Nat \ T : ~ (y < x)
    BY <1>2 DEF Below
<1>4. x # 0 /\ x - 1 \in Nat /\ x - 1 < x /\ (x - 1) + 1 = x
    BY <1>2
<1> QED BY <1>2, <1>3, <1>4

\* f flattens ss, prefix by prefix.
Flattens(f, ss) ==
    /\ DOMAIN f = 1 .. Len(ss)
    /\ \A i \in 1 .. Len(ss) : f[i] = IF i = 1 THEN ss[i] ELSE f[i - 1] \o ss[i]

LEMMA FlatteningExists ==
    ASSUME NEW S, NEW ss \in Seq(Seq(S))
    PROVE  \E f \in [1 .. Len(ss) -> Seq(S)] : Flattens(f, ss)
<1> DEFINE Flattening(f, n) ==
        \A i \in 1 .. n : f[i] = IF i = 1 THEN ss[i] ELSE f[i - 1] \o ss[i]
    T == {n \in Nat : n <= Len(ss) => \E f \in [1 .. n -> Seq(S)] : Flattening(f, n)}
<1>1. 0 \in T
    <2>1. [i \in 1 .. 0 |-> << >>] \in [1 .. 0 -> Seq(S)]
        OBVIOUS
    <2>2. Flattening([i \in 1 .. 0 |-> << >>], 0)
        OBVIOUS
    <2> HIDE DEF Flattening
    <2> QED BY <2>1, <2>2
<1>2. ASSUME NEW n \in Nat, n \in T, n + 1 <= Len(ss)
      PROVE  \E f \in [1 .. n + 1 -> Seq(S)] : Flattening(f, n + 1)
    <2>1. n <= Len(ss) /\ ss[n + 1] \in Seq(S)
        BY <1>2
    <2>2. PICK f \in [1 .. n -> Seq(S)] : Flattening(f, n)
        BY <1>2, <2>1
    <2> DEFINE last == IF n = 0 THEN ss[n + 1] ELSE f[n] \o ss[n + 1]
               g == [i \in 1 .. n + 1 |-> IF i <= n THEN f[i] ELSE last]
    <2>3. last \in Seq(S)
        BY <2>1, <2>2, ConcatProperties
    <2>4. g \in [1 .. n + 1 -> Seq(S)]
        <3> HIDE DEF last
        <3> QED BY <2>3
    <2>5. ASSUME NEW i \in 1 .. n + 1
          PROVE  g[i] = IF i = 1 THEN ss[i] ELSE g[i - 1] \o ss[i]
        <3>1. CASE i <= n
            <4>1. i \in 1 .. n /\ g[i] = f[i]
                BY <3>1
            <4>2. i # 1 => g[i - 1] = f[i - 1]
                BY <3>1
            <4> QED BY <4>1, <4>2, <2>2
        <3>2. CASE ~ (i <= n)
            <4>1. i = n + 1 /\ g[i] = last
                BY <3>2
            <4>2. n # 0 => g[i - 1] = f[n]
                BY <4>1
            <4>3. i - 1 = n /\ (i = 1 <=> n = 0)
                BY <4>1
            <4> QED BY <4>1, <4>2, <4>3
        <3> QED BY <3>1, <3>2
    <2> HIDE DEF g
    <2> QED BY <2>4, <2>5
<1>3. ASSUME NEW n \in Nat, n \in T PROVE n + 1 \in T
    <2> HIDE DEF Flattening
    <2>1. CASE n + 1 <= Len(ss)
        <3>1. \E f \in [1 .. n + 1 -> Seq(S)] : Flattening(f, n + 1)
            BY <1>2, <1>3, <2>1
        <3> QED BY <3>1
    <2>2. CASE ~ (n + 1 <= Len(ss))
        BY <2>2
    <2> QED BY <2>1, <2>2
<1> HIDE DEF T
<1>4. Len(ss) \in T
    BY <1>1, <1>3, SetInduction
<1>5. \E f \in [1 .. Len(ss) -> Seq(S)] : Flattening(f, Len(ss))
    BY <1>4 DEF T
<1> QED BY <1>5 DEF Flattens

LEMMA FlattensPrefixes ==
    ASSUME NEW S, NEW ss \in Seq(Seq(S)), NEW tt \in Seq(Seq(S)),
           NEW f, Flattens(f, ss), NEW g, Flattens(g, tt),
           NEW m \in Nat, m <= Len(ss), m <= Len(tt),
           \A i \in 1 .. m : ss[i] = tt[i]
    PROVE  \A i \in 1 .. m : f[i] = g[i] /\ f[i] \in Seq(S)
<1> DEFINE T == {n \in Nat : n <= m => \A i \in 1 .. n : f[i] = g[i] /\ f[i] \in Seq(S)}
<1>1. 0 \in T
    OBVIOUS
<1>2. ASSUME NEW n \in Nat, n \in T, n + 1 <= m
      PROVE  f[n + 1] = g[n + 1] /\ f[n + 1] \in Seq(S)
    <2>1. n + 1 \in 1 .. Len(ss) /\ n + 1 \in 1 .. Len(tt) /\ n + 1 \in 1 .. m
        BY <1>2
    <2>2. ss[n + 1] = tt[n + 1] /\ ss[n + 1] \in Seq(S)
        BY <2>1
    <2>3. CASE n = 0
        <3>1. 1 \in 1 .. Len(ss) /\ 1 \in 1 .. Len(tt)
            BY <2>1, <2>3
        <3>2. f[1] = ss[1] /\ g[1] = tt[1]
            BY <3>1 DEF Flattens
        <3>3. n + 1 = 1
            BY <2>3
        <3> QED BY <2>2, <3>2, <3>3
    <2>4. CASE n # 0
        <3>1. n \in 1 .. n /\ n + 1 # 1 /\ (n + 1) - 1 = n
            BY <2>4
        <3>2. f[n] = g[n] /\ f[n] \in Seq(S)
            BY <1>2, <3>1
        <3>3. f[n + 1] = f[n] \o ss[n + 1] /\ g[n + 1] = g[n] \o tt[n + 1]
            BY <2>1, <3>1 DEF Flattens
        <3> QED BY <3>2, <3>3, <2>2, ConcatProperties
    <2> QED BY <2>3, <2>4
<1>3. ASSUME NEW n \in Nat, n \in T PROVE n + 1 \in T
    <2>1. CASE n + 1 <= m
        <3>1. \A i \in 1 .. n : f[i] = g[i] /\ f[i] \in Seq(S)
            BY <1>3, <2>1
        <3>2. f[n + 1] = g[n + 1] /\ f[n + 1] \in Seq(S)
            BY <1>2, <1>3, <2>1
        <3>3. ASSUME NEW i \in 1 .. n + 1 PROVE f[i] = g[i] /\ f[i] \in Seq(S)
            <4>1. i \in 1 .. n \/ i = n + 1
                OBVIOUS
            <4> QED BY <4>1, <3>1, <3>2
        <3> QED BY <3>3
    <2>2. CASE ~ (n + 1 <= m)
        BY <2>2
    <2> QED BY <2>1, <2>2
<1> HIDE DEF T
<1>4. m \in T
    BY <1>1, <1>3, SetInduction
<1> QED BY <1>4 DEF T

LEMMA FlattenSeqFlattens ==
    ASSUME NEW S, NEW ss \in Seq(Seq(S)), ss # << >>
    PROVE  \E f : Flattens(f, ss) /\ FlattenSeq(ss) = f[Len(ss)]
<1> DEFINE Is(f) == f = [i \in 1 .. Len(ss) |-> IF i = 1 THEN ss[i] ELSE f[i - 1] \o ss[i]]
           h == CHOOSE f : Is(f)
<1>1. PICK f \in [1 .. Len(ss) -> Seq(S)] : Flattens(f, ss)
    BY FlatteningExists
<1>2. Is(f)
    BY <1>1 DEF Flattens
<1>3. Is(h)
    <2> HIDE DEF Is
    <2> QED BY <1>2
<1>4. Flattens(h, ss)
    <2> HIDE DEF h
    <2> QED BY <1>3 DEF Flattens
<1>5. FlattenSeq(ss) = h[Len(ss)]
    <2>1. Len(ss) # 0
        OBVIOUS
    <2> QED BY <2>1 DEF FlattenSeq
<1> HIDE DEF h
<1> QED BY <1>4, <1>5

LEMMA FlattenSeqEmpty == FlattenSeq(<< >>) = << >>
BY DEF FlattenSeq

LEMMA FlattenSeqType ==
    ASSUME NEW S, NEW ss \in Seq(Seq(S))
    PROVE  FlattenSeq(ss) \in Seq(S)
<1>1. CASE ss = << >>
    <2>1. << >> \in Seq(S)
        OBVIOUS
    <2> QED BY <1>1, <2>1, FlattenSeqEmpty
<1>2. CASE ss # << >>
    <2>1. PICK f : Flattens(f, ss) /\ FlattenSeq(ss) = f[Len(ss)]
        BY <1>2, FlattenSeqFlattens
    <2>2. Len(ss) \in Nat /\ Len(ss) \in 1 .. Len(ss)
        BY <1>2
    <2> QED BY <2>1, <2>2, FlattensPrefixes
<1> QED BY <1>1, <1>2

LEMMA FlattenSeqAppend ==
    ASSUME NEW S, NEW ss \in Seq(Seq(S)), NEW t \in Seq(S)
    PROVE  FlattenSeq(Append(ss, t)) = FlattenSeq(ss) \o t
<1> DEFINE tt == Append(ss, t)
<1>1. tt \in Seq(Seq(S)) /\ tt # << >> /\ Len(tt) = Len(ss) + 1 /\ tt[Len(ss) + 1] = t
      /\ \A i \in 1 .. Len(ss) : tt[i] = ss[i]
    BY AppendProperties
<1> SUFFICES FlattenSeq(tt) = FlattenSeq(ss) \o t
    OBVIOUS
<1> HIDE DEF tt
<1>2. PICK g : Flattens(g, tt) /\ FlattenSeq(tt) = g[Len(tt)]
    BY <1>1, FlattenSeqFlattens
<1>3. g[Len(tt)] = IF Len(ss) = 0 THEN t ELSE g[Len(ss)] \o t
    <2>1. Len(tt) \in 1 .. Len(tt) /\ Len(tt) - 1 = Len(ss) /\ (Len(tt) = 1 <=> Len(ss) = 0)
        BY <1>1
    <2>2. tt[Len(tt)] = t
        BY <1>1
    <2> QED BY <1>2, <2>1, <2>2 DEF Flattens
<1>4. CASE ss = << >>
    <2>1. FlattenSeq(tt) = t /\ FlattenSeq(ss) = << >>
        BY <1>2, <1>3, <1>4, FlattenSeqEmpty
    <2> QED BY <2>1, ConcatEmptySeq
<1>5. CASE ss # << >>
    <2>1. PICK f : Flattens(f, ss) /\ FlattenSeq(ss) = f[Len(ss)]
        BY <1>5, FlattenSeqFlattens
    <2>2. /\ Len(ss) \in Nat /\ Len(ss) \in 1 .. Len(ss) /\ Len(ss) # 0
          /\ Len(ss) <= Len(ss) /\ Len(ss) <= Len(tt)
        BY <1>5, <1>1
    <2>3. \A i \in 1 .. Len(ss) : ss[i] = tt[i]
        BY <1>1
    <2>4. Flattens(f, ss) /\ Flattens(g, tt) /\ tt \in Seq(Seq(S))
        BY <1>1, <1>2, <2>1
    <2>5. \A i \in 1 .. Len(ss) : f[i] = g[i] /\ f[i] \in Seq(S)
        BY <2>2, <2>3, <2>4, FlattensPrefixes
    <2>6. FlattenSeq(ss) = g[Len(ss)]
        BY <2>1, <2>2, <2>5
    <2> QED BY <2>2, <2>6, <1>2, <1>3
<1> QED BY <1>4, <1>5

LEMMA ConcatAppend ==
    ASSUME NEW S, NEW s \in Seq(S), NEW t \in Seq(S), NEW x \in S
    PROVE  s \o Append(t, x) = Append(s \o t, x)
OBVIOUS

LEMMA FlattenSeqConcatStep ==
    ASSUME NEW S, NEW ss \in Seq(Seq(S)), NEW tt \in Seq(Seq(S)), NEW t \in Seq(S),
           FlattenSeq(ss \o tt) = FlattenSeq(ss) \o FlattenSeq(tt)
    PROVE  FlattenSeq(ss \o Append(tt, t)) = FlattenSeq(ss) \o FlattenSeq(Append(tt, t))
<1>1. ss \o Append(tt, t) = Append(ss \o tt, t)
    BY ConcatAppend
<1>2. ss \o tt \in Seq(Seq(S))
    OBVIOUS
<1>3. FlattenSeq(Append(ss \o tt, t)) = (FlattenSeq(ss) \o FlattenSeq(tt)) \o t
    BY <1>2, FlattenSeqAppend
<1>4. FlattenSeq(Append(tt, t)) = FlattenSeq(tt) \o t
    BY FlattenSeqAppend
<1> DEFINE a == FlattenSeq(ss)
           b == FlattenSeq(tt)
<1>5. a \in Seq(S) /\ b \in Seq(S)
    BY FlattenSeqType
<1>6. (a \o b) \o t = a \o (b \o t)
    <2> HIDE DEF a, b
    <2> QED BY <1>5, ConcatAssociative, SMTT(30)
<1> QED BY <1>1, <1>3, <1>4, <1>6

LEMMA FlattenSeqConcat ==
    ASSUME NEW S, NEW ss \in Seq(Seq(S)), NEW tt \in Seq(Seq(S))
    PROVE  FlattenSeq(ss \o tt) = FlattenSeq(ss) \o FlattenSeq(tt)
<1> DEFINE P(n) == SubSeq(tt, 1, n)
           T == {n \in Nat : n <= Len(tt) =>
                    FlattenSeq(ss \o P(n)) = FlattenSeq(ss) \o FlattenSeq(P(n))}
<1>1. 0 \in T
    <2>1. P(0) = << >>
        BY SubSeqEmpty
    <2>2. FlattenSeq(ss) \in Seq(S)
        BY FlattenSeqType
    <2>3. ss \o << >> = ss /\ FlattenSeq(ss) \o << >> = FlattenSeq(ss)
        BY <2>2, ConcatEmptySeq
    <2> HIDE DEF P
    <2> QED BY <2>1, <2>3, FlattenSeqEmpty
<1>2. ASSUME NEW n \in Nat, n \in T PROVE n + 1 \in T
    <2> SUFFICES ASSUME n + 1 <= Len(tt)
                 PROVE  FlattenSeq(ss \o P(n + 1)) = FlattenSeq(ss) \o FlattenSeq(P(n + 1))
        OBVIOUS
    <2>1. P(n) \in Seq(Seq(S)) /\ tt[n + 1] \in Seq(S)
        OBVIOUS
    <2>2. P(n + 1) = Append(P(n), tt[n + 1])
        <3>1. 1 \in 1 .. Len(tt) /\ n + 1 \in 1 .. Len(tt) /\ (n + 1) - 1 = n
            OBVIOUS
        <3>2. P(n + 1) = P(n) \o <<tt[n + 1]>>
            BY <3>1, SubSeqRecursiveSecond
        <3> HIDE DEF P
        <3> QED BY <2>1, <3>2, AppendIsConcat
    <2>3. FlattenSeq(ss \o P(n)) = FlattenSeq(ss) \o FlattenSeq(P(n))
        BY <1>2
    <2> HIDE DEF P
    <2> QED BY <2>1, <2>2, <2>3, FlattenSeqConcatStep
<1>3. P(Len(tt)) = tt
    BY SubSeqFull
<1> HIDE DEF P
<1>4. Len(tt) \in T
    <2> HIDE DEF T
    <2>1. Nat \subseteq T
        BY <1>1, <1>2, SetInduction
    <2> QED BY <2>1
<1>5. Len(tt) <= Len(tt)
    OBVIOUS
<1> QED BY <1>3, <1>4, <1>5

\* The singletons and empty sequences Without flattens.
Marked(s, D) == [i \in DOMAIN s |-> IF s[i] \in D THEN << >> ELSE <<s[i]>>]

LEMMA MarkedType ==
    ASSUME NEW S, NEW s \in Seq(S), NEW D
    PROVE  Marked(s, D) \in Seq(Seq(S)) /\ Len(Marked(s, D)) = Len(s)
<1>1. \A i \in 1 .. Len(s) : (IF s[i] \in D THEN << >> ELSE <<s[i]>>) \in Seq(S)
    <2> SUFFICES ASSUME NEW i \in 1 .. Len(s)
                 PROVE  << >> \in Seq(S) /\ <<s[i]>> \in Seq(S)
        OBVIOUS
    <2>1. s[i] \in S
        OBVIOUS
    <2> QED BY <2>1
<1>2. DOMAIN s = 1 .. Len(s) /\ Len(s) \in Nat
    OBVIOUS
<1>3. DOMAIN Marked(s, D) = 1 .. Len(s)
      /\ \A i \in 1 .. Len(s) : Marked(s, D)[i] \in Seq(S)
    BY <1>1, <1>2 DEF Marked
<1>4. Marked(s, D) = [i \in 1 .. Len(s) |-> Marked(s, D)[i]]
    BY <1>2 DEF Marked
<1> DEFINE m == Marked(s, D)
<1> HIDE DEF m
<1>5. [i \in 1 .. Len(s) |-> m[i]] \in Seq(Seq(S)) /\ Len([i \in 1 .. Len(s) |-> m[i]]) = Len(s)
    BY <1>2, <1>3 DEF m
<1> QED BY <1>4, <1>5 DEF m

LEMMA WithoutType ==
    ASSUME NEW S, NEW s \in Seq(S), NEW D
    PROVE  Without(s, D) \in Seq(S)
BY MarkedType, FlattenSeqType DEF Without, Marked

LEMMA WithoutEmpty == ASSUME NEW D PROVE Without(<< >>, D) = << >>
<1>1. [i \in DOMAIN << >> |-> IF << >>[i] \in D THEN << >> ELSE << << >>[i] >>] = << >>
    OBVIOUS
<1> QED BY <1>1, FlattenSeqEmpty DEF Without

LEMMA WithoutConcat ==
    ASSUME NEW S, NEW s \in Seq(S), NEW t \in Seq(S), NEW D
    PROVE  Without(s \o t, D) = Without(s, D) \o Without(t, D)
<1> DEFINE ms == Marked(s, D)
           mt == Marked(t, D)
           mm == Marked(s \o t, D)
<1>1. /\ ms \in Seq(Seq(S)) /\ mt \in Seq(Seq(S)) /\ mm \in Seq(Seq(S))
      /\ Len(ms) = Len(s) /\ Len(mt) = Len(t) /\ Len(mm) = Len(s) + Len(t)
    <2>1. s \o t \in Seq(S) /\ Len(s \o t) = Len(s) + Len(t)
        OBVIOUS
    <2> QED BY <2>1, MarkedType
<1>2. ASSUME NEW i \in 1 .. Len(s) + Len(t)
      PROVE  mm[i] = IF i <= Len(s) THEN ms[i] ELSE mt[i - Len(s)]
    <2>1. i \in DOMAIN (s \o t)
          /\ (s \o t)[i] = IF i <= Len(s) THEN s[i] ELSE t[i - Len(s)]
        OBVIOUS
    <2>2. mm[i] = IF (s \o t)[i] \in D THEN << >> ELSE << (s \o t)[i] >>
        BY <2>1 DEF Marked
    <2>3. CASE i <= Len(s)
        <3>1. i \in DOMAIN s
            BY <2>3
        <3> QED BY <2>1, <2>2, <2>3, <3>1 DEF Marked
    <2>4. CASE ~ (i <= Len(s))
        <3>1. i - Len(s) \in DOMAIN t
            BY <2>4
        <3> QED BY <2>1, <2>2, <2>4, <3>1 DEF Marked
    <2> QED BY <2>3, <2>4
<1> HIDE DEF ms, mt, mm
<1>3. mm = ms \o mt
    <2>1. /\ ms \o mt \in Seq(Seq(S)) /\ Len(ms \o mt) = Len(mm)
          /\ \A i \in 1 .. Len(mm) : (ms \o mt)[i] = mm[i]
        BY <1>1, <1>2
    <2> QED BY <2>1, <1>1, SeqEqual
<1>4. FlattenSeq(mm) = FlattenSeq(ms) \o FlattenSeq(mt)
    BY <1>1, <1>3, FlattenSeqConcat
<1> QED BY <1>4 DEF ms, mt, mm, Marked, Without

LEMMA WithoutOne ==
    ASSUME NEW x, NEW D
    PROVE  Without(<<x>>, D) = IF x \in D THEN << >> ELSE <<x>>
<1> DEFINE t == IF x \in D THEN << >> ELSE <<x>>
<1>1. Marked(<<x>>, D) = <<t>>
    BY DEF Marked
<1>2. t \in Seq({x}) /\ << >> \in Seq(Seq({x}))
    <2>1. << >> \in Seq({x}) /\ <<x>> \in Seq({x})
        OBVIOUS
    <2>2. << >> \in Seq(Seq({x}))
        OBVIOUS
    <2> QED BY <2>1, <2>2
<1> HIDE DEF t
<1>3. Append(<< >>, t) = <<t>>
    OBVIOUS
<1>4. FlattenSeq(<<t>>) = FlattenSeq(<< >>) \o t
    BY <1>2, <1>3, FlattenSeqAppend
<1>5. << >> \o t = t
    BY <1>2
<1>6. Without(<<x>>, D) = t
    BY <1>1, <1>4, <1>5, FlattenSeqEmpty DEF Without, Marked
<1> QED BY <1>6 DEF t

LEMMA WithoutAppend ==
    ASSUME NEW S, NEW s \in Seq(S), NEW x \in S, NEW D
    PROVE  Without(Append(s, x), D) = IF x \in D THEN Without(s, D) ELSE Append(Without(s, D), x)
<1>1. Append(s, x) = s \o <<x>> /\ <<x>> \in Seq(S)
    <2>1. <<x>> \in Seq(S)
        OBVIOUS
    <2> QED BY <2>1, AppendIsConcat, Zenon
<1>2. Without(Append(s, x), D) = Without(s, D) \o Without(<<x>>, D)
    <2>1. \A t \in Seq(S) : Without(s \o t, D) = Without(s, D) \o Without(t, D)
        BY WithoutConcat
    <2> QED BY <1>1, <2>1
<1>3. Without(s, D) \in Seq(S)
    BY WithoutType
<1>4. CASE x \in D
    BY <1>2, <1>3, <1>4, WithoutOne, ConcatEmptySeq
<1>5. CASE x \notin D
    <2>1. Without(Append(s, x), D) = Without(s, D) \o <<x>>
        BY <1>2, <1>5, WithoutOne
    <2>2. Append(Without(s, D), x) = Without(s, D) \o <<x>>
        BY <1>3, AppendIsConcat, Zenon
    <2> QED BY <1>5, <2>1, <2>2
<1> QED BY <1>4, <1>5

LEMMA PrefixAppend ==
    ASSUME NEW S, NEW s \in Seq(S), NEW n \in Nat, n + 1 <= Len(s)
    PROVE  /\ SubSeq(s, 1, n) \in Seq(S) /\ s[n + 1] \in S
           /\ SubSeq(s, 1, n + 1) = Append(SubSeq(s, 1, n), s[n + 1])
           /\ Len(SubSeq(s, 1, n)) = n
           /\ \A i \in 1 .. n : SubSeq(s, 1, n)[i] = s[i]
<1>1. 1 \in 1 .. Len(s) /\ n + 1 \in 1 .. Len(s) /\ (n + 1) - 1 = n
    OBVIOUS
<1>2. SubSeq(s, 1, n) \in Seq(S) /\ s[n + 1] \in S /\ Len(SubSeq(s, 1, n)) = n
      /\ \A i \in 1 .. n : SubSeq(s, 1, n)[i] = s[i]
    OBVIOUS
<1>3. SubSeq(s, 1, n + 1) = SubSeq(s, 1, n) \o <<s[n + 1]>>
    BY <1>1, SubSeqRecursiveSecond
<1> QED BY <1>2, <1>3, AppendIsConcat

\* Induction over a set of sequences.
LEMMA SeqInduction ==
    ASSUME NEW S, NEW T, << >> \in T,
           \A s \in Seq(S), x \in S : s \in T => Append(s, x) \in T
    PROVE  Seq(S) \subseteq T
<1> SUFFICES ASSUME NEW s \in Seq(S) PROVE s \in T
    OBVIOUS
<1> DEFINE p(n) == SubSeq(s, 1, n)
           N == {n \in Nat : n <= Len(s) => p(n) \in T}
<1>1. 0 \in N
    <2>1. p(0) = << >>
        BY SubSeqEmpty
    <2> HIDE DEF p
    <2> QED BY <2>1
<1>2. ASSUME NEW n \in Nat, n \in N PROVE n + 1 \in N
    <2>1. CASE n + 1 <= Len(s)
        <3>1. /\ p(n) \in Seq(S) /\ s[n + 1] \in S
              /\ p(n + 1) = Append(p(n), s[n + 1])
            BY <2>1, PrefixAppend
        <3> DEFINE x == s[n + 1]
        <3> HIDE DEF p, x
        <3>2. p(n) \in T
            BY <1>2, <2>1
        <3>3. p(n + 1) \in T
            BY <3>1, <3>2 DEF x
        <3> QED BY <3>3
    <2>2. CASE ~ (n + 1 <= Len(s))
        BY <2>2
    <2> QED BY <2>1, <2>2
<1>3. p(Len(s)) = s
    BY SubSeqFull
<1> HIDE DEF p
<1>4. Len(s) \in N
    <2> HIDE DEF N
    <2> QED BY <1>1, <1>2, SetInduction
<1> QED BY <1>3, <1>4

\* A sequence with no element of D loses nothing.
LEMMA WithoutNone ==
    ASSUME NEW S, NEW D, S \cap D = {}, NEW s \in Seq(S)
    PROVE  Without(s, D) = s
<1> DEFINE T == {t \in Seq(S) : Without(t, D) = t}
<1>1. << >> \in T
    BY WithoutEmpty
<1>2. ASSUME NEW t \in Seq(S), NEW x \in S, t \in T PROVE Append(t, x) \in T
    <2>1. Without(Append(t, x), D) = Append(Without(t, D), x)
        BY WithoutAppend
    <2> QED BY <1>2, <2>1
<1> HIDE DEF T
<1>3. Seq(S) \subseteq T
    BY <1>1, <1>2, SeqInduction
<1> QED BY <1>3 DEF T

SameElements(w, s, D) ==
    /\ \A j \in 1 .. Len(w) : w[j] \notin D /\ \E i \in 1 .. Len(s) : w[j] = s[i]
    /\ \A i \in 1 .. Len(s) : s[i] \notin D => \E j \in 1 .. Len(w) : w[j] = s[i]
    /\ (\A i, j \in 1 .. Len(s) : s[i] = s[j] => i = j)
           => \A i, j \in 1 .. Len(w) : w[i] = w[j] => i = j

LEMMA SameElementsAppend ==
    ASSUME NEW S, NEW s \in Seq(S), NEW w \in Seq(S), NEW x \in S, NEW D,
           SameElements(w, s, D)
    PROVE  SameElements(IF x \in D THEN w ELSE Append(w, x), Append(s, x), D)
<1> DEFINE t == Append(s, x)
           v == Append(w, x)
<1>1. /\ Len(t) = Len(s) + 1 /\ t[Len(s) + 1] = x /\ \A i \in 1 .. Len(s) : t[i] = s[i]
      /\ Len(v) = Len(w) + 1 /\ v[Len(w) + 1] = x /\ \A i \in 1 .. Len(w) : v[i] = w[i]
    BY AppendProperties
<1>2. Len(s) \in Nat /\ Len(w) \in Nat
    OBVIOUS
<1> HIDE DEF t, v
<1>3. \A i \in 1 .. Len(t) : i \in 1 .. Len(s) \/ i = Len(s) + 1
    BY <1>1, <1>2
<1>4. \A i \in 1 .. Len(v) : i \in 1 .. Len(w) \/ i = Len(w) + 1
    BY <1>1, <1>2
<1>5. \A i \in 1 .. Len(s) : i \in 1 .. Len(t)
    BY <1>1, <1>2
<1>6. Len(s) + 1 \in 1 .. Len(t) /\ Len(w) + 1 \in 1 .. Len(v)
    BY <1>1, <1>2
<1>7. \A i \in 1 .. Len(w) : i \in 1 .. Len(v)
    BY <1>1, <1>2
<1>8. (\A i, j \in 1 .. Len(t) : t[i] = t[j] => i = j)
          => (\A i, j \in 1 .. Len(s) : s[i] = s[j] => i = j)
             /\ \A i \in 1 .. Len(s) : s[i] # x
    <2>1. \A i \in 1 .. Len(s) : i # Len(s) + 1
        BY <1>2
    <2> QED BY <1>1, <1>5, <1>6, <2>1
<1>9. CASE x \in D
    <2>1. \A j \in 1 .. Len(w) : w[j] \notin D /\ \E i \in 1 .. Len(t) : w[j] = t[i]
        BY <1>1, <1>5 DEF SameElements
    <2>2. \A i \in 1 .. Len(t) : t[i] \notin D => \E j \in 1 .. Len(w) : w[j] = t[i]
        BY <1>1, <1>3, <1>9 DEF SameElements
    <2>3. (\A i, j \in 1 .. Len(t) : t[i] = t[j] => i = j)
              => \A i, j \in 1 .. Len(w) : w[i] = w[j] => i = j
        BY <1>8 DEF SameElements
    <2>4. SameElements(w, t, D)
        BY <2>1, <2>2, <2>3 DEF SameElements
    <2> QED BY <1>9, <2>4 DEF t
<1>10. CASE x \notin D
    <2>1. \A j \in 1 .. Len(v) : v[j] \notin D /\ \E i \in 1 .. Len(t) : v[j] = t[i]
        <3>1. ASSUME NEW j \in 1 .. Len(w) PROVE v[j] \notin D /\ \E i \in 1 .. Len(t) : v[j] = t[i]
            <4>1. PICK i \in 1 .. Len(s) : w[j] = s[i]
                BY DEF SameElements
            <4>2. i \in 1 .. Len(t) /\ v[j] = t[i]
                BY <1>1, <1>5, <4>1
            <4>3. w[j] \notin D
                BY DEF SameElements
            <4> QED BY <1>1, <4>2, <4>3
        <3>2. v[Len(w) + 1] = t[Len(s) + 1] /\ v[Len(w) + 1] \notin D
            BY <1>1, <1>10
        <3> QED BY <1>4, <1>6, <3>1, <3>2
    <2>2. \A i \in 1 .. Len(t) : t[i] \notin D => \E j \in 1 .. Len(v) : v[j] = t[i]
        BY <1>1, <1>3, <1>6, <1>7, <1>10 DEF SameElements
    <2>3. ASSUME \A i, j \in 1 .. Len(t) : t[i] = t[j] => i = j,
                 NEW i \in 1 .. Len(v), NEW j \in 1 .. Len(v), v[i] = v[j]
          PROVE  i = j
        <3>1. \A k \in 1 .. Len(w) : w[k] # x
            BY <1>8, <2>3 DEF SameElements
        <3>2. \A k, l \in 1 .. Len(w) : w[k] = w[l] => k = l
            BY <1>8, <2>3 DEF SameElements
        <3> QED BY <1>1, <1>4, <2>3, <3>1, <3>2
    <2>4. SameElements(v, t, D)
        BY <2>1, <2>2, <2>3 DEF SameElements
    <2> QED BY <1>10, <2>4 DEF t, v
<1> QED BY <1>9, <1>10

\* What is left of s: its elements outside D, and no element twice that s has
\* only once.
LEMMA WithoutElements ==
    ASSUME NEW S, NEW s \in Seq(S), NEW D
    PROVE  SameElements(Without(s, D), s, D)
<1> DEFINE T == {t \in Seq(S) : SameElements(Without(t, D), t, D)}
<1>1. << >> \in T
    <2>1. SameElements(<< >>, << >>, D)
        BY DEF SameElements
    <2> QED BY <2>1, WithoutEmpty
<1>2. ASSUME NEW t \in Seq(S), NEW x \in S, t \in T PROVE Append(t, x) \in T
    <2> DEFINE w == Without(t, D)
    <2>1. SameElements(w, t, D)
        BY <1>2
    <2>2. Without(Append(t, x), D) = IF x \in D THEN w ELSE Append(w, x)
        BY WithoutAppend
    <2>3. w \in Seq(S)
        BY WithoutType
    <2> HIDE DEF w
    <2>4. SameElements(IF x \in D THEN w ELSE Append(w, x), Append(t, x), D)
        BY <2>1, <2>3, SameElementsAppend
    <2>5. SameElements(Without(Append(t, x), D), Append(t, x), D)
        BY <2>2, <2>4
    <2>6. Append(t, x) \in Seq(S)
        OBVIOUS
    <2> QED BY <2>5, <2>6
<1> HIDE DEF T
<1>3. Seq(S) \subseteq T
    BY <1>1, <1>2, SeqInduction
<1> QED BY <1>3 DEF T

LEMMA WithoutAll ==
    ASSUME NEW S, NEW s \in Seq(S), NEW D, \A i \in 1 .. Len(s) : s[i] \in D
    PROVE  Without(s, D) = << >>
<1>1. Without(s, D) \in Seq(S) /\ SameElements(Without(s, D), s, D)
    BY WithoutType, WithoutElements
<1>2. Len(Without(s, D)) = 0
    <2>1. \A j \in 1 .. Len(Without(s, D)) : FALSE
        BY <1>1 DEF SameElements
    <2>2. Len(Without(s, D)) \in Nat
        BY <1>1
    <2> DEFINE n == Len(Without(s, D))
    <2> HIDE DEF n
    <2>3. n = 0
        BY <2>1, <2>2 DEF n
    <2> QED BY <2>3 DEF n
<1> QED BY <1>1, <1>2

LineType == [bytes : Seq(Byte), labels : Seq(Symbol), stretch : Nat]

LEMMA ConcatFacts ==
    ASSUME NEW S, NEW s \in Seq(S), NEW t \in Seq(S), NEW m \in Nat, NEW n \in Nat,
           Len(s) = m, Len(t) = n
    PROVE  /\ s \o t \in Seq(S) /\ Len(s \o t) = m + n
           /\ \A i \in 1 .. m + n : (s \o t)[i] = IF i <= m THEN s[i] ELSE t[i - m]
OBVIOUS

LEMMA LinesHaveBytes ==
    ASSUME NEW ls \in Seq(LineType), NEW i \in 1 .. Len(ls)
    PROVE  ls[i].bytes \in Seq(Byte)
<1>1. ls[i] \in LineType
    OBVIOUS
<1>2. \A line \in LineType : line.bytes \in Seq(Byte)
    BY DEF LineType
<1> QED BY <1>1, <1>2

BytesOf(ls) == FlattenSeq([i \in DOMAIN ls |-> ls[i].bytes])

LEMMA FlattenSeqOne ==
    ASSUME NEW S, NEW s \in Seq(S)
    PROVE  FlattenSeq(<<s>>) = s
<1>1. << >> \in Seq(Seq(S))
    OBVIOUS
<1>2. Append(<< >>, s) = <<s>> /\ << >> \o s = s
    OBVIOUS
<1>3. FlattenSeq(Append(<< >>, s)) = FlattenSeq(<< >>) \o s
    BY <1>1, FlattenSeqAppend
<1> QED BY <1>2, <1>3, FlattenSeqEmpty

LEMMA BytesOfType ==
    ASSUME NEW ls \in Seq(LineType)
    PROVE  BytesOf(ls) \in Seq(Byte)
<1> DEFINE m == [i \in 1 .. Len(ls) |-> ls[i].bytes]
<1>1. \A i \in 1 .. Len(ls) : ls[i].bytes \in Seq(Byte)
    BY LinesHaveBytes
<1>2. m \in Seq(Seq(Byte)) /\ DOMAIN ls = 1 .. Len(ls)
    <2>1. Len(ls) \in Nat /\ DOMAIN ls = 1 .. Len(ls)
        OBVIOUS
    <2> QED BY <1>1, <2>1
<1> QED BY <1>2, FlattenSeqType DEF BytesOf

LEMMA BytesOfEmpty == BytesOf(<< >>) = << >>
<1>1. [i \in DOMAIN << >> |-> << >>[i].bytes] = << >>
    OBVIOUS
<1> QED BY <1>1, FlattenSeqEmpty DEF BytesOf

LEMMA BytesOfOne ==
    ASSUME NEW line \in LineType
    PROVE  BytesOf(<<line>>) = line.bytes
<1>1. [i \in DOMAIN <<line>> |-> <<line>>[i].bytes] = <<line.bytes>>
    OBVIOUS
<1>2. line.bytes \in Seq(Byte)
    BY DEF LineType
<1> QED BY <1>1, <1>2, FlattenSeqOne DEF BytesOf

LEMMA BytesOfConcat ==
    ASSUME NEW ls \in Seq(LineType), NEW new \in Seq(LineType)
    PROVE  BytesOf(ls \o new) = BytesOf(ls) \o BytesOf(new)
<1> DEFINE ms == [i \in 1 .. Len(ls) |-> ls[i].bytes]
           mn == [i \in 1 .. Len(new) |-> new[i].bytes]
           mm == [i \in 1 .. Len(ls) + Len(new) |-> (ls \o new)[i].bytes]
<1>1. /\ Len(ls) \in Nat /\ DOMAIN ls = 1 .. Len(ls)
      /\ Len(new) \in Nat /\ DOMAIN new = 1 .. Len(new)
      /\ DOMAIN (ls \o new) = 1 .. Len(ls) + Len(new)
    OBVIOUS
<1>2. /\ \A i \in 1 .. Len(ls) : ls[i].bytes \in Seq(Byte)
      /\ \A i \in 1 .. Len(new) : new[i].bytes \in Seq(Byte)
    BY LinesHaveBytes
<1>3. \A i \in 1 .. Len(ls) + Len(new) :
          (ls \o new)[i].bytes = IF i <= Len(ls) THEN ls[i].bytes ELSE new[i - Len(ls)].bytes
    OBVIOUS
<1>4. /\ ms \in Seq(Seq(Byte)) /\ Len(ms) = Len(ls)
      /\ mn \in Seq(Seq(Byte)) /\ Len(mn) = Len(new)
    BY <1>1, <1>2
<1>5. \A i \in 1 .. Len(ls) + Len(new) : mm[i] = IF i <= Len(ls) THEN ms[i] ELSE mn[i - Len(ls)]
    BY <1>1, <1>3
<1>6. DOMAIN mm = 1 .. Len(ls) + Len(new) /\ mm = [i \in 1 .. Len(ls) + Len(new) |-> mm[i]]
    OBVIOUS
<1>7. BytesOf(ls) = FlattenSeq(ms) /\ BytesOf(new) = FlattenSeq(mn)
      /\ BytesOf(ls \o new) = FlattenSeq(mm)
    BY <1>1 DEF BytesOf
<1> HIDE DEF ms, mn, mm
<1>8. mm = ms \o mn
    <2>1. /\ ms \o mn \in Seq(Seq(Byte)) /\ Len(ms \o mn) = Len(ls) + Len(new)
          /\ \A i \in 1 .. Len(ls) + Len(new) :
                (ms \o mn)[i] = IF i <= Len(ls) THEN ms[i] ELSE mn[i - Len(ls)]
        BY <1>1, <1>4, ConcatFacts
    <2> DEFINE cc == ms \o mn
    <2>2. DOMAIN cc = 1 .. Len(ls) + Len(new)
          /\ cc = [i \in 1 .. Len(ls) + Len(new) |-> cc[i]]
        <3>1. cc \in Seq(Seq(Byte)) /\ Len(cc) = Len(ls) + Len(new)
            BY <2>1
        <3> HIDE DEF cc
        <3>2. DOMAIN cc = 1 .. Len(cc) /\ cc = [i \in 1 .. Len(cc) |-> cc[i]]
            BY <3>1
        <3> QED BY <3>1, <3>2
    <2>3. \A i \in 1 .. Len(ls) + Len(new) : mm[i] = cc[i]
        BY <1>5, <2>1
    <2> HIDE DEF cc
    <2>4. mm = cc
        BY <1>6, <2>2, <2>3
    <2> QED BY <2>4 DEF cc
<1>9. FlattenSeq(ms \o mn) = FlattenSeq(ms) \o FlattenSeq(mn)
    BY <1>4, FlattenSeqConcat
<1> QED BY <1>7, <1>8, <1>9

LEMMA UnitBounds ==
    ASSUME NEW n \in Nat, NEW width \in {1, 2, 4}
    PROVE  /\ n \div width \in Nat
           /\ (n \div width) * width \in 0 .. n
           /\ n < (n \div width) * width + width
           /\ \A u \in 1 .. n \div width :
                 /\ (u - 1) * width \in 0 .. n /\ u * width \in 0 .. n
                 /\ u * width = (u - 1) * width + width
<1>1. CASE width = 1
    BY <1>1
<1>2. CASE width = 2
    BY <1>2
<1>3. CASE width = 4
    BY <1>3
<1> QED BY <1>1, <1>2, <1>3

LEMMA UnitFacts ==
    ASSUME NEW S, NEW bytes \in Seq(S), NEW width \in {1, 2, 4}
    PROVE  /\ Units(bytes, width) \in Seq(Seq(S))
           /\ Len(Units(bytes, width)) = Len(bytes) \div width
           /\ \A u \in 1 .. Len(bytes) \div width :
                 /\ Len(Units(bytes, width)[u]) = width
                 /\ Units(bytes, width)[u][1] = bytes[(u - 1) * width + 1]
<1> DEFINE q == Len(bytes) \div width
           unit(u) == SubSeq(bytes, (u - 1) * width + 1, u * width)
<1>1. Len(bytes) \in Nat /\ q \in Nat
    BY UnitBounds
<1>2. ASSUME NEW u \in 1 .. q
      PROVE  /\ unit(u) \in Seq(S) /\ Len(unit(u)) = width
             /\ unit(u)[1] = bytes[(u - 1) * width + 1]
    <2>1. /\ (u - 1) * width \in 0 .. Len(bytes) /\ u * width \in 0 .. Len(bytes)
          /\ u * width = (u - 1) * width + width
        BY UnitBounds
    <2> DEFINE a == (u - 1) * width
               b == u * width
    <2> HIDE DEF a, b
    <2>2. a \in 0 .. Len(bytes) /\ b \in 0 .. Len(bytes) /\ b = a + width
        BY <2>1 DEF a, b
    <2>3. \A i \in a + 1 .. b : bytes[i] \in S
        BY <2>2
    <2>4. /\ SubSeq(bytes, a + 1, b) \in Seq(S)
          /\ Len(SubSeq(bytes, a + 1, b)) = IF a + 1 <= b THEN b - (a + 1) + 1 ELSE 0
          /\ \A i \in 1 .. b - (a + 1) + 1 : SubSeq(bytes, a + 1, b)[i] = bytes[(a + 1) + i - 1]
        BY <2>2, <2>3, SubSeqProperties
    <2>5. b - (a + 1) + 1 = width /\ a + 1 <= b /\ 1 \in 1 .. b - (a + 1) + 1 /\ (a + 1) + 1 - 1 = a + 1
        BY <2>2
    <2>6. /\ SubSeq(bytes, a + 1, b) \in Seq(S) /\ Len(SubSeq(bytes, a + 1, b)) = width
          /\ SubSeq(bytes, a + 1, b)[1] = bytes[a + 1]
        BY <2>4, <2>5
    <2> QED BY <2>6 DEF a, b
<1> DEFINE us == [u \in 1 .. q |-> unit(u)]
<1>3. us = Units(bytes, width)
    BY DEF Units
<1> HIDE DEF q
<1>4. us \in Seq(Seq(S)) /\ Len(us) = q
    <2>1. \A u \in 1 .. q : unit(u) \in Seq(S)
        BY <1>2
    <2> HIDE DEF unit
    <2> QED BY <1>1, <2>1
<1>5. \A u \in 1 .. q : us[u] = unit(u)
    OBVIOUS
<1> HIDE DEF us, unit
<1> QED BY <1>2, <1>3, <1>4, <1>5 DEF q

LEMMA UnitsAndRest ==
    ASSUME NEW S, NEW bytes \in Seq(S), NEW width \in {1, 2, 4}
    PROVE  FlattenSeq(Units(bytes, width)) \o Rest(bytes, width) = bytes
<1> DEFINE q == Len(bytes) \div width
           us == Units(bytes, width)
           p(m) == SubSeq(us, 1, m)
           T == {m \in Nat : m <= q => FlattenSeq(p(m)) = SubSeq(bytes, 1, m * width)}
<1>1. us \in Seq(Seq(S)) /\ Len(us) = q /\ q \in Nat /\ Len(bytes) \in Nat
    BY UnitFacts, UnitBounds
<1>2. 0 \in T
    <2>1. p(0) = << >> /\ SubSeq(bytes, 1, 0 * width) = << >>
        BY SubSeqEmpty
    <2> HIDE DEF p
    <2> QED BY <2>1, FlattenSeqEmpty
<1>3. ASSUME NEW m \in Nat, m \in T PROVE m + 1 \in T
    <2> SUFFICES ASSUME m + 1 <= q
                 PROVE  FlattenSeq(p(m + 1)) = SubSeq(bytes, 1, (m + 1) * width)
        OBVIOUS
    <2> HIDE DEF q
    <2>1. FlattenSeq(p(m)) = SubSeq(bytes, 1, m * width)
        BY <1>1, <1>3
    <2>2. /\ m * width \in 0 .. Len(bytes) /\ (m + 1) * width \in 0 .. Len(bytes)
          /\ (m + 1) * width = m * width + width
        <3>1. m + 1 \in 1 .. q /\ (m + 1) - 1 = m
            BY <1>1
        <3> QED BY <1>1, <3>1, UnitBounds DEF q
    <2>3. us[m + 1] = SubSeq(bytes, m * width + 1, (m + 1) * width)
        <3>1. m + 1 \in 1 .. q /\ (m + 1) - 1 = m
            BY <1>1
        <3> QED BY <3>1 DEF Units, q
    <2> HIDE DEF us
    <2>4. p(m) \in Seq(Seq(S)) /\ us[m + 1] \in Seq(S) /\ p(m + 1) = Append(p(m), us[m + 1])
        BY <1>1, PrefixAppend
    <2> DEFINE unit == us[m + 1]
    <2> HIDE DEF p, unit
    <2>5. FlattenSeq(p(m + 1)) = FlattenSeq(p(m)) \o unit
        <3>1. FlattenSeq(Append(p(m), unit)) = FlattenSeq(p(m)) \o unit
            BY <2>4, FlattenSeqAppend DEF unit
        <3> QED BY <2>4, <3>1 DEF unit
    <2> DEFINE a == m * width
               b == (m + 1) * width
    <2> HIDE DEF a, b
    <2>6. a \in 0 .. Len(bytes) /\ b \in a .. Len(bytes)
        BY <2>2, <1>1 DEF a, b
    <2>7. SubSeq(bytes, 1, a) \o SubSeq(bytes, a + 1, b) = SubSeq(bytes, 1, b)
        <3>1. 1 \in 1 .. Len(bytes) + 1 /\ a \in 1 - 1 .. Len(bytes)
            BY <2>6, <1>1
        <3> QED BY <2>6, <3>1, ConcatAdjacentSubSeq
    <2> QED BY <2>1, <2>3, <2>5, <2>7 DEF a, b, unit
<1>4. q \in T
    <2> HIDE DEF T
    <2>1. Nat \subseteq T
        BY <1>2, <1>3, SetInduction
    <2> QED BY <1>1, <2>1
<1>5. p(q) = us
    BY <1>1, SubSeqFull
<1>6. FlattenSeq(us) = SubSeq(bytes, 1, q * width)
    <2> HIDE DEF p, us, q
    <2>1. q <= q
        BY <1>1
    <2> QED BY <1>4, <1>5, <2>1
<1>7. SubSeq(bytes, 1, q * width) \o SubSeq(bytes, q * width + 1, Len(bytes)) = bytes
    <2> DEFINE a == q * width
    <2>1. a \in 0 .. Len(bytes)
        BY <1>1, UnitBounds
    <2> HIDE DEF a
    <2>2. 1 \in 1 .. Len(bytes) + 1 /\ a \in 1 - 1 .. Len(bytes) /\ Len(bytes) \in a .. Len(bytes)
        BY <2>1, <1>1
    <2>3. SubSeq(bytes, 1, a) \o SubSeq(bytes, a + 1, Len(bytes)) = SubSeq(bytes, 1, Len(bytes))
        BY <2>2, ConcatAdjacentSubSeq
    <2> QED BY <2>3, SubSeqFull DEF a
<1> QED BY <1>6, <1>7 DEF Rest

-----------------------------------------------------------------------------
(* What is held back. *)

Part == [size : {1, 2, 4, 8}, ref : Symbol \cup {None}]

IInv ==
    /\ client.at = "start" => section # TextSection
    /\ client.at \in {"next", "linkage", "align", "label", "body"} =>
          CurrentAlignmentToValue \in {1, 2, 4}
    /\ ValueBuffer \in Seq(Byte)
    /\ client.at \in {"next", "linkage", "align", "body"} =>
          Len(ValueBuffer) < CurrentAlignmentToValue
    /\ client \in [at : {"start", "next", "linkage", "align", "label", "body",
                         "done", "assert", "fatal"},
                   globals : BOOLEAN, items : Nat, sym : Symbol \cup {None},
                   align : {1, 2, 4, 8},
                   parts : Seq(Part),
                   done : Nat]

\* What is held back after whole directives are taken off is shorter than one.
LEMMA RestIsShorter ==
    ASSUME NEW S, NEW bytes \in Seq(S), NEW width \in {1, 2, 4}
    PROVE  Rest(bytes, width) \in Seq(S) /\ Len(Rest(bytes, width)) < width
<1>1. PICK n \in Nat : Len(bytes) = n
    OBVIOUS
<1> DEFINE m == (n \div width) * width + 1
<1>2. m \in 1 .. n + 1 /\ n - m + 1 < width /\ n - m + 1 \in Nat
    <2>1. CASE width = 1
        BY <2>1
    <2>2. CASE width = 2
        BY <2>2
    <2>3. CASE width = 4
        BY <2>3
    <2> QED BY <2>1, <2>2, <2>3
<1>3. Rest(bytes, width) = SubSeq(bytes, m, n)
    BY <1>1 DEF Rest
<1> HIDE DEF m
<1>4. SubSeq(bytes, m, n) \in Seq(S) /\ Len(SubSeq(bytes, m, n)) = n - m + 1
    <2>1. m \in 1 .. Len(bytes) + 1 /\ n \in m - 1 .. Len(bytes)
        BY <1>1, <1>2
    <2> QED BY <2>1, SubSeqProperties
<1> QED BY <1>2, <1>3, <1>4

LEMMA InitIInv == Init => IInv
<1> SUFFICES ASSUME Init PROVE IInv
    OBVIOUS
<1>1. << >> \in Seq(Byte) /\ << >> \in Seq(Part)
    OBVIOUS
<1>2. client = [at |-> "start", globals |-> FALSE, items |-> 0, sym |-> None,
                align |-> 1, parts |-> << >>, done |-> 0]
    BY DEF Init, Idle
<1>3. ValueBuffer = << >> /\ section # TextSection
    BY DEF Init, TextSection
<1> QED BY <1>1, <1>2, <1>3 DEF IInv

LEMMA SwitchSectionFacts ==
    ASSUME IInv, NEW s, SwitchSection(s),
           client.at = "next" \/ (client.at = "start" /\ s = TextSection)
    PROVE  /\ CurrentAlignmentToValue' \in {1, 2, 4}
           /\ ValueBuffer' \in Seq(Byte)
           /\ Len(ValueBuffer') < CurrentAlignmentToValue'
<1>1. CASE s = section
    <2>1. UNCHANGED <<ValueBuffer, CurrentAlignmentToValue>>
        BY <1>1 DEF SwitchSection
    <2>2. client.at = "next"
        BY <1>1 DEF IInv
    <2> QED BY <2>1, <2>2 DEF IInv
<1>2. CASE s # section
    <2>1. ValueBuffer' = << >> /\ CurrentAlignmentToValue' = 1
        BY <1>2 DEF SwitchSection, FlushValues
    <2>2. << >> \in Seq(Byte) /\ Len(<< >>) = 0
        OBVIOUS
    <2> QED BY <2>1, <2>2
<1> QED BY <1>1, <1>2

LEMMA EmitValueStep ==
    ASSUME IInv, EmitValue
    PROVE  IInv'
<1> DEFINE part == Head(client.parts)
           bytes == [i \in 1 .. part.size |-> <<client.sym, client.done + i>>]
           whole == CurrentAlignmentToValue = part.size /\ ValueBuffer = << >>
           packed == IF whole THEN [units |-> <<bytes>>, rest |-> << >>] ELSE Pack(bytes)
<1>1. client.at = "body" /\ client.parts # << >>
      /\ UNCHANGED <<section, CurrentAlignmentToValue>>
    BY DEF EmitValue
<1>2. part \in Part
      /\ Tail(client.parts) \in Seq(Part)
    BY <1>1, HeadTailProperties DEF IInv
<1>3. bytes \in Seq(Byte)
    <2>1. part.size \in Nat /\ client.done \in Nat /\ client.sym \in Symbol \cup {None}
        BY <1>2 DEF IInv, Part
    <2>2. \A i \in 1 .. part.size : <<client.sym, client.done + i>> \in Byte
        BY <2>1 DEF Byte
    <2> HIDE DEF part
    <2> QED BY <2>1, <2>2
<1>4. CurrentAlignmentToValue \in {1, 2, 4} /\ ValueBuffer \in Seq(Byte)
      /\ Len(ValueBuffer) < CurrentAlignmentToValue
    BY <1>1 DEF IInv
<1>5. packed.rest \in Seq(Byte) /\ Len(packed.rest) < CurrentAlignmentToValue
    <2>1. CASE whole
        BY <2>1, <1>4
    <2>2. CASE ~whole
        <3>1. packed = Pack(bytes)
            BY <2>2
        <3> HIDE DEF packed, bytes
        <3>3. ~(Len(ValueBuffer) >= CurrentAlignmentToValue)
            <4>1. Len(ValueBuffer) \in Nat /\ CurrentAlignmentToValue \in Nat
                BY <1>4
            <4> QED BY <4>1, <1>4
        <3>4. packed.rest = Rest(ValueBuffer \o bytes, CurrentAlignmentToValue)
            BY <3>1, <3>3 DEF Pack
        <3>2. ValueBuffer \o bytes \in Seq(Byte)
            BY <1>3, <1>4
        <3> QED BY <3>4, <3>2, <1>4, RestIsShorter
    <2> QED BY <2>1, <2>2
<1>6. CASE ~whole /\ part.ref # None
    <2>1. client' = [client EXCEPT !.at = "fatal"] /\ UNCHANGED ValueBuffer
        BY <1>6 DEF EmitValue
    <2> HIDE DEF packed, whole, bytes, part
    <2> QED BY <2>1, <1>1 DEF IInv
<1>7. CASE ~(~whole /\ part.ref # None)
    <2>1. client' = [client EXCEPT !.parts = Tail(@), !.done = @ + part.size]
          /\ ValueBuffer' = packed.rest
        BY <1>7 DEF EmitValue
    <2>2. part.size \in Nat
        BY <1>2 DEF Part
    <2> HIDE DEF packed, whole, bytes, part
    <2>3. client' = [client EXCEPT !.parts = Tail(client.parts),
                                   !.done = client.done + part.size]
        BY <2>1
    <2>4. client.done + part.size \in Nat
        BY <2>2 DEF IInv
    <2> QED BY <2>1, <2>3, <2>4, <1>1, <1>2, <1>4, <1>5 DEF IInv
<1> QED BY <1>6, <1>7

LEMMA NextIInv ==
    ASSUME IInv, [Next]_vars
    PROVE  IInv'
<1>1. CASE InitSections
    <2>1. SwitchSection(TextSection) /\ client.at = "start" /\ client' = Idle
        BY <1>1 DEF InitSections
    <2>2. << >> \in Seq(Part)
        OBVIOUS
    <2>3. /\ CurrentAlignmentToValue' \in {1, 2, 4} /\ ValueBuffer' \in Seq(Byte)
          /\ Len(ValueBuffer') < CurrentAlignmentToValue'
        BY <2>1, SwitchSectionFacts
    <2> QED BY <2>1, <2>2, <2>3 DEF Idle, IInv
<1>2. ASSUME NEW f \in Symbol, BeginFunction(f) PROVE IInv'
    <2>1. client.at = "next" /\ SwitchSection(TextSection)
          /\ client' = [client EXCEPT !.at = "linkage", !.items = client.items + 1, !.sym = f,
                                      !.align = 1, !.parts = << >>, !.done = 0]
        BY <1>2 DEF BeginFunction
    <2>2. /\ CurrentAlignmentToValue' \in {1, 2, 4} /\ ValueBuffer' \in Seq(Byte)
          /\ Len(ValueBuffer') < CurrentAlignmentToValue'
        BY <2>1, SwitchSectionFacts
    <2>3. << >> \in Seq(Part) /\ client.items + 1 \in Nat
        BY DEF IInv
    <2> QED BY <2>1, <2>2, <2>3 DEF IInv
<1>3. ASSUME NEW g \in Symbol, NEW o \in Object, BeginGlobal(g, o) PROVE IInv'
    <2>1. client.at = "next" /\ SwitchSection(o.section)
          /\ client' = [client EXCEPT !.at = "linkage", !.globals = TRUE,
                                      !.items = client.items + 1, !.sym = g,
                                      !.align = o.align, !.parts = o.parts, !.done = 0]
        BY <1>3 DEF BeginGlobal
    <2>2. /\ CurrentAlignmentToValue' \in {1, 2, 4} /\ ValueBuffer' \in Seq(Byte)
          /\ Len(ValueBuffer') < CurrentAlignmentToValue'
        BY <2>1, SwitchSectionFacts
    <2>3. o.parts \in Seq(Part) /\ o.align \in {1, 2, 4, 8}
        BY ObjectAssumption DEF Part
    <2>4. client.items + 1 \in Nat
        BY DEF IInv
    <2> QED BY <2>1, <2>2, <2>3, <2>4 DEF IInv
<1>4. ASSUME NEW linkage \in {"external", "weak", "internal"}, EmitLinkage(linkage) PROVE IInv'
    BY <1>4 DEF EmitLinkage, IInv
<1>5. CASE EmitAlignment
    BY <1>5 DEF EmitAlignment, EmitValueToAlignment, IInv
<1>6. CASE EmitLabel
    BY <1>6 DEF EmitLabel, IInv
<1>7. ASSUME NEW ref \in Symbol \cup {None}, EmitInstruction(ref) PROVE IInv'
    <2>1. client.at = "body" /\ client' = [client EXCEPT !.done = client.done + 1]
          /\ UNCHANGED <<section, CurrentAlignmentToValue, ValueBuffer>>
        BY <1>7 DEF EmitInstruction
    <2>2. client.done + 1 \in Nat
        BY DEF IInv
    <2> QED BY <2>1, <2>2 DEF IInv
<1>8. CASE EmitValue
    BY <1>8, EmitValueStep
<1>9. CASE EndItem
    BY <1>9 DEF EndItem, streamer, IInv
<1>10. CASE Finish
    <2>1. client' = [client EXCEPT !.at = "done"] /\ ValueBuffer' = << >>
        BY <1>10 DEF Finish
    <2>2. << >> \in Seq(Byte)
        OBVIOUS
    <2> QED BY <2>1, <2>2 DEF IInv
<1>11. CASE UNCHANGED vars
    BY <1>11 DEF vars, streamer, IInv
<1> QED BY <1>1, <1>2, <1>3, <1>4, <1>5, <1>6, <1>7, <1>8, <1>9, <1>10, <1>11
        DEF Next, Stopped

\* The bytes held back never fill a directive while values are emitted, and
\* the alignment they are packed to has been set.
THEOREM BufferAlwaysFits == Spec => []BufferFits
<1>1. IInv /\ [Next]_vars => IInv'
    BY NextIInv
<1>2. IInv => BufferFits
    BY DEF IInv, BufferFits, Unset
<1> QED BY <1>1, <1>2, InitIInv, PTL DEF Spec

-----------------------------------------------------------------------------
(* What the streamer writes.  Every step but EmitLabel appends lines, none  *)
(* or more, for bytes AsmPrinter emits, none or more.                       *)

Emitted == Symbol \X Nat

TypeInv ==
    /\ lines \in Seq(LineType)
    /\ LabelToEmit \in Seq(Symbol)
    /\ Symbols \in Seq(Symbol)
    /\ defined \subseteq Symbol
    /\ referred \subseteq Symbol
    /\ sent \in Seq(Emitted)
    /\ ValueBuffer \in Seq(Emitted)
    /\ stretch \in Nat
    /\ client.at \in {"linkage", "align", "label", "body"} => client.sym \in Symbol
    /\ ~ client.globals => ValueBuffer = << >> /\ client.parts = << >>
    /\ client.at = "start" => ValueBuffer = << >>

IsPadded(line) == \E b \in DOMAIN line.bytes : line.bytes[b] = PadByte

\* A step that writes the lines new and sends bytes; the first line takes the
\* labels kept, of those that wait.
Emits(new, bytes, kept) ==
    /\ new \in Seq(LineType) /\ bytes \in Seq(Emitted)
    /\ lines' = lines \o new /\ sent' = sent \o bytes
    /\ LabelToEmit' = IF new = << >> THEN LabelToEmit ELSE << >>
    /\ ValueBuffer' \in Seq(Emitted)
    /\ Without(BytesOf(new), {PadByte}) \o ValueBuffer' = ValueBuffer \o bytes
    /\ new = << >> => ValueBuffer' = ValueBuffer \o bytes
    /\ new # << >> /\ ValueBuffer \o bytes # << >> =>
          new[1].bytes # << >> /\ new[1].bytes[1] = (ValueBuffer \o bytes)[1]
    /\ stretch' \in Nat /\ stretch <= stretch'
    /\ \A u \in 1 .. Len(new) :
          /\ new[u].stretch = stretch
          /\ new[u].labels = IF u = 1 THEN kept ELSE << >>
          /\ Len(new[u].bytes) \in {0, 1, 2, 4}
          /\ IsPadded(new[u]) => u = Len(new) /\ (stretch < stretch' \/ client'.at = "done")
    /\ client.at # "done"
    /\ \A k \in 1 .. Len(bytes) : bytes[k] = <<client.sym, client.done + k>>
    /\ bytes # << >> => client.at = "body"

LEMMA SilentStep ==
    ASSUME TypeInv, client.at # "done", stretch' \in Nat, stretch <= stretch',
           UNCHANGED <<lines, sent, LabelToEmit, ValueBuffer>>
    PROVE  Emits(<< >>, << >>, LabelToEmit)
<1>1. << >> \in Seq(LineType) /\ << >> \in Seq(Emitted) /\ Len(<< >>) = 0
    OBVIOUS
<1>2. lines \o << >> = lines /\ sent \o << >> = sent /\ ValueBuffer \o << >> = ValueBuffer
      /\ << >> \o ValueBuffer = ValueBuffer
    BY ConcatEmptySeq DEF TypeInv
<1>3. Without(BytesOf(<< >>), {PadByte}) = << >>
    BY BytesOfEmpty, WithoutEmpty
<1>4. /\ lines' = lines \o << >> /\ sent' = sent \o << >> /\ LabelToEmit' = LabelToEmit
      /\ ValueBuffer' = ValueBuffer \o << >> /\ ValueBuffer' \in Seq(Emitted)
      /\ Without(BytesOf(<< >>), {PadByte}) \o ValueBuffer' = ValueBuffer \o << >>
    BY <1>2, <1>3 DEF TypeInv
<1> DEFINE none == << >>
<1>5. none = << >> /\ \A u \in 1 .. Len(none) : FALSE
    OBVIOUS
<1> HIDE DEF none
<1>6. Emits(none, none, LabelToEmit)
    BY <1>1, <1>4, <1>5 DEF Emits
<1> QED BY <1>5, <1>6

\* A line of the current labels and stretch, and what it says of them.
LEMMA LineStep ==
    ASSUME TypeInv, NEW body \in Seq(Byte)
    PROVE  /\ Line(body) \in LineType /\ <<Line(body)>> \in Seq(LineType)
           /\ Line(body).bytes = body /\ Line(body).labels = LabelToEmit
           /\ Line(body).stretch = stretch
           /\ BytesOf(<<Line(body)>>) = body
<1>1. Line(body) \in LineType
    BY DEF Line, LineType, TypeInv
<1>2. BytesOf(<<Line(body)>>) = Line(body).bytes
    BY <1>1, BytesOfOne
<1> QED BY <1>1, <1>2 DEF Line

LEMMA NoPadding == Emitted \cap {PadByte} = {}
BY ObjectAssumption DEF Emitted, PadByte

LEMMA PaddedFacts ==
    ASSUME TypeInv, ValueBuffer # << >>,
           CurrentAlignmentToValue \in {1, 2, 4}, Len(ValueBuffer) < CurrentAlignmentToValue
    PROVE  /\ Padded \in Seq(Byte) /\ Len(Padded) \in {1, 2, 4}
           /\ Padded # << >> /\ Padded[1] = ValueBuffer[1]
           /\ Without(Padded, {PadByte}) = ValueBuffer
<1> DEFINE n == CurrentAlignmentToValue - Len(ValueBuffer)
           pads == [i \in 1 .. n |-> PadByte]
<1>1. n \in Nat /\ Len(ValueBuffer) \in Nat /\ Len(ValueBuffer) > 0
      /\ Len(ValueBuffer) + n = CurrentAlignmentToValue
    BY DEF TypeInv
<1>2. ValueBuffer \in Seq(Byte) /\ ValueBuffer \in Seq(Emitted)
    BY DEF TypeInv, Emitted, Byte
<1>3. PadByte \in Byte
    BY DEF PadByte, Byte
<1> HIDE DEF n
<1>4. pads \in Seq(Byte) /\ pads \in Seq({PadByte}) /\ Len(pads) = n
      /\ \A i \in 1 .. Len(pads) : pads[i] \in {PadByte}
    BY <1>1, <1>3
<1>5. Padded = ValueBuffer \o pads
    BY DEF Padded, n
<1> HIDE DEF pads
<1>6. /\ Padded \in Seq(Byte) /\ Len(Padded) = CurrentAlignmentToValue
      /\ Padded[1] = ValueBuffer[1]
    BY <1>1, <1>2, <1>4, <1>5
<1>7. Without(Padded, {PadByte}) = Without(ValueBuffer, {PadByte}) \o Without(pads, {PadByte})
    BY <1>2, <1>4, <1>5, WithoutConcat
<1>8. Without(ValueBuffer, {PadByte}) = ValueBuffer
    BY <1>2, NoPadding, WithoutNone
<1>9. Without(pads, {PadByte}) = << >>
    BY <1>4, WithoutAll
<1>10. ValueBuffer \o << >> = ValueBuffer
    BY <1>2
<1>11. Padded # << >>
    BY <1>6
<1> QED BY <1>6, <1>7, <1>8, <1>9, <1>10, <1>11

\* flushValues: nothing, or a directive completed with zeros.
Flushed == IF ValueBuffer = << >> THEN << >> ELSE <<Line(Padded)>>

LEMMA FlushStep ==
    ASSUME TypeInv, client.at # "done",
           ValueBuffer # << >> => CurrentAlignmentToValue \in {1, 2, 4}
                                  /\ Len(ValueBuffer) < CurrentAlignmentToValue,
           lines' = FlushedLines, LabelToEmit' = FlushedLabels, ValueBuffer' = << >>,
           UNCHANGED sent, stretch' \in Nat,
           stretch < stretch' \/ (stretch' = stretch /\ client'.at = "done")
    PROVE  Emits(Flushed, << >>, LabelToEmit)
<1>1. stretch <= stretch'
    BY DEF TypeInv
<1>2. CASE ValueBuffer = << >>
    <2>1. UNCHANGED <<lines, sent, LabelToEmit, ValueBuffer>>
        BY <1>2 DEF FlushedLines, FlushedLabels
    <2> QED BY <1>1, <1>2, <2>1, SilentStep DEF Flushed
<1>3. CASE ValueBuffer # << >>
    <2> DEFINE new == <<Line(Padded)>>
    <2>1. /\ Padded \in Seq(Byte) /\ Len(Padded) \in {1, 2, 4}
          /\ Padded # << >> /\ Padded[1] = ValueBuffer[1]
          /\ Without(Padded, {PadByte}) = ValueBuffer
        BY <1>3, PaddedFacts
    <2>2. /\ Line(Padded) \in LineType /\ new \in Seq(LineType)
          /\ Line(Padded).bytes = Padded /\ Line(Padded).labels = LabelToEmit
          /\ Line(Padded).stretch = stretch
          /\ BytesOf(new) = Padded
        BY <2>1, LineStep
    <2>3. new # << >> /\ Len(new) = 1 /\ new[1] = Line(Padded)
        OBVIOUS
    <2>4. lines' = lines \o new /\ LabelToEmit' = << >>
        <3>1. lines' = Append(lines, Line(Padded)) /\ LabelToEmit' = << >>
            BY <1>3 DEF FlushedLines, FlushedLabels
        <3>2. Append(lines, Line(Padded)) = lines \o new
            BY <2>2, AppendIsConcat DEF TypeInv
        <3> QED BY <3>1, <3>2
    <2> HIDE DEF new
    <2>5. sent \o << >> = sent /\ ValueBuffer \o << >> = ValueBuffer
          /\ << >> \in Seq(Emitted) /\ Len(<< >>) = 0
        BY ConcatEmptySeq DEF TypeInv
    <2>6. \A u \in 1 .. Len(new) :
              /\ new[u].stretch = stretch
              /\ new[u].labels = IF u = 1 THEN LabelToEmit ELSE << >>
              /\ Len(new[u].bytes) \in {0, 1, 2, 4}
              /\ IsPadded(new[u]) => u = Len(new) /\ (stretch < stretch' \/ client'.at = "done")
        BY <2>1, <2>2, <2>3
    <2>7. new # << >> /\ ValueBuffer \o << >> # << >> =>
              new[1].bytes # << >> /\ new[1].bytes[1] = (ValueBuffer \o << >>)[1]
        BY <2>1, <2>2, <2>3, <2>5
    <2>8. Without(BytesOf(new), {PadByte}) \o ValueBuffer' = ValueBuffer \o << >>
        BY <2>1, <2>2, <2>5
    <2>9. ValueBuffer' \in Seq(Emitted)
        BY <2>5
    <2>10. Emits(new, << >>, LabelToEmit)
        BY <1>1, <2>2, <2>3, <2>4, <2>5, <2>6, <2>7, <2>8, <2>9 DEF Emits
    <2> QED BY <1>3, <2>10 DEF new, Flushed
<1> QED BY <1>2, <1>3

LEMMA SwitchSectionEmits ==
    ASSUME IInv, TypeInv, NEW s, SwitchSection(s), UNCHANGED sent,
           client.at = "next" \/ client.at = "start"
    PROVE  \E new : Emits(new, << >>, LabelToEmit)
<1>1. CASE s = section
    <2>1. UNCHANGED <<lines, sent, LabelToEmit, ValueBuffer>> /\ stretch' = stretch
        BY <1>1 DEF SwitchSection
    <2>2. stretch' \in Nat /\ stretch <= stretch'
        BY <2>1 DEF TypeInv
    <2> QED BY <2>1, <2>2, SilentStep
<1>2. CASE s # section
    <2>1. /\ lines' = FlushedLines /\ LabelToEmit' = FlushedLabels /\ ValueBuffer' = << >>
          /\ stretch' = stretch + 1
        BY <1>2 DEF SwitchSection, FlushValues
    <2>2. stretch' \in Nat /\ stretch < stretch'
        BY <2>1 DEF TypeInv
    <2>3. ValueBuffer # << >> => CurrentAlignmentToValue \in {1, 2, 4}
                                 /\ Len(ValueBuffer) < CurrentAlignmentToValue
        BY DEF IInv, TypeInv
    <2> QED BY <2>1, <2>2, <2>3, FlushStep
<1> QED BY <1>1, <1>2

\* What a fen line keeps of the labels: not the last one if an import follows.
Left == IF RunTogether THEN Front(LabelToEmit) ELSE LabelToEmit

LEMMA FrontFacts ==
    ASSUME NEW S, NEW s \in Seq(S), s # << >>
    PROVE  /\ Front(s) \in Seq(S) /\ Len(Front(s)) = Len(s) - 1
           /\ \A i \in 1 .. Len(s) - 1 : Front(s)[i] = s[i]
<1>1. PICK n \in Nat : n = Len(s) /\ n # 0
    OBVIOUS
<1>2. 1 \in 1 .. Len(s) + 1 /\ n - 1 \in 1 - 1 .. Len(s) /\ n - 1 - 1 + 1 = n - 1
      /\ \A i \in 1 .. n - 1 : 1 + i - 1 = i
    BY <1>1
<1>3. Front(s) = SubSeq(s, 1, n - 1)
    BY <1>1 DEF Front
<1>4. /\ SubSeq(s, 1, n - 1) \in Seq(S) /\ Len(SubSeq(s, 1, n - 1)) = n - 1
      /\ \A i \in 1 .. n - 1 : SubSeq(s, 1, n - 1)[i] = s[i]
    BY <1>1
<1> QED BY <1>1, <1>3, <1>4

LEMMA LeftType ==
    ASSUME TypeInv
    PROVE  Left \in Seq(Symbol)
<1>1. CASE RunTogether
    <2>1. LabelToEmit # << >> /\ LabelToEmit \in Seq(Symbol)
        BY <1>1 DEF RunTogether, FlushedLabels, TypeInv
    <2> QED BY <1>1, <2>1, FrontFacts DEF Left
<1>2. CASE ~ RunTogether
    BY <1>2 DEF Left, TypeInv
<1> QED BY <1>1, <1>2

LEMMA FinishEmits ==
    ASSUME IInv, TypeInv, Finish
    PROVE  \E new : Emits(new, << >>, Left)
<1>1. /\ client.at = "next" /\ client'.at = "done"
      /\ ValueBuffer' = << >> /\ LabelToEmit' = << >>
      /\ UNCHANGED <<sent, stretch>>
    BY DEF Finish, IInv
<1>2. stretch' \in Nat /\ stretch' = stretch
    BY <1>1 DEF TypeInv
<1>3. ValueBuffer # << >> => CurrentAlignmentToValue \in {1, 2, 4}
                             /\ Len(ValueBuffer) < CurrentAlignmentToValue
    BY <1>1 DEF IInv
<1>4. CASE FlushedLabels = << >>
    <2>1. lines' = FlushedLines /\ LabelToEmit' = FlushedLabels /\ Left = LabelToEmit
        BY <1>1, <1>4 DEF Finish, RunTogether, Left
    <2>2. Emits(Flushed, << >>, LabelToEmit)
        BY <1>1, <1>2, <1>3, <2>1, FlushStep
    <2> QED BY <2>1, <2>2
<1>5. CASE FlushedLabels # << >>
    <2>1. ValueBuffer = << >> /\ FlushedLabels = LabelToEmit /\ FlushedLines = lines
        BY <1>5 DEF FlushedLabels, FlushedLines
    <2> DEFINE line == [bytes |-> << >>, stretch |-> stretch, labels |-> Left]
               new == <<line>>
    <2>2. << >> \in Seq(Byte) /\ Left \in Seq(Symbol) /\ stretch \in Nat
        BY LeftType DEF TypeInv
    <2>3. /\ line \in LineType /\ new \in Seq(LineType)
          /\ line.bytes = << >> /\ line.labels = Left /\ line.stretch = stretch
        BY <2>2 DEF LineType
    <2>4. lines' = lines \o new
        <3>1. lines' = Append(lines, line)
            BY <1>5, <2>1 DEF Finish, Left
        <3> HIDE DEF line
        <3> QED BY <2>3, <3>1, AppendIsConcat DEF TypeInv
    <2>5. new # << >> /\ Len(new) = 1 /\ new[1] = line
        OBVIOUS
    <2>6. BytesOf(new) = << >>
        <3> HIDE DEF line
        <3> QED BY <2>3, BytesOfOne
    <2> HIDE DEF new, line
    <2>7. sent \o << >> = sent /\ << >> \o << >> = << >>
          /\ << >> \in Seq(Emitted) /\ Len(<< >>) = 0
        BY ConcatEmptySeq DEF TypeInv
    <2>8. \A u \in 1 .. Len(new) :
              /\ new[u].stretch = stretch
              /\ new[u].labels = IF u = 1 THEN Left ELSE << >>
              /\ Len(new[u].bytes) \in {0, 1, 2, 4}
              /\ IsPadded(new[u]) => u = Len(new) /\ (stretch < stretch' \/ client'.at = "done")
        BY <1>1, <2>3, <2>5
    <2>9. Without(BytesOf(new), {PadByte}) = << >>
        BY <2>6, WithoutEmpty
    <2>10. stretch <= stretch' /\ client.at # "done"
        BY <1>1, <1>2 DEF TypeInv
    <2>11. Emits(new, << >>, Left)
        BY <1>1, <1>2, <2>1, <2>3, <2>4, <2>5, <2>7, <2>8, <2>9, <2>10 DEF Emits
    <2> QED BY <2>11
<1> QED BY <1>4, <1>5

LEMMA InstructionEmits ==
    ASSUME TypeInv, IInv, NEW ref, EmitInstruction(ref)
    PROVE  \E new, bytes : Emits(new, bytes, LabelToEmit)
<1> DEFINE inst == << <<client.sym, client.done + 1>> >>
           new == <<Line(inst)>>
<1>1. /\ client.at = "body" /\ ~ client.globals
      /\ lines' = Append(lines, Line(inst)) /\ LabelToEmit' = << >>
      /\ sent' = sent \o inst
      /\ UNCHANGED <<ValueBuffer, stretch>>
    BY DEF EmitInstruction, FlushLabel
<1>2. <<client.sym, client.done + 1>> \in Emitted
    BY <1>1 DEF Emitted, TypeInv, IInv
<1>3. inst \in Seq(Emitted) /\ Len(inst) = 1 /\ inst # << >>
      /\ inst[1] = <<client.sym, client.done + 1>>
    BY <1>2
<1>4. inst \in Seq(Byte)
    <2>1. <<client.sym, client.done + 1>> \in Byte
        BY <1>2 DEF Emitted, Byte
    <2> QED BY <2>1
<1>5. ValueBuffer = << >> /\ ValueBuffer' = << >> /\ << >> \in Seq(Emitted)
    BY <1>1 DEF TypeInv
<1> HIDE DEF inst
<1>6. /\ Line(inst) \in LineType /\ new \in Seq(LineType)
      /\ Line(inst).bytes = inst /\ Line(inst).labels = LabelToEmit
      /\ Line(inst).stretch = stretch
      /\ BytesOf(new) = inst
    BY <1>4, LineStep
<1>7. new # << >> /\ Len(new) = 1 /\ new[1] = Line(inst)
    OBVIOUS
<1>8. lines' = lines \o new
    BY <1>1, <1>6, AppendIsConcat DEF TypeInv
<1> HIDE DEF new
<1>9. << >> \o inst = inst /\ inst \o << >> = inst
    BY <1>3, ConcatEmptySeq
<1>10. Without(BytesOf(new), {PadByte}) = inst
    BY <1>3, <1>6, NoPadding, WithoutNone
<1>11. ~ IsPadded(new[1])
    <2>1. \A b \in 1 .. Len(inst) : inst[b] \in Emitted
        BY <1>3
    <2>2. DOMAIN inst = 1 .. Len(inst)
        BY <1>3
    <2> QED BY <1>6, <1>7, <2>1, <2>2, NoPadding DEF IsPadded
<1>12. \A u \in 1 .. Len(new) :
          /\ new[u].stretch = stretch
          /\ new[u].labels = IF u = 1 THEN LabelToEmit ELSE << >>
          /\ Len(new[u].bytes) \in {0, 1, 2, 4}
          /\ IsPadded(new[u]) => u = Len(new) /\ (stretch < stretch' \/ client'.at = "done")
    BY <1>3, <1>6, <1>7, <1>11
<1>13. \A k \in 1 .. Len(inst) : inst[k] = <<client.sym, client.done + k>>
    BY <1>3
<1>14. stretch' \in Nat /\ stretch <= stretch'
    BY <1>1 DEF TypeInv
<1>15. new # << >> /\ ValueBuffer \o inst # << >> =>
          new[1].bytes # << >> /\ new[1].bytes[1] = (ValueBuffer \o inst)[1]
    BY <1>3, <1>5, <1>6, <1>7, <1>9
<1>16. Emits(new, inst, LabelToEmit)
    BY <1>1, <1>3, <1>5, <1>6, <1>7, <1>8, <1>9, <1>10, <1>12, <1>13, <1>14, <1>15 DEF Emits
<1> QED BY <1>16

\* The lines EmitValueImpl writes for the units it completes: the first one
\* takes the waiting labels.
UnitLines(units) ==
    [u \in DOMAIN units |-> [Line(units[u]) EXCEPT !.labels = IF u = 1 THEN @ ELSE << >>]]

LEMMA UnitLinesFacts ==
    ASSUME TypeInv, NEW units \in Seq(Seq(Byte))
    PROVE  /\ UnitLines(units) \in Seq(LineType) /\ Len(UnitLines(units)) = Len(units)
           /\ \A u \in 1 .. Len(units) :
                 /\ UnitLines(units)[u].bytes = units[u]
                 /\ UnitLines(units)[u].labels = IF u = 1 THEN LabelToEmit ELSE << >>
                 /\ UnitLines(units)[u].stretch = stretch
           /\ BytesOf(UnitLines(units)) = FlattenSeq(units)
<1> DEFINE new == UnitLines(units)
           line(u) == [bytes |-> units[u], labels |-> IF u = 1 THEN LabelToEmit ELSE << >>,
                       stretch |-> stretch]
<1>1. Len(units) \in Nat /\ DOMAIN units = 1 .. Len(units)
    OBVIOUS
<1>2. \A u \in 1 .. Len(units) : units[u] \in Seq(Byte)
    OBVIOUS
<1>3. << >> \in Seq(Symbol)
    OBVIOUS
<1>4. \A u \in 1 .. Len(units) : line(u) \in LineType
    BY <1>2, <1>3 DEF LineType, TypeInv
<1>5. DOMAIN new = 1 .. Len(units) /\ \A u \in 1 .. Len(units) : new[u] = line(u)
    BY <1>1 DEF UnitLines, Line
<1>6. new = [u \in 1 .. Len(units) |-> line(u)]
    BY <1>1, <1>5 DEF UnitLines
<1>7. new \in Seq(LineType) /\ Len(new) = Len(units)
    <2> HIDE DEF line
    <2>1. [u \in 1 .. Len(units) |-> line(u)] \in Seq(LineType)
          /\ Len([u \in 1 .. Len(units) |-> line(u)]) = Len(units)
        BY <1>1, <1>4
    <2> HIDE DEF new
    <2> QED BY <1>6, <2>1
<1>8. [u \in DOMAIN new |-> new[u].bytes] = units
    <2>1. \A u \in 1 .. Len(units) : new[u].bytes = units[u]
        BY <1>5
    <2>2. units = [u \in 1 .. Len(units) |-> units[u]]
        BY <1>1
    <2> HIDE DEF new
    <2> QED BY <1>5, <2>1, <2>2
<1>9. \A u \in 1 .. Len(units) :
          /\ new[u].bytes = units[u] /\ new[u].stretch = stretch
          /\ new[u].labels = IF u = 1 THEN LabelToEmit ELSE << >>
    BY <1>5
<1> QED BY <1>7, <1>8, <1>9 DEF BytesOf

\* What packing the bytes of a value gives: whole directives and a rest, which
\* together are the bytes held back and the new ones.
PacksTo(units, rest, bytes) ==
    /\ units \in Seq(Seq(Emitted)) /\ rest \in Seq(Emitted)
    /\ FlattenSeq(units) \o rest = ValueBuffer \o bytes
    /\ units = << >> => rest = ValueBuffer \o bytes
    /\ \A u \in 1 .. Len(units) : Len(units[u]) \in {1, 2, 4}
    /\ units # << >> => units[1] # << >> /\ units[1][1] = (ValueBuffer \o bytes)[1]

LEMMA WholePacks ==
    ASSUME NEW bytes \in Seq(Emitted), Len(bytes) \in {1, 2, 4}, ValueBuffer = << >>
    PROVE  PacksTo(<<bytes>>, << >>, bytes)
<1>1. << >> \in Seq(Emitted) /\ bytes \o << >> = bytes /\ << >> \o bytes = bytes /\ bytes # << >>
    OBVIOUS
<1>2. FlattenSeq(<<bytes>>) = bytes
    BY FlattenSeqOne
<1> DEFINE units == <<bytes>>
<1>3. units \in Seq(Seq(Emitted)) /\ Len(units) = 1 /\ units # << >> /\ units[1] = bytes
    OBVIOUS
<1> HIDE DEF units
<1>4. \A u \in 1 .. Len(units) : Len(units[u]) \in {1, 2, 4}
    BY <1>3
<1>5. FlattenSeq(units) = bytes
    BY <1>2 DEF units
<1>6. PacksTo(units, << >>, bytes)
    BY <1>1, <1>3, <1>4, <1>5 DEF PacksTo
<1> QED BY <1>6 DEF units

LEMMA PackPacks ==
    ASSUME NEW bytes \in Seq(Emitted), ValueBuffer \in Seq(Emitted),
           CurrentAlignmentToValue \in {1, 2, 4}, Len(ValueBuffer) < CurrentAlignmentToValue
    PROVE  PacksTo(Pack(bytes).units, Pack(bytes).rest, bytes)
<1> DEFINE all == ValueBuffer \o bytes
           width == CurrentAlignmentToValue
           units == Units(all, width)
           rest == Rest(all, width)
<1>1. ~ (Len(ValueBuffer) >= CurrentAlignmentToValue)
    <2>1. Len(ValueBuffer) \in Nat /\ CurrentAlignmentToValue \in Nat
        OBVIOUS
    <2> QED BY <2>1
<1>2. Pack(bytes).units = units /\ Pack(bytes).rest = rest
    BY <1>1 DEF Pack
<1>3. all \in Seq(Emitted)
    OBVIOUS
<1> HIDE DEF all
<1>4. rest \in Seq(Emitted)
    BY <1>3, RestIsShorter
<1>5. /\ units \in Seq(Seq(Emitted)) /\ Len(units) = Len(all) \div width
      /\ \A u \in 1 .. Len(all) \div width : Len(units[u]) = width /\ units[u][1] = all[(u - 1) * width + 1]
    BY <1>3, UnitFacts
<1>6. FlattenSeq(units) \o rest = all
    BY <1>3, UnitsAndRest
<1> HIDE DEF units, rest
<1>7. \A u \in 1 .. Len(units) : Len(units[u]) \in {1, 2, 4}
    BY <1>5
<1>8. units # << >> => units[1] # << >> /\ units[1][1] = all[1]
    <2> SUFFICES ASSUME units # << >>
                 PROVE  units[1] # << >> /\ units[1][1] = all[1]
        OBVIOUS
    <2>1. Len(units) \in Nat /\ Len(units) # 0 /\ 1 \in 1 .. Len(units)
        BY <1>5
    <2>2. (1 - 1) * width + 1 = 1
        OBVIOUS
    <2>3. Len(units[1]) = width /\ units[1][1] = all[1]
        BY <1>5, <2>1, <2>2
    <2>4. units[1] # << >>
        BY <2>3
    <2> QED BY <2>3, <2>4
<1>9. units = << >> => rest = all
    <2>1. << >> \o rest = rest
        BY <1>4
    <2> QED BY <1>6, <2>1, FlattenSeqEmpty
<1> QED BY <1>2, <1>4, <1>5, <1>6, <1>7, <1>8, <1>9 DEF PacksTo, all

LEMMA PackedEmits ==
    ASSUME TypeInv, NEW units, NEW bytes \in Seq(Emitted),
           PacksTo(units, ValueBuffer', bytes),
           lines' = lines \o UnitLines(units), sent' = sent \o bytes,
           LabelToEmit' = IF units = << >> THEN LabelToEmit ELSE << >>,
           UNCHANGED stretch, client.at = "body",
           \A k \in 1 .. Len(bytes) : bytes[k] = <<client.sym, client.done + k>>
    PROVE  Emits(UnitLines(units), bytes, LabelToEmit)
<1> DEFINE new == UnitLines(units)
<1>1. units \in Seq(Seq(Byte)) /\ units \in Seq(Seq(Emitted))
    <2>1. units \in Seq(Seq(Emitted))
        BY DEF PacksTo
    <2>2. Seq(Emitted) \subseteq Seq(Byte)
        BY DEF Emitted, Byte
    <2> QED BY <2>1, <2>2, SeqMonotonic
<1>2. /\ new \in Seq(LineType) /\ Len(new) = Len(units)
      /\ \A u \in 1 .. Len(units) :
            /\ new[u].bytes = units[u]
            /\ new[u].labels = IF u = 1 THEN LabelToEmit ELSE << >>
            /\ new[u].stretch = stretch
      /\ BytesOf(new) = FlattenSeq(units)
    BY <1>1, UnitLinesFacts
<1> HIDE DEF new
<1>3. new = << >> <=> units = << >>
    BY <1>1, <1>2
<1>4. FlattenSeq(units) \in Seq(Emitted)
    BY <1>1, FlattenSeqType
<1>5. Without(BytesOf(new), {PadByte}) = FlattenSeq(units)
    BY <1>2, <1>4, NoPadding, WithoutNone
<1>6. ASSUME NEW u \in 1 .. Len(new)
      PROVE  /\ new[u].stretch = stretch
             /\ new[u].labels = IF u = 1 THEN LabelToEmit ELSE << >>
             /\ Len(new[u].bytes) \in {0, 1, 2, 4}
             /\ ~ IsPadded(new[u])
    <2>0. u \in 1 .. Len(units)
        BY <1>2
    <2>1. new[u].bytes = units[u] /\ units[u] \in Seq(Emitted)
        BY <1>1, <1>2, <2>0
    <2>2. Len(units[u]) \in {1, 2, 4}
        BY <2>0 DEF PacksTo
    <2> DEFINE unit == units[u]
    <2>3. ~ IsPadded(new[u])
        <3>1. new[u].bytes = unit /\ unit \in Seq(Emitted)
            BY <2>1
        <3> HIDE DEF unit
        <3>2. \A b \in DOMAIN unit : unit[b] \in Emitted
            BY <3>1
        <3> QED BY <3>1, <3>2, NoPadding DEF IsPadded
    <2> QED BY <1>2, <2>0, <2>1, <2>2, <2>3
<1>7. new # << >> => new[1].bytes = units[1]
    <2> SUFFICES ASSUME new # << >> PROVE new[1].bytes = units[1]
        OBVIOUS
    <2>1. 1 \in 1 .. Len(units)
        BY <1>1, <1>3
    <2> QED BY <1>2, <2>1
<1>8. stretch' \in Nat /\ stretch <= stretch' /\ client.at # "done"
    BY DEF TypeInv
<1>9. /\ ValueBuffer' \in Seq(Emitted)
      /\ FlattenSeq(units) \o ValueBuffer' = ValueBuffer \o bytes
      /\ units = << >> => ValueBuffer' = ValueBuffer \o bytes
      /\ units # << >> => units[1] # << >> /\ units[1][1] = (ValueBuffer \o bytes)[1]
    BY DEF PacksTo
<1>10. /\ Without(BytesOf(new), {PadByte}) \o ValueBuffer' = ValueBuffer \o bytes
       /\ new = << >> => ValueBuffer' = ValueBuffer \o bytes
       /\ new # << >> /\ ValueBuffer \o bytes # << >> =>
             new[1].bytes # << >> /\ new[1].bytes[1] = (ValueBuffer \o bytes)[1]
       /\ lines' = lines \o new
       /\ LabelToEmit' = IF new = << >> THEN LabelToEmit ELSE << >>
    BY <1>3, <1>5, <1>7, <1>9 DEF new
<1>11. Emits(new, bytes, LabelToEmit)
    BY <1>2, <1>6, <1>8, <1>9, <1>10 DEF Emits
<1> QED BY <1>11 DEF new

LEMMA ValueEmits ==
    ASSUME IInv, TypeInv, EmitValue
    PROVE  \E new, bytes : Emits(new, bytes, LabelToEmit)
<1> DEFINE part == Head(client.parts)
           bytes == [i \in 1 .. part.size |-> <<client.sym, client.done + i>>]
           whole == CurrentAlignmentToValue = part.size /\ ValueBuffer = << >>
           packed == IF whole THEN [units |-> <<bytes>>, rest |-> << >>] ELSE Pack(bytes)
<1>1. client.at = "body" /\ client.parts # << >> /\ UNCHANGED stretch
    BY DEF EmitValue
<1>2. part \in Part
    BY <1>1, HeadTailProperties DEF IInv
<1>3. part.size \in {1, 2, 4, 8} /\ part.size \in Nat /\ client.done \in Nat /\ client.sym \in Symbol
    BY <1>1, <1>2 DEF IInv, TypeInv, Part
<1>4. /\ bytes \in Seq(Emitted) /\ Len(bytes) = part.size
      /\ \A k \in 1 .. Len(bytes) : bytes[k] = <<client.sym, client.done + k>>
    <2>1. \A i \in 1 .. part.size : <<client.sym, client.done + i>> \in Emitted
        BY <1>3 DEF Emitted
    <2> HIDE DEF part
    <2> QED BY <1>3, <2>1
<1>5. CurrentAlignmentToValue \in {1, 2, 4} /\ ValueBuffer \in Seq(Emitted)
      /\ Len(ValueBuffer) < CurrentAlignmentToValue
    BY <1>1 DEF IInv, TypeInv
<1>6. CASE ~whole /\ part.ref # None
    <2>1. UNCHANGED <<lines, sent, LabelToEmit, ValueBuffer>>
        BY <1>6 DEF EmitValue
    <2>2. stretch' \in Nat /\ stretch <= stretch'
        BY <1>1 DEF TypeInv
    <2> QED BY <1>1, <2>1, <2>2, SilentStep
<1>7. CASE ~(~whole /\ part.ref # None)
    <2>1. /\ lines' = lines \o UnitLines(packed.units)
          /\ LabelToEmit' = IF packed.units = << >> THEN LabelToEmit ELSE << >>
          /\ ValueBuffer' = packed.rest
          /\ sent' = sent \o bytes
        BY <1>7 DEF EmitValue, UnitLines
    <2> HIDE DEF bytes
    <2>2. PacksTo(packed.units, packed.rest, bytes)
        <3>1. CASE whole
            BY <1>4, <1>5, <3>1, WholePacks
        <3>2. CASE ~whole
            <4>1. packed = Pack(bytes)
                BY <3>2
            <4> HIDE DEF packed
            <4> QED BY <1>4, <1>5, <4>1, PackPacks
        <3> QED BY <3>1, <3>2
    <2> HIDE DEF packed
    <2>3. PacksTo(packed.units, ValueBuffer', bytes)
        BY <2>1, <2>2
    <2>4. Emits(UnitLines(packed.units), bytes, LabelToEmit)
        BY <1>1, <1>4, <2>1, <2>3, PackedEmits
    <2> QED BY <2>4
<1> QED BY <1>6, <1>7

\* The labels a step may keep.
Takes(kept) ==
    \/ kept = LabelToEmit /\ client'.at # "done"
    \/ kept = Left /\ Finish

LEMMA StepEmits ==
    ASSUME IInv, TypeInv, [Next]_vars
    PROVE  \/ UNCHANGED vars
           \/ EmitLabel
           \/ UNCHANGED defined /\ \E new, bytes, kept : Emits(new, bytes, kept) /\ Takes(kept)
<1>0. ASSUME client'.at # "done", \E new, bytes : Emits(new, bytes, LabelToEmit)
      PROVE  \E new, bytes, kept : Emits(new, bytes, kept) /\ Takes(kept)
    BY <1>0 DEF Takes
<1>1. CASE InitSections
    <2>1. SwitchSection(TextSection) /\ client.at = "start" /\ UNCHANGED <<sent, defined>>
          /\ client'.at # "done"
        BY <1>1 DEF InitSections, Idle
    <2> QED BY <1>0, <2>1, SwitchSectionEmits
<1>2. ASSUME NEW f \in Symbol, BeginFunction(f)
      PROVE  UNCHANGED defined /\ \E new, bytes, kept : Emits(new, bytes, kept) /\ Takes(kept)
    <2>1. SwitchSection(TextSection) /\ client.at = "next" /\ UNCHANGED <<sent, defined>>
          /\ client'.at # "done"
        BY <1>2 DEF BeginFunction, IInv
    <2> QED BY <1>0, <2>1, SwitchSectionEmits
<1>3. ASSUME NEW g \in Symbol, NEW o \in Object, BeginGlobal(g, o)
      PROVE  UNCHANGED defined /\ \E new, bytes, kept : Emits(new, bytes, kept) /\ Takes(kept)
    <2>1. SwitchSection(o.section) /\ client.at = "next" /\ UNCHANGED <<sent, defined>>
          /\ client'.at # "done"
        BY <1>3 DEF BeginGlobal, IInv
    <2> QED BY <1>0, <2>1, SwitchSectionEmits
<1>4. ASSUME UNCHANGED <<lines, sent, LabelToEmit, ValueBuffer, stretch, defined>>, client.at # "done",
             client'.at # "done"
      PROVE  UNCHANGED defined /\ \E new, bytes, kept : Emits(new, bytes, kept) /\ Takes(kept)
    <2>1. stretch' \in Nat /\ stretch <= stretch'
        BY <1>4 DEF TypeInv
    <2> QED BY <1>0, <1>4, <2>1, SilentStep
<1>5. ASSUME NEW linkage, EmitLinkage(linkage)
      PROVE  UNCHANGED defined /\ \E new, bytes, kept : Emits(new, bytes, kept) /\ Takes(kept)
    BY <1>4, <1>5 DEF EmitLinkage, IInv
<1>6. CASE EmitAlignment
    BY <1>4, <1>6 DEF EmitAlignment, IInv
<1>7. ASSUME NEW ref, EmitInstruction(ref)
      PROVE  UNCHANGED defined /\ \E new, bytes, kept : Emits(new, bytes, kept) /\ Takes(kept)
    <2>1. UNCHANGED defined /\ client'.at # "done"
        BY <1>7 DEF EmitInstruction, IInv
    <2> QED BY <1>0, <1>7, <2>1, InstructionEmits
<1>8. CASE EmitValue
    <2>1. UNCHANGED defined /\ client'.at # "done"
        BY <1>8 DEF EmitValue, IInv
    <2> QED BY <1>0, <1>8, <2>1, ValueEmits
<1>9. CASE EndItem
    BY <1>4, <1>9 DEF EndItem, streamer, IInv
<1>10. CASE Finish
    <2>1. UNCHANGED defined
        BY <1>10 DEF Finish
    <2>2. PICK new : Emits(new, << >>, Left)
        BY <1>10, FinishEmits
    <2>3. Takes(Left)
        BY <1>10 DEF Takes
    <2> QED BY <2>1, <2>2, <2>3
<1> QED BY <1>1, <1>2, <1>3, <1>5, <1>6, <1>7, <1>8, <1>9, <1>10 DEF Next, Stopped

LEMMA VisitingFacts ==
    ASSUME TypeInv, NEW s \in Symbol \cup {None}
    PROVE  Visiting(s) \in Seq(Symbol)
BY DEF Visiting, TypeInv

LEMMA EmitsTypes ==
    ASSUME TypeInv, NEW new, NEW bytes, NEW kept, Emits(new, bytes, kept)
    PROVE  /\ lines' \in Seq(LineType) /\ LabelToEmit' \in Seq(Symbol)
           /\ sent' \in Seq(Emitted) /\ ValueBuffer' \in Seq(Emitted)
           /\ stretch' \in Nat
BY DEF Emits, TypeInv

LEMMA TypeInvHolds == Init => TypeInv
BY DEF Init, Idle, TypeInv

LEMMA NextTypeInv ==
    ASSUME IInv, TypeInv, [Next]_vars
    PROVE  TypeInv'
<1> DEFINE Typed == /\ lines' \in Seq(LineType) /\ LabelToEmit' \in Seq(Symbol)
                    /\ sent' \in Seq(Emitted) /\ ValueBuffer' \in Seq(Emitted)
                    /\ stretch' \in Nat
<1>1. UNCHANGED vars => TypeInv'
    BY DEF vars, streamer, TypeInv
<1>2. EmitLabel => TypeInv'
    <2> SUFFICES ASSUME EmitLabel PROVE TypeInv'
        OBVIOUS
    <2>1. client.at = "label" /\ client.sym \in Symbol
        BY DEF EmitLabel, TypeInv
    <2>2. Visiting(client.sym) \in Seq(Symbol) /\ Append(LabelToEmit, client.sym) \in Seq(Symbol)
        BY <2>1, VisitingFacts DEF TypeInv
    <2> QED BY <2>1, <2>2 DEF EmitLabel, TypeInv, IInv
<1> SUFFICES ASSUME Next, ~ UNCHANGED vars, ~ EmitLabel PROVE TypeInv'
    BY <1>1, <1>2
<1>3. Typed /\ defined' \subseteq Symbol
    BY StepEmits, EmitsTypes DEF TypeInv
<1> HIDE DEF Typed
<1>4. ASSUME NEW s, SwitchSection(s), ValueBuffer = << >> PROVE ValueBuffer' = << >>
    BY <1>4 DEF SwitchSection, FlushValues
<1>5. CASE InitSections
    <2>1. ValueBuffer = << >> /\ ValueBuffer' = << >> /\ client' = Idle
          /\ UNCHANGED <<Symbols, referred>>
        BY <1>4, <1>5 DEF InitSections, TypeInv
    <2> QED BY <1>3, <2>1 DEF Typed, TypeInv, Idle
<1>6. ASSUME NEW f \in Symbol, BeginFunction(f) PROVE TypeInv'
    <2>1. ValueBuffer = << >> /\ ValueBuffer' = << >> /\ UNCHANGED <<Symbols, referred>>
          /\ client' = [client EXCEPT !.at = "linkage", !.items = @ + 1, !.sym = f,
                                      !.align = 1, !.parts = << >>, !.done = 0]
        BY <1>4, <1>6 DEF BeginFunction, TypeInv
    <2>2. client'.at = "linkage" /\ client'.sym = f /\ client'.parts = << >>
        BY <2>1 DEF IInv
    <2> QED BY <1>3, <2>1, <2>2 DEF Typed, TypeInv
<1>7. ASSUME NEW g \in Symbol, NEW o \in Object, BeginGlobal(g, o) PROVE TypeInv'
    <2>1. UNCHANGED <<Symbols, referred>> /\ client'.at = "linkage" /\ client'.sym = g
          /\ client'.globals = TRUE
        BY <1>7 DEF BeginGlobal, IInv
    <2> QED BY <1>3, <2>1 DEF Typed, TypeInv
<1>8. ASSUME NEW linkage, EmitLinkage(linkage) PROVE TypeInv'
    <2>1. /\ client.at = "linkage" /\ UNCHANGED <<referred, ValueBuffer>>
          /\ client' = [client EXCEPT !.at = "align"]
          /\ Symbols' = Symbols \/ Symbols' = Visiting(client.sym)
        BY <1>8 DEF EmitLinkage
    <2>2. client.sym \in Symbol /\ Symbols' \in Seq(Symbol)
        BY <2>1, VisitingFacts DEF TypeInv
    <2> QED BY <1>3, <2>1, <2>2 DEF Typed, TypeInv, IInv
<1>9. CASE EmitAlignment
    BY <1>3, <1>9 DEF EmitAlignment, Typed, TypeInv, IInv
<1>10. ASSUME NEW ref \in Symbol \cup {None}, EmitInstruction(ref) PROVE TypeInv'
    <2>1. /\ client.at = "body" /\ UNCHANGED ValueBuffer
          /\ client' = [client EXCEPT !.done = @ + 1]
          /\ Symbols' = Visiting(ref) /\ referred' = referred \cup ({ref} \ {None})
        BY <1>10 DEF EmitInstruction
    <2>2. Symbols' \in Seq(Symbol) /\ referred' \subseteq Symbol
        BY <2>1, VisitingFacts DEF TypeInv
    <2> QED BY <1>3, <2>1, <2>2 DEF Typed, TypeInv, IInv
<1>11. CASE EmitValue
    <2>1. /\ client.at = "body" /\ client.parts # << >> /\ UNCHANGED <<Symbols, referred>>
          /\ client'.at \in {"body", "fatal"} /\ client'.globals = client.globals
          /\ client'.sym = client.sym
        BY <1>11 DEF EmitValue, IInv
    <2>2. client.globals /\ client.sym \in Symbol
        BY <2>1 DEF TypeInv, IInv
    <2> QED BY <1>3, <2>1, <2>2 DEF Typed, TypeInv
<1>12. CASE EndItem
    BY <1>3, <1>12 DEF EndItem, streamer, Typed, TypeInv, IInv
<1>13. CASE Finish
    BY <1>3, <1>13 DEF Finish, Typed, TypeInv, IInv
<1> QED BY <1>5, <1>6, <1>7, <1>8, <1>9, <1>10, <1>11, <1>12, <1>13 DEF Next, Stopped

\* Where the lines after a step come from.
LEMMA EmitsLines ==
    ASSUME TypeInv, NEW new, NEW bytes, NEW kept, Emits(new, bytes, kept)
    PROVE  /\ Len(lines) \in Nat /\ Len(new) \in Nat /\ Len(lines') = Len(lines) + Len(new)
           /\ DOMAIN lines = 1 .. Len(lines) /\ DOMAIN lines' = 1 .. Len(lines) + Len(new)
           /\ \A i \in 1 .. Len(lines) : lines'[i] = lines[i]
           /\ \A u \in 1 .. Len(new) : lines'[Len(lines) + u] = new[u]
           /\ \A i \in 1 .. Len(lines) + Len(new) :
                 i \in 1 .. Len(lines) \/ \E u \in 1 .. Len(new) : i = Len(lines) + u
<1>1. lines \in Seq(LineType) /\ new \in Seq(LineType) /\ lines' = lines \o new
    BY DEF Emits, TypeInv
<1>2. Len(lines) \in Nat /\ Len(new) \in Nat /\ Len(lines') = Len(lines) + Len(new)
      /\ DOMAIN lines = 1 .. Len(lines) /\ DOMAIN lines' = 1 .. Len(lines) + Len(new)
    BY <1>1
<1>3. ASSUME NEW i \in 1 .. Len(lines) + Len(new)
      PROVE  i \in 1 .. Len(lines) \/ \E u \in 1 .. Len(new) : i = Len(lines) + u
    <2>1. i \notin 1 .. Len(lines) => i - Len(lines) \in 1 .. Len(new)
                                      /\ i = Len(lines) + (i - Len(lines))
        BY <1>2
    <2> QED BY <2>1
<1>4. \A i \in 1 .. Len(lines) : lines'[i] = lines[i]
    BY <1>1
<1>5. \A u \in 1 .. Len(new) : lines'[Len(lines) + u] = new[u]
    BY <1>1
<1> QED BY <1>2, <1>3, <1>4, <1>5

PaddingInv ==
    /\ PaddingEndsSection
    /\ client.at # "done" /\ lines # << >> /\ IsPadded(lines[Len(lines)])
           => lines[Len(lines)].stretch < stretch

LEMMA EmitsPadding ==
    ASSUME TypeInv, PaddingInv, NEW new, NEW bytes, NEW kept, Emits(new, bytes, kept)
    PROVE  PaddingInv'
<1> DEFINE n == Len(lines)
           m == Len(new)
<1>1. /\ n \in Nat /\ m \in Nat /\ Len(lines') = n + m
      /\ DOMAIN lines = 1 .. n /\ DOMAIN lines' = 1 .. n + m
      /\ \A i \in 1 .. n : lines'[i] = lines[i]
      /\ \A u \in 1 .. m : lines'[n + u] = new[u]
      /\ \A i \in 1 .. n + m : i \in 1 .. n \/ \E u \in 1 .. m : i = n + u
    BY EmitsLines
<1>2. \A u \in 1 .. m : new[u].stretch = stretch
          /\ (IsPadded(new[u]) => u = m /\ (stretch < stretch' \/ client'.at = "done"))
    BY DEF Emits
<1>3. client.at # "done" /\ stretch \in Nat /\ stretch' \in Nat /\ stretch <= stretch'
    BY DEF Emits, TypeInv
<1>4. ASSUME n # 0 PROVE lines # << >> /\ n \in 1 .. n
    BY <1>1, <1>4
<1>5. ASSUME n # 0, IsPadded(lines[n]) PROVE lines[n].stretch < stretch
    BY <1>3, <1>4, <1>5 DEF PaddingInv
<1>6. \A i \in 1 .. n : IsPadded(lines[i]) /\ i < n => lines[i + 1].stretch # lines[i].stretch
    BY <1>1 DEF PaddingInv, PaddingEndsSection, IsPadded
<1>7. \A i \in 1 .. n : lines[i] \in LineType
    BY DEF TypeInv
<1> HIDE DEF n, m
<1>8. ASSUME NEW i \in 1 .. n + m, IsPadded(lines'[i]), i < n + m
      PROVE  lines'[i + 1].stretch # lines'[i].stretch
    <2>1. CASE i \in 1 .. n /\ i < n
        <3>1. i + 1 \in 1 .. n
            BY <1>1, <2>1
        <3> QED BY <1>1, <1>6, <1>8, <2>1, <3>1
    <2>2. CASE i = n
        <3>1. n # 0 /\ n \in 1 .. n /\ 1 \in 1 .. m
            BY <1>1, <1>8, <2>2
        <3>2. lines'[i + 1] = new[1] /\ new[1].stretch = stretch /\ lines'[i] = lines[n]
            BY <1>1, <1>2, <2>2, <3>1
        <3>3. lines[n].stretch < stretch
            BY <1>5, <1>8, <3>1, <3>2
        <3>4. lines[n].stretch \in Nat
            BY <1>7, <3>1 DEF LineType
        <3> QED BY <1>3, <3>2, <3>3, <3>4
    <2>3. CASE i \notin 1 .. n
        <3>1. PICK u \in 1 .. m : i = n + u
            BY <1>1, <2>3
        <3>2. IsPadded(new[u])
            BY <1>1, <1>8, <3>1
        <3>3. u = m
            BY <1>2, <3>2
        <3> QED BY <1>1, <1>8, <3>1, <3>3
    <2> QED BY <1>1, <1>8, <2>1, <2>2, <2>3
<1>9. ASSUME client'.at # "done", lines' # << >>, IsPadded(lines'[n + m])
      PROVE  lines'[n + m].stretch < stretch'
    <2>1. CASE m = 0
        <3>1. n + m = n /\ n # 0
            <4>1. lines' \in Seq(LineType)
                BY EmitsTypes
            <4>2. Len(lines') # 0
                BY <1>9, <4>1
            <4> QED BY <1>1, <2>1, <4>2
        <3>2. lines'[n] = lines[n] /\ lines[n].stretch \in Nat
            BY <1>1, <1>4, <1>7, <3>1 DEF LineType
        <3> QED BY <1>3, <1>5, <1>9, <3>1, <3>2
    <2>2. CASE m # 0
        <3>1. m \in 1 .. m
            BY <1>1, <2>2
        <3>2. lines'[n + m] = new[m]
            BY <1>1, <3>1
        <3> QED BY <1>2, <1>9, <3>1, <3>2
    <2> QED BY <2>1, <2>2
<1>10. PaddingEndsSection'
    BY <1>1, <1>8 DEF PaddingEndsSection, IsPadded
<1> QED BY <1>1, <1>9, <1>10 DEF PaddingInv

BytesInv ==
    /\ Without(BytesOf(lines), {PadByte}) \o ValueBuffer = sent
    /\ \A i \in 1 .. Len(lines) : Len(lines[i].bytes) \in {0, 1, 2, 4}

LEMMA Regroup == \A a, b, c \in Seq(Byte) : (a \o b) \o c = a \o (b \o c)
<1> SUFFICES ASSUME NEW S PROVE \A a, b, c \in Seq(S) : (a \o b) \o c = a \o (b \o c)
    OBVIOUS
<1> QED BY SMTT(20)

LEMMA WithoutPadConcat ==
    ASSUME NEW s \in Seq(Byte), NEW t \in Seq(Byte)
    PROVE  Without(s \o t, {PadByte}) = Without(s, {PadByte}) \o Without(t, {PadByte})
BY WithoutConcat

LEMMA EmitsBytes ==
    ASSUME TypeInv, BytesInv, NEW new, NEW bytes, NEW kept, Emits(new, bytes, kept)
    PROVE  BytesInv'
<1>1. /\ lines \in Seq(LineType) /\ new \in Seq(LineType) /\ lines' = lines \o new
      /\ ValueBuffer \in Seq(Emitted) /\ ValueBuffer' \in Seq(Emitted) /\ bytes \in Seq(Emitted)
      /\ sent' = sent \o bytes
      /\ Without(BytesOf(new), {PadByte}) \o ValueBuffer' = ValueBuffer \o bytes
    BY DEF Emits, TypeInv
<1> DEFINE old == Without(BytesOf(lines), {PadByte})
           add == Without(BytesOf(new), {PadByte})
<1>2. BytesOf(lines) \in Seq(Byte) /\ BytesOf(new) \in Seq(Byte)
      /\ BytesOf(lines') = BytesOf(lines) \o BytesOf(new)
    BY <1>1, BytesOfType, BytesOfConcat
<1>3. old \in Seq(Byte) /\ add \in Seq(Byte)
    BY <1>2, WithoutType
<1>4. Without(BytesOf(lines'), {PadByte}) = old \o add
    BY <1>2, WithoutPadConcat
<1>5. old \o ValueBuffer = sent
    BY DEF BytesInv
<1>6. ValueBuffer \in Seq(Byte) /\ ValueBuffer' \in Seq(Byte) /\ bytes \in Seq(Byte)
    <2>1. Seq(Emitted) \subseteq Seq(Byte)
        BY DEF Emitted, Byte
    <2> QED BY <1>1, <2>1
<1> HIDE DEF old, add
<1>7. (old \o add) \o ValueBuffer' = sent \o bytes
    <2>1. add \o ValueBuffer' = ValueBuffer \o bytes
        BY <1>1 DEF add
    <2>2. (old \o add) \o ValueBuffer' = (old \o ValueBuffer) \o bytes
        <3> DEFINE cat(s, t) == s \o t
        <3>1. \A a, b, c \in Seq(Byte) : cat(cat(a, b), c) = cat(a, cat(b, c))
            BY Regroup
        <3>2. cat(add, ValueBuffer') = cat(ValueBuffer, bytes)
            BY <2>1
        <3> HIDE DEF cat
        <3>3. cat(cat(old, add), ValueBuffer') = cat(cat(old, ValueBuffer), bytes)
            BY <1>3, <1>6, <3>1, <3>2
        <3> QED BY <3>3 DEF cat
    <2> QED BY <1>5, <2>2
<1>8. \A i \in 1 .. Len(lines') : Len(lines'[i].bytes) \in {0, 1, 2, 4}
    <2>1. \A u \in 1 .. Len(new) : Len(new[u].bytes) \in {0, 1, 2, 4}
        BY DEF Emits
    <2>2. \A i \in 1 .. Len(lines) : Len(lines[i].bytes) \in {0, 1, 2, 4}
        BY DEF BytesInv
    <2>3. /\ Len(lines') = Len(lines) + Len(new)
          /\ \A i \in 1 .. Len(lines) : lines'[i] = lines[i]
          /\ \A u \in 1 .. Len(new) : lines'[Len(lines) + u] = new[u]
          /\ \A i \in 1 .. Len(lines) + Len(new) :
                i \in 1 .. Len(lines) \/ \E u \in 1 .. Len(new) : i = Len(lines) + u
        BY EmitsLines
    <2>4. ASSUME NEW i \in 1 .. Len(lines) + Len(new)
          PROVE  Len(lines'[i].bytes) \in {0, 1, 2, 4}
        <3>1. CASE i \in 1 .. Len(lines)
            BY <2>2, <2>3, <3>1
        <3>2. CASE i \notin 1 .. Len(lines)
            <4>1. PICK u \in 1 .. Len(new) : i = Len(lines) + u
                BY <2>3, <3>2
            <4>2. lines'[i] = new[u]
                BY <2>3, <4>1
            <4> QED BY <2>1, <4>2
        <3> QED BY <3>1, <3>2
    <2> QED BY <2>3, <2>4
<1>9. Without(BytesOf(lines'), {PadByte}) \o ValueBuffer' = sent'
    BY <1>1, <1>4, <1>7
<1> QED BY <1>8, <1>9 DEF BytesInv

-----------------------------------------------------------------------------
(* Labels. *)

\* The labels of a line, and those that wait for one.
LabelsOn(i) == {lines[i].labels[j] : j \in DOMAIN lines[i].labels}
Waiting == {LabelToEmit[k] : k \in DOMAIN LabelToEmit}

\* Every label of the module has one place: it waits, or a line has it, or it
\* is the one that is lost at the end.
PlacesInv ==
    /\ \A i \in DOMAIN lines : \A s \in LabelsOn(i) : s \in defined /\ s \notin Waiting
    /\ \A s \in Waiting : s \in defined
    /\ \A k, l \in DOMAIN LabelToEmit : LabelToEmit[k] = LabelToEmit[l] => k = l
    /\ \A i, m \in DOMAIN lines : \A s \in LabelsOn(i) : s \in LabelsOn(m) => i = m
    /\ \A i \in DOMAIN lines : \A j, k \in DOMAIN lines[i].labels :
          lines[i].labels[j] = lines[i].labels[k] => j = k
    /\ \A s \in defined : \/ s \in Waiting
                          \/ \E i \in DOMAIN lines : s \in LabelsOn(i)
                          \/ EndsOpen /\ s = client.sym
    /\ EndsOpen => /\ client.sym \notin Waiting
                   /\ \A i \in DOMAIN lines : client.sym \notin LabelsOn(i)
    /\ \A i \in DOMAIN lines : Len(lines[i].labels) <= MaxItems

Starts(s) == \E k \in DOMAIN sent : sent[k] = <<s, 1>>

\* A label is where its first byte is: at the start of what is held back while
\* it waits, and at the start of its line.
MarksInv ==
    /\ \A k \in DOMAIN sent : sent[k][1] \in defined
    /\ \A s \in Waiting : Starts(s) => ValueBuffer # << >> /\ ValueBuffer[1] = <<s, 1>>
    /\ \A i \in DOMAIN lines : \A s \in LabelsOn(i) :
          Starts(s) => lines[i].bytes # << >> /\ lines[i].bytes[1] = <<s, 1>>

\* AsmPrinter defines each symbol once, and nothing is sent for it before.
ClientInv ==
    /\ client.items <= MaxItems
    /\ Len(LabelToEmit) <= client.items
    /\ client.at = "start" => client.items = 0
    /\ client.at \in {"linkage", "align", "label"} =>
          Len(LabelToEmit) < client.items /\ client.sym \notin defined
    /\ client.at = "body" => client.sym \in defined
    /\ client.at = "body" /\ client.done = 0 =>
          ValueBuffer = << >> /\ client.sym \in Waiting

\* The last label that waits is that of the item emitted last, and it waits as
\* long as that has no bytes.
LastInv ==
    /\ client.at \in {"body", "next"} /\ LabelToEmit # << >> =>
          LabelToEmit[Len(LabelToEmit)] = client.sym
    /\ client.at = "next" /\ client.sym \in defined /\ ~ Starts(client.sym) =>
          client.sym \in Waiting /\ ValueBuffer = << >>
    /\ client.at = "body" /\ client.done # 0 => Starts(client.sym)
    /\ client.at \in {"linkage", "align", "label"} => client.done = 0

\* Of the labels that wait, kept are those that a line gets.
Keeps(kept) ==
    /\ Len(kept) <= Len(LabelToEmit)
    /\ \A k, l \in DOMAIN kept : kept[k] = kept[l] => k = l
    /\ \A k \in DOMAIN kept : kept[k] \in Waiting
    /\ \A s \in Waiting : \/ \E k \in DOMAIN kept : kept[k] = s
                          \/ EndsOpen' /\ s = client'.sym
    /\ EndsOpen' => /\ client'.sym \in Waiting
                    /\ \A k \in DOMAIN kept : kept[k] # client'.sym

LEMMA EmitsLabels ==
    ASSUME TypeInv, NEW new, NEW bytes, NEW kept, Emits(new, bytes, kept)
    PROVE  /\ \A i \in DOMAIN lines : i \in DOMAIN lines' /\ lines'[i] = lines[i]
           /\ new # << >> => /\ Len(lines) + 1 \in DOMAIN lines' /\ Len(lines) + 1 \notin DOMAIN lines
                             /\ lines'[Len(lines) + 1] = new[1]
                             /\ new[1].labels = kept /\ Waiting' = {}
           /\ new = << >> => LabelToEmit' = LabelToEmit /\ Waiting' = Waiting
           /\ \A i \in DOMAIN lines' :
                 \/ i \in DOMAIN lines
                 \/ i = Len(lines) + 1 /\ new # << >>
                 \/ lines'[i].labels = << >>
<1> DEFINE n == Len(lines)
           m == Len(new)
<1>1. /\ n \in Nat /\ m \in Nat
      /\ DOMAIN lines = 1 .. n /\ DOMAIN lines' = 1 .. n + m
      /\ \A i \in 1 .. n : lines'[i] = lines[i]
      /\ \A u \in 1 .. m : lines'[n + u] = new[u]
      /\ \A i \in 1 .. n + m : i \in 1 .. n \/ \E u \in 1 .. m : i = n + u
    BY EmitsLines
<1>2. \A u \in 1 .. m : new[u].labels = IF u = 1 THEN kept ELSE << >>
    BY DEF Emits
<1>3. new # << >> <=> m # 0
    BY DEF Emits
<1>4. LabelToEmit' = IF new = << >> THEN LabelToEmit ELSE << >>
    BY DEF Emits
<1> HIDE DEF n, m
<1>5. \A i \in DOMAIN lines : i \in DOMAIN lines' /\ lines'[i] = lines[i]
    BY <1>1
<1>6. ASSUME new # << >>
      PROVE  /\ n + 1 \in DOMAIN lines' /\ n + 1 \notin DOMAIN lines /\ lines'[n + 1] = new[1]
             /\ new[1].labels = kept /\ Waiting' = {}
    <2>1. 1 \in 1 .. m
        BY <1>1, <1>3, <1>6
    <2>2. LabelToEmit' = << >> /\ DOMAIN << >> = {}
        BY <1>4, <1>6
    <2>3. Waiting' = {}
        BY <2>2 DEF Waiting
    <2> QED BY <1>1, <1>2, <2>1, <2>3
<1>7. ASSUME NEW i \in DOMAIN lines', i \notin DOMAIN lines
      PROVE  (i = n + 1 /\ new # << >>) \/ lines'[i].labels = << >>
    <2>1. PICK u \in 1 .. m : i = n + u
        BY <1>1, <1>7
    <2>2. lines'[i] = new[u] /\ m # 0
        BY <1>1, <2>1
    <2> QED BY <1>2, <1>3, <2>1, <2>2
<1>8. new = << >> => LabelToEmit' = LabelToEmit /\ Waiting' = Waiting
    BY <1>4 DEF Waiting
<1> QED BY <1>5, <1>6, <1>7, <1>8 DEF n

LEMMA EmitsPlaces ==
    ASSUME TypeInv, PlacesInv, ClientInv, IInv, UNCHANGED defined,
           NEW new, NEW bytes, NEW kept, Emits(new, bytes, kept), Keeps(kept),
           new = << >> => ~ EndsOpen'
    PROVE  PlacesInv'
<1> DEFINE Kept == {kept[k] : k \in DOMAIN kept}
<1>0. PICK n \in Nat : n = Len(lines)
    BY DEF TypeInv
<1>1. \A i \in DOMAIN lines : i \in DOMAIN lines' /\ lines'[i] = lines[i]
    BY EmitsLabels
<1>2. \A i \in DOMAIN lines : LabelsOn(i)' = LabelsOn(i)
    BY <1>1 DEF LabelsOn
<1>3. new # << >> => /\ n + 1 \in DOMAIN lines' /\ n + 1 \notin DOMAIN lines
                     /\ lines'[n + 1].labels = kept /\ LabelsOn(n + 1)' = Kept
                     /\ Waiting' = {}
    <2> SUFFICES ASSUME new # << >>
                 PROVE  /\ n + 1 \in DOMAIN lines' /\ n + 1 \notin DOMAIN lines
                        /\ lines'[n + 1].labels = kept /\ LabelsOn(n + 1)' = Kept
                        /\ Waiting' = {}
        OBVIOUS
    <2>1. /\ n + 1 \in DOMAIN lines' /\ n + 1 \notin DOMAIN lines
          /\ lines'[n + 1].labels = kept /\ Waiting' = {}
        BY <1>0, EmitsLabels
    <2>2. LabelsOn(n + 1)' = Kept
        BY <2>1 DEF LabelsOn
    <2> QED BY <2>1, <2>2
<1>4. new = << >> => Waiting' = Waiting /\ LabelToEmit' = LabelToEmit
    BY EmitsLabels
<1>5. \A i \in DOMAIN lines' : \/ i \in DOMAIN lines
                               \/ i = n + 1 /\ new # << >>
                               \/ lines'[i].labels = << >> /\ LabelsOn(i)' = {}
    <2>1. ASSUME NEW i, lines'[i].labels = << >> PROVE LabelsOn(i)' = {}
        <3>1. DOMAIN << >> = {}
            OBVIOUS
        <3> QED BY <2>1, <3>1 DEF LabelsOn
    <2> QED BY <1>0, <2>1, EmitsLabels
<1>6. ~ EndsOpen
    BY DEF Emits, EndsOpen
<1> DEFINE L(i) == LabelsOn(i)
           K(i) == LabelsOn(i)'
           W == Waiting
           V == Waiting'
           lost == EndsOpen'
           x == client'.sym
<1>a. /\ \A i \in DOMAIN lines : K(i) = L(i)
      /\ new # << >> => K(n + 1) = Kept /\ V = {}
      /\ new = << >> => V = W /\ ~ lost
      /\ \A i \in DOMAIN lines' : i \in DOMAIN lines \/ (i = n + 1 /\ new # << >>) \/ K(i) = {}
    BY <1>2, <1>3, <1>4, <1>5
<1>b. /\ \A i \in DOMAIN lines : \A s \in L(i) : s \in defined /\ s \notin W
      /\ \A s \in W : s \in defined
      /\ \A i, m \in DOMAIN lines : \A s \in L(i) : s \in L(m) => i = m
      /\ \A s \in defined : s \in W \/ \E i \in DOMAIN lines : s \in L(i)
    BY <1>6 DEF PlacesInv
<1>c. /\ Kept \subseteq W
      /\ \A s \in W : s \in Kept \/ (lost /\ s = x)
      /\ lost => x \in W /\ x \notin Kept
    BY DEF Keeps
<1> HIDE DEF L, K, W, V, Kept, lost, x
<1>7. \A i \in DOMAIN lines' : \A s \in K(i) : s \in defined /\ s \notin V
    <2> SUFFICES ASSUME NEW i \in DOMAIN lines', NEW s \in K(i)
                 PROVE  s \in defined /\ s \notin V
        OBVIOUS
    <2>1. CASE i \in DOMAIN lines
        BY <1>a, <1>b, <2>1
    <2>2. CASE i = n + 1 /\ new # << >>
        BY <1>a, <1>b, <1>c, <2>2
    <2> QED BY <1>a, <2>1, <2>2
<1>8. \A s \in V : s \in defined
    BY <1>a, <1>b
<1>9. (\A k, l \in DOMAIN LabelToEmit : LabelToEmit[k] = LabelToEmit[l] => k = l)'
    <2>1. CASE new = << >>
        BY <1>4, <2>1 DEF PlacesInv
    <2>2. CASE new # << >>
        <3>1. LabelToEmit' = << >> /\ DOMAIN << >> = {}
            BY <2>2 DEF Emits
        <3> QED BY <3>1
    <2> QED BY <2>1, <2>2
<1>10. ASSUME NEW i \in DOMAIN lines', NEW m \in DOMAIN lines', NEW s \in K(i), s \in K(m)
       PROVE  i = m
    <2>1. CASE i \in DOMAIN lines /\ m \in DOMAIN lines
        BY <1>10, <1>a, <1>b, <2>1
    <2>2. CASE i \in DOMAIN lines /\ m = n + 1 /\ new # << >>
        BY <1>10, <1>a, <1>b, <1>c, <2>2
    <2>3. CASE i = n + 1 /\ new # << >> /\ m \in DOMAIN lines
        BY <1>10, <1>a, <1>b, <1>c, <2>3
    <2> QED BY <1>10, <1>a, <2>1, <2>2, <2>3
<1>11. \A i \in DOMAIN lines' : \A j, k \in DOMAIN lines'[i].labels :
           lines'[i].labels[j] = lines'[i].labels[k] => j = k
    <2> SUFFICES ASSUME NEW i \in DOMAIN lines'
                 PROVE  \A j, k \in DOMAIN lines'[i].labels :
                            lines'[i].labels[j] = lines'[i].labels[k] => j = k
        OBVIOUS
    <2>1. CASE i \in DOMAIN lines
        BY <1>1, <2>1 DEF PlacesInv
    <2>2. CASE i = n + 1 /\ new # << >>
        BY <1>3, <2>2 DEF Keeps
    <2>3. CASE lines'[i].labels = << >>
        <3>1. DOMAIN << >> = {}
            OBVIOUS
        <3> QED BY <2>3, <3>1
    <2> QED BY <1>5, <2>1, <2>2, <2>3
<1>12. ASSUME NEW s \in defined PROVE s \in V \/ (\E i \in DOMAIN lines' : s \in K(i)) \/ (lost /\ s = x)
    <2>1. CASE s \in W
        <3>1. new # << >> => n + 1 \in DOMAIN lines' /\ (s \in K(n + 1) \/ (lost /\ s = x))
            BY <1>3, <1>a, <1>c, <2>1
        <3> QED BY <1>a, <2>1, <3>1
    <2>2. CASE \E i \in DOMAIN lines : s \in L(i)
        BY <1>1, <1>a, <2>2
    <2> QED BY <1>b, <2>1, <2>2
<1>13. ASSUME lost PROVE x \notin V /\ \A i \in DOMAIN lines' : x \notin K(i)
    <2>1. new # << >> /\ V = {} /\ x \in W /\ x \notin Kept
        BY <1>13, <1>a, <1>c
    <2> SUFFICES ASSUME NEW i \in DOMAIN lines' PROVE x \notin K(i)
        BY <2>1
    <2>2. CASE i \in DOMAIN lines
        BY <1>a, <1>b, <2>1, <2>2
    <2>3. CASE i = n + 1 /\ new # << >>
        BY <1>a, <2>1, <2>3
    <2> QED BY <1>a, <2>2, <2>3
<1>14. \A i \in DOMAIN lines' : Len(lines'[i].labels) <= MaxItems
    <2>1. Len(LabelToEmit) \in Nat /\ client.items \in Nat /\ Len(LabelToEmit) <= client.items
          /\ client.items <= MaxItems /\ MaxItems \in Nat
        BY BoundAssumption DEF ClientInv, TypeInv, IInv
    <2>2. new # << >> => Len(kept) <= MaxItems
        <3>1. new # << >> => lines'[n + 1].labels = kept /\ n + 1 \in DOMAIN lines'
            BY <1>3
        <3>3. lines' \in Seq(LineType)
            BY EmitsTypes
        <3>4. new # << >> => lines'[n + 1] \in LineType
            BY <3>1, <3>3
        <3>2. new # << >> => kept \in Seq(Symbol)
            BY <3>1, <3>4 DEF LineType
        <3> QED BY <2>1, <3>2 DEF Keeps
    <2>3. Len(<< >>) <= MaxItems
        BY BoundAssumption
    <2> QED BY <1>1, <1>3, <1>5, <2>2, <2>3 DEF PlacesInv
<1>15. /\ \A i \in DOMAIN lines' : \A s \in LabelsOn(i)' : s \in defined' /\ s \notin Waiting'
       /\ \A s \in Waiting' : s \in defined'
       /\ \A i, m \in DOMAIN lines' : \A s \in LabelsOn(i)' : s \in LabelsOn(m)' => i = m
       /\ \A s \in defined' : \/ s \in Waiting'
                              \/ \E i \in DOMAIN lines' : s \in LabelsOn(i)'
                              \/ EndsOpen' /\ s = client'.sym
       /\ EndsOpen' => client'.sym \notin Waiting'
                       /\ \A i \in DOMAIN lines' : client'.sym \notin LabelsOn(i)'
    BY <1>7, <1>8, <1>10, <1>12, <1>13 DEF K, V, lost, x
<1> QED BY <1>9, <1>11, <1>14, <1>15 DEF PlacesInv

LEMMA EmitsMarks ==
    ASSUME TypeInv, IInv, PlacesInv, ClientInv, MarksInv, UNCHANGED defined,
           NEW new, NEW bytes, NEW kept, Emits(new, bytes, kept), Keeps(kept)
    PROVE  MarksInv'
<1> DEFINE all == ValueBuffer \o bytes
<1>0. PICK n \in Nat : n = Len(lines)
    BY DEF TypeInv
<1>1. /\ sent \in Seq(Emitted) /\ bytes \in Seq(Emitted) /\ ValueBuffer \in Seq(Emitted)
      /\ sent' = sent \o bytes /\ client.done \in Nat
      /\ \A k \in 1 .. Len(bytes) : bytes[k] = <<client.sym, client.done + k>>
      /\ bytes # << >> => client.at = "body"
    BY DEF Emits, TypeInv, IInv
<1>2. ASSUME NEW k \in DOMAIN sent'
      PROVE  \/ k \in DOMAIN sent /\ sent'[k] = sent[k]
             \/ \E l \in 1 .. Len(bytes) : sent'[k] = <<client.sym, client.done + l>>
    <2>1. DOMAIN sent = 1 .. Len(sent) /\ DOMAIN sent' = 1 .. Len(sent) + Len(bytes)
          /\ Len(sent) \in Nat /\ Len(bytes) \in Nat
        BY <1>1
    <2>2. CASE k \in 1 .. Len(sent)
        BY <1>1, <2>1, <2>2
    <2>3. CASE k \notin 1 .. Len(sent)
        <3>1. k - Len(sent) \in 1 .. Len(bytes)
            BY <2>1, <2>3
        <3>2. sent'[k] = bytes[k - Len(sent)]
            BY <1>1, <2>1, <2>3
        <3> QED BY <1>1, <3>1, <3>2
    <2> QED BY <2>2, <2>3
<1>3. ASSUME NEW l \in 1 .. Len(bytes) PROVE client.at = "body" /\ client.sym \in defined
    <2>1. bytes # << >>
        BY <1>1, <1>3
    <2> QED BY <1>1, <2>1 DEF ClientInv
<1>4. \A k \in DOMAIN sent' : sent'[k][1] \in defined
    BY <1>2, <1>3 DEF MarksInv
<1>5. ASSUME NEW s, Starts(s)', ~ Starts(s)
      PROVE  /\ s = client.sym /\ s \in Waiting /\ ValueBuffer = << >>
             /\ 1 \in 1 .. Len(bytes) /\ bytes[1] = <<s, 1>>
    <2>1. PICK k \in DOMAIN sent' : sent'[k] = <<s, 1>>
        BY <1>5 DEF Starts
    <2>2. PICK l \in 1 .. Len(bytes) : sent'[k] = <<client.sym, client.done + l>>
        BY <1>2, <1>5, <2>1 DEF Starts
    <2>3. s = client.sym /\ client.done + l = 1
        BY <2>1, <2>2
    <2>4. client.done = 0 /\ l = 1
        BY <1>1, <2>3
    <2>5. client.at = "body" /\ bytes[1] = <<s, 1>>
        BY <1>1, <1>3, <2>2, <2>3, <2>4
    <2> QED BY <2>2, <2>3, <2>4, <2>5 DEF ClientInv
<1>6. ASSUME NEW s \in Waiting, Starts(s)' PROVE all # << >> /\ all[1] = <<s, 1>>
    <2>1. CASE Starts(s)
        <3>1. ValueBuffer # << >> /\ ValueBuffer[1] = <<s, 1>>
            BY <2>1 DEF MarksInv
        <3>2. Len(ValueBuffer) \in Nat \ {0} /\ Len(bytes) \in Nat
            BY <1>1, <3>1
        <3>3. all[1] = ValueBuffer[1] /\ Len(all) # 0
            BY <1>1, <3>2
        <3> QED BY <3>1, <3>3
    <2>2. CASE ~ Starts(s)
        <3>1. ValueBuffer = << >> /\ 1 \in 1 .. Len(bytes) /\ bytes[1] = <<s, 1>>
            BY <1>5, <1>6, <2>2
        <3>2. all = bytes
            BY <1>1, <3>1, ConcatEmptySeq
        <3>3. bytes # << >>
            BY <3>1
        <3> QED BY <3>1, <3>2, <3>3
    <2> QED BY <2>1, <2>2
<1>7. /\ new = << >> => Waiting' = Waiting /\ ValueBuffer' = all
      /\ new # << >> => Waiting' = {}
    BY EmitsLabels DEF Emits
<1>8. new # << >> /\ all # << >> => new[1].bytes # << >> /\ new[1].bytes[1] = all[1]
    BY DEF Emits
<1> HIDE DEF all
<1>9. \A s \in Waiting' : Starts(s)' => ValueBuffer' # << >> /\ ValueBuffer'[1] = <<s, 1>>
    BY <1>6, <1>7
<1>10. ASSUME NEW i \in DOMAIN lines', NEW s \in LabelsOn(i)', Starts(s)'
       PROVE  lines'[i].bytes # << >> /\ lines'[i].bytes[1] = <<s, 1>>
    <2>1. PICK j \in DOMAIN lines'[i].labels : s = lines'[i].labels[j]
        BY <1>10 DEF LabelsOn
    <2>2. CASE i \in DOMAIN lines
        <3>1. lines'[i] = lines[i]
            BY <2>2, EmitsLabels
        <3>2. s \in LabelsOn(i)
            BY <2>1, <3>1 DEF LabelsOn
        <3>3. Starts(s)
            BY <1>5, <1>10, <2>2, <3>2 DEF PlacesInv
        <3> QED BY <2>2, <3>1, <3>2, <3>3 DEF MarksInv
    <2>3. CASE i = n + 1 /\ new # << >>
        <3>1. lines'[i] = new[1] /\ new[1].labels = kept
            BY <1>0, <2>3, EmitsLabels
        <3>2. s \in Waiting
            BY <2>1, <3>1 DEF Keeps
        <3> QED BY <1>6, <1>8, <1>10, <2>3, <3>1, <3>2
    <2>4. CASE lines'[i].labels = << >>
        <3>1. DOMAIN << >> = {}
            OBVIOUS
        <3> QED BY <2>1, <2>4, <3>1
    <2> QED BY <1>0, <2>2, <2>3, <2>4, EmitsLabels
<1> QED BY <1>4, <1>9, <1>10 DEF MarksInv

\* EmitLabel: the symbol of the item waits, and starts nothing sent so far.
LEMMA LabelStep ==
    ASSUME TypeInv, IInv, PlacesInv, ClientInv, MarksInv, EmitLabel
    PROVE  PlacesInv' /\ MarksInv' /\ ClientInv'
<1>0. ~ EndsOpen /\ ~ EndsOpen'
    <2>1. client.at # "done" /\ client'.at # "done"
        BY DEF EmitLabel, IInv
    <2> QED BY <2>1 DEF EndsOpen
<1>1. CASE ValueBuffer # << >>
    <2>1. UNCHANGED <<lines, LabelToEmit, defined, ValueBuffer, sent>>
          /\ client' = [client EXCEPT !.at = "assert"]
        BY <1>1 DEF EmitLabel
    <2>2. /\ \A i : LabelsOn(i)' = LabelsOn(i)
          /\ Waiting' = Waiting
          /\ \A s : Starts(s)' = Starts(s)
        BY <2>1 DEF LabelsOn, Waiting, Starts
    <2>3. PlacesInv'
        BY <1>0, <2>1, <2>2 DEF PlacesInv
    <2>4. MarksInv'
        BY <2>1, <2>2 DEF MarksInv
    <2>5. client'.at = "assert" /\ client'.items = client.items
        BY <2>1 DEF IInv
    <2>6. ClientInv'
        BY <2>1, <2>5 DEF ClientInv
    <2> QED BY <2>3, <2>4, <2>6
<1>2. CASE ValueBuffer = << >>
    <2> DEFINE sym == client.sym
    <2>1. /\ defined' = defined \cup {client.sym}
          /\ LabelToEmit' = Append(LabelToEmit, client.sym)
          /\ client' = [client EXCEPT !.at = "body"] /\ client.at = "label"
          /\ UNCHANGED <<lines, ValueBuffer, sent>>
        BY <1>2 DEF EmitLabel
    <2>2. PICK x \in Symbol : x = client.sym
        BY <2>1 DEF TypeInv
    <2>3. x \notin defined /\ Len(LabelToEmit) < client.items /\ Len(LabelToEmit) \in Nat
        BY <2>1, <2>2 DEF ClientInv, TypeInv
    <2>4. /\ client'.at = "body" /\ client'.items = client.items /\ client'.sym = x
        BY <2>1, <2>2 DEF IInv
    <2>5. /\ \A i : LabelsOn(i)' = LabelsOn(i)
          /\ \A s : Starts(s)' = Starts(s)
        BY <2>1 DEF LabelsOn, Starts
    <2>6. /\ Len(LabelToEmit') = Len(LabelToEmit) + 1
          /\ DOMAIN LabelToEmit = 1 .. Len(LabelToEmit)
          /\ DOMAIN LabelToEmit' = 1 .. Len(LabelToEmit) + 1
          /\ \A k \in 1 .. Len(LabelToEmit) : LabelToEmit'[k] = LabelToEmit[k]
          /\ LabelToEmit'[Len(LabelToEmit) + 1] = x
        BY <2>1, <2>2 DEF TypeInv
    <2>7. Waiting' = Waiting \cup {x}
        <3>1. \A k \in 1 .. Len(LabelToEmit) + 1 : k \in 1 .. Len(LabelToEmit) \/ k = Len(LabelToEmit) + 1
            BY <2>3
        <3>2. \A k \in 1 .. Len(LabelToEmit) : k \in 1 .. Len(LabelToEmit) + 1
            BY <2>3
        <3>3. Len(LabelToEmit) + 1 \in 1 .. Len(LabelToEmit) + 1
            BY <2>3
        <3> QED BY <2>6, <3>1, <3>2, <3>3 DEF Waiting
    <2>8. (\A k, l \in DOMAIN LabelToEmit : LabelToEmit[k] = LabelToEmit[l] => k = l)'
        <3>1. \A k \in 1 .. Len(LabelToEmit) : LabelToEmit[k] # x
            BY <2>3, <2>6 DEF PlacesInv, Waiting
        <3>2. \A k \in 1 .. Len(LabelToEmit) + 1 : k \in 1 .. Len(LabelToEmit) \/ k = Len(LabelToEmit) + 1
            BY <2>3
        <3>3. \A k, l \in 1 .. Len(LabelToEmit) : LabelToEmit[k] = LabelToEmit[l] => k = l
            BY <2>6 DEF PlacesInv
        <3> QED BY <2>6, <3>1, <3>2, <3>3
    <2>9. PlacesInv'
        BY <1>0, <2>1, <2>2, <2>3, <2>5, <2>7, <2>8 DEF PlacesInv
    <2>10. ~ Starts(x)
        <3>1. ASSUME Starts(x) PROVE FALSE
            <4>1. PICK k \in DOMAIN sent : sent[k] = <<x, 1>>
                BY <3>1 DEF Starts
            <4>2. sent[k][1] = x /\ sent[k][1] \in defined
                BY <4>1 DEF MarksInv
            <4> QED BY <2>3, <4>2
        <3> QED BY <3>1
    <2>11. MarksInv'
        <3>1. \A s \in Waiting' : ~ Starts(s)'
            BY <1>2, <2>5, <2>7, <2>10 DEF MarksInv
        <3> QED BY <2>1, <2>5, <3>1 DEF MarksInv
    <2>12. ClientInv'
        <3>1. client.items \in Nat /\ Len(LabelToEmit') <= client.items
            BY <2>3, <2>6 DEF IInv
        <3>2. x \in Waiting' /\ x \in defined' /\ ValueBuffer' = << >>
            BY <1>2, <2>1, <2>2, <2>7
        <3> QED BY <2>4, <3>1, <3>2 DEF ClientInv
    <2> QED BY <2>9, <2>11, <2>12
<1> QED BY <1>1, <1>2

\* Every other step: no more labels wait than before.
LEMMA ClientStep ==
    ASSUME IInv, TypeInv, ClientInv, Next, UNCHANGED defined,
           LabelToEmit' = LabelToEmit \/ LabelToEmit' = << >>
    PROVE  EmitLabel \/ ClientInv'
<1> DEFINE Typed == client.items \in Nat /\ MaxItems \in Nat /\ client.items <= MaxItems
                    /\ Len(LabelToEmit) \in Nat /\ Len(LabelToEmit) <= client.items
                    /\ Len(LabelToEmit') \in Nat /\ Len(LabelToEmit') <= Len(LabelToEmit)
<1>1. Typed
    <2>1. Len(<< >>) = 0
        OBVIOUS
    <2> QED BY <2>1, BoundAssumption DEF IInv, TypeInv, ClientInv
<1>2. CASE InitSections
    <2>1. client.at = "start" /\ client'.at = "next" /\ client'.items = 0
        BY <1>2 DEF InitSections, Idle
    <2> QED BY <1>1, <2>1 DEF ClientInv
<1>3. ASSUME client.at = "next", client.items < MaxItems, client'.at = "linkage",
             client'.items = client.items + 1, client'.sym \notin defined
      PROVE  ClientInv'
    BY <1>1, <1>3 DEF ClientInv
<1>4. ASSUME NEW f \in Symbol, BeginFunction(f) PROVE ClientInv'
    BY <1>3, <1>4 DEF BeginFunction, IInv
<1>5. ASSUME NEW g \in Symbol, NEW o \in Object, BeginGlobal(g, o) PROVE ClientInv'
    BY <1>3, <1>5 DEF BeginGlobal, IInv
<1>6. ASSUME client.at \in {"linkage", "align"}, client'.at \in {"align", "label"},
             client'.items = client.items, client'.sym = client.sym,
             UNCHANGED LabelToEmit
      PROVE  ClientInv'
    BY <1>6 DEF ClientInv
<1>7. ASSUME NEW linkage, EmitLinkage(linkage) PROVE ClientInv'
    BY <1>6, <1>7 DEF EmitLinkage, IInv
<1>8. CASE EmitAlignment
    BY <1>6, <1>8 DEF EmitAlignment, IInv
<1>9. ASSUME client.at = "body", client'.at = "body", client'.done # 0,
             client'.items = client.items, client'.sym = client.sym
      PROVE  ClientInv'
    BY <1>1, <1>9 DEF ClientInv
<1>10. ASSUME NEW ref, EmitInstruction(ref) PROVE ClientInv'
    <2>1. client.at = "body" /\ client' = [client EXCEPT !.done = @ + 1]
        BY <1>10 DEF EmitInstruction
    <2> QED BY <1>9, <2>1 DEF IInv
<1>11. ASSUME client'.at \in {"next", "done", "assert", "fatal"}, client'.items = client.items
       PROVE  ClientInv'
    BY <1>1, <1>11 DEF ClientInv
<1>12. CASE EmitValue
    <2> DEFINE part == Head(client.parts)
    <2>1. client.at = "body" /\ client.parts # << >>
        BY <1>12 DEF EmitValue
    <2>2. part \in Part
        BY <2>1, HeadTailProperties DEF IInv
    <2>3. \/ client' = [client EXCEPT !.at = "fatal"]
          \/ client' = [client EXCEPT !.parts = Tail(@), !.done = @ + part.size]
        BY <1>12 DEF EmitValue
    <2>4. part.size \in Nat \ {0} /\ client.done \in Nat
        BY <2>2 DEF Part, IInv
    <2> HIDE DEF part
    <2>5. CASE client' = [client EXCEPT !.at = "fatal"]
        BY <1>11, <2>5 DEF IInv
    <2>6. CASE client' = [client EXCEPT !.parts = Tail(@), !.done = @ + part.size]
        <3>1. client'.done = client.done + part.size /\ client'.at = "body"
              /\ client'.items = client.items /\ client'.sym = client.sym
            BY <2>1, <2>6 DEF IInv
        <3>2. client'.done # 0
            BY <2>4, <3>1
        <3> QED BY <1>9, <2>1, <3>1, <3>2
    <2> QED BY <2>3, <2>5, <2>6
<1>13. CASE EndItem
    BY <1>11, <1>13 DEF EndItem, IInv
<1>14. CASE Finish
    BY <1>11, <1>14 DEF Finish, IInv
<1>15. CASE Stopped
    BY <1>11, <1>15 DEF Stopped, vars
<1> QED BY <1>2, <1>4, <1>5, <1>7, <1>8, <1>10, <1>12, <1>13, <1>14, <1>15 DEF Next

\* The first byte of an item marks it as begun.
LEMMA StartsOnce ==
    ASSUME TypeInv, NEW x \in Symbol, NEW bytes \in Seq(Emitted), NEW n \in Nat,
           sent' = sent \o bytes, bytes # << >>,
           \A k \in 1 .. Len(bytes) : bytes[k] = <<x, n + k>>,
           n = 0 \/ Starts(x)
    PROVE  Starts(x)'
<1>1. /\ sent \in Seq(Emitted) /\ Len(sent) \in Nat /\ Len(bytes) \in Nat /\ 1 \in 1 .. Len(bytes)
      /\ DOMAIN sent = 1 .. Len(sent) /\ DOMAIN sent' = 1 .. Len(sent) + Len(bytes)
    BY DEF TypeInv
<1>2. CASE n = 0
    <2>1. bytes[1] = <<x, 1>>
        BY <1>1, <1>2
    <2>2. Len(sent) + 1 \in DOMAIN sent' /\ sent'[Len(sent) + 1] = bytes[1]
        BY <1>1
    <2> QED BY <2>1, <2>2 DEF Starts
<1>3. CASE Starts(x)
    <2>1. PICK k \in 1 .. Len(sent) : sent[k] = <<x, 1>>
        BY <1>1, <1>3 DEF Starts
    <2>2. k \in DOMAIN sent' /\ sent'[k] = sent[k]
        BY <1>1
    <2> QED BY <2>1, <2>2 DEF Starts
<1> QED BY <1>2, <1>3

\* The item emitted last keeps its label, the last that waits, until it has
\* bytes.
LEMMA LastStep ==
    ASSUME IInv, TypeInv, PlacesInv, MarksInv, ClientInv, LastInv, Next
    PROVE  LastInv'
<1>1. CASE InitSections
    <2>1. client.at = "start" /\ client'.at = "next" /\ client'.sym = None /\ UNCHANGED defined
          /\ (LabelToEmit' = LabelToEmit \/ LabelToEmit' = << >>)
        BY <1>1 DEF InitSections, Idle, SwitchSection, FlushValues, FlushedLabels
    <2>2. None \notin defined
        BY ObjectAssumption DEF TypeInv
    <2>3. LabelToEmit = << >>
        <3>1. Len(LabelToEmit) \in Nat /\ Len(LabelToEmit) <= 0
            BY <2>1 DEF ClientInv, TypeInv
        <3> QED BY <3>1 DEF TypeInv
    <2> QED BY <2>1, <2>2, <2>3 DEF LastInv
<1>2. ASSUME client'.at \in {"linkage", "align", "label"}, client'.done = 0 PROVE LastInv'
    BY <1>2 DEF LastInv
<1>3. ASSUME NEW f \in Symbol, BeginFunction(f) PROVE LastInv'
    BY <1>2, <1>3 DEF BeginFunction, IInv
<1>4. ASSUME NEW g \in Symbol, NEW o \in Object, BeginGlobal(g, o) PROVE LastInv'
    BY <1>2, <1>4 DEF BeginGlobal, IInv
<1>5. ASSUME NEW linkage, EmitLinkage(linkage) PROVE LastInv'
    BY <1>2, <1>5 DEF EmitLinkage, IInv, LastInv
<1>6. CASE EmitAlignment
    BY <1>2, <1>6 DEF EmitAlignment, IInv, LastInv
<1>7. ASSUME client'.at \in {"done", "assert", "fatal"} PROVE LastInv'
    BY <1>7 DEF LastInv
<1>8. CASE EmitLabel
    <2>1. CASE ValueBuffer # << >>
        BY <1>7, <1>8, <2>1 DEF EmitLabel, IInv
    <2>2. CASE ValueBuffer = << >>
        <3>1. LabelToEmit' = Append(LabelToEmit, client.sym) /\ client.at = "label"
              /\ client' = [client EXCEPT !.at = "body"]
            BY <1>8, <2>2 DEF EmitLabel
        <3>2. client'.at = "body" /\ client'.sym = client.sym /\ client'.done = 0
              /\ client.sym \in Symbol
            BY <3>1 DEF IInv, LastInv, TypeInv
        <3>3. LabelToEmit'[Len(LabelToEmit')] = client.sym
            BY <3>1, <3>2 DEF TypeInv
        <3> QED BY <3>2, <3>3 DEF LastInv
    <2> QED BY <2>1, <2>2
<1>9. ASSUME client.at = "body", client'.at = "body", client'.sym = client.sym,
             LabelToEmit' = LabelToEmit \/ LabelToEmit' = << >>,
             NEW bytes \in Seq(Emitted), bytes # << >>, sent' = sent \o bytes,
             \A k \in 1 .. Len(bytes) : bytes[k] = <<client.sym, client.done + k>>
      PROVE  LastInv'
    <2>1. client.sym \in Symbol /\ client.done \in Nat
        BY <1>9 DEF TypeInv, IInv
    <2>2. client.done = 0 \/ Starts(client.sym)
        BY <1>9 DEF LastInv
    <2>3. Starts(client.sym)'
        <3>1. PICK x \in Symbol, n \in Nat : x = client.sym /\ n = client.done
            BY <2>1
        <3>2. Starts(x)'
            BY <1>9, <2>2, <3>1, StartsOnce
        <3> QED BY <1>9, <3>1, <3>2 DEF Starts
    <2> QED BY <1>9, <2>3 DEF LastInv, Starts
<1>10. ASSUME NEW ref, EmitInstruction(ref) PROVE LastInv'
    <2> DEFINE bytes == << <<client.sym, client.done + 1>> >>
    <2>1. client.at = "body" /\ client' = [client EXCEPT !.done = @ + 1]
          /\ LabelToEmit' = << >> /\ sent' = sent \o bytes
        BY <1>10 DEF EmitInstruction, FlushLabel
    <2>2. client'.at = "body" /\ client'.sym = client.sym /\ client.sym \in Symbol /\ client.done \in Nat
        BY <2>1 DEF IInv, TypeInv
    <2>3. bytes \in Seq(Emitted) /\ bytes # << >>
          /\ \A k \in 1 .. Len(bytes) : bytes[k] = <<client.sym, client.done + k>>
        BY <2>2 DEF Emitted
    <2> HIDE DEF bytes
    <2> QED BY <1>9, <2>1, <2>2, <2>3
<1>11. CASE EmitValue
    <2> DEFINE part == Head(client.parts)
               bytes == [i \in 1 .. part.size |-> <<client.sym, client.done + i>>]
    <2>1. client.at = "body" /\ client.parts # << >>
        BY <1>11 DEF EmitValue
    <2>2. part \in Part
        BY <2>1, HeadTailProperties DEF IInv
    <2>3. part.size \in Nat \ {0} /\ client.done \in Nat /\ client.sym \in Symbol
        BY <2>1, <2>2 DEF Part, IInv, TypeInv
    <2>4. \/ client' = [client EXCEPT !.at = "fatal"]
          \/ /\ client' = [client EXCEPT !.parts = Tail(@), !.done = @ + part.size]
             /\ LabelToEmit' = LabelToEmit \/ LabelToEmit' = << >>
             /\ sent' = sent \o bytes
        BY <1>11 DEF EmitValue
    <2> HIDE DEF part
    <2>5. CASE client' = [client EXCEPT !.at = "fatal"]
        BY <1>7, <2>5 DEF IInv
    <2>6. CASE /\ client' = [client EXCEPT !.parts = Tail(@), !.done = @ + part.size]
               /\ LabelToEmit' = LabelToEmit \/ LabelToEmit' = << >>
               /\ sent' = sent \o bytes
        <3>1. client'.at = "body" /\ client'.sym = client.sym
            BY <2>1, <2>6 DEF IInv
        <3>2. bytes \in Seq(Emitted) /\ Len(bytes) = part.size
              /\ \A k \in 1 .. Len(bytes) : bytes[k] = <<client.sym, client.done + k>>
            <4>1. \A i \in 1 .. part.size : <<client.sym, client.done + i>> \in Emitted
                BY <2>3 DEF Emitted
            <4> QED BY <2>3, <4>1
        <3> HIDE DEF bytes
        <3>3. bytes # << >>
            BY <2>3, <3>2
        <3> QED BY <1>9, <2>1, <2>6, <3>1, <3>2, <3>3
    <2> QED BY <2>4, <2>5, <2>6
<1>12. CASE EndItem
    <2>1. client.at = "body" /\ client' = [client EXCEPT !.at = "next"]
          /\ UNCHANGED <<LabelToEmit, ValueBuffer, sent, defined>>
        BY <1>12 DEF EndItem, streamer
    <2>2. client'.at = "next" /\ client'.sym = client.sym
        BY <2>1 DEF IInv
    <2>3. Starts(client.sym)' = Starts(client.sym) /\ Waiting' = Waiting
        BY <2>1 DEF Starts, Waiting
    <2>4. ~ Starts(client.sym) => client.done = 0
        BY <2>1 DEF LastInv
    <2>5. ~ Starts(client.sym) => client.sym \in Waiting /\ ValueBuffer = << >>
        BY <2>1, <2>4 DEF ClientInv
    <2>6. LabelToEmit # << >> => LabelToEmit[Len(LabelToEmit)] = client.sym
        BY <2>1 DEF LastInv
    <2> QED BY <2>1, <2>2, <2>3, <2>5, <2>6 DEF LastInv
<1>13. CASE Finish
    BY <1>7, <1>13 DEF Finish, IInv
<1>14. CASE Stopped
    <2>1. client.at \in {"done", "assert", "fatal"} /\ client' = client
        BY <1>14 DEF Stopped, vars
    <2> QED BY <1>7, <2>1
<1> QED BY <1>1, <1>3, <1>4, <1>5, <1>6, <1>8, <1>10, <1>11, <1>12, <1>13, <1>14 DEF Next

-----------------------------------------------------------------------------
(* Imports. *)

Distinct == \A i, j \in DOMAIN Symbols : Symbols[i] = Symbols[j] => i = j

\* Every symbol visited is referred to or defined, but for the one whose label
\* comes next: EmitLinkage visits it before EmitLabel defines it.
ImportsInv ==
    /\ Distinct
    /\ referred \subseteq Visited
    /\ client.at \in {"start", "next", "linkage", "align", "label", "body"} =>
          \A s \in Visited : \/ s \in referred \/ s \in defined
                             \/ client.at \in {"align", "label"} /\ s = client.sym
    /\ ImportsAreUndefined

LEMMA SequenceCounts ==
    ASSUME NEW S, NEW s \in Seq(S), \A i, j \in 1 .. Len(s) : s[i] = s[j] => i = j
    PROVE  Cardinality({s[i] : i \in 1 .. Len(s)}) = Len(s)
<1> DEFINE T == {s[i] : i \in 1 .. Len(s)}
<1>1. Len(s) \in Nat
    OBVIOUS
<1>2. s \in [1 .. Len(s) -> T]
    OBVIOUS
<1>3. \A t \in T : \E i \in 1 .. Len(s) : s[i] = t
    OBVIOUS
<1>4. DOMAIN s = 1 .. Len(s)
    OBVIOUS
<1> HIDE DEF T
<1>5. s \in Bijection(1 .. Len(s), T)
    BY <1>2, <1>3, <1>4 DEF Bijection, Injection, Surjection, IsInjective
<1>6. ExistsBijection(1 .. Len(s), T)
    BY <1>5 DEF ExistsBijection
<1> QED BY <1>1, <1>6, FS_CountingElements DEF T

LEMMA VisitingAdds ==
    ASSUME TypeInv, ImportsInv, NEW x \in Symbol \cup {None}, Symbols' = Visiting(x)
    PROVE  Distinct' /\ Visited' = Visited \cup ({x} \ {None})
<1>1. None \notin Visited
    BY ObjectAssumption DEF TypeInv, Visited
<1>2. CASE x = None \/ x \in Visited
    <2>1. UNCHANGED Symbols
        BY <1>2 DEF Visiting
    <2> QED BY <1>2, <2>1 DEF Visited, Distinct, ImportsInv
<1>3. CASE x # None /\ x \notin Visited
    <2>1. Symbols' = Append(Symbols, x) /\ x \in Symbol
        BY <1>3 DEF Visiting
    <2>2. PICK n \in Nat : n = Len(Symbols)
        BY DEF TypeInv
    <2>3. /\ DOMAIN Symbols = 1 .. n /\ DOMAIN Symbols' = 1 .. n + 1
          /\ \A i \in 1 .. n : Symbols'[i] = Symbols[i]
          /\ Symbols'[n + 1] = x
        BY <2>1, <2>2 DEF TypeInv
    <2>4. \A i \in 1 .. n + 1 : i \in 1 .. n \/ i = n + 1
        BY <2>2
    <2>5. n + 1 \in 1 .. n + 1 /\ \A i \in 1 .. n : i \in 1 .. n + 1
        BY <2>2
    <2>6. Visited' = Visited \cup {x}
        BY <2>3, <2>4, <2>5 DEF Visited
    <2>7. \A i \in 1 .. n : Symbols[i] # x
        BY <1>3, <2>3 DEF Visited
    <2>8. Distinct'
        BY <2>3, <2>4, <2>7 DEF Distinct, ImportsInv
    <2> QED BY <1>3, <2>6, <2>8
<1> QED BY <1>2, <1>3

\* The imports: what is referred to and not defined, each once.
LEMMA ImportsAre ==
    ASSUME TypeInv, ImportsInv, client.at = "next"
    PROVE  /\ Imports \in Seq(Symbol)
           /\ \A i, j \in 1 .. Len(Imports) : Imports[i] = Imports[j] => i = j
           /\ {Imports[i] : i \in 1 .. Len(Imports)} = referred \ defined
           /\ Cardinality(referred \ defined) = Len(Imports)
<1> DEFINE w == Imports
           missing == referred \ defined
<1>2. Symbols \in Seq(Symbol) /\ DOMAIN Symbols = 1 .. Len(Symbols)
    BY DEF TypeInv
<1>3. w \in Seq(Symbol) /\ SameElements(w, Symbols, defined)
    BY <1>2, WithoutType, WithoutElements DEF Imports
<1> HIDE DEF w
<1>4. \A i, j \in 1 .. Len(w) : w[i] = w[j] => i = j
    BY <1>2, <1>3 DEF SameElements, ImportsInv, Distinct
<1>5. \A s \in Visited : s \in referred \/ s \in defined
    BY DEF ImportsInv
<1>6. {w[i] : i \in 1 .. Len(w)} = missing
    <2>1. ASSUME NEW i \in 1 .. Len(w) PROVE w[i] \in missing
        <3>1. w[i] \notin defined /\ w[i] \in Visited
            BY <1>2, <1>3 DEF SameElements, Visited
        <3> QED BY <1>5, <3>1
    <2>2. ASSUME NEW s \in missing PROVE \E i \in 1 .. Len(w) : w[i] = s
        <3>1. PICK i \in 1 .. Len(Symbols) : Symbols[i] = s
            BY <1>2 DEF ImportsInv, Visited
        <3> QED BY <1>3, <3>1 DEF SameElements
    <2> HIDE DEF missing
    <2> QED BY <2>1, <2>2
<1>7. Cardinality(missing) = Len(w)
    BY <1>3, <1>4, <1>6, SequenceCounts
<1> QED BY <1>3, <1>4, <1>6, <1>7 DEF w

\* FinishImpl writes a label and an import together exactly if the last item
\* has no bytes and something is imported; the label is that of the item.
LEMMA FinishOpen ==
    ASSUME TypeInv, IInv, PlacesInv, MarksInv, LastInv, ImportsInv, Finish
    PROVE  /\ RunTogether <=> EndsOpen'
           /\ client'.sym = client.sym
           /\ RunTogether => /\ LabelToEmit # << >>
                             /\ LabelToEmit[Len(LabelToEmit)] = client.sym
<1>1. /\ client.at = "next" /\ client' = [client EXCEPT !.at = "done"]
      /\ UNCHANGED <<sent, defined, referred>>
    BY DEF Finish
<1>2. client'.at = "done" /\ client'.sym = client.sym
    BY <1>1 DEF IInv
<1>3. EndsOpen' <=> /\ client.sym \in defined /\ ~ Starts(client.sym)
                    /\ referred \ defined # {}
    BY <1>1, <1>2 DEF EndsOpen, Starts
<1>4. Imports # << >> <=> referred \ defined # {}
    <2> DEFINE w == Imports
    <2>1. w \in Seq(Symbol) /\ {w[i] : i \in 1 .. Len(w)} = referred \ defined
        BY <1>1, ImportsAre
    <2> HIDE DEF w
    <2>2. w # << >> <=> 1 \in 1 .. Len(w)
        BY <2>1
    <2>3. w # << >> => w[1] \in referred \ defined
        BY <2>1, <2>2
    <2>4. referred \ defined # {} => \E i \in 1 .. Len(w) : TRUE
        BY <2>1
    <2>5. (\E i \in 1 .. Len(w) : TRUE) => w # << >>
        BY <2>1
    <2> QED BY <2>3, <2>4, <2>5 DEF w
<1>5. ASSUME RunTogether
      PROVE  /\ LabelToEmit # << >> /\ LabelToEmit[Len(LabelToEmit)] = client.sym
             /\ client.sym \in defined /\ ~ Starts(client.sym)
    <2>1. ValueBuffer = << >> /\ LabelToEmit # << >>
        BY <1>5 DEF RunTogether, FlushedLabels
    <2>2. LabelToEmit[Len(LabelToEmit)] = client.sym
        BY <1>1, <2>1 DEF LastInv
    <2>3. Len(LabelToEmit) \in DOMAIN LabelToEmit
        BY <2>1 DEF TypeInv
    <2>4. client.sym \in Waiting
        BY <2>2, <2>3 DEF Waiting
    <2> QED BY <2>1, <2>2, <2>4 DEF PlacesInv, MarksInv
<1>6. ASSUME client.sym \in defined, ~ Starts(client.sym), Imports # << >>
      PROVE  RunTogether
    <2>1. client.sym \in Waiting /\ ValueBuffer = << >>
        BY <1>1, <1>6 DEF LastInv
    <2>2. LabelToEmit # << >>
        <3>1. DOMAIN << >> = {}
            OBVIOUS
        <3> QED BY <2>1, <3>1 DEF Waiting
    <2> QED BY <1>6, <2>1, <2>2 DEF RunTogether, FlushedLabels
<1>7. RunTogether => Imports # << >>
    BY DEF RunTogether
<1> QED BY <1>2, <1>3, <1>4, <1>5, <1>6, <1>7

LEMMA TakesKeeps ==
    ASSUME TypeInv, IInv, PlacesInv, MarksInv, LastInv, ImportsInv, NEW kept, Takes(kept)
    PROVE  Keeps(kept)
<1> DEFINE n == Len(LabelToEmit)
<1>1. /\ n \in Nat /\ DOMAIN LabelToEmit = 1 .. n
      /\ \A k, l \in 1 .. n : LabelToEmit[k] = LabelToEmit[l] => k = l
      /\ \A k \in 1 .. n : LabelToEmit[k] \in Waiting
      /\ \A s \in Waiting : \E k \in 1 .. n : LabelToEmit[k] = s
    BY DEF TypeInv, PlacesInv, Waiting
<1>2. ASSUME kept = LabelToEmit, ~ EndsOpen' PROVE Keeps(kept)
    BY <1>1, <1>2 DEF Keeps
<1>3. CASE kept = LabelToEmit /\ client'.at # "done"
    BY <1>2, <1>3 DEF EndsOpen
<1>4. CASE kept = Left /\ Finish /\ ~ RunTogether
    BY <1>2, <1>4, FinishOpen DEF Left
<1>5. CASE kept = Left /\ Finish /\ RunTogether
    <2>1. EndsOpen' /\ client'.sym = client.sym /\ LabelToEmit # << >>
          /\ LabelToEmit[n] = client.sym
        BY <1>5, FinishOpen
    <2>2. /\ kept \in Seq(Symbol) /\ Len(kept) = n - 1
          /\ \A k \in 1 .. n - 1 : kept[k] = LabelToEmit[k]
        BY <1>5, <2>1, FrontFacts DEF Left, TypeInv
    <2>3. n # 0
        BY <2>1 DEF TypeInv
    <2> HIDE DEF n
    <2>4. /\ DOMAIN kept = 1 .. n - 1 /\ n \in 1 .. n
          /\ \A k \in 1 .. n - 1 : k \in 1 .. n /\ k # n
          /\ \A k \in 1 .. n : k \in 1 .. n - 1 \/ k = n
        BY <1>1, <2>2, <2>3
    <2>5. Len(kept) <= Len(LabelToEmit)
        BY <1>1, <2>2 DEF n
    <2>6. \A k, l \in DOMAIN kept : kept[k] = kept[l] => k = l
        BY <1>1, <2>2, <2>4
    <2>7. \A k \in DOMAIN kept : kept[k] \in Waiting /\ kept[k] # client'.sym
        BY <1>1, <2>1, <2>2, <2>4
    <2>8. client'.sym \in Waiting
        BY <1>1, <2>1, <2>4
    <2>9. \A s \in Waiting : (\E k \in DOMAIN kept : kept[k] = s) \/ s = client'.sym
        BY <1>1, <2>1, <2>2, <2>4
    <2> QED BY <2>1, <2>5, <2>6, <2>7, <2>8, <2>9 DEF Keeps
<1> QED BY <1>3, <1>4, <1>5 DEF Takes

\* A step that writes no line loses no label.
LEMMA TakesSome ==
    ASSUME TypeInv, IInv, PlacesInv, MarksInv, LastInv, ImportsInv,
           NEW bytes, NEW kept, Emits(<< >>, bytes, kept), Takes(kept)
    PROVE  ~ EndsOpen'
<1>1. CASE client'.at # "done"
    BY <1>1 DEF EndsOpen
<1>2. CASE Finish
    <2>1. LabelToEmit' = LabelToEmit /\ LabelToEmit' = << >>
        BY <1>2 DEF Emits, Finish
    <2> QED BY <1>2, <2>1, FinishOpen
<1> QED BY <1>1, <1>2 DEF Takes

LEMMA FinishImports ==
    ASSUME TypeInv, IInv, PlacesInv, MarksInv, LastInv, ImportsInv, Finish
    PROVE  ImportsInv'
<1>1. /\ client.at = "next" /\ client' = [client EXCEPT !.at = "done"]
      /\ xok' = IF RunTogether THEN Tail(Imports) ELSE Imports
      /\ UNCHANGED <<Symbols, defined, referred>>
    BY DEF Finish
<1> DEFINE w == Imports
<1>2. /\ w \in Seq(Symbol)
      /\ \A i, j \in 1 .. Len(w) : w[i] = w[j] => i = j
      /\ \A i \in 1 .. Len(w) : w[i] \in referred \ defined
      /\ Cardinality(referred \ defined) = Len(w)
    <2>1. /\ w \in Seq(Symbol)
          /\ \A i, j \in 1 .. Len(w) : w[i] = w[j] => i = j
          /\ {w[i] : i \in 1 .. Len(w)} = referred \ defined
          /\ Cardinality(referred \ defined) = Len(w)
        BY <1>1, ImportsAre
    <2> HIDE DEF w
    <2> QED BY <2>1
<1>3. RunTogether => w # << >>
    BY DEF RunTogether
<1>4. xok' = IF RunTogether THEN Tail(w) ELSE w
    BY <1>1
<1>5. RunTogether <=> EndsOpen'
    BY FinishOpen
<1> HIDE DEF w
<1>6. PICK n \in Nat : n = Len(w) /\ DOMAIN w = 1 .. n
    BY <1>2
<1>7. ASSUME ~ RunTogether PROVE ImportsAreUndefined'
    <2>1. xok' = w /\ n = n + 0
        BY <1>4, <1>6, <1>7
    <2> QED BY <1>1, <1>2, <1>5, <1>6, <1>7, <2>1 DEF ImportsAreUndefined
<1>8. ASSUME RunTogether PROVE ImportsAreUndefined'
    <2>1. /\ xok' \in Seq(Symbol) /\ Len(xok') = n - 1 /\ DOMAIN xok' = 1 .. n - 1
          /\ \A i \in 1 .. n - 1 : xok'[i] = w[i + 1]
        <3>1. xok' = Tail(w) /\ w # << >>
            BY <1>3, <1>4, <1>8
        <3>2. n # 0
            BY <1>2, <1>6, <3>1
        <3> QED BY <1>2, <1>6, <3>1, <3>2
    <2>2. \A i \in 1 .. n - 1 : i + 1 \in 1 .. n
        BY <1>6
    <2>3. \A i \in DOMAIN xok' : xok'[i] \in referred' \ defined'
        BY <1>1, <1>2, <1>6, <2>1, <2>2
    <2>4. \A i, j \in DOMAIN xok' : xok'[i] = xok'[j] => i = j
        <3> SUFFICES ASSUME NEW i \in 1 .. n - 1, NEW j \in 1 .. n - 1, w[i + 1] = w[j + 1]
                     PROVE  i = j
            BY <2>1
        <3>1. i + 1 = j + 1
            BY <1>2, <1>6, <2>2
        <3> QED BY <3>1
    <2>5. Cardinality(referred' \ defined') = Len(xok') + 1
        BY <1>1, <1>2, <1>6, <2>1
    <2> QED BY <1>5, <1>8, <2>3, <2>4, <2>5 DEF ImportsAreUndefined
<1>9. ImportsAreUndefined'
    BY <1>7, <1>8
<1>10. Distinct' /\ (referred \subseteq Visited)'
    BY <1>1 DEF ImportsInv, Distinct, Visited
<1>11. client'.at \notin {"start", "next", "linkage", "align", "label", "body"}
    <2>1. client'.at = "done"
        BY <1>1 DEF IInv
    <2> QED BY <2>1
<1> QED BY <1>9, <1>10, <1>11 DEF ImportsInv

LEMMA NextImportsInv ==
    ASSUME IInv, TypeInv, PlacesInv, MarksInv, LastInv, ImportsInv, [Next]_vars
    PROVE  ImportsInv'
<1>1. ASSUME UNCHANGED vars PROVE ImportsInv'
    BY <1>1 DEF vars, streamer, ImportsInv, Distinct, Visited, ImportsAreUndefined, EndsOpen
<1>2. ASSUME UNCHANGED <<Symbols, defined, referred>>, client'.at # "done",
             client.at \in {"start", "next", "linkage", "align", "label", "body"},
             client.at \in {"align", "label"} =>
                 client'.at \in {"label", "assert"} /\ client'.sym = client.sym
      PROVE  ImportsInv'
    BY <1>2 DEF ImportsInv, Distinct, Visited, ImportsAreUndefined
<1>3. CASE InitSections
    BY <1>2, <1>3 DEF InitSections, Idle
<1>4. ASSUME NEW f \in Symbol, BeginFunction(f) PROVE ImportsInv'
    BY <1>2, <1>4 DEF BeginFunction, IInv
<1>5. ASSUME NEW g \in Symbol, NEW o \in Object, BeginGlobal(g, o) PROVE ImportsInv'
    BY <1>2, <1>5 DEF BeginGlobal, IInv
<1>6. ASSUME NEW linkage, EmitLinkage(linkage) PROVE ImportsInv'
    <2>1. /\ client.at = "linkage" /\ client'.at = "align" /\ client'.sym = client.sym
          /\ UNCHANGED <<defined, referred>>
          /\ Symbols' = Symbols \/ Symbols' = Visiting(client.sym)
        BY <1>6 DEF EmitLinkage, IInv
    <2>2. client.sym \in Symbol
        BY <2>1 DEF TypeInv
    <2>3. Distinct' /\ (Visited' = Visited \/ Visited' = Visited \cup ({client.sym} \ {None}))
        <3>1. CASE Symbols' = Symbols
            BY <3>1 DEF ImportsInv, Distinct, Visited
        <3>2. CASE Symbols' = Visiting(client.sym)
            BY <2>2, <3>2, VisitingAdds
        <3> QED BY <2>1, <3>1, <3>2
    <2> QED BY <2>1, <2>3 DEF ImportsInv, ImportsAreUndefined
<1>7. CASE EmitAlignment
    BY <1>2, <1>7 DEF EmitAlignment, IInv
<1>8. CASE EmitLabel
    <2>1. CASE ValueBuffer # << >>
        <3>1. /\ client.at = "label" /\ client' = [client EXCEPT !.at = "assert"]
              /\ UNCHANGED <<Symbols, defined, referred>>
            BY <1>8, <2>1 DEF EmitLabel
        <3>2. client'.at = "assert" /\ client'.sym = client.sym
            BY <3>1 DEF IInv
        <3> QED BY <1>2, <3>1, <3>2
    <2>2. CASE ValueBuffer = << >>
        <3>1. /\ client.at = "label" /\ client' = [client EXCEPT !.at = "body"]
              /\ Symbols' = Visiting(client.sym) /\ defined' = defined \cup {client.sym}
              /\ UNCHANGED referred
            BY <1>8, <2>2 DEF EmitLabel
        <3>2. client'.at = "body" /\ client.sym \in Symbol
            BY <3>1 DEF IInv, TypeInv
        <3>3. Distinct' /\ Visited' = Visited \cup ({client.sym} \ {None})
            BY <3>1, <3>2, VisitingAdds
        <3>4. \A s \in Visited' : s \in referred' \/ s \in defined'
            BY <3>1, <3>3 DEF ImportsInv
        <3> QED BY <3>1, <3>2, <3>3, <3>4 DEF ImportsInv, ImportsAreUndefined
    <2> QED BY <2>1, <2>2
<1>9. ASSUME NEW ref \in Symbol \cup {None}, EmitInstruction(ref) PROVE ImportsInv'
    <2>1. /\ client.at = "body" /\ client'.at = "body" /\ Symbols' = Visiting(ref)
          /\ referred' = referred \cup ({ref} \ {None}) /\ UNCHANGED defined
        BY <1>9 DEF EmitInstruction, IInv
    <2>2. Distinct' /\ Visited' = Visited \cup ({ref} \ {None})
        BY <2>1, VisitingAdds
    <2>3. \A s \in Visited' : s \in referred' \/ s \in defined'
        BY <2>1, <2>2 DEF ImportsInv
    <2> QED BY <2>1, <2>2, <2>3 DEF ImportsInv, ImportsAreUndefined
<1>10. CASE EmitValue
    <2>1. UNCHANGED <<Symbols, defined, referred>> /\ client.at = "body" /\ client'.at # "done"
        BY <1>10 DEF EmitValue, IInv
    <2> QED BY <1>2, <2>1
<1>11. CASE EndItem
    BY <1>2, <1>11 DEF EndItem, streamer, IInv
<1>12. CASE Finish
    BY <1>12, FinishImports
<1> QED BY <1>1, <1>3, <1>4, <1>5, <1>6, <1>7, <1>8, <1>9, <1>10, <1>11, <1>12 DEF Next, Stopped

-----------------------------------------------------------------------------
(* The invariant of the streamer and its client. *)

Inv == /\ IInv /\ TypeInv /\ PaddingInv /\ BytesInv /\ PlacesInv /\ MarksInv
       /\ ClientInv /\ LastInv /\ ImportsInv

LEMMA InitInv == Init => Inv
<1> SUFFICES ASSUME Init PROVE Inv
    OBVIOUS
<1>1. /\ lines = << >> /\ LabelToEmit = << >> /\ ValueBuffer = << >> /\ sent = << >>
      /\ Symbols = << >> /\ defined = {} /\ referred = {}
      /\ client.at = "start" /\ client.items = 0
    BY DEF Init, Idle
<1>2. Len(<< >>) = 0 /\ DOMAIN << >> = {} /\ << >> \o << >> = << >>
    OBVIOUS
<1>3. DOMAIN lines = {} /\ DOMAIN LabelToEmit = {} /\ DOMAIN sent = {} /\ DOMAIN Symbols = {}
      /\ Len(lines) = 0 /\ Len(LabelToEmit) = 0
    BY <1>1, <1>2
<1>4. Waiting = {} /\ Visited = {}
    BY <1>3 DEF Waiting, Visited
<1>5. PaddingInv
    BY <1>1, <1>3 DEF PaddingInv, PaddingEndsSection
<1>6. BytesInv
    <2>1. Without(BytesOf(lines), {PadByte}) \o ValueBuffer = sent
        BY <1>1, <1>2, BytesOfEmpty, WithoutEmpty
    <2>2. \A i \in 1 .. Len(lines) : FALSE
        BY <1>3
    <2> QED BY <2>1, <2>2 DEF BytesInv
<1>7. PlacesInv /\ LastInv
    BY <1>1, <1>3, <1>4 DEF PlacesInv, LastInv, EndsOpen
<1>8. MarksInv
    BY <1>3, <1>4 DEF MarksInv
<1>9. ClientInv
    BY <1>1, <1>3, BoundAssumption DEF ClientInv
<1>10. ImportsInv
    BY <1>1, <1>3, <1>4 DEF ImportsInv, Distinct, ImportsAreUndefined
<1> QED BY <1>5, <1>6, <1>7, <1>8, <1>9, <1>10, InitIInv, TypeInvHolds DEF Inv

LEMMA NextInv == Inv /\ [Next]_vars => Inv'
<1> SUFFICES ASSUME Inv, [Next]_vars PROVE Inv'
    OBVIOUS
<1> USE DEF Inv
<1>1. IInv' /\ TypeInv' /\ ImportsInv'
    BY NextIInv, NextTypeInv, NextImportsInv
<1>2. CASE UNCHANGED vars
    <2>1. UNCHANGED <<lines, LabelToEmit, ValueBuffer, sent, stretch, defined, client>>
        BY <1>2 DEF vars, streamer
    <2>2. PaddingInv' /\ BytesInv'
        BY <2>1 DEF PaddingInv, PaddingEndsSection, IsPadded, BytesInv, BytesOf
    <2>3. /\ \A i : LabelsOn(i)' = LabelsOn(i)
          /\ Waiting' = Waiting
          /\ \A s : Starts(s)' = Starts(s)
        BY <2>1 DEF LabelsOn, Waiting, Starts
    <2>4. EndsOpen' = EndsOpen
        BY <1>2 DEF vars, streamer, EndsOpen
    <2>5. PlacesInv' /\ MarksInv'
        BY <2>1, <2>3, <2>4 DEF PlacesInv, MarksInv
    <2>6. ClientInv'
        BY <2>1, <2>3 DEF ClientInv
    <2>7. LastInv'
        BY <2>1, <2>3 DEF LastInv
    <2> QED BY <1>1, <2>2, <2>5, <2>6, <2>7
<1>3. CASE EmitLabel
    <2>1. UNCHANGED <<lines, ValueBuffer, sent, stretch>> /\ client.at = "label"
          /\ client' \in {[client EXCEPT !.at = "body"], [client EXCEPT !.at = "assert"]}
        BY <1>3 DEF EmitLabel
    <2>2. BytesInv'
        BY <2>1 DEF BytesInv, BytesOf
    <2>3. PaddingInv'
        BY <2>1 DEF PaddingInv, PaddingEndsSection, IsPadded
    <2>4. Next
        BY <1>3 DEF Next
    <2> QED BY <1>1, <1>3, <2>2, <2>3, <2>4, LabelStep, LastStep
<1>4. CASE ~ UNCHANGED vars /\ ~ EmitLabel
    <2>1. UNCHANGED defined /\ \E new, bytes, kept : Emits(new, bytes, kept) /\ Takes(kept)
        BY <1>4, StepEmits
    <2>2. PICK new, bytes, kept : Emits(new, bytes, kept) /\ Takes(kept)
        BY <2>1
    <2>3. Keeps(kept)
        BY <2>2, TakesKeeps
    <2>4. new = << >> => ~ EndsOpen'
        BY <2>2, TakesSome
    <2>5. PaddingInv' /\ BytesInv'
        BY <2>1, <2>2, EmitsPadding, EmitsBytes
    <2>6. PlacesInv' /\ MarksInv'
        BY <2>1, <2>2, <2>3, <2>4, EmitsPlaces, EmitsMarks
    <2>7. LabelToEmit' = LabelToEmit \/ LabelToEmit' = << >>
        BY <2>2 DEF Emits
    <2>8. ClientInv'
        BY <1>4, <2>1, <2>7, ClientStep
    <2>9. LastInv'
        BY <1>4, LastStep
    <2> QED BY <1>1, <2>5, <2>6, <2>8, <2>9
<1> QED BY <1>2, <1>3, <1>4

LEMMA InvHolds == Spec => []Inv
<1>1. Inv /\ [Next]_vars => Inv'
    BY NextInv
<1> QED BY <1>1, InitInv, PTL DEF Spec

\* What EmitValueImpl, flushValues and FinishImpl write is, without the zeros
\* that complete a directive, what AsmPrinter has emitted, in that order, up to
\* the bytes held back; no unit is of a width 2003lk has no directive for.
THEOREM BytesAlwaysInOrder == Spec => []BytesInOrder
<1>1. Inv => BytesInOrder
    <2> SUFFICES ASSUME Inv PROVE BytesInOrder
        OBVIOUS
    <2>1. DOMAIN lines = 1 .. Len(lines)
        BY DEF Inv, TypeInv
    <2>2. Written = BytesOf(lines)
        BY DEF Written, BytesOf
    <2> QED BY <2>1, <2>2 DEF Inv, BytesInv, BytesInOrder
<1> QED BY <1>1, InvHolds, PTL

\* flushValues pads only where the section changes or the file ends: no zero
\* ever comes between two globals of one section, whatever their alignments
\* and the parts of their initialisers.
THEOREM PaddingAlwaysEndsSection == Spec => []PaddingEndsSection
<1>1. Inv => PaddingEndsSection
    BY DEF Inv, PaddingInv
<1> QED BY <1>1, InvHolds, PTL

\* FinishImpl imports what instructions refer to and the module does not
\* define, and nothing else, and nothing twice; the first import is lost behind
\* the label of an item with no bytes that ends the module, and no other is.
THEOREM ImportsAlwaysUndefined == Spec => []ImportsAreUndefined
<1>1. Inv => ImportsAreUndefined
    BY DEF Inv, ImportsInv
<1> QED BY <1>1, InvHolds, PTL

Places(s) == {place \in (DOMAIN lines) \X (1 .. MaxItems) :
                 /\ place[2] \in DOMAIN lines[place[1]].labels
                 /\ lines[place[1]].labels[place[2]] = s}

LEMMA OnePlace ==
    ASSUME Inv, NEW s \in defined
    PROVE  Cardinality(Places(s))
               = IF s \in Waiting \/ (EndsOpen /\ s = client.sym) THEN 0 ELSE 1
<1>1. CASE s \in Waiting \/ (EndsOpen /\ s = client.sym)
    <2>1. ASSUME NEW place \in Places(s) PROVE FALSE
        <3>1. PICK i \in DOMAIN lines, j \in 1 .. MaxItems : place = <<i, j>>
            BY <2>1 DEF Places
        <3>2. j \in DOMAIN lines[i].labels /\ lines[i].labels[j] = s
            BY <2>1, <3>1 DEF Places
        <3>3. s \in LabelsOn(i)
            BY <3>2 DEF LabelsOn
        <3> QED BY <1>1, <3>3 DEF Inv, PlacesInv
    <2>2. Places(s) = {}
        BY <2>1
    <2> QED BY <1>1, <2>2, FS_EmptySet
<1>2. CASE ~ (s \in Waiting \/ (EndsOpen /\ s = client.sym))
    <2>1. PICK i \in DOMAIN lines : s \in LabelsOn(i)
        BY <1>2 DEF Inv, PlacesInv
    <2>2. PICK j \in DOMAIN lines[i].labels : lines[i].labels[j] = s
        BY <2>1 DEF LabelsOn
    <2>3. j \in 1 .. MaxItems
        <3>1. lines[i] \in LineType
            BY DEF Inv, TypeInv
        <3>2. lines[i].labels \in Seq(Symbol)
            BY <3>1 DEF LineType
        <3>3. Len(lines[i].labels) <= MaxItems
            BY DEF Inv, PlacesInv
        <3> QED BY <3>2, <3>3, BoundAssumption
    <2>4. <<i, j>> \in Places(s)
        BY <2>2, <2>3 DEF Places
    <2>5. ASSUME NEW place \in Places(s) PROVE place = <<i, j>>
        <3>1. PICK m \in DOMAIN lines, k \in 1 .. MaxItems : place = <<m, k>>
            BY <2>5 DEF Places
        <3>2. k \in DOMAIN lines[m].labels /\ lines[m].labels[k] = s
            BY <2>5, <3>1 DEF Places
        <3>3. s \in LabelsOn(m)
            BY <3>2 DEF LabelsOn
        <3>4. m = i
            BY <2>1, <3>3 DEF Inv, PlacesInv
        <3>5. k = j
            BY <2>2, <3>2, <3>4 DEF Inv, PlacesInv
        <3> QED BY <3>1, <3>4, <3>5
    <2>6. Places(s) = {<<i, j>>}
        BY <2>4, <2>5
    <2> QED BY <1>2, <2>6, FS_Singleton
<1> QED BY <1>1, <1>2

\* EmitLabel, FlushLabel and what writes units put the label of every global
\* and function on the unit its first byte starts, and on no other, however
\* many labels wait together and whatever is flushed in between.  FinishImpl
\* loses one label at most, that of an item with no bytes that ends the module.
THEOREM LabelsAlwaysMarkObjects == Spec => []LabelsMarkObjects
<1>1. Inv => LabelsMarkObjects
    <2> SUFFICES ASSUME Inv PROVE LabelsMarkObjects
        OBVIOUS
    <2>1. ASSUME NEW i \in DOMAIN lines, NEW j \in DOMAIN lines[i].labels,
                 \E k \in DOMAIN sent : sent[k] = <<lines[i].labels[j], 1>>
          PROVE  lines[i].bytes # << >> /\ lines[i].bytes[1] = <<lines[i].labels[j], 1>>
        <3>1. lines[i].labels[j] \in LabelsOn(i) /\ Starts(lines[i].labels[j])
            BY <2>1 DEF LabelsOn, Starts
        <3> QED BY <3>1 DEF Inv, MarksInv
    <2>2. ASSUME NEW s \in defined
          PROVE  Cardinality(Places(s))
                     = IF \/ \E j \in DOMAIN LabelToEmit : LabelToEmit[j] = s
                          \/ EndsOpen /\ s = client.sym
                       THEN 0 ELSE 1
        <3>1. s \in Waiting <=> \E j \in DOMAIN LabelToEmit : LabelToEmit[j] = s
            BY DEF Waiting
        <3> QED BY <3>1, OnePlace
    <2> QED BY <2>1, <2>2 DEF LabelsMarkObjects, Places
<1> QED BY <1>1, InvHolds, PTL

-----------------------------------------------------------------------------
(* Numbers in decimal: the recursive function exists, and no two numbers    *)
(* are written alike.                                                       *)

DecimalStep(f, i) ==
    IF i < 10 THEN <<48 + i>> ELSE Append(f[i \div 10], 48 + (i % 10))

\* f writes the numbers up to n.
WritesUpTo(f, n) ==
    f \in [0 .. n -> Seq(Digit) \ {<< >>}] /\ \A i \in 0 .. n : f[i] = DecimalStep(f, i)

LEMMA DivisionBy ==
    ASSUME NEW w \in Nat \ {0}, NEW a \in Int
    PROVE  a \div w \in Int /\ a % w \in 0 .. w - 1 /\ a = w * (a \div w) + (a % w)
OBVIOUS

LEMMA Division10 ==
    ASSUME NEW n \in Nat
    PROVE  /\ n \div 10 \in 0 .. n /\ n % 10 \in 0 .. 9
           /\ n = 10 * (n \div 10) + (n % 10)
           /\ n >= 10 => n \div 10 < n
<1>1. n \div 10 \in Int /\ n % 10 \in 0 .. 9 /\ n = 10 * (n \div 10) + (n % 10)
    <2>1. 10 \in Nat \ {0} /\ n \in Int /\ 10 - 1 = 9
        OBVIOUS
    <2>2. n \div 10 \in Int /\ n % 10 \in 0 .. 10 - 1 /\ n = 10 * (n \div 10) + (n % 10)
        BY <2>1, DivisionBy
    <2> QED BY <2>1, <2>2, Zenon
<1> DEFINE d == n \div 10
           r == n % 10
<1> HIDE DEF d, r
<1>2. d \in Int /\ r \in 0 .. 9 /\ n = 10 * d + r
    BY <1>1 DEF d, r
<1>3. d \in 0 .. n /\ (n >= 10 => d < n)
    BY <1>2
<1> QED BY <1>2, <1>3, Zenon DEF d, r

LEMMA WritingExists ==
    ASSUME NEW n \in Nat
    PROVE  \E f : WritesUpTo(f, n)
<1> DEFINE T == {k \in Nat : \E f : WritesUpTo(f, k)}
<1>1. 0 \in T
    <2> DEFINE f == [i \in 0 .. 0 |-> <<48>>]
    <2>1. <<48>> \in Seq(Digit) \ {<< >>}
        BY DEF Digit
    <2>2. f \in [0 .. 0 -> Seq(Digit) \ {<< >>}]
        BY <2>1
    <2>3. \A i \in 0 .. 0 : f[i] = DecimalStep(f, i)
        BY DEF DecimalStep
    <2> QED BY <2>2, <2>3 DEF WritesUpTo
<1>2. ASSUME NEW k \in Nat, k \in T PROVE k + 1 \in T
    <2>1. PICK f : WritesUpTo(f, k)
        BY <1>2
    <2> DEFINE last == DecimalStep(f, k + 1)
               g == [i \in 0 .. k + 1 |-> IF i <= k THEN f[i] ELSE last]
    <2>2. last \in Seq(Digit) \ {<< >>}
        <3>1. CASE k + 1 < 10
            <4>1. 48 + (k + 1) \in Digit
                BY <3>1 DEF Digit
            <4> QED BY <3>1, <4>1 DEF DecimalStep
        <3>2. CASE ~ (k + 1 < 10)
            <4>1. (k + 1) \div 10 \in 0 .. k /\ 48 + ((k + 1) % 10) \in Digit
                BY <3>2, Division10 DEF Digit
            <4>2. f[(k + 1) \div 10] \in Seq(Digit)
                BY <2>1, <4>1 DEF WritesUpTo
            <4>3. last = Append(f[(k + 1) \div 10], 48 + ((k + 1) % 10))
                BY <3>2 DEF DecimalStep
            <4> QED BY <4>1, <4>2, <4>3, AppendProperties
        <3> QED BY <3>1, <3>2
    <2>3. g \in [0 .. k + 1 -> Seq(Digit) \ {<< >>}]
        <3> HIDE DEF last
        <3> QED BY <2>1, <2>2 DEF WritesUpTo
    <2>4. ASSUME NEW i \in 0 .. k + 1 PROVE g[i] = DecimalStep(g, i)
        <3>1. i >= 10 => i \div 10 \in 0 .. k
            BY Division10
        <3>2. i >= 10 => g[i \div 10] = f[i \div 10]
            BY <3>1
        <3>3. DecimalStep(g, i) = DecimalStep(f, i)
            <4> HIDE DEF g
            <4> QED BY <3>2 DEF DecimalStep
        <3>4. g[i] = IF i <= k THEN f[i] ELSE last
            OBVIOUS
        <3>5. i <= k => f[i] = DecimalStep(f, i)
            BY <2>1 DEF WritesUpTo
        <3>6. i <= k \/ i = k + 1
            OBVIOUS
        <3> HIDE DEF g
        <3> QED BY <3>3, <3>4, <3>5, <3>6
    <2>5. WritesUpTo(g, k + 1)
        <3> HIDE DEF g
        <3> QED BY <2>3, <2>4 DEF WritesUpTo
    <2> HIDE DEF g
    <2> QED BY <2>5
<1> HIDE DEF T
<1>3. n \in T
    BY <1>1, <1>2, SetInduction
<1> QED BY <1>3 DEF T

LEMMA WritingsAgree ==
    ASSUME NEW m \in Nat, NEW f, WritesUpTo(f, m),
           NEW n \in Nat, NEW g, WritesUpTo(g, n)
    PROVE  \A i \in Nat : i <= m /\ i <= n => f[i] = g[i]
<1> DEFINE T == {k \in Nat : \A i \in 0 .. k : i <= m /\ i <= n => f[i] = g[i]}
<1>1. ASSUME NEW k \in Nat, k <= m, k <= n,
             \A i \in 0 .. k - 1 : i <= m /\ i <= n => f[i] = g[i]
      PROVE  f[k] = g[k]
    <2>1. k >= 10 => f[k \div 10] = g[k \div 10]
        <3>1. k >= 10 => k \div 10 \in 0 .. k - 1
            BY Division10
        <3> QED BY <1>1, <3>1
    <2>2. DecimalStep(f, k) = DecimalStep(g, k)
        BY <2>1 DEF DecimalStep
    <2>3. k \in 0 .. m /\ k \in 0 .. n
        BY <1>1
    <2> QED BY <2>2, <2>3 DEF WritesUpTo
<1>2. 0 \in T
    <2>1. f[0] = g[0]
        BY <1>1
    <2> QED BY <2>1
<1>3. ASSUME NEW k \in Nat, k \in T PROVE k + 1 \in T
    <2>1. \A i \in 0 .. (k + 1) - 1 : i <= m /\ i <= n => f[i] = g[i]
        BY <1>3
    <2>2. k + 1 <= m /\ k + 1 <= n => f[k + 1] = g[k + 1]
        BY <2>1, <1>1
    <2>3. \A i \in 0 .. k + 1 : i \in 0 .. k \/ i = k + 1
        OBVIOUS
    <2> QED BY <1>3, <2>2, <2>3
<1> HIDE DEF T
<1>4. Nat \subseteq T
    BY <1>2, <1>3, SetInduction
<1> QED BY <1>4 DEF T

LEMMA DecimalUnfolds ==
    /\ Decimal \in [Nat -> Seq(Digit) \ {<< >>}]
    /\ \A n \in Nat : Decimal[n] = DecimalStep(Decimal, n)
<1> DEFINE W(n) == CHOOSE f : WritesUpTo(f, n)
           F == [n \in Nat |-> W(n)[n]]
           Is(f) == f = [n \in Nat |-> IF n < 10 THEN <<48 + n>>
                                       ELSE Append(f[n \div 10], 48 + (n % 10))]
<1>1. ASSUME NEW n \in Nat PROVE WritesUpTo(W(n), n)
    BY WritingExists
<1> HIDE DEF W
<1>2. ASSUME NEW n \in Nat PROVE F[n] = DecimalStep(F, n)
    <2>1. F[n] = DecimalStep(W(n), n)
        <3>1. n \in 0 .. n
            OBVIOUS
        <3> QED BY <1>1, <3>1 DEF WritesUpTo
    <2>2. n >= 10 => F[n \div 10] = W(n)[n \div 10]
        <3> SUFFICES ASSUME n >= 10 PROVE F[n \div 10] = W(n)[n \div 10]
            OBVIOUS
        <3> DEFINE d == n \div 10
        <3>1. d \in Nat /\ d <= n
            BY Division10
        <3> HIDE DEF d
        <3>2. W(d)[d] = W(n)[d]
            <4>1. WritesUpTo(W(d), d) /\ WritesUpTo(W(n), n)
                BY <1>1, <3>1
            <4> QED BY <4>1, <3>1, WritingsAgree
        <3>3. F[d] = W(n)[d]
            BY <3>1, <3>2
        <3> QED BY <3>3 DEF d
    <2> HIDE DEF F
    <2> QED BY <2>1, <2>2 DEF DecimalStep
<1>3. Is(F)
    <2>1. \A n \in Nat : F[n] = IF n < 10 THEN <<48 + n>> ELSE Append(F[n \div 10], 48 + (n % 10))
        <3> HIDE DEF F
        <3> QED BY <1>2 DEF DecimalStep
    <2>2. F = [n \in Nat |-> F[n]]
        OBVIOUS
    <2> HIDE DEF F
    <2> QED BY <2>1, <2>2, Zenon
<1>4. Is(Decimal)
    <2> HIDE DEF F, Is
    <2>1. Decimal = CHOOSE f : Is(f)
        BY DEF Decimal, Is
    <2> QED BY <1>3, <2>1
<1>5. \A n \in Nat : Decimal[n] = DecimalStep(Decimal, n)
    BY <1>4 DEF DecimalStep
<1>6. DOMAIN Decimal = Nat /\ Decimal = [n \in Nat |-> Decimal[n]]
    BY <1>4
<1> DEFINE T == {n \in Nat : \A i \in 0 .. n : Decimal[i] \in Seq(Digit) \ {<< >>}}
<1>7. ASSUME NEW k \in Nat, \A i \in 0 .. k - 1 : Decimal[i] \in Seq(Digit) \ {<< >>}
      PROVE  Decimal[k] \in Seq(Digit) \ {<< >>}
    <2>1. CASE k < 10
        <3>1. 48 + k \in Digit
            BY <2>1 DEF Digit
        <3>2. Decimal[k] = <<48 + k>>
            BY <2>1, <1>5 DEF DecimalStep
        <3> QED BY <3>1, <3>2
    <2>2. CASE ~ (k < 10)
        <3>1. k \div 10 \in 0 .. k - 1 /\ 48 + (k % 10) \in Digit
            BY <2>2, Division10 DEF Digit
        <3>2. Decimal[k] = Append(Decimal[k \div 10], 48 + (k % 10))
            BY <2>2, <1>5 DEF DecimalStep
        <3>3. Decimal[k \div 10] \in Seq(Digit)
            BY <1>7, <3>1
        <3> QED BY <3>1, <3>2, <3>3, AppendProperties
    <2> QED BY <2>1, <2>2
<1>8. 0 \in T
    <2>1. Decimal[0] \in Seq(Digit) \ {<< >>}
        BY <1>7
    <2> QED BY <2>1
<1>9. ASSUME NEW k \in Nat, k \in T PROVE k + 1 \in T
    <2>1. Decimal[k + 1] \in Seq(Digit) \ {<< >>}
        BY <1>7, <1>9
    <2>2. \A i \in 0 .. k + 1 : i \in 0 .. k \/ i = k + 1
        OBVIOUS
    <2> QED BY <1>9, <2>1, <2>2
<1>10. \A n \in Nat : Decimal[n] \in Seq(Digit) \ {<< >>}
    <2> HIDE DEF T
    <2>1. Nat \subseteq T
        BY <1>8, <1>9, SetInduction
    <2>2. \A n \in Nat : n \in 0 .. n
        OBVIOUS
    <2> QED BY <2>1, <2>2, Zenon DEF T
<1> QED BY <1>5, <1>6, <1>10

LEMMA DecimalType ==
    ASSUME NEW n \in Nat
    PROVE  Decimal[n] \in Seq(Digit) /\ Decimal[n] # << >>
BY DecimalUnfolds

\* No two numbers are written alike.
LEMMA DecimalInjective ==
    ASSUME NEW m \in Nat, NEW n \in Nat, Decimal[m] = Decimal[n]
    PROVE  m = n
<1> DEFINE T == {k \in Nat : \A i \in 0 .. k : \A j \in Nat : Decimal[i] = Decimal[j] => i = j}
<1>1. ASSUME NEW i \in Nat, NEW j \in Nat, i < 10, ~ (j < 10), Decimal[i] = Decimal[j]
      PROVE  FALSE
    <2>1. Decimal[i] = <<48 + i>> /\ Decimal[j] = Append(Decimal[j \div 10], 48 + (j % 10))
        BY <1>1, DecimalUnfolds DEF DecimalStep
    <2>2. j \div 10 \in Nat /\ 48 + (j % 10) \in Digit
        BY Division10 DEF Digit
    <2>3. Len(Decimal[j]) = Len(Decimal[j \div 10]) + 1
        BY <2>1, <2>2, DecimalType, AppendProperties
    <2>4. Len(Decimal[i]) = 1
        BY <2>1
    <2>5. Len(Decimal[j \div 10]) \in Nat \ {0}
        BY <2>2, DecimalType, EmptySeq
    <2> DEFINE l == Len(Decimal[j \div 10])
    <2>6. 1 = l + 1 /\ l \in Nat \ {0}
        BY <1>1, <2>3, <2>4, <2>5, Zenon
    <2> HIDE DEF l
    <2> QED BY <2>6
<1>2. ASSUME NEW k \in Nat,
             \A i \in 0 .. k - 1 : \A j \in Nat : Decimal[i] = Decimal[j] => i = j,
             NEW j \in Nat, Decimal[k] = Decimal[j]
      PROVE  k = j
    <2>1. CASE k < 10 /\ j < 10
        <3>1. Decimal[k] = <<48 + k>> /\ Decimal[j] = <<48 + j>>
            BY <2>1, DecimalUnfolds DEF DecimalStep
        <3>2. <<48 + k>>[1] = <<48 + j>>[1]
            BY <3>1, <1>2
        <3> QED BY <3>2
    <2>2. CASE ~ (k < 10) /\ ~ (j < 10)
        <3> DEFINE a == k \div 10
                   b == j \div 10
                   x == 48 + (k % 10)
                   y == 48 + (j % 10)
        <3>1. Decimal[k] = Append(Decimal[a], x) /\ Decimal[j] = Append(Decimal[b], y)
            BY <2>2, DecimalUnfolds DEF DecimalStep
        <3>2. /\ a \in Nat /\ b \in Nat /\ x \in Digit /\ y \in Digit /\ a \in 0 .. k - 1
              /\ k = 10 * a + x - 48 /\ j = 10 * b + y - 48
            BY <2>2, Division10 DEF Digit
        <3> HIDE DEF a, b, x, y
        <3>3. Decimal[a] \in Seq(Digit) /\ Decimal[b] \in Seq(Digit)
            BY <3>2, DecimalType
        <3>4. Append(Decimal[a], x) = Append(Decimal[b], y)
            BY <3>1, <1>2
        <3>5. Decimal[a] = Decimal[b] /\ x = y
            <4>1. x \in Digit /\ y \in Digit
                BY <3>2
            <4> DEFINE s == Decimal[a]
                       t == Decimal[b]
            <4> HIDE DEF s, t
            <4>2. s \in Seq(Digit) /\ t \in Seq(Digit)
                BY <3>3 DEF s, t
            <4>3. Append(s, x) = Append(t, y) <=> s = t /\ x = y
                BY <4>1, <4>2, AppendInjective
            <4> QED BY <3>4, <4>3 DEF s, t
        <3>6. a = b
            BY <1>2, <3>2, <3>5
        <3>7. x \in Int
            BY <3>2 DEF Digit
        <3> QED BY <3>2, <3>5, <3>6, <3>7
    <2> QED BY <1>1, <1>2, <2>1, <2>2
<1>3. 0 \in T
    <2>1. \A j \in Nat : Decimal[0] = Decimal[j] => 0 = j
        BY <1>2
    <2> QED BY <2>1
<1>4. ASSUME NEW k \in Nat, k \in T PROVE k + 1 \in T
    <2>1. \A j \in Nat : Decimal[k + 1] = Decimal[j] => k + 1 = j
        BY <1>2, <1>4
    <2>2. \A i \in 0 .. k + 1 : i \in 0 .. k \/ i = k + 1
        OBVIOUS
    <2> QED BY <1>4, <2>1, <2>2
<1> HIDE DEF T
<1>5. Nat \subseteq T
    BY <1>3, <1>4, SetInduction
<1>6. m \in 0 .. m
    OBVIOUS
<1> QED BY <1>5, <1>6 DEF T

-----------------------------------------------------------------------------
(* The names the compiler invents: two numbers, or one, behind a prefix.    *)

Char == 0 .. 255
Name == Seq(Char) \ {<< >>}

Joined(p, s, t) == ((p \o s) \o <<Underscore>>) \o t

\* c is s, of length m, and then t, of length n.
Concat(c, s, t, m, n) ==
    /\ Len(c) = m + n
    /\ \A i \in 1 .. m + n : c[i] = IF i <= m THEN s[i] ELSE t[i - m]

LEMMA Concatenates ==
    ASSUME NEW S, NEW s \in Seq(S), NEW t \in Seq(S), NEW m \in Nat, NEW n \in Nat,
           Len(s) = m, Len(t) = n
    PROVE  s \o t \in Seq(S) /\ Concat(s \o t, s, t, m, n)
BY DEF Concat

\* c is p, of length k, s, of length m, an underscore, and t, of length n.
Joins(c, p, s, t, k, m, n) ==
    /\ Len(c) = k + m + 1 + n
    /\ \A i \in 1 .. k : c[i] = p[i]
    /\ \A i \in 1 .. m : c[k + i] = s[i]
    /\ c[k + m + 1] = Underscore
    /\ \A i \in 1 .. n : c[k + m + 1 + i] = t[i]

LEMMA JoinedFacts ==
    ASSUME NEW p \in Seq(Char), NEW s \in Seq(Digit), NEW t \in Seq(Digit),
           NEW k \in Nat, NEW m \in Nat, NEW n \in Nat,
           Len(p) = k, Len(s) = m, Len(t) = n
    PROVE  Joined(p, s, t) \in Seq(Char) /\ Joins(Joined(p, s, t), p, s, t, k, m, n)
<1> DEFINE u == <<Underscore>>
           a == p \o s
           b == a \o u
           c == b \o t
<1>1. Digit \subseteq Char /\ Underscore \in Char
    BY DEF Digit, Char, Underscore
<1>2. s \in Seq(Char) /\ t \in Seq(Char)
    BY <1>1, SeqMonotonic
<1>3. u \in Seq(Char) /\ Len(u) = 1 /\ u[1] = Underscore
    BY <1>1
<1> HIDE DEF u
<1>4. a \in Seq(Char) /\ Concat(a, p, s, k, m)
    BY <1>2, Concatenates, Zenon
<1> HIDE DEF a
<1>5. k + m \in Nat /\ 1 \in Nat /\ k + m + 1 \in Nat
    OBVIOUS
<1>6. b \in Seq(Char) /\ Concat(b, a, u, k + m, 1)
    <2>1. Len(a) = k + m
        BY <1>4 DEF Concat
    <2> QED BY <1>3, <1>4, <1>5, <2>1, Concatenates, Zenon
<1> HIDE DEF b
<1>7. c \in Seq(Char) /\ Concat(c, b, t, k + m + 1, n)
    <2>1. Len(b) = k + m + 1
        BY <1>6 DEF Concat
    <2> QED BY <1>2, <1>5, <1>6, <2>1, Concatenates, Zenon
<1> HIDE DEF c
<1>8. \A i \in 1 .. k : c[i] = p[i]
    <2> SUFFICES ASSUME NEW i \in 1 .. k PROVE c[i] = p[i]
        OBVIOUS
    <2>1. i \in 1 .. k + m + 1 + n /\ i \in 1 .. k + m + 1 /\ i \in 1 .. k + m
          /\ i <= k + m + 1 /\ i <= k + m /\ i <= k
        OBVIOUS
    <2>2. c[i] = b[i] /\ b[i] = a[i] /\ a[i] = p[i]
        BY <1>4, <1>6, <1>7, <2>1 DEF Concat
    <2> QED BY <2>2
<1>9. \A i \in 1 .. m : c[k + i] = s[i]
    <2> SUFFICES ASSUME NEW i \in 1 .. m PROVE c[k + i] = s[i]
        OBVIOUS
    <2>1. k + i \in 1 .. k + m + 1 + n /\ k + i \in 1 .. k + m + 1 /\ k + i \in 1 .. k + m
          /\ k + i <= k + m + 1 /\ k + i <= k + m /\ ~ (k + i <= k) /\ (k + i) - k = i
        OBVIOUS
    <2>2. c[k + i] = b[k + i] /\ b[k + i] = a[k + i] /\ a[k + i] = s[i]
        BY <1>4, <1>6, <1>7, <2>1 DEF Concat
    <2> QED BY <2>2
<1>10. c[k + m + 1] = Underscore
    <2> DEFINE i == k + m + 1
    <2>1. i \in 1 .. k + m + 1 + n /\ i \in 1 .. k + m + 1
          /\ i <= k + m + 1 /\ ~ (i <= k + m) /\ i - (k + m) = 1
        OBVIOUS
    <2> HIDE DEF i
    <2>2. c[i] = b[i] /\ b[i] = u[1]
        BY <1>6, <1>7, <2>1 DEF Concat
    <2> QED BY <2>2, <1>3 DEF i
<1>11. \A i \in 1 .. n : c[k + m + 1 + i] = t[i]
    <2> SUFFICES ASSUME NEW i \in 1 .. n PROVE c[k + m + 1 + i] = t[i]
        OBVIOUS
    <2> DEFINE j == k + m + 1 + i
    <2>1. j \in 1 .. k + m + 1 + n /\ ~ (j <= k + m + 1) /\ j - (k + m + 1) = i
        OBVIOUS
    <2> HIDE DEF j
    <2>2. c[j] = t[i]
        BY <1>7, <2>1 DEF Concat
    <2> QED BY <2>2 DEF j
<1>12. Joins(c, p, s, t, k, m, n)
    BY <1>7, <1>8, <1>9, <1>10, <1>11 DEF Concat, Joins
<1> QED BY <1>7, <1>12, Zenon DEF Joined, a, b, c, u

\* What is joined can be taken apart: no digit is an underscore.
LEMMA JoinedOnce ==
    ASSUME NEW p \in Seq(Char), NEW s1 \in Seq(Digit), NEW t1 \in Seq(Digit),
           NEW s2 \in Seq(Digit), NEW t2 \in Seq(Digit),
           Joined(p, s1, t1) = Joined(p, s2, t2)
    PROVE  s1 = s2 /\ t1 = t2
<1> DEFINE k == Len(p)
           m1 == Len(s1)
           n1 == Len(t1)
           m2 == Len(s2)
           n2 == Len(t2)
           x == Joined(p, s1, t1)
<1>1. k \in Nat /\ m1 \in Nat /\ n1 \in Nat /\ m2 \in Nat /\ n2 \in Nat
    OBVIOUS
<1>2. Joins(x, p, s1, t1, k, m1, n1)
    BY <1>1, JoinedFacts, Zenon
<1>3. Joins(x, p, s2, t2, k, m2, n2)
    <2>1. x = Joined(p, s2, t2)
        OBVIOUS
    <2> HIDE DEF x
    <2> QED BY <1>1, <2>1, JoinedFacts, Zenon
<1>4. /\ \A i \in 1 .. m1 : s1[i] # Underscore
      /\ \A i \in 1 .. m2 : s2[i] # Underscore
    <2>1. Underscore \notin Digit
        BY DEF Underscore, Digit
    <2>2. \A i \in 1 .. m1 : s1[i] \in Digit
        OBVIOUS
    <2>3. \A i \in 1 .. m2 : s2[i] \in Digit
        OBVIOUS
    <2> QED BY <2>1, <2>2, <2>3
<1> HIDE DEF k, m1, n1, m2, n2, x
<1>5. ~ (m1 < m2)
    <2> SUFFICES ASSUME m1 < m2 PROVE FALSE
        OBVIOUS
    <2>1. m1 + 1 \in 1 .. m2 /\ k + (m1 + 1) = k + m1 + 1
        BY <1>1
    <2>2. x[k + (m1 + 1)] = s2[m1 + 1]
        BY <1>3, <2>1 DEF Joins
    <2> QED BY <2>1, <2>2, <1>2, <1>4 DEF Joins
<1>6. ~ (m2 < m1)
    <2> SUFFICES ASSUME m2 < m1 PROVE FALSE
        OBVIOUS
    <2>1. m2 + 1 \in 1 .. m1 /\ k + (m2 + 1) = k + m2 + 1
        BY <1>1
    <2>2. x[k + (m2 + 1)] = s1[m2 + 1]
        BY <1>2, <2>1 DEF Joins
    <2> QED BY <2>1, <2>2, <1>3, <1>4 DEF Joins
<1>7. m1 = m2 /\ n1 = n2
    BY <1>1, <1>2, <1>3, <1>5, <1>6 DEF Joins
<1>8. \A i \in 1 .. m1 : s1[i] = s2[i]
    BY <1>2, <1>3, <1>7 DEF Joins
<1>9. \A i \in 1 .. n1 : t1[i] = t2[i]
    BY <1>2, <1>3, <1>7 DEF Joins
<1>10. s1 = s2
    BY <1>7, <1>8, SeqEqual DEF m1, m2
<1>11. t1 = t2
    BY <1>7, <1>9, SeqEqual DEF n1, n2
<1> QED BY <1>10, <1>11

LEMMA BlockNameJoins ==
    ASSUME NEW at \in Nat \X Nat
    PROVE  BlockName(at) = Joined(<<66, 66>>, Decimal[at[1]], Decimal[at[2]])
BY DEF BlockName, Joined

LEMMA TableNameJoins ==
    ASSUME NEW at \in Nat \X Nat
    PROVE  TableName(at) = Joined(<<74, 84, 73>>, Decimal[at[1]], Decimal[at[2]])
BY DEF TableName, Joined

LEMMA JoinedNames ==
    ASSUME NEW p \in Seq(Char), NEW k \in Nat \ {0}, Len(p) = k,
           NEW m \in Nat, NEW n \in Nat
    PROVE  /\ Joined(p, Decimal[m], Decimal[n]) \in Name
           /\ Joined(p, Decimal[m], Decimal[n])[1] = p[1]
<1> DEFINE s == Decimal[m]
           t == Decimal[n]
           l1 == Len(s)
           l2 == Len(t)
           x == Joined(p, s, t)
<1>1. s \in Seq(Digit) /\ t \in Seq(Digit)
    BY DecimalType
<1> HIDE DEF s, t
<1>2. l1 \in Nat /\ l2 \in Nat /\ k \in Nat
    BY <1>1
<1>3. x \in Seq(Char) /\ Joins(x, p, s, t, k, l1, l2)
    BY <1>1, <1>2, JoinedFacts, Zenon
<1> HIDE DEF x, l1, l2
<1>4. x # << >>
    <2>1. Len(x) # 0
        BY <1>2, <1>3 DEF Joins
    <2> QED BY <2>1
<1>5. x[1] = p[1]
    BY <1>3 DEF Joins
<1> QED BY <1>3, <1>4, <1>5 DEF Name, x, s, t

Letters == /\ <<66, 66>> \in Seq(Char) /\ Len(<<66, 66>>) = 2 /\ <<66, 66>>[1] = 66
           /\ <<74, 84, 73>> \in Seq(Char) /\ Len(<<74, 84, 73>>) = 3 /\ <<74, 84, 73>>[1] = 74

LEMMA LettersAre == Letters
BY DEF Char, Letters

Prefix == <<95, 95, 117, 110, 110, 97, 109, 101, 100, 95>>

LEMMA PrefixFacts == Prefix \in Seq(Char) /\ Len(Prefix) = 10 /\ Prefix[1] = 95
BY DEF Prefix, Char

LEMMA UnnamedNameFacts ==
    ASSUME NEW id \in Nat
    PROVE  UnnamedName(id) \in Name /\ UnnamedName(id)[1] = 95
<1> DEFINE d == Decimal[id]
           x == Prefix \o d
           l == Len(d)
<1>1. d \in Seq(Digit) /\ Digit \subseteq Char
    BY DecimalType DEF Digit, Char
<1> HIDE DEF d
<1>2. d \in Seq(Char)
    BY <1>1, SeqMonotonic
<1> DEFINE k == 10
<1>3. l \in Nat /\ k \in Nat /\ Len(Prefix) = k /\ Len(d) = l /\ k > 0
    BY <1>2, PrefixFacts
<1> HIDE DEF l, k
<1>4. x \in Seq(Char) /\ Concat(x, Prefix, d, k, l)
    <2>1. Prefix \in Seq(Char) /\ k \in Nat /\ l \in Nat /\ Len(Prefix) = k /\ Len(d) = l
        BY <1>3, PrefixFacts
    <2> QED BY <1>2, <2>1, Concatenates
<1> HIDE DEF x
<1>5. Len(x) # 0 /\ x[1] = 95
    BY <1>3, <1>4, PrefixFacts DEF Concat
<1>6. x # << >>
    BY <1>5
<1>7. UnnamedName(id) = x
    BY Zenon DEF UnnamedName, x, d, Prefix
<1> QED BY <1>4, <1>5, <1>6, <1>7 DEF Name

LEMMA UnnamedNameInjective ==
    ASSUME NEW a \in Nat, NEW b \in Nat, UnnamedName(a) = UnnamedName(b)
    PROVE  a = b
<1> DEFINE s == Decimal[a]
           t == Decimal[b]
<1>1. s \in Seq(Char) /\ t \in Seq(Char)
    <2>1. s \in Seq(Digit) /\ t \in Seq(Digit) /\ Digit \subseteq Char
        BY DecimalType DEF Digit, Char
    <2> QED BY <2>1, SeqMonotonic
<1>2. Prefix \o s = Prefix \o t
    BY Zenon DEF UnnamedName, Prefix
<1>3. s = t
    <2> HIDE DEF s, t
    <2>1. \A S : \A p, u, v \in Seq(S) : p \o u = p \o v => u = v
        BY ConcatSimplifications, Zenon
    <2> QED BY <1>1, <1>2, <2>1, PrefixFacts, Zenon
<1> QED BY <1>3, DecimalInjective

\* What names an entity of each kind, and its first character.
LEMMA InventedFacts ==
    /\ \A e \in Unnamed : /\ e = [kind |-> "unnamed", id |-> e.id] /\ e.id \in Nat
                          /\ SymbolName(e) = UnnamedName(e.id)
                          /\ SymbolName(e) \in Name /\ SymbolName(e)[1] = 95
    /\ \A e \in Block : /\ e = [kind |-> "block", at |-> e.at] /\ e.at \in Nat \X Nat
                        /\ SymbolName(e) = Joined(<<66, 66>>, Decimal[e.at[1]], Decimal[e.at[2]])
                        /\ SymbolName(e) \in Name /\ SymbolName(e)[1] = 66
    /\ \A e \in JumpTable :
         /\ e = [kind |-> "table", at |-> e.at] /\ e.at \in Nat \X Nat
         /\ SymbolName(e) = Joined(<<74, 84, 73>>, Decimal[e.at[1]], Decimal[e.at[2]])
         /\ SymbolName(e) \in Name /\ SymbolName(e)[1] = 74
<1>1. ASSUME NEW e \in Unnamed
      PROVE  /\ e = [kind |-> "unnamed", id |-> e.id] /\ e.id \in Nat
             /\ SymbolName(e) = UnnamedName(e.id)
             /\ SymbolName(e) \in Name /\ SymbolName(e)[1] = 95
    <2>1. e = [kind |-> "unnamed", id |-> e.id] /\ e.kind = "unnamed" /\ e.id \in Nat
        BY NamesAssumption DEF Unnamed
    <2>2. SymbolName(e) = UnnamedName(e.id)
        BY <2>1 DEF SymbolName
    <2> QED BY <2>1, <2>2, UnnamedNameFacts
<1>2. ASSUME NEW e \in Block
      PROVE  /\ e = [kind |-> "block", at |-> e.at] /\ e.at \in Nat \X Nat
             /\ SymbolName(e) = Joined(<<66, 66>>, Decimal[e.at[1]], Decimal[e.at[2]])
             /\ SymbolName(e) \in Name /\ SymbolName(e)[1] = 66
    <2>1. e = [kind |-> "block", at |-> e.at] /\ e.kind = "block" /\ e.at \in Nat \X Nat
        BY NamesAssumption DEF Block
    <2>2. SymbolName(e) = BlockName(e.at)
        BY <2>1 DEF SymbolName
    <2>3. e.at[1] \in Nat /\ e.at[2] \in Nat
        BY <2>1
    <2> DEFINE p == <<66, 66>>
               x == Joined(p, Decimal[e.at[1]], Decimal[e.at[2]])
    <2>4. p \in Seq(Char) /\ Len(p) = 2 /\ 2 \in Nat \ {0} /\ p[1] = 66
        BY LettersAre DEF Letters
    <2>5. BlockName(e.at) = x
        BY <2>1, BlockNameJoins
    <2> HIDE DEF p
    <2>6. x \in Name /\ x[1] = p[1]
        BY <2>3, <2>4, JoinedNames
    <2> HIDE DEF x
    <2>7. SymbolName(e) = x /\ x \in Name /\ x[1] = 66
        BY <2>2, <2>4, <2>5, <2>6
    <2> QED BY <2>1, <2>7 DEF x, p
<1>3. ASSUME NEW e \in JumpTable
      PROVE  /\ e = [kind |-> "table", at |-> e.at] /\ e.at \in Nat \X Nat
             /\ SymbolName(e) = Joined(<<74, 84, 73>>, Decimal[e.at[1]], Decimal[e.at[2]])
             /\ SymbolName(e) \in Name /\ SymbolName(e)[1] = 74
    <2>1. e = [kind |-> "table", at |-> e.at] /\ e.kind = "table" /\ e.at \in Nat \X Nat
        BY NamesAssumption DEF JumpTable
    <2>2. SymbolName(e) = TableName(e.at)
        BY <2>1 DEF SymbolName
    <2>3. e.at[1] \in Nat /\ e.at[2] \in Nat
        BY <2>1
    <2> DEFINE p == <<74, 84, 73>>
               x == Joined(p, Decimal[e.at[1]], Decimal[e.at[2]])
    <2>4. p \in Seq(Char) /\ Len(p) = 3 /\ 3 \in Nat \ {0} /\ p[1] = 74
        BY LettersAre DEF Letters
    <2>5. TableName(e.at) = x
        BY <2>1, TableNameJoins
    <2> HIDE DEF p
    <2>6. x \in Name /\ x[1] = p[1]
        BY <2>3, <2>4, JoinedNames
    <2> HIDE DEF x
    <2>7. SymbolName(e) = x /\ x \in Name /\ x[1] = 74
        BY <2>2, <2>4, <2>5, <2>6
    <2> QED BY <2>1, <2>7 DEF x, p
<1> QED BY <1>1, <1>2, <1>3, Zenon

LEMMA SymbolNameIsName ==
    ASSUME NEW e \in Entity
    PROVE  SymbolName(e) \in Name
<1>1. CASE e \in Global
    BY <1>1, NamesAssumption DEF Global, SymbolName, Name, Char
<1>2. CASE e \in Generated
    BY <1>2, InventedFacts, Zenon DEF Generated
<1> QED BY <1>1, <1>2 DEF Entity

LEMMA PairsEqual ==
    ASSUME NEW a \in Nat \X Nat, NEW b \in Nat \X Nat, a[1] = b[1], a[2] = b[2]
    PROVE  a = b
OBVIOUS

\* Two pairs of numbers joined alike are the same pair.
LEMMA JoinedPairs ==
    ASSUME NEW p \in Seq(Char), NEW a \in Nat \X Nat, NEW b \in Nat \X Nat,
           Joined(p, Decimal[a[1]], Decimal[a[2]]) = Joined(p, Decimal[b[1]], Decimal[b[2]])
    PROVE  a = b
<1>1. a[1] \in Nat /\ a[2] \in Nat /\ b[1] \in Nat /\ b[2] \in Nat
    OBVIOUS
<1>2. /\ Decimal[a[1]] \in Seq(Digit) /\ Decimal[a[2]] \in Seq(Digit)
      /\ Decimal[b[1]] \in Seq(Digit) /\ Decimal[b[2]] \in Seq(Digit)
    BY <1>1, DecimalType
<1>3. Decimal[a[1]] = Decimal[b[1]] /\ Decimal[a[2]] = Decimal[b[2]]
    <2> DEFINE s1 == Decimal[a[1]]
               t1 == Decimal[a[2]]
               s2 == Decimal[b[1]]
               t2 == Decimal[b[2]]
    <2>1. /\ s1 \in Seq(Digit) /\ t1 \in Seq(Digit) /\ s2 \in Seq(Digit) /\ t2 \in Seq(Digit)
          /\ Joined(p, s1, t1) = Joined(p, s2, t2)
        BY <1>2
    <2> HIDE DEF s1, t1, s2, t2
    <2>2. s1 = s2 /\ t1 = t2
        BY <2>1, JoinedOnce
    <2> QED BY <2>2 DEF s1, t1, s2, t2
<1>4. a[1] = b[1] /\ a[2] = b[2]
    BY <1>1, <1>3, DecimalInjective, Zenon
<1> QED BY <1>4, PairsEqual

\* The compiler never invents one name twice.
LEMMA InventedOnce ==
    ASSUME NEW e \in Generated, NEW f \in Generated, SymbolName(e) = SymbolName(f)
    PROVE  e = f
<1>1. <<66, 66>> \in Seq(Char) /\ <<74, 84, 73>> \in Seq(Char)
    BY LettersAre DEF Letters
<1> DEFINE p == <<66, 66>>
           q == <<74, 84, 73>>
<1> HIDE DEF p, q
<1>2. /\ e \in Unnamed => SymbolName(e)[1] = 95
      /\ e \in Block => SymbolName(e)[1] = 66
      /\ e \in JumpTable => SymbolName(e)[1] = 74
      /\ f \in Unnamed => SymbolName(f)[1] = 95
      /\ f \in Block => SymbolName(f)[1] = 66
      /\ f \in JumpTable => SymbolName(f)[1] = 74
    BY InventedFacts, ZenonT(60)
<1>3. CASE e \in Unnamed /\ f \in Unnamed
    <2>1. /\ e = [kind |-> "unnamed", id |-> e.id] /\ e.id \in Nat
          /\ SymbolName(e) = UnnamedName(e.id)
          /\ f = [kind |-> "unnamed", id |-> f.id] /\ f.id \in Nat
          /\ SymbolName(f) = UnnamedName(f.id)
        BY <1>3, InventedFacts, Zenon
    <2>2. e.id = f.id
        BY <2>1, UnnamedNameInjective, Zenon
    <2> QED BY <2>1, <2>2, Zenon
<1>4. CASE e \in Block /\ f \in Block
    <2>1. /\ e = [kind |-> "block", at |-> e.at] /\ e.at \in Nat \X Nat
          /\ SymbolName(e) = Joined(p, Decimal[e.at[1]], Decimal[e.at[2]])
          /\ f = [kind |-> "block", at |-> f.at] /\ f.at \in Nat \X Nat
          /\ SymbolName(f) = Joined(p, Decimal[f.at[1]], Decimal[f.at[2]])
        BY <1>4, InventedFacts, Zenon DEF p
    <2>2. e.at = f.at
        BY <1>1, <2>1, JoinedPairs, ZenonT(60) DEF p
    <2> QED BY <2>1, <2>2, Zenon
<1>5. CASE e \in JumpTable /\ f \in JumpTable
    <2>1. /\ e = [kind |-> "table", at |-> e.at] /\ e.at \in Nat \X Nat
          /\ SymbolName(e) = Joined(q, Decimal[e.at[1]], Decimal[e.at[2]])
          /\ f = [kind |-> "table", at |-> f.at] /\ f.at \in Nat \X Nat
          /\ SymbolName(f) = Joined(q, Decimal[f.at[1]], Decimal[f.at[2]])
        BY <1>5, InventedFacts, Zenon DEF q
    <2>2. e.at = f.at
        BY <1>1, <2>1, JoinedPairs, ZenonT(60) DEF q
    <2> QED BY <2>1, <2>2, Zenon
<1> QED BY <1>2, <1>3, <1>4, <1>5 DEF Generated

-----------------------------------------------------------------------------
(* The quotation of a name: a code no word of which is the beginning of     *)
(* another, so that a quoted name can be read in one way only.              *)

Acceptable == {c \in Char : isAcceptableChar(c)}

\* What the code of c is: one character, or an apostrophe and what tells c.
IsCode(c, w) ==
    \/ w = <<c>> /\ c # Quote /\ c \in Acceptable
    \/ w = <<Quote, Quote>> /\ c = Quote
    \/ w = <<Quote, c + 32>> /\ c \in Upper /\ c + 32 \in Lower \ {120}
    \/ /\ w = <<Quote, 120, hexdigit(c \div 16), hexdigit(c % 16)>>
       /\ hexdigit(c \div 16) \in Acceptable /\ hexdigit(c % 16) \in Acceptable

LEMMA DivisionBy16 ==
    ASSUME NEW c \in Char
    PROVE  c \div 16 \in 0 .. 15 /\ c % 16 \in 0 .. 15 /\ c = 16 * (c \div 16) + (c % 16)
<1> DEFINE d == c \div 16
           r == c % 16
<1>1. d \in Int /\ r \in 0 .. 16 - 1 /\ c = 16 * d + r /\ c \in 0 .. 255
    <2>1. 16 \in Nat \ {0} /\ c \in Int /\ c \in 0 .. 255
        BY DEF Char
    <2> QED BY <2>1, DivisionBy
<1> HIDE DEF d, r
<1>2. d \in 0 .. 15 /\ r \in 0 .. 15 /\ c = 16 * d + r
    BY <1>1
<1> QED BY <1>2, Zenon DEF d, r

LEMMA HexDigits ==
    /\ \A x \in 0 .. 15 : hexdigit(x) \in Acceptable
    /\ \A x, y \in 0 .. 15 : hexdigit(x) = hexdigit(y) => x = y
BY DEF hexdigit, Acceptable, isAcceptableChar, Char, Lower, Digit

LEMMA QuotedIsCode ==
    ASSUME NEW c \in Char
    PROVE  IsCode(c, Quoted(c))
<1>1. CASE c = Quote
    <2>1. Quoted(c) = <<Quote, Quote>>
        <3>1. ~ (c \in Upper)
            BY <1>1 DEF Upper, Quote
        <3> QED BY <1>1, <3>1, Zenon DEF Quoted
    <2> QED BY <1>1, <2>1 DEF IsCode
<1>2. CASE c # Quote /\ isAcceptableChar(c)
    <2>1. Quoted(c) = <<c>>
        BY <1>2 DEF Quoted
    <2> QED BY <1>2, <2>1 DEF IsCode, Acceptable
<1>3. CASE c # Quote /\ c \in Upper /\ ~ isAcceptableChar(c)
    <2>1. Quoted(c) = <<Quote, c + 32>>
        BY <1>3 DEF Quoted
    <2>2. c + 32 \in Lower \ {120}
        BY <1>3 DEF Upper, Lower, isAcceptableChar
    <2> QED BY <1>3, <2>1, <2>2 DEF IsCode
<1>4. CASE c # Quote /\ ~ (c \in Upper) /\ ~ isAcceptableChar(c)
    <2>1. Quoted(c) = <<Quote, 120, hexdigit(c \div 16), hexdigit(c % 16)>>
        BY <1>4 DEF Quoted
    <2>2. hexdigit(c \div 16) \in Acceptable /\ hexdigit(c % 16) \in Acceptable
        BY DivisionBy16, HexDigits
    <2> QED BY <2>1, <2>2 DEF IsCode
<1> QED BY <1>1, <1>2, <1>3, <1>4

LEMMA AcceptableFacts ==
    /\ Quote \in Acceptable /\ 120 \in Acceptable /\ Lower \subseteq Acceptable
    /\ Digit \subseteq Acceptable /\ Acceptable \subseteq Char
BY DEF Acceptable, isAcceptableChar, Quote, Lower, Digit, Char

LEMMA QuotedType ==
    ASSUME NEW c \in Char
    PROVE  Quoted(c) \in Seq(Acceptable) /\ Quoted(c) # << >>
<1> DEFINE w == Quoted(c)
<1>1. IsCode(c, w)
    BY QuotedIsCode
<1> SUFFICES w \in Seq(Acceptable) /\ w # << >>
    OBVIOUS
<1> HIDE DEF w
<1>2. CASE w = <<c>> /\ c # Quote /\ c \in Acceptable
    BY <1>2
<1>3. CASE w = <<Quote, Quote>> /\ c = Quote
    BY <1>3, AcceptableFacts
<1>4. CASE w = <<Quote, c + 32>> /\ c \in Upper /\ c + 32 \in Lower \ {120}
    BY <1>4, AcceptableFacts
<1>5. CASE /\ w = <<Quote, 120, hexdigit(c \div 16), hexdigit(c % 16)>>
           /\ hexdigit(c \div 16) \in Acceptable /\ hexdigit(c % 16) \in Acceptable
    BY <1>5, AcceptableFacts
<1> QED BY <1>1, <1>2, <1>3, <1>4, <1>5 DEF IsCode

\* u begins with the code of c.
Reads(u, c) ==
    \/ u[1] # Quote /\ c = u[1]
    \/ u[1] = Quote /\ u[2] = Quote /\ c = Quote
    \/ u[1] = Quote /\ u[2] = c + 32 /\ u[2] \in Lower \ {120}
    \/ /\ u[1] = Quote /\ u[2] = 120
       /\ u[3] = hexdigit(c \div 16) /\ u[4] = hexdigit(c % 16)

LEMMA Code1 ==
    ASSUME NEW a \in Acceptable, NEW s \in Seq(Acceptable)
    PROVE  (<<a>> \o s)[1] = a
<1> DEFINE w == <<a>>
           n == Len(s)
<1>1. w \in Seq(Acceptable) /\ Len(w) = 1 /\ w[1] = a /\ n \in Nat /\ 1 \in Nat
    OBVIOUS
<1> HIDE DEF w
<1>2. Concat(w \o s, w, s, 1, n)
    BY <1>1, Concatenates, Zenon
<1> DEFINE u == w \o s
<1> HIDE DEF u, n
<1>3. u[1] = a
    BY <1>1, <1>2 DEF Concat, u
<1> QED BY <1>3, Zenon DEF u, w

LEMMA Code2 ==
    ASSUME NEW a \in Acceptable, NEW b \in Acceptable, NEW s \in Seq(Acceptable)
    PROVE  (<<a, b>> \o s)[1] = a /\ (<<a, b>> \o s)[2] = b
<1> DEFINE w == <<a, b>>
           n == Len(s)
<1>1. w \in Seq(Acceptable) /\ Len(w) = 2 /\ w[1] = a /\ w[2] = b /\ n \in Nat /\ 2 \in Nat
    OBVIOUS
<1> HIDE DEF w
<1>2. Concat(w \o s, w, s, 2, n)
    BY <1>1, Concatenates, Zenon
<1> DEFINE u == w \o s
<1> HIDE DEF u, n
<1>3. u[1] = a /\ u[2] = b
    BY <1>1, <1>2 DEF Concat, u
<1> QED BY <1>3, Zenon DEF u, w

LEMMA Code4 ==
    ASSUME NEW a \in Acceptable, NEW b \in Acceptable, NEW c \in Acceptable,
           NEW d \in Acceptable, NEW s \in Seq(Acceptable)
    PROVE  /\ (<<a, b, c, d>> \o s)[1] = a /\ (<<a, b, c, d>> \o s)[2] = b
           /\ (<<a, b, c, d>> \o s)[3] = c /\ (<<a, b, c, d>> \o s)[4] = d
<1> DEFINE w == <<a, b, c, d>>
           n == Len(s)
<1>1. /\ w \in Seq(Acceptable) /\ Len(w) = 4 /\ n \in Nat /\ 4 \in Nat
      /\ w[1] = a /\ w[2] = b /\ w[3] = c /\ w[4] = d
    OBVIOUS
<1> HIDE DEF w
<1>2. Concat(w \o s, w, s, 4, n)
    BY <1>1, Concatenates, Zenon
<1> DEFINE u == w \o s
<1> HIDE DEF u, n
<1>3. u[1] = a /\ u[2] = b /\ u[3] = c /\ u[4] = d
    BY <1>1, <1>2 DEF Concat, u
<1> QED BY <1>3, Zenon DEF u, w

LEMMA CodeIsRead ==
    ASSUME NEW c \in Char, NEW s \in Seq(Acceptable)
    PROVE  Reads(Quoted(c) \o s, c)
<1> DEFINE w == Quoted(c)
           u == w \o s
<1>1. IsCode(c, w)
    BY QuotedIsCode
<1> SUFFICES Reads(u, c)
    OBVIOUS
<1> HIDE DEF w
<1>2. CASE w = <<c>> /\ c # Quote /\ c \in Acceptable
    <2>1. u[1] = c
        BY <1>2, Code1, Zenon
    <2> HIDE DEF u
    <2> QED BY <1>2, <2>1 DEF Reads
<1>3. CASE w = <<Quote, Quote>> /\ c = Quote
    <2>1. u[1] = Quote /\ u[2] = Quote
        BY <1>3, AcceptableFacts, Code2, Zenon
    <2> HIDE DEF u
    <2> QED BY <1>3, <2>1 DEF Reads
<1>4. CASE w = <<Quote, c + 32>> /\ c \in Upper /\ c + 32 \in Lower \ {120}
    <2> DEFINE d == c + 32
    <2>1. d \in Acceptable /\ Quote \in Acceptable /\ w = <<Quote, d>> /\ d \in Lower \ {120}
        BY <1>4, AcceptableFacts
    <2> HIDE DEF d
    <2>2. u[1] = Quote /\ u[2] = d
        <3>1. (<<Quote, d>> \o s)[1] = Quote /\ (<<Quote, d>> \o s)[2] = d
            BY <2>1, Code2
        <3> QED BY <2>1, <3>1, Zenon
    <2> HIDE DEF u
    <2> QED BY <2>1, <2>2 DEF Reads, d
<1>5. CASE /\ w = <<Quote, 120, hexdigit(c \div 16), hexdigit(c % 16)>>
           /\ hexdigit(c \div 16) \in Acceptable /\ hexdigit(c % 16) \in Acceptable
    <2> DEFINE x == 120
               h == hexdigit(c \div 16)
               l == hexdigit(c % 16)
    <2>1. /\ w = <<Quote, x, h, l>> /\ h \in Acceptable /\ l \in Acceptable
          /\ Quote \in Acceptable /\ x \in Acceptable
        BY <1>5, AcceptableFacts
    <2> HIDE DEF x, h, l
    <2>2. u[1] = Quote /\ u[2] = x /\ u[3] = h /\ u[4] = l
        <3> DEFINE v == <<Quote, x, h, l>> \o s
        <3>1. v[1] = Quote /\ v[2] = x /\ v[3] = h /\ v[4] = l
            BY <2>1, Code4
        <3> QED BY <2>1, <3>1, Zenon
    <2> HIDE DEF u
    <2> QED BY <2>2, Zenon DEF Reads, x, h, l
<1> HIDE DEF u
<1> QED BY <1>1, <1>2, <1>3, <1>4, <1>5 DEF IsCode

LEMMA ReadOnce ==
    ASSUME NEW u, NEW c \in Char, NEW d \in Char, Reads(u, c), Reads(u, d)
    PROVE  c = d
<1>1. CASE u[1] # Quote
    BY <1>1 DEF Reads
<1>2. CASE u[1] = Quote /\ u[2] = 120
    <2>1. 120 # Quote /\ 120 \notin Lower \ {120}
        BY DEF Quote
    <2>2. /\ u[3] = hexdigit(c \div 16) /\ u[4] = hexdigit(c % 16)
          /\ u[3] = hexdigit(d \div 16) /\ u[4] = hexdigit(d % 16)
        BY <1>2, <2>1, Zenon DEF Reads
    <2>3. c \div 16 \in 0 .. 15 /\ c % 16 \in 0 .. 15 /\ c = 16 * (c \div 16) + (c % 16)
        BY DivisionBy16
    <2>4. d \div 16 \in 0 .. 15 /\ d % 16 \in 0 .. 15 /\ d = 16 * (d \div 16) + (d % 16)
        BY DivisionBy16
    <2>5. c \div 16 = d \div 16 /\ c % 16 = d % 16
        BY <2>2, <2>3, <2>4, HexDigits, Zenon
    <2> QED BY <2>3, <2>4, <2>5, Zenon
<1>3. CASE u[1] = Quote /\ u[2] # 120
    <2>1. Quote \notin Lower
        BY DEF Quote, Lower
    <2>2. \/ u[2] = Quote /\ c = Quote /\ d = Quote
          \/ u[2] = c + 32 /\ u[2] = d + 32
        BY <1>3, <2>1, Zenon DEF Reads
    <2>3. c \in Int /\ d \in Int
        BY DEF Char
    <2> QED BY <2>2, <2>3
<1> QED BY <1>1, <1>2, <1>3

LEMMA CancelLeft ==
    ASSUME NEW S, NEW p \in Seq(S), NEW s \in Seq(S), NEW t \in Seq(S), p \o s = p \o t
    PROVE  s = t
<1>1. \A R : \A q, u, v \in Seq(R) : q \o u = q \o v => u = v
    BY ConcatSimplifications, Zenon
<1> QED BY <1>1, Zenon

\* What begins with a code says which one, and goes on in one way.
LEMMA CodeOnce ==
    ASSUME NEW c \in Char, NEW d \in Char, NEW s \in Seq(Acceptable), NEW t \in Seq(Acceptable),
           Quoted(c) \o s = Quoted(d) \o t
    PROVE  c = d /\ s = t
<1>1. Reads(Quoted(c) \o s, c) /\ Reads(Quoted(d) \o t, d)
    BY CodeIsRead
<1> DEFINE u == Quoted(c) \o s
<1>2. Reads(u, c) /\ Reads(u, d)
    BY <1>1, Zenon
<1> HIDE DEF u
<1>3. c = d
    BY <1>2, ReadOnce
<1>4. Quoted(c) \o s = Quoted(c) \o t
    BY <1>3, Zenon
<1>5. Quoted(c) \in Seq(Acceptable)
    BY QuotedType
<1>6. s = t
    BY <1>4, <1>5, CancelLeft, Zenon
<1> QED BY <1>3, <1>6

Codes(name) == [i \in DOMAIN name |-> Quoted(name[i])]
Coded(name) == FlattenSeq(Codes(name))

LEMMA CodesType ==
    ASSUME NEW s \in Seq(Char)
    PROVE  /\ Codes(s) \in Seq(Seq(Acceptable)) /\ Len(Codes(s)) = Len(s)
           /\ \A i \in 1 .. Len(s) : Codes(s)[i] = Quoted(s[i])
<1>1. Len(s) \in Nat /\ DOMAIN s = 1 .. Len(s) /\ \A i \in 1 .. Len(s) : s[i] \in Char
    OBVIOUS
<1>2. \A i \in 1 .. Len(s) : Quoted(s[i]) \in Seq(Acceptable)
    BY <1>1, QuotedType
<1>3. Codes(s) = [i \in 1 .. Len(s) |-> Quoted(s[i])]
    BY <1>1, Zenon DEF Codes
<1> DEFINE n == Len(s)
           Q(i) == Quoted(s[i])
           m == [i \in 1 .. n |-> Q(i)]
<1> HIDE DEF Q
<1>4. n \in Nat /\ \A i \in 1 .. n : Q(i) \in Seq(Acceptable)
    BY <1>1, <1>2 DEF Q
<1> HIDE DEF n
<1>5. m \in Seq(Seq(Acceptable)) /\ Len(m) = n /\ \A i \in 1 .. n : m[i] = Q(i)
    BY <1>4
<1>6. Codes(s) = m
    BY <1>3, Zenon DEF n, Q
<1> HIDE DEF m
<1> QED BY <1>5, <1>6, Zenon DEF n, Q

LEMMA CodedEmpty == Coded(<< >>) = << >>
<1>1. Codes(<< >>) = << >>
    BY DEF Codes
<1> QED BY <1>1, FlattenSeqEmpty DEF Coded

LEMMA CodedType ==
    ASSUME NEW s \in Seq(Char)
    PROVE  Coded(s) \in Seq(Acceptable)
BY CodesType, FlattenSeqType, Zenon DEF Coded

LEMMA CodedHeadTail ==
    ASSUME NEW s \in Seq(Char), s # << >>
    PROVE  /\ s[1] \in Char /\ Tail(s) \in Seq(Char)
           /\ Coded(s) = Quoted(s[1]) \o Coded(Tail(s))
<1> DEFINE t == Tail(s)
           n == Len(t)
           h == <<Quoted(s[1])>>
           ct == Codes(t)
           x == h \o ct
           cs == Codes(s)
<1>1. /\ t \in Seq(Char) /\ n \in Nat /\ Len(s) = 1 + n /\ s[1] \in Char
      /\ \A i \in 1 .. n : t[i] = s[i + 1]
    BY HeadTailProperties
<1> HIDE DEF t, n
<1>2. Len(t) = n
    BY DEF n
<1>3. ct \in Seq(Seq(Acceptable)) /\ Len(ct) = n /\ \A i \in 1 .. n : ct[i] = Quoted(t[i])
    BY <1>1, <1>2, CodesType
<1>4. cs \in Seq(Seq(Acceptable)) /\ Len(cs) = 1 + n /\ \A i \in 1 .. 1 + n : cs[i] = Quoted(s[i])
    BY <1>1, CodesType
<1>5. Quoted(s[1]) \in Seq(Acceptable)
    BY <1>1, QuotedType
<1>6. h \in Seq(Seq(Acceptable)) /\ Len(h) = 1 /\ h[1] = Quoted(s[1]) /\ 1 \in Nat
    BY <1>5
<1> HIDE DEF h, ct, cs
<1>7. x \in Seq(Seq(Acceptable)) /\ Concat(x, h, ct, 1, n)
    BY <1>1, <1>3, <1>6, Concatenates, Zenon
<1>8. FlattenSeq(x) = FlattenSeq(h) \o FlattenSeq(ct)
    BY <1>3, <1>6, FlattenSeqConcat, Zenon
<1>9. FlattenSeq(h) = Quoted(s[1])
    BY <1>5, FlattenSeqOne, Zenon DEF h
<1> HIDE DEF x
<1>10. cs = x
    <2>1. ASSUME NEW i \in 1 .. 1 + n PROVE cs[i] = x[i]
        <3>1. CASE i = 1
            BY <3>1, <1>1, <1>4, <1>6, <1>7 DEF Concat
        <3>2. CASE i # 1
            <4>1. i - 1 \in 1 .. n /\ (i - 1) + 1 = i /\ ~ (i <= 1)
                BY <3>2, <1>1
            <4>2. x[i] = ct[i - 1]
                BY <4>1, <1>7 DEF Concat
            <4>3. ct[i - 1] = Quoted(s[i])
                BY <4>1, <1>1, <1>3
            <4> QED BY <4>2, <4>3, <1>4
        <3> QED BY <3>1, <3>2
    <2>2. Len(cs) = 1 + n /\ Len(x) = 1 + n
        BY <1>4, <1>7 DEF Concat
    <2> QED BY <1>4, <1>7, <2>1, <2>2, SeqEqual
<1>11. Coded(s) = Quoted(s[1]) \o Coded(t)
    BY <1>8, <1>9, <1>10, Zenon DEF Coded, cs, ct
<1> QED BY <1>1, <1>11, Zenon DEF t

LEMMA ConcatNotEmpty ==
    ASSUME NEW S, NEW s \in Seq(S), NEW t \in Seq(S), s # << >>
    PROVE  s \o t # << >>
<1>1. \A R : \A u, v \in Seq(R) : u \o v = << >> => u = << >> /\ v = << >>
    BY ConcatSimplifications, Zenon
<1> QED BY <1>1, Zenon

LEMMA CodedNotEmpty ==
    ASSUME NEW s \in Seq(Char), s # << >>
    PROVE  Coded(s) # << >>
<1>1. s[1] \in Char /\ Tail(s) \in Seq(Char) /\ Coded(s) = Quoted(s[1]) \o Coded(Tail(s))
    BY CodedHeadTail
<1>2. Quoted(s[1]) \in Seq(Acceptable) /\ Quoted(s[1]) # << >> /\ Coded(Tail(s)) \in Seq(Acceptable)
    BY <1>1, QuotedType, CodedType
<1>3. Quoted(s[1]) \o Coded(Tail(s)) # << >>
    BY <1>2, ConcatNotEmpty, Zenon
<1> QED BY <1>1, <1>3, Zenon

LEMMA HeadTailEqual ==
    ASSUME NEW s \in Seq(Char), NEW t \in Seq(Char), s # << >>, t # << >>,
           s[1] = t[1], Tail(s) = Tail(t)
    PROVE  s = t
<1> DEFINE m == Len(s)
           n == Len(t)
           u == Tail(s)
           v == Tail(t)
<1>1. /\ m \in Nat /\ n \in Nat /\ Len(u) = m - 1 /\ Len(v) = n - 1
      /\ \A i \in 1 .. m - 1 : u[i] = s[i + 1]
      /\ \A i \in 1 .. n - 1 : v[i] = t[i + 1]
    BY HeadTailProperties
<1>2. u = v
    OBVIOUS
<1> HIDE DEF m, n, u, v
<1>3. m = n
    BY <1>1, <1>2
<1>4. ASSUME NEW i \in 1 .. m PROVE s[i] = t[i]
    <2>1. CASE i = 1
        BY <2>1
    <2>2. CASE i # 1
        <3>1. i - 1 \in 1 .. m - 1 /\ (i - 1) + 1 = i
            BY <2>2, <1>1
        <3> QED BY <3>1, <1>1, <1>2, <1>3
    <2> QED BY <2>1, <2>2
<1> QED BY <1>3, <1>4, SeqEqual DEF m, n

\* Different names have different quotations.
LEMMA CodedOnce ==
    ASSUME NEW a \in Seq(Char), NEW b \in Seq(Char), Coded(a) = Coded(b)
    PROVE  a = b
<1> DEFINE T == {n \in Nat : \A s, t \in Seq(Char) : Len(s) = n /\ Coded(s) = Coded(t) => s = t}
<1>1. 0 \in T
    <2> SUFFICES ASSUME NEW s \in Seq(Char), NEW t \in Seq(Char), Len(s) = 0, Coded(s) = Coded(t)
                 PROVE  s = t
        OBVIOUS
    <2>1. s = << >>
        OBVIOUS
    <2>2. Coded(t) = << >>
        BY <2>1, CodedEmpty, Zenon
    <2> QED BY <2>1, <2>2, CodedNotEmpty, Zenon
<1>2. ASSUME NEW n \in Nat, n \in T PROVE n + 1 \in T
    <2> SUFFICES ASSUME NEW s \in Seq(Char), NEW t \in Seq(Char), Len(s) = n + 1, Coded(s) = Coded(t)
                 PROVE  s = t
        OBVIOUS
    <2>1. s # << >>
        OBVIOUS
    <2>2. t # << >>
        BY <2>1, CodedEmpty, CodedNotEmpty, Zenon
    <2>3. s[1] \in Char /\ Tail(s) \in Seq(Char) /\ Coded(s) = Quoted(s[1]) \o Coded(Tail(s))
        BY <2>1, CodedHeadTail, Zenon
    <2>4. t[1] \in Char /\ Tail(t) \in Seq(Char) /\ Coded(t) = Quoted(t[1]) \o Coded(Tail(t))
        BY <2>2, CodedHeadTail, Zenon
    <2>5. Coded(Tail(s)) \in Seq(Acceptable) /\ Coded(Tail(t)) \in Seq(Acceptable)
        BY <2>3, <2>4, CodedType, Zenon
    <2>6. Quoted(s[1]) \o Coded(Tail(s)) = Quoted(t[1]) \o Coded(Tail(t))
        BY <2>3, <2>4, Zenon
    <2>7. s[1] = t[1] /\ Coded(Tail(s)) = Coded(Tail(t))
        <3> DEFINE x == Coded(Tail(s))
                   y == Coded(Tail(t))
        <3>1. x \in Seq(Acceptable) /\ y \in Seq(Acceptable) /\ Quoted(s[1]) \o x = Quoted(t[1]) \o y
            BY <2>5, <2>6, Zenon
        <3> HIDE DEF x, y
        <3>2. s[1] \in Char /\ t[1] \in Char
            BY <2>3, <2>4, Zenon
        <3> DEFINE c == s[1]
                   d == t[1]
        <3>3. c \in Char /\ d \in Char /\ Quoted(c) \o x = Quoted(d) \o y
            BY <3>1, <3>2
        <3> HIDE DEF c, d
        <3>4. c = d
            BY <3>1, <3>3, CodeOnce, ZenonT(60)
        <3>5. x = y
            BY <3>1, <3>3, CodeOnce, ZenonT(60)
        <3> QED BY <3>4, <3>5, Zenon DEF x, y, c, d
    <2>8. Len(Tail(s)) = n
        BY <2>1, HeadTailProperties
    <2>9. Tail(s) = Tail(t)
        BY <1>2, <2>3, <2>4, <2>7, <2>8, Zenon
    <2> QED BY <2>1, <2>2, <2>7, <2>9, HeadTailEqual, Zenon
<1> HIDE DEF T
<1>3. Nat \subseteq T
    BY <1>1, <1>2, SetInduction
<1>4. Len(a) \in T
    BY <1>3
<1> QED BY <1>4, Zenon DEF T

-----------------------------------------------------------------------------
(* The text of an operand.                                                  *)

Reserved == {RegName(r) : r \in 0 .. 7} \cup {XX}

LEMMA QuotedNameFacts ==
    ASSUME NEW name \in Name
    PROVE  /\ printQuotedName(name) = <<Quote>> \o Coded(name)
           /\ printQuotedName(name) \in Seq(Acceptable)
           /\ printQuotedName(name) # << >>
           /\ printQuotedName(name)[1] = Quote
<1> DEFINE q == <<Quote>>
           t == Coded(name)
           x == q \o t
<1>1. printQuotedName(name) = x
    BY Zenon DEF printQuotedName, Coded, Codes
<1>2. t \in Seq(Acceptable)
    BY CodedType DEF Name
<1> HIDE DEF t
<1>3. q \in Seq(Acceptable) /\ q # << >> /\ Quote \in Acceptable
    BY AcceptableFacts
<1>4. x[1] = Quote
    BY <1>2, <1>3, Code1
<1> HIDE DEF q
<1>5. x \in Seq(Acceptable)
    BY <1>2, <1>3, ConcatProperties
<1>6. x # << >>
    BY <1>2, <1>3, ConcatNotEmpty, Zenon
<1> HIDE DEF x
<1> QED BY <1>1, <1>4, <1>5, <1>6, Zenon DEF x, q, t

LEMMA UnquotedNameFacts ==
    ASSUME NEW name \in Name, isValidUnquotedName(name)
    PROVE  name \in Seq(Acceptable) /\ name # << >> /\ name[1] # Quote /\ name \notin Reserved
<1> DEFINE n == Len(name)
<1>1. name \in Seq(Char) /\ name # << >> /\ n \in Nat
    BY DEF Name
<1>2. /\ \A i \in DOMAIN name : isAcceptableChar(name[i])
      /\ name[1] # Quote /\ name \notin Reserved
    BY Zenon DEF isValidUnquotedName, Reserved
<1>3. DOMAIN name = 1 .. n /\ \A i \in 1 .. n : name[i] \in Char
    BY <1>1
<1>4. \A i \in 1 .. n : name[i] \in Acceptable
    BY <1>2, <1>3 DEF Acceptable
<1>5. name = [i \in 1 .. n |-> name[i]]
    BY <1>1
<1>6. name \in Seq(Acceptable)
    <2> HIDE DEF n
    <2> DEFINE m == [i \in 1 .. n |-> name[i]]
    <2>1. m \in Seq(Acceptable)
        BY <1>1, <1>4
    <2> HIDE DEF m
    <2> QED BY <1>5, <2>1 DEF m
<1> QED BY <1>1, <1>2, <1>6

LEMMA ReservedFacts ==
    /\ \A t \in Reserved : t \in Seq(Acceptable) /\ t # << >> /\ t[1] # Quote
    /\ \A r \in 0 .. 7 : RegName(r) \in Reserved /\ RegName(r) # XX
    /\ \A r, s \in 0 .. 7 : RegName(r) = RegName(s) => r = s
    /\ XX \in Reserved
<1>1. ASSUME NEW r \in 0 .. 7
      PROVE  /\ RegName(r) \in Seq(Acceptable) /\ RegName(r) # << >> /\ RegName(r)[1] = 102
             /\ RegName(r)[2] = 48 + r
    <2>1. 102 \in Acceptable /\ 48 + r \in Acceptable
        BY AcceptableFacts DEF Lower, Digit
    <2> QED BY <2>1 DEF RegName
<1>2. XX \in Seq(Acceptable) /\ XX # << >> /\ XX[1] = 120
    BY AcceptableFacts DEF XX
<1>3. 102 # Quote /\ 120 # Quote
    BY DEF Quote
<1>4. \A t \in Reserved : t \in Seq(Acceptable) /\ t # << >> /\ t[1] # Quote
    <2>1. \A r \in 0 .. 7 : RegName(r) \in Seq(Acceptable) /\ RegName(r) # << >> /\ RegName(r)[1] # Quote
        BY <1>1, <1>3
    <2>2. XX \in Seq(Acceptable) /\ XX # << >> /\ XX[1] # Quote
        BY <1>2, <1>3
    <2> QED BY <2>1, <2>2, Zenon DEF Reserved
<1>5. \A r \in 0 .. 7 : RegName(r) \in Reserved /\ RegName(r) # XX
    <2>1. \A r \in 0 .. 7 : RegName(r)[1] = 102
        BY <1>1, Zenon
    <2>2. 102 # 120 /\ XX[1] = 120
        BY <1>2
    <2>3. \A r \in 0 .. 7 : RegName(r) # XX
        BY <2>1, <2>2
    <2>4. \A r \in 0 .. 7 : RegName(r) \in Reserved
        BY DEF Reserved
    <2> QED BY <2>3, <2>4
<1>6. ASSUME NEW r \in 0 .. 7, NEW s \in 0 .. 7, RegName(r) = RegName(s) PROVE r = s
    <2>1. RegName(r)[2] = 48 + r /\ RegName(s)[2] = 48 + s
        BY <1>1, Zenon
    <2>2. 48 + r = 48 + s
        BY <1>6, <2>1, Zenon
    <2> QED BY <2>2
<1> QED BY <1>4, <1>5, <1>6, Zenon DEF Reserved

\* The text of a symbol: acceptable, not empty, and not that of a register.
LEMMA SymbolText ==
    ASSUME NEW name \in Name
    PROVE  /\ printSymbol(name) \in Seq(Acceptable) /\ printSymbol(name) # << >>
           /\ printSymbol(name) \notin Reserved
<1>1. CASE isValidUnquotedName(name)
    <2>1. printSymbol(name) = name
        BY <1>1, Zenon DEF printSymbol
    <2> QED BY <1>1, <2>1, UnquotedNameFacts
<1>2. CASE ~ isValidUnquotedName(name)
    <2>1. printSymbol(name) = printQuotedName(name)
        BY <1>2, Zenon DEF printSymbol
    <2>2. /\ printQuotedName(name) \in Seq(Acceptable)
          /\ printQuotedName(name) # << >>
          /\ printQuotedName(name)[1] = Quote
        BY QuotedNameFacts, Zenon
    <2> QED BY <2>1, <2>2, ReservedFacts, Zenon
<1> QED BY <1>1, <1>2

\* No two names have one text.
LEMMA SymbolTextOnce ==
    ASSUME NEW a \in Name, NEW b \in Name, printSymbol(a) = printSymbol(b)
    PROVE  a = b
<1>1. ASSUME NEW x \in Name, NEW y \in Name, isValidUnquotedName(x), ~ isValidUnquotedName(y)
      PROVE  printSymbol(x) # printSymbol(y)
    <2>1. printSymbol(x) = x /\ printSymbol(y) = printQuotedName(y)
        BY <1>1, Zenon DEF printSymbol
    <2>2. x[1] # Quote
        BY <1>1, UnquotedNameFacts, Zenon
    <2>3. printQuotedName(y)[1] = Quote
        BY QuotedNameFacts, Zenon
    <2> QED BY <2>1, <2>2, <2>3, Zenon
<1>2. CASE isValidUnquotedName(a) /\ isValidUnquotedName(b)
    BY <1>2, Zenon DEF printSymbol
<1>3. CASE ~ isValidUnquotedName(a) /\ ~ isValidUnquotedName(b)
    <2>1. printSymbol(a) = <<Quote>> \o Coded(a) /\ printSymbol(b) = <<Quote>> \o Coded(b)
        BY <1>3, QuotedNameFacts, Zenon DEF printSymbol
    <2> DEFINE q == <<Quote>>
    <2>2. q \in Seq(Acceptable) /\ Coded(a) \in Seq(Acceptable) /\ Coded(b) \in Seq(Acceptable)
        BY AcceptableFacts, CodedType DEF Name
    <2>3. q \o Coded(a) = q \o Coded(b)
        BY <2>1, Zenon
    <2> HIDE DEF q
    <2>4. Coded(a) = Coded(b)
        BY <2>2, <2>3, CancelLeft, Zenon
    <2> QED BY <2>4, CodedOnce DEF Name
<1> QED BY <1>1, <1>2, <1>3

\* An operand, unless it is an immediate, is told by its text.
LEMMA OperandText ==
    ASSUME NEW op \in Operand
    PROVE  /\ printOperand(op) \in Seq(Acceptable) /\ printOperand(op) # << >>
           /\ op.kind # "imm" => printOperand(op) \in Reserved
<1>1. CASE op \in [kind : {"register"}, reg : {0, 1, 2, 3, 5}]
    <2>1. op.kind = "register" /\ op.reg \in 0 .. 7
        BY <1>1
    <2>2. printOperand(op) = RegName(op.reg)
        BY <2>1 DEF printOperand
    <2> QED BY <2>1, <2>2, ReservedFacts, Zenon
<1>2. CASE op \in [kind : {"xx"}]
    <2>1. op.kind = "xx"
        BY <1>2
    <2>2. printOperand(op) = XX
        BY <2>1 DEF printOperand
    <2> QED BY <2>2, ReservedFacts, Zenon
<1>3. CASE op \in [kind : {"imm"}, value : Immediates]
    <2>1. op.kind = "imm" /\ op.value \in Nat
        BY <1>3, NamesAssumption
    <2>2. printOperand(op) = Decimal[op.value]
        BY <2>1 DEF printOperand
    <2>3. Decimal[op.value] \in Seq(Digit) /\ Decimal[op.value] # << >>
        BY <2>1, DecimalType
    <2>4. Decimal[op.value] \in Seq(Acceptable)
        BY <2>3, AcceptableFacts, SeqMonotonic
    <2> QED BY <2>1, <2>2, <2>3, <2>4
<1> QED BY <1>1, <1>2, <1>3 DEF Operand

LEMMA OperandTextOnce ==
    ASSUME NEW a \in Operand, NEW b \in Operand, a.kind # "imm", b.kind # "imm",
           printOperand(a) = printOperand(b)
    PROVE  a = b
<1>1. ASSUME NEW op \in Operand, op.kind # "imm"
      PROVE  \/ /\ op = [kind |-> "register", reg |-> op.reg] /\ op.reg \in 0 .. 7
                /\ printOperand(op) = RegName(op.reg)
             \/ op = [kind |-> "xx"] /\ printOperand(op) = XX
    <2>1. CASE op \in [kind : {"register"}, reg : {0, 1, 2, 3, 5}]
        <3>1. op = [kind |-> "register", reg |-> op.reg] /\ op.kind = "register" /\ op.reg \in 0 .. 7
            BY <2>1
        <3> QED BY <3>1 DEF printOperand
    <2>2. CASE op \in [kind : {"xx"}]
        <3>1. op = [kind |-> "xx"] /\ op.kind = "xx"
            BY <2>2
        <3>2. printOperand(op) = XX
            BY <3>1 DEF printOperand
        <3> QED BY <3>1, <3>2
    <2>3. CASE op \in [kind : {"imm"}, value : Immediates]
        BY <1>1, <2>3
    <2> QED BY <2>1, <2>2, <2>3 DEF Operand
<1>2. \/ /\ a = [kind |-> "register", reg |-> a.reg] /\ a.reg \in 0 .. 7
         /\ printOperand(a) = RegName(a.reg)
      \/ a = [kind |-> "xx"] /\ printOperand(a) = XX
    BY <1>1
<1>3. \/ /\ b = [kind |-> "register", reg |-> b.reg] /\ b.reg \in 0 .. 7
         /\ printOperand(b) = RegName(b.reg)
      \/ b = [kind |-> "xx"] /\ printOperand(b) = XX
    BY <1>1
<1>4. CASE printOperand(a) = XX
    BY <1>2, <1>3, <1>4, ReservedFacts, Zenon
<1>5. CASE printOperand(a) # XX
    <2>1. a.reg \in 0 .. 7 /\ b.reg \in 0 .. 7 /\ RegName(a.reg) = RegName(b.reg)
        BY <1>2, <1>3, <1>5, Zenon
    <2>2. a.reg = b.reg
        BY <2>1, ReservedFacts, Zenon
    <2> QED BY <1>2, <1>3, <1>5, <2>2, Zenon
<1> QED BY <1>4, <1>5

-----------------------------------------------------------------------------
(* A symbol as a label and as an operand: the parentheses tell the operands *)
(* that have them from everything else.                                     *)

Bracketed(t) == <<LeftParen>> \o t \o <<RightParen>>
InText == Acceptable \cup {LeftParen, RightParen}

LEMMA BracketedFacts ==
    ASSUME NEW t \in Seq(Acceptable)
    PROVE  /\ Bracketed(t) \in Seq(InText) /\ Bracketed(t) # << >>
           /\ Bracketed(t)[1] = LeftParen
<1> DEFINE q == <<LeftParen>>
           r == <<RightParen>>
           x == q \o t
           y == x \o r
<1>1. t \in Seq(InText)
    BY SeqMonotonic DEF InText
<1>2. /\ q \in Seq(InText) /\ Len(q) = 1 /\ q[1] = LeftParen
      /\ r \in Seq(InText) /\ Len(r) = 1
    BY DEF InText
<1>3. PICK n \in Nat : n = Len(t)
    BY <1>1
<1> HIDE DEF q, r
<1>4. x \in Seq(InText) /\ Len(x) = 1 + n /\ x[1] = LeftParen
    <2>1. x \in Seq(InText) /\ Concat(x, q, t, 1, n)
        BY <1>1, <1>2, <1>3, Concatenates
    <2>2. 1 \in 1 .. 1 + n /\ 1 <= 1
        BY <1>3
    <2> HIDE DEF x
    <2> QED BY <1>2, <2>1, <2>2 DEF Concat
<1> HIDE DEF x
<1>5. y \in Seq(InText) /\ Concat(y, x, r, 1 + n, 1)
    <2>1. 1 + n \in Nat /\ 1 \in Nat
        BY <1>3
    <2> QED BY <1>2, <1>4, <2>1, Concatenates
<1> HIDE DEF y
<1>6. Len(y) # 0 /\ y[1] = LeftParen
    <2>1. 1 \in 1 .. 1 + n + 1 /\ 1 <= 1 + n /\ 1 + n + 1 # 0
        BY <1>3
    <2> QED BY <1>4, <1>5, <2>1 DEF Concat
<1>7. y # << >>
    BY <1>6
<1> QED BY <1>5, <1>6, <1>7, Zenon DEF Bracketed, x, y, q, r

LEMMA BracketedOnce ==
    ASSUME NEW s \in Seq(Acceptable), NEW t \in Seq(Acceptable), Bracketed(s) = Bracketed(t)
    PROVE  s = t
<1> DEFINE q == <<LeftParen>>
           r == <<RightParen>>
<1>1. s \in Seq(InText) /\ t \in Seq(InText)
    BY SeqMonotonic DEF InText
<1>2. q \in Seq(InText) /\ r \in Seq(InText)
    BY DEF InText
<1>3. (q \o s) \o r = (q \o t) \o r
    BY Zenon DEF Bracketed
<1> HIDE DEF q, r
<1>4. q \o s \in Seq(InText) /\ q \o t \in Seq(InText)
    BY <1>1, <1>2, ConcatProperties, Zenon
<1>5. \A R : \A u, v, w \in Seq(R) : u \o w = v \o w => u = v
    BY ConcatSimplifications, Zenon
<1>6. q \o s = q \o t
    BY <1>2, <1>3, <1>4, <1>5, Zenon
<1> QED BY <1>1, <1>2, <1>6, CancelLeft, Zenon

Brackets(name, as) == as = "operand" /\ name[1] = Dollar

\* How the symbol name is written.
Spelling(name, as) == IF as = "operand" THEN printExpr(name) ELSE printSymbol(name)

LEMMA SpellingFacts ==
    ASSUME NEW name \in Name, NEW as
    PROVE  /\ Spelling(name, as) # << >> /\ Spelling(name, as) \notin Reserved
           /\ ~ Brackets(name, as) => /\ Spelling(name, as) = printSymbol(name)
                                      /\ Spelling(name, as) \in Seq(Acceptable)
           /\ Brackets(name, as) => /\ Spelling(name, as) = Bracketed(printSymbol(name))
                                    /\ Spelling(name, as) \in Seq(InText)
           /\ Spelling(name, as)[1] = LeftParen <=> Brackets(name, as)
<1> DEFINE s == printSymbol(name)
<1>1. s \in Seq(Acceptable) /\ s # << >> /\ s \notin Reserved
    BY SymbolText
<1>2. LeftParen \notin Acceptable
    BY DEF Acceptable, isAcceptableChar, LeftParen, Lower, Digit, Quote, Underscore
<1>3. \A x \in Seq(Acceptable) : x # << >> => x[1] # LeftParen
    <2> SUFFICES ASSUME NEW x \in Seq(Acceptable), x # << >> PROVE x[1] # LeftParen
        OBVIOUS
    <2>1. x[1] \in Acceptable
        OBVIOUS
    <2> QED BY <1>2, <2>1
<1>4. CASE ~ Brackets(name, as)
    <2>1. Spelling(name, as) = s
        BY <1>4, Zenon DEF Brackets, Spelling, printExpr
    <2> QED BY <1>1, <1>3, <1>4, <2>1, Zenon
<1>5. CASE Brackets(name, as)
    <2>1. Spelling(name, as) = Bracketed(s)
        BY <1>5, Zenon DEF Brackets, Spelling, printExpr, Bracketed
    <2>2. /\ Bracketed(s) \in Seq(InText) /\ Bracketed(s) # << >>
          /\ Bracketed(s)[1] = LeftParen
        BY <1>1, BracketedFacts, Zenon
    <2>3. Bracketed(s) \notin Reserved
        BY <1>3, <2>2, ReservedFacts, Zenon
    <2> QED BY <1>5, <2>1, <2>2, <2>3, Zenon
<1> QED BY <1>4, <1>5

\* No two names have one spelling, whichever way each is written.
LEMMA SpellingOnce ==
    ASSUME NEW a \in Name, NEW b \in Name, NEW x, NEW y, Spelling(a, x) = Spelling(b, y)
    PROVE  a = b
<1>1. Brackets(a, x) <=> Brackets(b, y)
    BY SpellingFacts, Zenon
<1>2. CASE ~ Brackets(a, x)
    <2>1. printSymbol(a) = printSymbol(b)
        BY <1>1, <1>2, SpellingFacts, Zenon
    <2> QED BY <2>1, SymbolTextOnce, Zenon
<1>3. CASE Brackets(a, x)
    <2>1. Bracketed(printSymbol(a)) = Bracketed(printSymbol(b))
        BY <1>1, <1>3, SpellingFacts, Zenon
    <2>2. printSymbol(a) \in Seq(Acceptable) /\ printSymbol(b) \in Seq(Acceptable)
        BY SymbolText, Zenon
    <2>3. printSymbol(a) = printSymbol(b)
        BY <2>1, <2>2, BracketedOnce, Zenon
    <2> QED BY <2>3, SymbolTextOnce, Zenon
<1> QED BY <1>2, <1>3

-----------------------------------------------------------------------------
(* The invariant of the names: a symbol belongs to what has its name, and   *)
(* what is written is the text of an operand.                               *)

OwnersHaveName ==
    \A n \in DOMAIN symbols : \A e \in symbols[n] : e \in Entity /\ SymbolName(e) = n

IsTextOf(w) ==
    \/ w.what \in Operand /\ w.text = printOperand(w.what)
    \/ /\ w.what = [kind |-> "symbol", name |-> w.what.name]
       /\ w.what.name \in Name /\ w.text = Spelling(w.what.name, w.as)

NamesIInv == OwnersHaveName /\ \A w \in written : IsTextOf(w)

LEMMA NamesInitIInv == NamesInit => NamesIInv
BY DEF NamesInit, NamesIInv, OwnersHaveName

LEMMA OwnersStep ==
    ASSUME OwnersHaveName, NEW e \in Entity, symbols' = getOrCreateSymbol(e)
    PROVE  OwnersHaveName'
<1> DEFINE name == SymbolName(e)
           owners == IF name \in DOMAIN symbols THEN symbols[name] ELSE {}
<1>1. symbols' = [n \in DOMAIN symbols \cup {name} |->
                    IF n = name THEN owners \cup {e} ELSE symbols[n]]
    BY Zenon DEF getOrCreateSymbol
<1>2. \A f \in owners : f \in Entity /\ SymbolName(f) = name
    BY DEF OwnersHaveName
<1> HIDE DEF owners
<1>3. ASSUME NEW n \in DOMAIN symbols', NEW f \in symbols'[n]
      PROVE  f \in Entity /\ SymbolName(f) = n
    <2>1. n \in DOMAIN symbols \cup {name}
          /\ f \in IF n = name THEN owners \cup {e} ELSE symbols[n]
        BY <1>1, <1>3
    <2>2. CASE n = name
        BY <1>2, <2>1, <2>2
    <2>3. CASE n # name
        BY <2>1, <2>3 DEF OwnersHaveName
    <2> QED BY <2>2, <2>3
<1>4. \A f : (f \in Entity)' <=> f \in Entity
    BY DEF Entity, Global, Generated, Unnamed, Block, JumpTable
<1> QED BY <1>3, Zenon DEF OwnersHaveName

LEMMA NamesNextIInv == NamesIInv /\ [NamesNext]_namesVars => NamesIInv'
<1> SUFFICES ASSUME NamesIInv, [NamesNext]_namesVars
             PROVE  NamesIInv'
    OBVIOUS
<1>0. ASSUME NEW e \in Entity, NEW as, NEW text, text = Spelling(SymbolName(e), as),
             symbols' = getOrCreateSymbol(e),
             written' = written \cup {[what |-> [kind |-> "symbol", name |-> SymbolName(e)],
                                       as |-> as, text |-> text]}
      PROVE  NamesIInv'
    <2> DEFINE n == SymbolName(e)
               w == [what |-> [kind |-> "symbol", name |-> n], as |-> as, text |-> text]
    <2>1. written' = written \cup {w} /\ symbols' = getOrCreateSymbol(e)
        BY <1>0, Zenon
    <2>2. IsTextOf(w)
        <3>1. n \in Name
            BY SymbolNameIsName
        <3>2. text = Spelling(n, as)
            BY <1>0
        <3> HIDE DEF n
        <3> QED BY <3>1, <3>2 DEF IsTextOf
    <2>3. OwnersHaveName'
        BY <2>1, OwnersStep DEF NamesIInv
    <2>4. \A v \in written' : IsTextOf(v)
        <3> HIDE DEF w
        <3> QED BY <2>1, <2>2, Zenon DEF NamesIInv
    <2> QED BY <2>3, <2>4, Zenon DEF NamesIInv
<1>1. ASSUME NEW e \in Entity, WriteLabel(e) \/ WriteSymbol(e) PROVE NamesIInv'
    <2>1. CASE WriteLabel(e)
        <3>1. printSymbol(SymbolName(e)) = Spelling(SymbolName(e), "label")
            BY DEF Spelling
        <3> QED BY <1>0, <2>1, <3>1, Zenon DEF WriteLabel
    <2>2. CASE WriteSymbol(e)
        <3>1. printExpr(SymbolName(e)) = Spelling(SymbolName(e), "operand")
            BY DEF Spelling
        <3> QED BY <1>0, <2>2, <3>1, Zenon DEF WriteSymbol
    <2> QED BY <1>1, <2>1, <2>2
<1>2. ASSUME NEW op \in Operand, WriteOperand(op) PROVE NamesIInv'
    <2> DEFINE w == [what |-> op, as |-> "operand", text |-> printOperand(op)]
    <2>1. written' = written \cup {w} /\ symbols' = symbols
        BY <1>2, Zenon DEF WriteOperand
    <2>2. IsTextOf(w)
        BY DEF IsTextOf
    <2>3. OwnersHaveName'
        BY <2>1, Zenon DEF NamesIInv, OwnersHaveName
    <2>4. \A v \in written' : IsTextOf(v)
        <3> HIDE DEF w
        <3> QED BY <2>1, <2>2, Zenon DEF NamesIInv
    <2> QED BY <2>3, <2>4, Zenon DEF NamesIInv
<1>3. CASE UNCHANGED namesVars
    BY <1>3, Zenon DEF namesVars, NamesIInv, OwnersHaveName
<1> QED BY <1>1, <1>2, <1>3 DEF NamesNext, Finished

LEMMA NamesInvariance == NamesSpec => []NamesIInv
BY NamesInitIInv, NamesNextIInv, PTL DEF NamesSpec

LEMMA TextsTell == NamesIInv => TextTellsSymbols
<1> SUFFICES ASSUME NamesIInv PROVE TextTellsSymbols
    OBVIOUS
<1>0. /\ \A op \in Operand : op.kind # "symbol"
      /\ \A w \in written : /\ w.what \in Operand => w.text = printOperand(w.what)
                            /\ w.what \notin Operand =>
                                  /\ w.what = [kind |-> "symbol", name |-> w.what.name]
                                  /\ w.what.kind = "symbol" /\ w.what.name \in Name
                                  /\ w.text = Spelling(w.what.name, w.as)
    <2>1. \A op \in Operand : op.kind # "symbol"
        BY DEF Operand
    <2>2. ASSUME NEW w, w.what = [kind |-> "symbol", name |-> w.what.name]
          PROVE  w.what.kind = "symbol"
        BY <2>2
    <2> QED BY <2>1, <2>2, Zenon DEF NamesIInv, IsTextOf
<1>1. ASSUME NEW w \in written
      PROVE  w.text # << >> /\ \A i \in DOMAIN w.text :
                \/ isAcceptableChar(w.text[i])
                \/ InParens(w) /\ w.text[i] \in {LeftParen, RightParen}
    <2> DEFINE t == w.text
    <2>1. t # << >> /\ (t \in Seq(Acceptable) \/ (InParens(w) /\ t \in Seq(InText)))
        <3>1. CASE w.what \in Operand
            BY <1>0, <3>1, OperandText, Zenon
        <3>2. CASE w.what \notin Operand
            <4>1. w.what.kind = "symbol" /\ w.what.name \in Name /\ t = Spelling(w.what.name, w.as)
                BY <1>0, <3>2, Zenon DEF t
            <4>2. \A n \in Name : \A as :
                     /\ Spelling(n, as) # << >>
                     /\ ~ Brackets(n, as) => Spelling(n, as) \in Seq(Acceptable)
                     /\ Brackets(n, as) => Spelling(n, as) \in Seq(InText)
                BY SpellingFacts, Zenon
            <4>3. Brackets(w.what.name, w.as) => InParens(w)
                BY <4>1, Zenon DEF InParens, Brackets
            <4> QED BY <4>1, <4>2, <4>3, Zenon
        <3> QED BY <3>1, <3>2
    <2> HIDE DEF t
    <2>2. CASE t \in Seq(Acceptable)
        <3>1. \A i \in DOMAIN t : t[i] \in Acceptable
            BY <2>2
        <3> QED BY <2>1, <3>1, Zenon DEF Acceptable, t
    <2>3. CASE InParens(w) /\ t \in Seq(InText)
        <3>1. \A i \in DOMAIN t : t[i] \in InText
            BY <2>3
        <3>2. \A i \in DOMAIN t : isAcceptableChar(t[i]) \/ t[i] \in {LeftParen, RightParen}
            BY <3>1, Zenon DEF Acceptable, InText
        <3> QED BY <2>1, <2>3, <3>2, Zenon DEF t
    <2> QED BY <2>1, <2>2, <2>3
<1>2. ASSUME NEW v \in written, NEW w \in written,
             v.text = w.text, v.what.kind # "imm", w.what.kind # "imm"
      PROVE  v.what = w.what
    <2>1. CASE v.what \in Operand /\ w.what \in Operand
        BY <1>0, <1>2, <2>1, OperandTextOnce, Zenon
    <2>2. CASE v.what \notin Operand /\ w.what \notin Operand
        <3>1. v.what.name = w.what.name
            <4>1. /\ v.what.name \in Name /\ v.text = Spelling(v.what.name, v.as)
                  /\ w.what.name \in Name /\ w.text = Spelling(w.what.name, w.as)
                BY <1>0, <2>2, Zenon
            <4>2. \A a, b \in Name : \A x, y : Spelling(a, x) = Spelling(b, y) => a = b
                BY SpellingOnce, Zenon
            <4> QED BY <1>2, <4>1, <4>2, Zenon
        <3> QED BY <1>0, <2>2, <3>1, Zenon
    <2>3. ASSUME NEW x \in written, NEW y \in written,
                 x.what \in Operand, y.what \notin Operand, x.what.kind # "imm"
          PROVE  x.text # y.text
        <3>1. y.text \notin Reserved
            <4>1. y.what.name \in Name /\ y.text = Spelling(y.what.name, y.as)
                BY <1>0, <2>3, Zenon
            <4>2. \A n \in Name : \A as : Spelling(n, as) \notin Reserved
                BY SpellingFacts, Zenon
            <4> QED BY <4>1, <4>2, Zenon
        <3>2. x.text \in Reserved
            BY <1>0, <2>3, OperandText, Zenon
        <3> QED BY <3>1, <3>2, Zenon
    <2> QED BY <1>2, <2>1, <2>2, <2>3, Zenon
<1> QED BY <1>1, <1>2, Zenon DEF TextTellsSymbols

LEMMA NamesDiffer == NamesIInv => InventedNamesDiffer
<1> SUFFICES ASSUME NamesIInv, NEW n \in DOMAIN symbols
             PROVE  Cardinality(symbols[n] \cap Generated) <= 1
    BY DEF InventedNamesDiffer
<1> DEFINE O == symbols[n] \cap Generated
<1>1. \A e, f \in O : e = f
    <2>1. \A e \in O : e \in Generated /\ SymbolName(e) = n
        BY DEF NamesIInv, OwnersHaveName
    <2> QED BY <2>1, InventedOnce, Zenon
<1> HIDE DEF O
<1>2. CASE O = {}
    BY <1>2, FS_EmptySet DEF O
<1>3. CASE O # {}
    <2>1. PICK e \in O : TRUE
        BY <1>3
    <2>2. O = {e}
        BY <1>1, <2>1
    <2>3. Cardinality({e}) = 1
        BY FS_Singleton
    <2> QED BY <2>2, <2>3 DEF O
<1> QED BY <1>2, <1>3

\* Whatever names and operands the program has, two labels or operands written
\* alike are the same register or the same symbol, and every text is one 2003lk
\* accepts, or such a text in the parentheses of an operand that starts with $.
THEOREM TextAlwaysTellsSymbols == NamesSpec => []TextTellsSymbols
BY NamesInvariance, TextsTell, PTL

\* No two labels of the compiler are ever one symbol.
THEOREM InventedNamesAlwaysDiffer == NamesSpec => []InventedNamesDiffer
BY NamesInvariance, NamesDiffer, PTL
=============================================================================
