-------------------------- MODULE FrameLayoutProofs --------------------------
(***************************************************************************)
(* Frame layout is sound for every number of objects and for all their     *)
(* sizes and alignments: objects are disjoint, they stay below the return  *)
(* address, and the prologue's adjustment covers them (CallMachine assumes *)
(* just this of its frame layouts); and when alignments are powers of two, *)
(* every object is as aligned as it asked to be.                           *)
(*                                                                         *)
(* The argument: placed.offset is how far down the objects placed so far   *)
(* reach, and AlignTo never rounds down, so the next object ends at or     *)
(* below that point.  AlignTo returns a multiple of the alignment; the     *)
(* frame is rounded to one that every object's alignment divides.          *)
(***************************************************************************)
EXTENDS FrameLayout, TLAPS

\* The objects placed so far lie between -placed.offset and 0, each below the
\* ones placed before it.
Stacked ==
    /\ \A i \in Live : i < next =>
          /\ -placed.offset =< placed.at[i]
          /\ placed.at[i] + objects[i].size =< 0
    /\ \A i, j \in Live : i < j /\ j < next =>
          placed.at[j] + objects[j].size =< placed.at[i]

IInv ==
    /\ TypeOK
    /\ phase = "fixed" => next = 1
    /\ Stacked
    /\ phase = "done" => placed.offset =< stackSize /\ next \notin DOMAIN objects

\* alignTo rounds up, to a natural number.
LEMMA AlignToFacts ==
    ASSUME NEW v \in Nat, NEW a \in Nat \ {0}
    PROVE  AlignTo(v, a) \in Nat /\ v =< AlignTo(v, a)
<1> DEFINE q == (v + a - 1) \div a
           r == (v + a - 1) % a
<1>1. v + a - 1 \in Nat
    OBVIOUS
<1>2. q \in Int /\ r \in 0 .. a - 1 /\ v + a - 1 = a * q + r
    BY <1>1
<1>3. q * a = a * q /\ a * q \in Int
    BY <1>2
<1>4. AlignTo(v, a) = a * q
    BY <1>3 DEF AlignTo
<1> HIDE DEF q, r
<1> QED BY <1>2, <1>3, <1>4

LEMMA InitIInv == Init => IInv
<1> SUFFICES ASSUME Init PROVE IInv
    OBVIOUS
<1>1. PICK n \in 0 .. MaxObjects : objects \in [1 .. n -> ObjectSet]
    BY DEF Init
<1>2. n \in Nat /\ objects \in Seq(ObjectSet) /\ Len(objects) = n /\ DOMAIN objects = 1 .. n
    BY <1>1, ObjectAssumption
<1>3. fixed \subseteq Nat \ {0}
    BY ObjectAssumption DEF Init
<1>4. PICK a \in AlignmentsAsked(objects, fixed) : placed = NothingPlaced(objects, a)
    BY DEF Init
<1>5. a \in Nat \ {0}
    <2>1. \A i \in DOMAIN objects : objects[i].align \in Nat \ {0}
        BY <1>1, ObjectAssumption
    <2> QED BY <2>1, <1>4 DEF AlignmentsAsked
<1>6. placed \in [offset : Nat, maxAlign : Nat \ {0}, at : [DOMAIN objects -> Int]]
    BY <1>4, <1>5 DEF NothingPlaced, LocalAreaOffset
<1>7. TypeOK
    BY <1>2, <1>3, <1>6 DEF Init, TypeOK
<1>8. Stacked
    BY <1>2 DEF Stacked, Live, Init
<1> QED BY <1>7, <1>8 DEF IInv, Init

\* Placing a live object.
LEMMA AdjustFacts ==
    ASSUME TypeOK, NEW i \in DOMAIN objects,
           NEW new, new = AdjustStackOffset(placed, i, objects[i])
    PROVE  /\ new \in [offset : Nat, maxAlign : Nat \ {0}, at : [DOMAIN objects -> Int]]
           /\ placed.offset + objects[i].size =< new.offset
           /\ new.at[i] = -new.offset
           /\ \A j \in DOMAIN objects : j # i => new.at[j] = placed.at[j]
<1> DEFINE top == AlignTo(placed.offset + objects[i].size, objects[i].align)
<1>1. objects[i].size \in Nat /\ objects[i].align \in Nat \ {0}
    BY ObjectAssumption DEF TypeOK
<1>2. placed.offset \in Nat /\ placed.maxAlign \in Nat \ {0} /\ placed.at \in [DOMAIN objects -> Int]
    BY DEF TypeOK
<1>3. placed.offset + objects[i].size \in Nat
    BY <1>1, <1>2
<1>4. top \in Nat /\ placed.offset + objects[i].size =< top
    BY <1>1, <1>3, AlignToFacts
<1>5. MaxOf(placed.maxAlign, objects[i].align) \in Nat \ {0}
    BY <1>1, <1>2 DEF MaxOf
<1> HIDE DEF top
<1>6. new = [offset |-> top, maxAlign |-> MaxOf(placed.maxAlign, objects[i].align),
             at |-> [placed.at EXCEPT ![i] = -top]]
    BY DEF AdjustStackOffset, top
<1> QED BY <1>2, <1>4, <1>5, <1>6

LEMMA PlaceStep ==
    ASSUME IInv, Place
    PROVE  IInv'
<1>1. next \in DOMAIN objects /\ next' = next + 1
      /\ UNCHANGED <<objects, fixed, adjustsStack, phase, stackSize>> /\ phase = "objects"
    BY DEF Place
<1>2. TypeOK /\ Stacked /\ Live' = Live /\ DOMAIN objects = 1 .. Len(objects) /\ Len(objects) \in Nat
    BY <1>1 DEF IInv, TypeOK, Live
<1>3. next' \in 1 .. Len(objects) + 1
    BY <1>1, <1>2
<1>4. \A i \in Live : i \in DOMAIN objects /\ i \in Nat /\ placed.at[i] \in Int
                      /\ objects[i].size \in Nat
    BY <1>2, ObjectAssumption DEF Live, TypeOK
<1>5. CASE objects[next].dead
    <2>1. placed' = placed /\ next \notin Live
        BY <1>5 DEF Place, Live
    <2>2. TypeOK'
        BY <2>1, <1>1, <1>2, <1>3 DEF TypeOK
    <2>3. \A i \in Live : i < next' => i < next
        BY <2>1, <1>1, <1>2, <1>4
    <2>4. Stacked'
        BY <2>1, <2>3, <1>1, <1>2, <1>4 DEF Stacked
    <2> QED BY <2>2, <2>4, <1>1 DEF IInv
<1>6. CASE ~objects[next].dead
    <2> DEFINE new == placed'
    <2>1. new = AdjustStackOffset(placed, next, objects[next])
        BY <1>6 DEF Place
    <2>2. /\ new \in [offset : Nat, maxAlign : Nat \ {0}, at : [DOMAIN objects -> Int]]
          /\ placed.offset + objects[next].size =< new.offset
          /\ new.at[next] = -new.offset
          /\ \A j \in DOMAIN objects : j # next => new.at[j] = placed.at[j]
        BY <2>1, <1>1, <1>2, AdjustFacts
    <2>3. TypeOK'
        BY <2>2, <1>1, <1>2, <1>3 DEF TypeOK
    <2>4. placed.offset \in Nat /\ new.offset \in Nat /\ next \in Nat /\ objects[next].size \in Nat
        BY <2>2, <1>1, <1>2, ObjectAssumption DEF TypeOK
    <2>5. ASSUME NEW i \in Live, i < next'
          PROVE  -new.offset =< new.at[i] /\ new.at[i] + objects[i].size =< 0
        <3>1. CASE i = next
            BY <3>1, <2>2, <2>4
        <3>2. CASE i < next
            <4>1. -placed.offset =< placed.at[i] /\ placed.at[i] + objects[i].size =< 0
                BY <3>2, <1>2 DEF Stacked
            <4>2. new.at[i] = placed.at[i]
                BY <3>2, <2>2, <2>4, <1>4
            <4> QED BY <4>1, <4>2, <2>2, <2>4, <1>4
        <3> QED BY <2>5, <3>1, <3>2, <2>4, <1>1, <1>4
    <2>6. ASSUME NEW i \in Live, NEW j \in Live, i < j, j < next'
          PROVE  new.at[j] + objects[j].size =< new.at[i]
        <3>1. i < next /\ new.at[i] = placed.at[i]
            BY <2>6, <2>2, <2>4, <1>1, <1>4
        <3>2. CASE j = next
            <4>1. -placed.offset =< placed.at[i]
                BY <3>1, <1>2 DEF Stacked
            <4> QED BY <4>1, <3>1, <3>2, <2>2, <2>4, <1>4
        <3>3. CASE j < next
            <4>1. placed.at[j] + objects[j].size =< placed.at[i]
                BY <3>3, <2>6, <1>2 DEF Stacked
            <4>2. new.at[j] = placed.at[j]
                BY <3>3, <2>2, <2>4, <1>4
            <4> QED BY <4>1, <4>2, <3>1
        <3> QED BY <2>6, <3>2, <3>3, <2>4, <1>1, <1>4
    <2>7. Stacked'
        BY <2>5, <2>6, <1>1, <1>2 DEF Stacked
    <2> QED BY <2>3, <2>7, <1>1 DEF IInv
<1> QED BY <1>5, <1>6

LEMMA SkipFixedStep ==
    ASSUME IInv, SkipFixed
    PROVE  IInv'
<1>1. phase = "fixed" /\ phase' = "objects" /\ next = 1
      /\ UNCHANGED <<objects, fixed, adjustsStack, next, stackSize>>
    BY DEF SkipFixed, IInv
<1>2. PICK low \in {0} \cup {-o : o \in fixed} :
          0 =< low /\ placed' = [placed EXCEPT !.offset = low]
    BY DEF SkipFixed, LocalAreaOffset
<1>3. low \in Nat
    <2>1. \A o \in fixed : o \in Nat
        BY DEF IInv, TypeOK
    <2> QED BY <1>2, <2>1
<1>4. TypeOK'
    BY <1>1, <1>2, <1>3 DEF IInv, TypeOK
<1>5. Stacked'
    <2>1. \A i \in Live' : ~(i < next')
        BY <1>1 DEF Live, IInv, TypeOK
    <2>2. Live' \subseteq Nat /\ next' \in Nat
        BY <1>1 DEF Live, IInv, TypeOK
    <2> QED BY <2>1, <2>2 DEF Stacked
<1> QED BY <1>1, <1>4, <1>5 DEF IInv

LEMMA RoundStep ==
    ASSUME IInv, Round
    PROVE  IInv'
<1>1. /\ phase' = "done" /\ UNCHANGED <<objects, fixed, adjustsStack, next, placed>>
      /\ stackSize' = RoundedSize(placed, adjustsStack)
    BY DEF Round
<1>2. placed.offset \in Nat /\ placed.maxAlign \in Nat \ {0}
    BY DEF IInv, TypeOK
<1>3. PICK a \in Nat \ {0} : stackSize' = AlignTo(placed.offset, a)
    <2> DEFINE a == MaxOf(placed.maxAlign,
                          IF adjustsStack THEN StackAlignment ELSE TransientStackAlignment)
    <2>1. a \in Nat \ {0}
        BY <1>2 DEF MaxOf, StackAlignment, TransientStackAlignment
    <2>2. AlignTo(placed.offset, a) \in Nat
        BY <1>2, <2>1, AlignToFacts
    <2>3. stackSize' = AlignTo(placed.offset, a)
        <3>1. stackSize' = AlignTo(placed.offset, a) - 0
            BY <1>1 DEF RoundedSize, LocalAreaOffset
        <3> HIDE DEF a
        <3> QED BY <3>1, <2>2
    <2> HIDE DEF a
    <2> QED BY <2>1, <2>3
<1>4. stackSize' \in Nat /\ placed.offset =< stackSize'
    BY <1>2, <1>3, AlignToFacts
<1>5. TypeOK'
    BY <1>1, <1>4 DEF IInv, TypeOK
<1>6. Stacked'
    BY <1>1 DEF IInv, Stacked, Live
<1>7. next' \notin DOMAIN objects'
    BY <1>1 DEF Round
<1> QED BY <1>1, <1>4, <1>5, <1>6, <1>7 DEF IInv

LEMMA NextIInv ==
    ASSUME IInv, [Next]_vars
    PROVE  IInv'
<1>1. CASE UNCHANGED vars
    BY <1>1 DEF vars, IInv, TypeOK, Stacked, Live
<1> QED BY <1>1, SkipFixedStep, PlaceStep, RoundStep DEF Next, Done

\* The inductive invariant holds throughout.
THEOREM Invariance == Spec => []IInv
<1>1. IInv /\ [Next]_vars => IInv'
    BY NextIInv
<1> QED BY <1>1, InitIInv, PTL DEF Spec

\* Sizes, offsets and the place of every object stay in their types.
THEOREM TypeCorrect == Spec => []TypeOK
<1>1. IInv => TypeOK
    BY DEF IInv
<1> QED BY <1>1, Invariance, PTL

\* The objects of every function, whatever their sizes and alignments, are
\* placed without overlap and below the return address.
THEOREM LayoutIsDisjoint == Spec => []ObjectsDisjoint
<1>1. IInv => ObjectsDisjoint
    <2> SUFFICES ASSUME IInv, NEW i \in Live, i < next
                 PROVE  /\ placed.at[i] + objects[i].size =< 0
                        /\ \A j \in Live : j < next /\ i # j =>
                              \/ placed.at[i] + objects[i].size =< placed.at[j]
                              \/ placed.at[j] + objects[j].size =< placed.at[i]
        BY DEF ObjectsDisjoint
    <2>1. \A j \in Live : j \in Nat
        BY DEF Live, IInv, TypeOK
    <2>2. \A j \in Live : i # j => i < j \/ j < i
        BY <2>1
    <2> QED BY <2>2 DEF IInv, Stacked
<1> QED BY <1>1, Invariance, PTL

\* The prologue's adjustment of f5 covers every object of the function.
THEOREM FrameIsCovered == Spec => []FrameCoversObjects
<1>1. IInv => FrameCoversObjects
    <2> SUFFICES ASSUME IInv, phase = "done", NEW i \in Live
                 PROVE  -stackSize =< placed.at[i]
        BY DEF FrameCoversObjects
    <2>1. next = Len(objects) + 1 /\ i \in 1 .. Len(objects) /\ Len(objects) \in Nat
        BY DEF IInv, TypeOK, Live
    <2>2. -placed.offset =< placed.at[i] /\ placed.offset =< stackSize
        BY <2>1 DEF IInv, Stacked
    <2>3. placed.offset \in Nat /\ stackSize \in Nat /\ placed.at[i] \in Int
        BY DEF IInv, TypeOK, Live
    <2> QED BY <2>2, <2>3
<1> QED BY <1>1, Invariance, PTL

-----------------------------------------------------------------------------
(* Alignment. *)

Alignments == {1, StackAlignment} \cup {o.align : o \in ObjectSet}

Multiple(v, a) == \E q \in Int : v = a * q

\* Every object placed so far is a multiple of its alignment away from f5 on
\* entry, and the frame's size is a multiple of all their alignments.
Aligned ==
    /\ placed.maxAlign \in Alignments
    /\ \A i \in Live : objects[i].align =< placed.maxAlign
    /\ \A i \in Live : i < next => Multiple(placed.at[i], objects[i].align)
    /\ phase = "done" => \E a \in Alignments :
          /\ placed.maxAlign =< a
          /\ adjustsStack => StackAlignment =< a
          /\ Multiple(stackSize, a)

\* The remainder of a multiple is 0, and nothing else's is.
LEMMA MultipleIsRemainder ==
    ASSUME NEW v \in Int, NEW a \in Nat \ {0}
    PROVE  Multiple(v, a) <=> v % a = 0
<1> DEFINE d == v \div a
           r == v % a
<1>1. d \in Int /\ r \in 0 .. a - 1 /\ v = a * d + r
    OBVIOUS
<1> HIDE DEF d, r
<1>2. ASSUME NEW q \in Int, v = a * q PROVE r = 0
    <2>1. r = a * (q - d)
        BY <1>1, <1>2
    <2>2. CASE q - d >= 1
        <3>1. a * (q - d) >= a
            BY <2>2, <1>1
        <3> QED BY <3>1, <2>1, <1>1
    <2>3. CASE q - d =< -1
        <3>1. a * (q - d) =< -a
            BY <2>3, <1>1
        <3> QED BY <3>1, <2>1, <1>1
    <2>4. CASE q - d = 0
        BY <2>4, <2>1
    <2> QED BY <2>2, <2>3, <2>4, <1>1
<1>3. r = 0 => v = a * d
    BY <1>1
<1>4. r = 0 <=> Multiple(v, a)
    BY <1>1, <1>2, <1>3 DEF Multiple
<1> QED BY <1>4 DEF r

LEMMA MultipleOfMultiple ==
    ASSUME NEW v \in Int, NEW b \in Int, NEW a \in Int, Multiple(v, b), Multiple(b, a)
    PROVE  Multiple(v, a)
<1>1. PICK q \in Int : v = b * q
    BY DEF Multiple
<1>2. PICK p \in Int : b = a * p
    BY DEF Multiple
<1>3. v = a * (p * q) /\ p * q \in Int
    BY <1>1, <1>2
<1> QED BY <1>3 DEF Multiple

LEMMA MultiplesAdd ==
    ASSUME NEW v \in Int, NEW w \in Int, NEW a \in Int, Multiple(v, a), Multiple(w, a)
    PROVE  Multiple(v + w, a)
<1>1. PICK q \in Int : v = a * q
    BY DEF Multiple
<1>2. PICK p \in Int : w = a * p
    BY DEF Multiple
<1>3. v + w = a * (q + p) /\ q + p \in Int
    BY <1>1, <1>2
<1> QED BY <1>3 DEF Multiple

\* alignTo returns a multiple of the alignment, and so does its negation.
LEMMA AlignToIsMultiple ==
    ASSUME NEW v \in Nat, NEW a \in Nat \ {0}
    PROVE  Multiple(AlignTo(v, a), a) /\ Multiple(-AlignTo(v, a), a)
<1> DEFINE q == (v + a - 1) \div a
<1>1. q \in Int
    OBVIOUS
<1>2. AlignTo(v, a) = q * a
    BY DEF AlignTo
<1> HIDE DEF q
<1>3. q * a = a * q /\ -(q * a) = a * (-q) /\ -q \in Int
    BY <1>1
<1> QED BY <1>1, <1>2, <1>3 DEF Multiple

LEMMA AlignmentFacts ==
    /\ \A a \in Alignments : a \in Nat \ {0}
    /\ \A a, b \in Alignments : a =< b => Multiple(b, a)
<1>1. \A a \in Alignments : a \in Nat \ {0}
    BY ObjectAssumption DEF Alignments, StackAlignment
<1>2. \A a, b \in Alignments : a =< b => b % a = 0
    BY AlignmentAssumption DEF Alignments
<1> QED BY <1>1, <1>2, MultipleIsRemainder

LEMMA ObjectAlignments ==
    ASSUME TypeOK, NEW i \in Live
    PROVE  /\ i \in DOMAIN objects /\ i \in Nat /\ placed.at[i] \in Int
           /\ objects[i].align \in Alignments
<1>1. i \in DOMAIN objects /\ objects[i] \in ObjectSet
    BY DEF TypeOK, Live
<1> QED BY <1>1 DEF TypeOK, Alignments

LEMMA InitAligned == Init => Aligned
<1> SUFFICES ASSUME Init PROVE Aligned
    OBVIOUS
<1>1. TypeOK /\ next = 1 /\ phase = "fixed"
    BY InitIInv DEF IInv, Init
<1>2. PICK a \in AlignmentsAsked(objects, fixed) :
          /\ \A b \in AlignmentsAsked(objects, fixed) : b =< a
          /\ placed = NothingPlaced(objects, a)
    BY DEF Init
<1>3. placed.maxAlign = a
    BY <1>2 DEF NothingPlaced
<1>4. \A i \in DOMAIN objects : objects[i] \in ObjectSet
    BY <1>1 DEF TypeOK
<1>5. a \in Alignments
    BY <1>4 DEF AlignmentsAsked, Alignments, StackAlignment
<1>6. \A i \in Live : objects[i].align =< a
    BY <1>2 DEF Live, AlignmentsAsked
<1>7. \A i \in Live : ~(i < next)
    BY <1>1 DEF Live, TypeOK
<1> QED BY <1>1, <1>3, <1>5, <1>6, <1>7 DEF Aligned

LEMMA PlaceAligned ==
    ASSUME IInv, Aligned, Place
    PROVE  Aligned'
<1>1. next \in DOMAIN objects /\ next' = next + 1
      /\ UNCHANGED <<objects, fixed, adjustsStack, phase, stackSize>> /\ phase = "objects"
    BY DEF Place
<1>2. TypeOK /\ Live' = Live /\ next \in Nat
    BY <1>1 DEF IInv, TypeOK, Live
<1>3. \A i \in Live : i \in DOMAIN objects /\ i \in Nat /\ (i < next' => i < next \/ i = next)
    BY <1>1, <1>2, ObjectAlignments
<1>4. CASE objects[next].dead
    <2>1. placed' = placed /\ next \notin Live
        BY <1>4 DEF Place, Live
    <2> QED BY <2>1, <1>1, <1>2, <1>3 DEF Aligned
<1>5. CASE ~objects[next].dead
    <2> DEFINE o == objects[next]
    <2>1. next \in Live /\ o.align \in Alignments /\ o.align \in Nat \ {0} /\ o.size \in Nat
        BY <1>5, <1>1, <1>2, ObjectAlignments, AlignmentFacts, ObjectAssumption DEF Live, TypeOK
    <2>2. placed.offset + o.size \in Nat
        BY <2>1, <1>2 DEF TypeOK
    <2> DEFINE top == AlignTo(placed.offset + o.size, o.align)
    <2>3. Multiple(-top, o.align)
        BY <2>1, <2>2, AlignToIsMultiple
    <2>4. placed' = [offset |-> top, maxAlign |-> MaxOf(placed.maxAlign, o.align),
                     at |-> [placed.at EXCEPT ![next] = -top]]
        BY <1>5 DEF Place, AdjustStackOffset
    <2>5. placed'.maxAlign = placed.maxAlign
        <3>1. o.align =< placed.maxAlign /\ placed.maxAlign \in Nat
            BY <2>1, <1>2 DEF Aligned, TypeOK
        <3> QED BY <3>1, <2>1, <2>4 DEF MaxOf
    <2> HIDE DEF top
    <2>6. placed'.at[next] = -top /\ \A i \in DOMAIN objects : i # next => placed'.at[i] = placed.at[i]
        BY <2>4, <1>1, <1>2 DEF TypeOK
    <2>7. \A i \in Live : i < next' => Multiple(placed'.at[i], objects[i].align)
        BY <2>3, <2>6, <1>1, <1>2, <1>3 DEF Aligned
    <2> QED BY <2>5, <2>7, <1>1, <1>2 DEF Aligned
<1> QED BY <1>4, <1>5

LEMMA SkipFixedAligned ==
    ASSUME IInv, Aligned, SkipFixed
    PROVE  Aligned'
<1>1. phase' = "objects" /\ next = 1 /\ UNCHANGED <<objects, adjustsStack, next, stackSize>>
    BY DEF SkipFixed, IInv
<1>2. placed'.maxAlign = placed.maxAlign
    BY DEF SkipFixed, IInv, TypeOK
<1>3. \A i \in Live' : ~(i < next')
    BY <1>1 DEF Live, IInv, TypeOK
<1> QED BY <1>1, <1>2, <1>3 DEF Aligned, Live

LEMMA RoundAligned ==
    ASSUME IInv, Aligned, Round
    PROVE  Aligned'
<1> DEFINE least == IF adjustsStack THEN StackAlignment ELSE TransientStackAlignment
           a == MaxOf(placed.maxAlign, least)
<1>1. /\ UNCHANGED <<objects, fixed, adjustsStack, next, placed>>
      /\ stackSize' = AlignTo(placed.offset, a) - 0
    BY DEF Round, RoundedSize, LocalAreaOffset
<1>2. placed.maxAlign \in Alignments /\ placed.maxAlign \in Nat /\ placed.offset \in Nat
    BY DEF IInv, TypeOK, Aligned
<1>3. least \in Alignments /\ least \in Nat /\ (adjustsStack => least = StackAlignment)
    BY DEF Alignments, StackAlignment, TransientStackAlignment
<1>4. a \in Alignments /\ placed.maxAlign =< a /\ least =< a
    BY <1>2, <1>3 DEF MaxOf
<1> HIDE DEF a, least
<1>5. a \in Nat \ {0}
    BY <1>4, AlignmentFacts
<1>6. stackSize' = AlignTo(placed.offset, a)
    BY <1>1, <1>2, <1>5, AlignToFacts
<1>7. Multiple(stackSize', a)
    BY <1>2, <1>5, <1>6, AlignToIsMultiple
<1> QED BY <1>1, <1>3, <1>4, <1>7 DEF Aligned, Live

LEMMA NextAligned ==
    ASSUME IInv, Aligned, [Next]_vars
    PROVE  Aligned'
<1>1. CASE UNCHANGED vars
    BY <1>1 DEF vars, Aligned, Live
<1> QED BY <1>1, SkipFixedAligned, PlaceAligned, RoundAligned DEF Next, Done

LEMMA AlignmentInvariance == Spec => []Aligned
<1>1. IInv /\ Aligned /\ [Next]_vars => Aligned'
    BY NextAligned
<1> QED BY <1>1, InitAligned, Invariance, PTL DEF Spec

\* Every object of every function is as aligned as it asked to be, relative to
\* f5 on entry and to f5 as the prologue leaves it.
THEOREM LayoutIsAligned == Spec => []OffsetsAligned
<1>1. IInv /\ Aligned => OffsetsAligned
    <2> SUFFICES ASSUME IInv, Aligned, phase = "done", NEW i \in Live
                 PROVE  /\ placed.at[i] % objects[i].align = 0
                        /\ (placed.at[i] + stackSize) % objects[i].align = 0
        BY DEF OffsetsAligned
    <2> DEFINE b == objects[i].align
    <2>1. /\ b \in Alignments /\ b \in Nat \ {0} /\ i \in DOMAIN objects
          /\ placed.at[i] \in Int /\ stackSize \in Nat /\ placed.maxAlign \in Nat
        BY ObjectAlignments, AlignmentFacts DEF IInv, TypeOK
    <2>2. i < next
        BY <2>1 DEF IInv, TypeOK
    <2>3. Multiple(placed.at[i], b) /\ b =< placed.maxAlign
        BY <2>2 DEF Aligned
    <2>4. PICK a \in Alignments : placed.maxAlign =< a /\ Multiple(stackSize, a)
        BY DEF Aligned
    <2> HIDE DEF b
    <2>5. a \in Nat /\ Multiple(a, b)
        BY <2>1, <2>3, <2>4, AlignmentFacts
    <2>6. Multiple(stackSize, b)
        BY <2>1, <2>4, <2>5, MultipleOfMultiple
    <2> DEFINE at == placed.at[i]
    <2>7. at + stackSize \in Int /\ Multiple(at + stackSize, b)
        <3>1. at \in Int /\ stackSize \in Int /\ b \in Int /\ Multiple(at, b)
            BY <2>1, <2>3
        <3> HIDE DEF at
        <3> QED BY <3>1, <2>6, MultiplesAdd
    <2>8. placed.at[i] % b = 0 /\ (placed.at[i] + stackSize) % b = 0
        BY <2>1, <2>3, <2>7, MultipleIsRemainder
    <2> QED BY <2>8 DEF b
<1> QED BY <1>1, Invariance, AlignmentInvariance, PTL

\* A function that makes calls takes a multiple of the stack alignment.
THEOREM CallersAreAligned == Spec => []CallersKeepStackAligned
<1>1. IInv /\ Aligned => CallersKeepStackAligned
    <2> SUFFICES ASSUME IInv, Aligned, phase = "done", adjustsStack
                 PROVE  stackSize % StackAlignment = 0
        BY DEF CallersKeepStackAligned
    <2>1. PICK a \in Alignments : StackAlignment =< a /\ Multiple(stackSize, a)
        BY DEF Aligned
    <2>2. StackAlignment \in Alignments /\ StackAlignment \in Nat \ {0}
        BY DEF Alignments, StackAlignment
    <2>3. stackSize \in Int /\ a \in Int /\ Multiple(a, StackAlignment)
        BY <2>1, <2>2, AlignmentFacts DEF IInv, TypeOK
    <2>4. Multiple(stackSize, StackAlignment)
        BY <2>1, <2>2, <2>3, MultipleOfMultiple
    <2> QED BY <2>2, <2>3, <2>4, MultipleIsRemainder
<1> QED BY <1>1, Invariance, AlignmentInvariance, PTL
=============================================================================
