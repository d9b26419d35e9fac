---------------------------- MODULE StackObjects ----------------------------
(***************************************************************************)
(* Where prologue/epilogue insertion puts a function's stack objects, for  *)
(* the parameters F2003fFrameLowering gives it: the stack grows down, the  *)
(* stack alignment is 4, the local area starts at f5, there are no callee- *)
(* saved registers, no frame pointer and no reserved call frame.  Objects  *)
(* are records [size, align, dead]; offsets are relative to f5 on entry.   *)
(***************************************************************************)
EXTENDS Integers, Sequences, SequencesExt

\* F2003fFrameLowering(): StackAlignment, and the default for the transient one.
StackAlignment == 4
TransientStackAlignment == 1
LocalAreaOffset == 0

\* Faulty: rounds down.
AlignDown(value, align) == (value \div align) * align

\* llvm::alignTo without skew.
AlignTo(value, align) == ((value + align - 1) \div align) * align

MaxOf(a, b) == IF a > b THEN a ELSE b

\* Faulty: aligned before the size is added, as if the stack grew up.
AdjustBeforeSize(placed, i, obj) ==
    LET top == AlignTo(placed.offset, obj.align) + obj.size
    IN  [offset   |-> top,
         maxAlign |-> MaxOf(placed.maxAlign, obj.align),
         at       |-> [placed.at EXCEPT ![i] = -top]]

\* AdjustStackOffset: object i goes below the ones already placed.  `placed'
\* is [offset: bytes used so far, maxAlign, at: the offset of each object].
AdjustStackOffset(placed, i, obj) ==
    LET top == AlignTo(placed.offset + obj.size, obj.align)
    IN  [offset   |-> top,
         maxAlign |-> MaxOf(placed.maxAlign, obj.align),
         at       |-> [placed.at EXCEPT ![i] = -top]]

NothingPlaced(objects, maxAlign) ==
    [offset |-> LocalAreaOffset, maxAlign |-> maxAlign,
     at |-> [i \in DOMAIN objects |-> 0]]

\* Faulty: only the stack alignment counts.
RoundedToStackAlignment(placed, adjustsStack) ==
    AlignTo(placed.offset,
            IF adjustsStack THEN StackAlignment ELSE TransientStackAlignment)
    - LocalAreaOffset

\* Faulty: always the transient stack alignment, as if in a leaf function.
RoundedAsLeaf(placed, adjustsStack) ==
    AlignTo(placed.offset, MaxOf(placed.maxAlign, TransientStackAlignment))

\* The end of calculateFrameObjectOffsets: round the frame up.
RoundedSize(placed, adjustsStack) ==
    AlignTo(placed.offset,
            MaxOf(placed.maxAlign,
                  IF adjustsStack THEN StackAlignment ELSE TransientStackAlignment))
    - LocalAreaOffset

\* The whole placement of a function's objects, in frame index order.
Layout(objects, maxAlign) ==
    FoldLeftDomain(LAMBDA placed, i :
                       IF objects[i].dead THEN placed
                       ELSE AdjustStackOffset(placed, i, objects[i]),
                   NothingPlaced(objects, maxAlign), objects)
=============================================================================
