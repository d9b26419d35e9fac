----------------------------- MODULE FrameLayout -----------------------------
(***************************************************************************)
(* calculateFrameObjectOffsets, one object at a time: first the fixed      *)
(* objects, which are the incoming arguments at offsets the calling        *)
(* convention chose, then every stack object of the function that is still *)
(* alive, in frame index order, then the rounding of the frame.            *)
(* Its result is what CallMachine's LayoutAssumption takes for granted.    *)
(*                                                                         *)
(* The function is any one with objects from ObjectSet; the stack          *)
(* protector is off, and instruction selection may already have asked for  *)
(* a frame alignment (ensureMaxAlignment) up to that of its objects.       *)
(***************************************************************************)
EXTENDS StackObjects

CONSTANTS
    ObjectSet,      \* the objects a function may have, [size, align, dead]
    MaxObjects,     \* how many of them
    MaxParams       \* how many incoming arguments

ASSUME ObjectAssumption ==
    /\ ObjectSet \subseteq [size : Nat, align : Nat \ {0}, dead : BOOLEAN]
    /\ MaxObjects \in Nat
    /\ MaxParams \in Nat

\* Alignments are powers of two: the smaller divides the larger.
ASSUME AlignmentAssumption ==
    LET alignments == {1, StackAlignment} \cup {o.align : o \in ObjectSet}
    IN  \A a, b \in alignments : a =< b => b % a = 0

VARIABLES
    objects,        \* MFI.Objects: the sequence of the function's objects
    fixed,          \* the offsets of its fixed objects, each one word
    adjustsStack,   \* whether it makes calls
    phase,          \* "fixed", "objects" or "done"
    next,           \* the object AdjustStackOffset handles next
    placed,         \* Offset, MaxAlign and the offsets assigned so far
    stackSize       \* MFI.StackSize

vars == <<objects, fixed, adjustsStack, phase, next, placed, stackSize>>

\* What a chain of ensureMaxAlignment calls leaves: the largest alignment of
\* the live and dead objects, or the argument slots' one.
AlignmentsAsked(objs, params) ==
    {1} \cup (IF params = {} THEN {} ELSE {4}) \cup {objs[i].align : i \in DOMAIN objs}

Init ==
    /\ \E n \in 0 .. MaxObjects : objects \in [1 .. n -> ObjectSet]
    /\ \E p \in 0 .. MaxParams : fixed = {4 * i : i \in 1 .. p}
    /\ adjustsStack \in BOOLEAN
    /\ phase = "fixed" /\ next = 1 /\ stackSize = 0
    /\ \E a \in AlignmentsAsked(objects, fixed) :
          /\ \A b \in AlignmentsAsked(objects, fixed) : b =< a
          /\ placed = NothingPlaced(objects, a)

\* The loop over the fixed objects: the local area starts below the lowest.
SkipFixed ==
    /\ phase = "fixed"
    /\ \E low \in {LocalAreaOffset} \cup {-o : o \in fixed} :
          /\ \A o \in {LocalAreaOffset} \cup {-p : p \in fixed} : o =< low
          /\ placed' = [placed EXCEPT !.offset = low]
    /\ phase' = "objects"
    /\ UNCHANGED <<objects, fixed, adjustsStack, next, stackSize>>

Place ==
    /\ phase = "objects" /\ next \in DOMAIN objects
    /\ placed' = IF objects[next].dead THEN placed
                 ELSE AdjustStackOffset(placed, next, objects[next])
    /\ next' = next + 1
    /\ UNCHANGED <<objects, fixed, adjustsStack, phase, stackSize>>

Round ==
    /\ phase = "objects" /\ next \notin DOMAIN objects
    /\ stackSize' = RoundedSize(placed, adjustsStack)
    /\ phase' = "done"
    /\ UNCHANGED <<objects, fixed, adjustsStack, next, placed>>

Done == phase = "done" /\ UNCHANGED vars

Next == SkipFixed \/ Place \/ Round \/ Done

Spec == Init /\ [][Next]_vars

-----------------------------------------------------------------------------
(* Properties. *)

Live == {i \in DOMAIN objects : ~objects[i].dead}

\* Type invariant.
TypeOK ==
    /\ objects \in Seq(ObjectSet)
    /\ fixed \subseteq Nat \ {0}
    /\ adjustsStack \in BOOLEAN
    /\ phase \in {"fixed", "objects", "done"}
    /\ next \in 1 .. Len(objects) + 1
    /\ placed \in [offset : Nat, maxAlign : Nat \ {0}, at : [DOMAIN objects -> Int]]
    /\ stackSize \in Nat

\* No two objects placed so far share a byte, and none reaches up to the
\* return address at offset 0 or the arguments above it.
ObjectsDisjoint ==
    \A i \in Live : i < next =>
        /\ placed.at[i] + objects[i].size =< 0
        /\ \A j \in Live : j < next /\ i # j =>
              \/ placed.at[i] + objects[i].size =< placed.at[j]
              \/ placed.at[j] + objects[j].size =< placed.at[i]

\* When the prologue has lowered f5 by stackSize, every object is at or above
\* f5: nothing the function stores lies where the next call frame will be.
FrameCoversObjects ==
    phase = "done" => \A i \in Live : -stackSize =< placed.at[i]

\* Every object is as aligned relative to f5 on entry, and relative to the
\* lowered f5, as it asked to be.
OffsetsAligned ==
    phase = "done" => \A i \in Live :
        /\ placed.at[i] % objects[i].align = 0
        /\ (placed.at[i] + stackSize) % objects[i].align = 0

\* A function that makes calls keeps f5 a multiple of the stack alignment, so
\* that the call frames SPAdj rounds to that alignment need no padding.
CallersKeepStackAligned ==
    phase = "done" /\ adjustsStack => stackSize % StackAlignment = 0
=============================================================================
