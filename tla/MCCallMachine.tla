--------------------------- MODULE MCCallMachine ---------------------------
(***************************************************************************)
(* Small instances of CallMachine.  main calls work; work calls itself and *)
(* leaf, which calls nothing.  Stack sizes and offsets are the ones        *)
(* StackObjects computes from the objects each function has.               *)
(***************************************************************************)
EXTENDS CallMachine, StackObjects

CONSTANTS main, work, leaf, callWork, recur, callLeaf

MCFn == {main, work, leaf}
MCSite == {callWork, recur, callLeaf}
MCCaller == callWork :> main @@ recur :> work @@ callLeaf :> work
MCCallee == callWork :> work @@ recur :> work @@ callLeaf :> leaf

byte == [size |-> 1, align |-> 1, dead |-> FALSE]
word == [size |-> 4, align |-> 4, dead |-> FALSE]
double == [size |-> 8, align |-> 8, dead |-> FALSE]

\* Placing an argument raises the alignment of the frame to the slot's, 4.
SlotAlign(f, params) == IF f = leaf /\ params[f] = << >> THEN 1 ELSE 4
LayoutOf(f, objects, params) == Layout(objects[f], SlotAlign(f, params))

OffsetsOf(objects, params) == [f \in MCFn |-> LayoutOf(f, objects, params).at]
StackSizesOf(objects, params) ==
    [f \in MCFn |-> RoundedSize(LayoutOf(f, objects, params), f # leaf)]
SizesOf(objects) == [f \in MCFn |-> [o \in DOMAIN objects[f] |-> objects[f][o].size]]
AlignsOf(objects) == [f \in MCFn |-> [o \in DOMAIN objects[f] |-> objects[f][o].align]]

\* Two scalar parameters, word- and byte-sized locals; leaf's frame is one byte.
Objects1 == main :> << >> @@ work :> <<byte, word>> @@ leaf :> <<byte>>
Params1 == main :> << >> @@ work :> <<4, 4>> @@ leaf :> << >>
Sizes1 == SizesOf(Objects1)
Aligns1 == AlignsOf(Objects1)
Offsets1 == OffsetsOf(Objects1, Params1)
StackSizes1 == StackSizesOf(Objects1, Params1)

\* A byval parameter of two words after a scalar one.
Objects2 == main :> <<word>> @@ work :> << >> @@ leaf :> << >>
Params2 == main :> << >> @@ work :> <<4, 8>> @@ leaf :> << >>
Sizes2 == SizesOf(Objects2)
Aligns2 == AlignsOf(Objects2)
Offsets2 == OffsetsOf(Objects2, Params2)
StackSizes2 == StackSizesOf(Objects2, Params2)

\* A local that asks for 8-byte alignment, as a double does.
Objects3 == main :> <<word>> @@ work :> <<double>> @@ leaf :> << >>
Params3 == main :> << >> @@ work :> <<4, 4>> @@ leaf :> << >>
Sizes3 == SizesOf(Objects3)
Aligns3 == AlignsOf(Objects3)
Offsets3 == OffsetsOf(Objects3, Params3)
StackSizes3 == StackSizesOf(Objects3, Params3)

Symmetric == Permutations(Value)
=============================================================================
