--------------------------- MODULE MCAsmStreamer ---------------------------
(* Modules of up to three functions and globals in two data sections. *)
EXTENDS AsmStreamer, TLC

CONSTANTS s1, s2, s3

Constant(n) == [size |-> n, ref |-> None]
Pointer(to) == [size |-> 4, ref |-> to]

\* A word, a byte, a half word, three bytes of an aligned array, a 64-bit
\* value, a packed struct, a pointer, an empty object, and one read-only byte.
MCObject ==
    { [section |-> "data", align |-> 4, parts |-> <<Constant(4)>>],
      [section |-> "data", align |-> 1, parts |-> <<Constant(1)>>],
      [section |-> "data", align |-> 2, parts |-> <<Constant(2)>>],
      [section |-> "data", align |-> 4, parts |-> <<Constant(1), Constant(1), Constant(1)>>],
      [section |-> "data", align |-> 8, parts |-> <<Constant(8)>>],
      [section |-> "data", align |-> 2, parts |-> <<Constant(1), Constant(4), Constant(1)>>],
      [section |-> "data", align |-> 4, parts |-> <<Pointer(s2)>>],
      [section |-> "data", align |-> 1, parts |-> <<Pointer(s2)>>],
      [section |-> "data", align |-> 1, parts |-> << >>],
      [section |-> "rodata", align |-> 1, parts |-> <<Constant(1), Constant(1)>>],
      [section |-> "rodata", align |-> 4, parts |-> <<Constant(2)>>] }

Symmetric == Permutations({s1, s3})
=============================================================================
