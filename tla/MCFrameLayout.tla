--------------------------- MODULE MCFrameLayout ---------------------------
(* Functions with up to three objects of the sizes and alignments IR types have. *)
EXTENDS FrameLayout

MCObjectSet ==
    [size : {1, 3, 4, 12}, align : {1, 4, 8}, dead : {FALSE}]
        \cup {[size |-> 4, align |-> 4, dead |-> TRUE]}
=============================================================================
