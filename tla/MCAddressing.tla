--------------------------- MODULE MCAddressing ---------------------------
(* Words of five bits; locals and arguments in frames and call sequences   *)
(* of several sizes.                                                       *)
EXTENDS Addressing

MCOffsets == {-8, -4, 4}
MCOffsets8 == {-8, 8}
MCConstants == {-16, -1, 3, 8, 15}
===========================================================================
