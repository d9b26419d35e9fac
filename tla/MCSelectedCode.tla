-------------------------- MODULE MCSelectedCode --------------------------
(* One-bit bytes, so words of four bits, and a memory of five bytes.       *)
EXTENDS SelectedCode

CONSTANTS f0, f1
MCRegs == {f0, f1}
===========================================================================
