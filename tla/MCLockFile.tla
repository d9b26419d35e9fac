----------------------------- MODULE MCLockFile -----------------------------
(***************************************************************************)
(* Three processes, two of them on one machine, one of them without rights *)
(* in the directory.                                                       *)
(***************************************************************************)
EXTENDS LockFile, TLC

CONSTANTS p1, p2, p3

MCProc == {p1, p2, p3}
MCHindered == {p1}
MCHostOf == p1 :> 1 @@ p2 :> 1 @@ p3 :> 2
=============================================================================
