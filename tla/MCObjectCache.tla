--------------------------- MODULE MCObjectCache ---------------------------
(***************************************************************************)
(* Two links of the same two modules, of which either fits into the cache  *)
(* but not both.                                                           *)
(***************************************************************************)
EXTENDS ObjectCache, TLC

CONSTANTS a, b

MCKey == {a, b}
Alike == Permutations(Link)
MCSize == a :> 1 @@ b :> 2
=============================================================================
