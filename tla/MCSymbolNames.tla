--------------------------- MODULE MCSymbolNames ---------------------------
(***************************************************************************)
(* Every pair of operands, with names of one or two characters of each     *)
(* kind the code distinguishes, and a few longer ones.                     *)
(***************************************************************************)
EXTENDS SymbolNames

\* $ ' - . 0 5 9 A F X f x
OneOfEach == {36, 39, 45, 46, 48, 53, 57, 65, 70, 88, 102, 120}

\* f10, xxx, '.x, 'a, and BB1_1
Longer == {<<102, 49, 48>>, <<120, 120, 120>>, <<39, 46, 120>>, <<39, 97>>,
           <<66, 66, 49, 95, 49>>}

MCGlobalNames == {<<c>> : c \in OneOfEach}
                 \cup {<<c, d>> : c, d \in OneOfEach} \cup Longer
MCLabels == {1, 11} \X {1, 11}
MCTables == {<<1, 1>>, <<11, 1>>, <<1, 11>>}
===========================================================================
