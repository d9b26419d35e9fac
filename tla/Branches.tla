------------------------------ MODULE Branches ------------------------------
(***************************************************************************)
(* The end of one machine basic block, from instruction selection to       *)
(* emission.                                                               *)
(*                                                                         *)
(* Branch folding and block placement rewrite the terminators of a block   *)
(* through analyzeBranch, removeBranch, insertBranch and                   *)
(* reverseBranchCondition of F2003fInstrInfo: they delete a jump to the    *)
(* block that follows, put one in when another block follows, and reverse  *)
(* conditions.  At last FiMalkrz splits comparisons from jumps.  However   *)
(* the block is rewritten, for all values compared it must go on to lead   *)
(* where the source program says.                                          *)
(*                                                                         *)
(* `falls' is the block that falling off the end is meant to lead to: the  *)
(* next one in the layout, except while the layout has been changed and    *)
(* the terminators not yet updated (moved), or while tail merging has      *)
(* taken the jump away and not yet put it back (open).                     *)
(***************************************************************************)
EXTENDS CondCodes

CONSTANTS
    Block, Self,    \* the blocks of the function, and the one modelled
    None,           \* no block
    Shape           \* the operand shapes of comparisons

\* Registers, immediates and memory; the block is one of the function's, and
\* None is told apart from what code leads to.
ASSUME BranchAssumption ==
    /\ Shape \subseteq {"r", "i", "m"}
    /\ Self \in Block
    /\ None \notin Block \cup {"return"}

VARIABLES
    code,       \* an optional select, and the terminators
    succs,      \* the successors in the control flow graph
    next,       \* the block after Self in the layout, or None
    phase,      \* "placed", "moved", "open" or "expanded"
    falls,      \* where falling off the end should lead: history, except while
                \* open, when tail merging knows it as IBB
    meant       \* history: the outcome of the source program, per values

vars == <<code, succs, next, phase, falls, meant>>

Others == (Block \cup {None}) \ {Self}
Compared == Words \X Words

Krz(to) == [op |-> "krz", fi |-> <<"none", "none">>, malkrz |-> "none", ops |-> <<to>>]
Dosnud == [op |-> "dosnud", fi |-> <<"none", "none">>, malkrz |-> "none", ops |-> << >>]

-----------------------------------------------------------------------------
(* F2003fInstrInfo. *)

IsBranch(instr) == instr.op = "krz" \/ (instr.op = "fi_malkrz" /\ instr.malkrz = "x")

\* Faulty: a jump below the conditional branch is forgotten.
AnalyzeForgetsJump(instr, a, layoutSuccessor, allowModify) ==
    LET kept == [a EXCEPT !.keep = <<instr>> \o @]
    IN  CASE a.stop \/ ~(IsBranch(instr) \/ instr.op = "dosnud") ->
                [kept EXCEPT !.stop = TRUE]
          [] ~a.stop /\ instr.op = "dosnud" ->
                [kept EXCEPT !.stop = TRUE, !.failed = TRUE]
          [] ~a.stop /\ instr.op = "krz" -> [kept EXCEPT !.TBB = instr.ops[1]]
          [] OTHER -> [kept EXCEPT !.TBB = instr.ops[1], !.Cond = << instr.fi >> \o Tail(instr.ops)]

\* One instruction of analyzeBranch, which looks at the terminators from the
\* bottom up.  `keep' is what remains of the block from here on.
AnalyzeOne(instr, a, layoutSuccessor, allowModify) ==
    LET kept == [a EXCEPT !.keep = <<instr>> \o @]
    IN  CASE a.stop \/ ~(IsBranch(instr) \/ instr.op = "dosnud") ->
                [kept EXCEPT !.stop = TRUE]
          [] ~a.stop /\ instr.op = "dosnud" ->
                [kept EXCEPT !.stop = TRUE, !.failed = TRUE]
          [] ~a.stop /\ instr.op = "krz" /\ ~allowModify ->
                [kept EXCEPT !.TBB = instr.ops[1]]
          [] ~a.stop /\ instr.op = "krz" /\ allowModify ->
                IF instr.ops[1] = layoutSuccessor
                THEN [a EXCEPT !.Cond = << >>, !.FBB = None, !.TBB = None, !.keep = << >>]
                ELSE [a EXCEPT !.Cond = << >>, !.FBB = None, !.TBB = instr.ops[1],
                               !.keep = <<instr>>]
          [] OTHER ->
                IF a.Cond = << >>
                THEN [kept EXCEPT !.FBB = a.TBB, !.TBB = instr.ops[1],
                                  !.Cond = << instr.fi >> \o Tail(instr.ops)]
                ELSE [kept EXCEPT !.stop = TRUE, !.failed = TRUE]

analyzeBranch(instrs, layoutSuccessor, allowModify) ==
    FoldRight(LAMBDA instr, a : AnalyzeOne(instr, a, layoutSuccessor, allowModify),
              instrs,
              [TBB |-> None, FBB |-> None, Cond |-> << >>, keep |-> << >>,
               failed |-> FALSE, stop |-> FALSE])

\* Cond is the opcode and the operands after the target; the last is the code.
reverseBranchCondition(Cond) ==
    [Cond EXCEPT ![Len(Cond)] = OppositeF2003fCC(@)]

insertBranch(instrs, TBB, FBB, Cond) ==
    instrs \o (IF Cond = << >> THEN <<Krz(TBB)>>
               ELSE << [op |-> "fi_malkrz", fi |-> Cond[1], malkrz |-> "x",
                        ops |-> <<TBB>> \o Tail(Cond)] >>)
           \o (IF Cond # << >> /\ FBB # None THEN <<Krz(FBB)>> ELSE << >>)

\* The instructions above the trailing branches.
removeBranch(instrs) ==
    LET other == {i \in DOMAIN instrs : ~IsBranch(instrs[i])}
        last == CHOOSE i \in other \cup {0} : \A j \in other : j =< i
    IN  SubSeq(instrs, 1, last)

Rewritten(instrs, TBB, FBB, Cond) ==
    insertBranch(removeBranch(instrs), TBB, FBB, Cond)

-----------------------------------------------------------------------------
(* MachineBasicBlock::updateTerminator. *)

canFallThrough(instrs, follower) ==
    LET a == analyzeBranch(instrs, follower, FALSE)
    IN  /\ follower \in succs
        /\ IF a.failed THEN instrs = << >> \/ instrs[Len(instrs)].op \notin {"krz", "dosnud"}
           ELSE \/ a.TBB = None
                \/ follower \in {a.TBB, a.FBB}
                \/ a.Cond # << >> /\ a.FBB = None

\* The one successor that is not the conditional branch's destination.
FallthroughBB(TBB) == CHOOSE b \in (succs \ {TBB}) \cup {None} :
                          succs \ {TBB} # {} => b # None

Updated(instrs, follower) ==
    LET a == analyzeBranch(instrs, follower, FALSE)
        other == FallthroughBB(a.TBB)
    IN  CASE succs = {} -> instrs
          [] succs # {} /\ a.Cond = << >> ->
                IF a.TBB # None
                THEN IF a.TBB = follower THEN removeBranch(instrs) ELSE instrs
                ELSE IF other = follower THEN instrs
                     ELSE insertBranch(instrs, other, None, << >>)
          [] succs # {} /\ a.Cond # << >> /\ a.FBB # None ->
                IF a.TBB = follower
                THEN Rewritten(instrs, a.FBB, None, reverseBranchCondition(a.Cond))
                ELSE IF a.FBB = follower THEN Rewritten(instrs, a.TBB, None, a.Cond)
                     ELSE instrs
          [] OTHER ->
                IF other = None
                THEN IF canFallThrough(instrs, follower)
                     THEN IF a.TBB = follower THEN removeBranch(instrs)
                          ELSE Rewritten(instrs, a.TBB, None, a.Cond)
                     ELSE Rewritten(instrs, a.TBB, None, << >>)
                ELSE IF a.TBB = follower
                     THEN Rewritten(instrs, other, None, reverseBranchCondition(a.Cond))
                     ELSE IF other # follower THEN Rewritten(instrs, a.TBB, other, a.Cond)
                          ELSE instrs

-----------------------------------------------------------------------------
(* The passes. *)

\* visitBr and visitSwitchCase, LowerBR_CC, LowerSELECT_CC, selection: a
\* conditional branch, an unconditional one or a fall-through, or a return.
Init ==
    /\ next \in Others
    /\ phase = "placed" /\ falls = next
    /\ \E isd \in ISDCondCode, fi \in Shape \X Shape, src \in Shape \cup {"none"},
          T \in Block, F \in Block :
          LET select == IF src = "none" THEN << >> ELSE <<LowerSELECT_CC(isd, fi, src)>>
              Meaning(t, f) ==
                  [p \in Compared |->
                      IF ISDHolds(isd, p[1], p[2])
                      THEN [to |-> t, dst |-> IF src = "none" THEN "false" ELSE "true"]
                      ELSE [to |-> f, dst |-> "false"]]
          IN  \/ /\ code = select \o <<LowerBR_CC(isd, fi, T), Krz(F)>>
                 /\ succs = {T, F} /\ meant = Meaning(T, F)
              \/ /\ T = F
                 /\ code = select \o <<Krz(T)>> \/ (code = select /\ T = next)
                 /\ succs = {T} /\ meant = Meaning(T, T)
              \/ /\ T = F
                 /\ code = select \o <<Dosnud>>
                 /\ succs = {} /\ meant = Meaning("return", "return")

\* BranchFolder::OptimizeBlock of the block that follows, which simplifies the
\* terminators of the one before.
OptimizePrior ==
    /\ phase = "placed" /\ next # None
    /\ LET a == analyzeBranch(code, next, TRUE)
       IN  code' = CASE ~a.failed /\ a.TBB # None /\ a.TBB = a.FBB ->
                           IF a.TBB = next THEN removeBranch(a.keep)
                           ELSE Rewritten(a.keep, a.TBB, None, << >>)
                     [] ~a.failed /\ a.TBB # a.FBB /\ a.TBB = next /\ a.FBB = None ->
                           removeBranch(a.keep)
                     [] ~a.failed /\ a.TBB # a.FBB /\ a.FBB = next ->
                           Rewritten(a.keep, a.TBB, None, a.Cond)
                     [] ~a.failed /\ a.TBB # a.FBB /\ a.FBB # None /\ a.TBB = next ->
                           Rewritten(a.keep, a.FBB, None, reverseBranchCondition(a.Cond))
                     [] OTHER -> a.keep
    /\ UNCHANGED <<succs, next, phase, falls, meant>>

\* OptimizeBlock of Self: a loop back to itself becomes the conditional branch.
OptimizeLoop ==
    /\ phase = "placed"
    /\ LET a == analyzeBranch(code, next, TRUE)
       IN  code' = IF ~a.failed /\ a.FBB = Self /\ a.TBB \notin {None, Self}
                   THEN Rewritten(a.keep, a.FBB, a.TBB, reverseBranchCondition(a.Cond))
                   ELSE a.keep
    /\ UNCHANGED <<succs, next, phase, falls, meant>>

\* MergeTails, for the predecessor Self of into: take the unconditional branch,
\* or the way to into, off the end.
TakeTail(into) ==
    LET a == analyzeBranch(code, next, TRUE)
        here == a.Cond # << >> /\ a.TBB = into
        FBB == IF here /\ a.FBB = None THEN next ELSE a.FBB
        Cond == IF here THEN reverseBranchCondition(a.Cond) ELSE a.Cond
    IN  /\ phase = "placed" /\ into \in succs \ {Self} /\ ~a.failed
        /\ code' = CASE a.TBB # None /\ Cond = << >> -> removeBranch(a.keep)
                     [] a.TBB # None /\ Cond # << >> /\ FBB # None ->
                           Rewritten(a.keep, IF here THEN FBB ELSE a.TBB, None, Cond)
                     [] OTHER -> a.keep
        /\ phase' = "open" /\ falls' = into
        /\ UNCHANGED <<succs, next, meant>>

\* FixTail.
FixTail(SuccBB) ==
    LET a == analyzeBranch(code, next, TRUE)
    IN  IF next # None /\ a.TBB = next /\ a.Cond # << >> /\ a.FBB = None
        THEN Rewritten(a.keep, SuccBB, None, reverseBranchCondition(a.Cond))
        ELSE insertBranch(a.keep, SuccBB, None, << >>)

\* Put the branch back, unless the block is the layout predecessor of IBB.
PutTailBack ==
    /\ phase = "open"
    /\ code' = IF next = falls THEN code ELSE FixTail(falls)
    /\ phase' = "placed" /\ falls' = next
    /\ UNCHANGED <<succs, next, meant>>

\* buildCFGChains puts another block, or the end of the function, behind Self.
Move(n) ==
    /\ phase = "placed"
    /\ next' = n /\ phase' = "moved"
    /\ UNCHANGED <<code, succs, falls, meant>>

\* updateTerminator, which buildCFGChains calls if the branch is analyzable.
updateTerminator ==
    /\ phase = "moved"
    /\ code' = IF analyzeBranch(code, next, FALSE).failed THEN code ELSE Updated(code, next)
    /\ phase' = "placed" /\ falls' = next
    /\ UNCHANGED <<succs, next, meant>>

\* optimizeBranches: whether the false edge is the likelier one is left open.
OptimizeOrder ==
    /\ phase = "placed"
    /\ LET a == analyzeBranch(code, next, TRUE)
       IN  \/ code' = a.keep
          \/ /\ ~a.failed /\ a.TBB # None /\ a.Cond # << >> /\ a.FBB # None
             /\ code' = Updated(Rewritten(a.keep, a.FBB, a.TBB, reverseBranchCondition(a.Cond)),
                                next)
    /\ UNCHANGED <<succs, next, phase, falls, meant>>

\* FiMalkrz runs last, before emission.
Expand ==
    /\ phase = "placed"
    /\ code' = ExpandFiMalkrz(code)
    /\ phase' = "expanded"
    /\ UNCHANGED <<succs, next, falls, meant>>

Emitted == phase = "expanded" /\ UNCHANGED vars

Next ==
    \/ OptimizePrior
    \/ OptimizeLoop
    \/ \E into \in Block : TakeTail(into)
    \/ PutTailBack
    \/ \E n \in Others : Move(n)
    \/ updateTerminator
    \/ OptimizeOrder
    \/ Expand
    \/ Emitted

Spec == Init /\ [][Next]_vars

-----------------------------------------------------------------------------
(* Properties. *)

\* Whatever is compared, the block leads where the source program says, and a
\* select in it yields what the source program says, through every rewriting
\* and after the comparisons are split off.
ControlFlowKept ==
    \A p \in Compared : Outcome(code, p, falls, None) = meant[p]

\* What analyzeBranch tells the passes is what the block does: it goes to TBB
\* if Cond holds and to FBB if not, where no block means falling off the end.
AnalysisIsRight ==
    LET a == analyzeBranch(code, next, FALSE)
        Or(b) == IF b = None THEN falls ELSE b
    IN  phase # "expanded" /\ ~a.failed =>
            \A p \in Compared :
                meant[p].to = IF a.Cond = << >> \/ Compare(a.Cond[1], Tail(a.Cond), p)
                              THEN Or(a.TBB) ELSE Or(a.FBB)
=============================================================================
