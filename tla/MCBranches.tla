----------------------------- MODULE MCBranches -----------------------------
\* Two-bit words, so that signed and unsigned comparisons differ; a loop and
\* two other blocks, which may be the same, in every layout; register and
\* memory operands, which take one and three entries.
EXTENDS Branches
CONSTANTS self, b1, b2
MCBlock == {self, b1, b2}
MCShape == {"r", "m"}
=============================================================================
