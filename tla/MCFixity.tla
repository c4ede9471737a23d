------------------------------ MODULE MCFixity ------------------------------
EXTENDS Fixity, TLC

CONSTANTS md, dj
MCGrammars == {md, dj}
MCSymmetry == Permutations(MCGrammars)

\* Bound: once a landing was overtaken only the others go on.
OneLate == late => plan = NoPlan
=============================================================================
