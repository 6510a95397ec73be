------------------------------ MODULE MCPanel ------------------------------
EXTENDS Panel, TLC

Symmetry == Permutations(Chars)
=============================================================================
