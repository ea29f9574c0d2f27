----------------------------- MODULE MCResolver -----------------------------
EXTENDS Resolver, TLC
CONSTANTS x, y
MCName == {x, y}
MCSymmetry == Permutations(MCName)
=============================================================================
