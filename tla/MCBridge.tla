------------------------------ MODULE MCBridge ------------------------------
EXTENDS Bridge, TLC
Symmetry == Permutations(Exchanges)
=============================================================================
