------------------------------ MODULE MCNestWAL ------------------------------
EXTENDS NestWALInv, TLC

Symmetry == Permutations(Clients)
=============================================================================
