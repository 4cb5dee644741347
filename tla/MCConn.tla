------------------------------- MODULE MCConn -------------------------------
EXTENDS ConnInv, TLC

Symmetry == Permutations(Users)
=============================================================================
