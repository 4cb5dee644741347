------------------------------ MODULE MCClient ------------------------------
EXTENDS ClientInv, TLC

\* Connections are alike, and so are users as long as both or neither may close.
Symmetry ==
    {f \in Permutations(Users) : {f[u] : u \in Closers} = Closers} \cup Permutations(Conns)
=============================================================================
