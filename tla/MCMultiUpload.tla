---------------------------- MODULE MCMultiUpload ----------------------------
EXTENDS MultiUpload, TLC

\* Nothing tells the pool's threads apart.
Symmetry == Permutations(Threads)
=============================================================================
