------------------------------ MODULE MCMdboxMap ------------------------------
EXTENDS MdboxMap, TLC

Symmetry == Permutations(Procs)
=============================================================================
