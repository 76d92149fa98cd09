-------------------------- MODULE MCMailIndexSync --------------------------
EXTENDS MailIndexSync, TLC
Symmetry == Permutations(Procs)
=============================================================================
