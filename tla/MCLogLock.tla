------------------------------ MODULE MCLogLock ------------------------------
(* A small instance of LogLock: 3 processes, 4 inodes (3 rotations). *)
EXTENDS LogLock, TLC

Symmetry == Permutations(Procs) \cup Permutations(Inodes)
=============================================================================
