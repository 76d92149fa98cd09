------------------------------ MODULE MCDotlock ------------------------------
(* Model checking Dotlock: processes are interchangeable. *)
EXTENDS Dotlock, TLC

Symmetry == Permutations(Procs)
=============================================================================
