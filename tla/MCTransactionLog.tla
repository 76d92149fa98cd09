--------------------------- MODULE MCTransactionLog ---------------------------
(* Small instances of TransactionLog. *)
EXTENDS TransactionLog, TLC

Symmetry == Permutations(Procs)
=============================================================================
