---------------------------- MODULE MCMailIndexView ----------------------------
(* Small instances of MailIndexView. *)
EXTENDS MailIndexView, TLC

Symmetry == Permutations(Views)
=============================================================================
