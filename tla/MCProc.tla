------------------------------- MODULE MCProc -------------------------------
(* idle, init and two or three user processes. *)
EXTENDS Proc, TLC

Symmetric == Permutations(UserProcs)
=============================================================================
