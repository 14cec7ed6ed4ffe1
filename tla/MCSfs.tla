------------------------------- MODULE MCSfs -------------------------------
(* Sfs on a disk of a few blocks.                                           *)
EXTENDS Sfs, TLC

Symmetric == Permutations(Handles)
=============================================================================
