------------------------------ MODULE MCStdin ------------------------------
(* Two readers; rings small enough to be overrun and to wrap around.        *)
EXTENDS Stdin

Symmetric == Permutations(Readers)
=============================================================================
