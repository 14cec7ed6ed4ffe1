--------------------------- MODULE MCPhilosophers ---------------------------
(* Four philosophers: two of them can eat at the same time. *)
EXTENDS Philosophers
=============================================================================
