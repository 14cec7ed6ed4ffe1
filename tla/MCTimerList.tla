----------------------------- MODULE MCTimerList -----------------------------
(* Four processes that sleep for up to four ticks: timers that expire at    *)
(* the same tick, before and after each other.                              *)
EXTENDS TimerList

Symmetric == Permutations(Procs)
=============================================================================
