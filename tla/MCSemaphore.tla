----------------------------- MODULE MCSemaphore -----------------------------
(* Four processes share a semaphore with two tokens. *)
EXTENDS Semaphore
=============================================================================
