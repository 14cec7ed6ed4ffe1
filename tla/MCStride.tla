------------------------------ MODULE MCStride ------------------------------
(* Four processes; strides wrap around several times within MaxTurns.       *)
EXTENDS StrideHeap
=============================================================================
