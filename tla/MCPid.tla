-------------------------------- MODULE MCPid --------------------------------
(* Five processes besides idle at most, pids 1 to 6: the numbers wrap around *)
(* with the table full, empty and fragmented.                                *)
EXTENDS Pid
=============================================================================
