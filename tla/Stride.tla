-------------------------------- MODULE Stride --------------------------------
(***************************************************************************)
(* The stride scheduling class of lab8/kern/schedule/default_sched_stride.c *)
(* as schedule() drives it, and lab6_set_priority of kern/process/proc.c.  *)
(*                                                                         *)
(* The setting is that of user/priority.c: the processes of Procs have all *)
(* been forked and from then on are always runnable.  lab6_stride is a     *)
(* 32-bit unsigned number that wraps around and is compared by the sign of *)
(* the 32-bit difference; here it has the width that HALF gives it, 2^31   *)
(* in the code.  The run queue is a set, and pick_next takes a process     *)
(* that no other one comes before; module StrideHeap has the heap.         *)
(***************************************************************************)
EXTENDS Integers

CONSTANTS
  Procs,
  None,        \* no process of Procs runs
  BIG_STRIDE,
  HALF,        \* half the number of values of lab6_stride
  MaxPriority,
  SetFirst,    \* do processes set their priority before anything else?
  MaxTurns     \* bound on the turns of a process, the MAX_TIME of user/priority.c

ASSUME StrideAssumption ==
  /\ None \notin Procs
  /\ BIG_STRIDE \in Nat \ {0} /\ HALF \in Nat /\ MaxTurns \in Nat
  /\ MaxPriority \in Nat /\ MaxPriority <= BIG_STRIDE
  /\ BIG_STRIDE + 1 < HALF
  /\ SetFirst \in BOOLEAN

VARIABLES
  stride,   \* proc->lab6_stride
  priority, \* proc->lab6_priority, 0 from alloc_proc on until it is set
  pool,     \* the processes in rq->lab6_run_pool
  current,
  total,    \* auxiliary: the sum of all that was added to the stride
  turns     \* auxiliary: how often the process was picked since it has a priority

vars == <<stride, priority, pool, current, total, turns>>

Init ==
  /\ stride = [p \in Procs |-> 0]
  /\ priority = [p \in Procs |-> 0]
  /\ pool = Procs
  /\ current = None
  /\ total = [p \in Procs |-> 0]
  /\ turns = [p \in Procs |-> 0]

\* int32_t c = d, for the difference d of two unsigned numbers.
Signed(d) == IF d >= HALF THEN d - 2 * HALF ELSE IF d < -HALF THEN d + 2 * HALF ELSE d

(***************************************************************************)
(* Operators named M_... are deliberate bugs: each is the mutated form of  *)
(* the definition that follows it and occurs nowhere in the specification. *)
(***************************************************************************)
\* The strides are compared as unsigned numbers.
M_proc_stride_comp_f(p, q) == stride[p] - stride[q]

\* proc_stride_comp_f: negative when p comes before q.
proc_stride_comp_f(p, q) == Signed(stride[p] - stride[q])

\* The priority is taken for the pass.
M_Pass(n) == n

\* BIG_STRIDE / priority on 32-bit unsigned numbers; a RISC-V division by zero
\* gives the largest number, which adds to a stride like -1.
Pass(n) == IF n = 0 THEN -1 ELSE BIG_STRIDE \div n

\* Unsigned addition of a pass.
Plus(s, d) == IF s + d >= 2 * HALF THEN s + d - 2 * HALF
              ELSE IF s + d < 0 THEN s + d + 2 * HALF ELSE s + d

Runnable == pool \cup ({current} \ {None})

\* schedule() once p is picked: current has gone back to the run queue,
\* stride_pick_next has advanced the stride of p, stride_dequeue removes it.
run_next(p) ==
  /\ SetFirst /\ current # None => priority[current] # 0
  /\ \A q \in Procs : turns[q] < MaxTurns
  /\ stride' = [stride EXCEPT ![p] = Plus(@, Pass(priority[p]))]
  /\ total' = [total EXCEPT ![p] = @ + Pass(priority[p])]
  /\ turns' = [turns EXCEPT ![p] = @ + 1]
  /\ pool' = Runnable \ {p}
  /\ current' = p
  /\ UNCHANGED priority

\* schedule(): stride_pick_next finds a process of minimal stride.
schedule(p) ==
  /\ p \in Runnable
  /\ \A q \in Runnable : proc_stride_comp_f(p, q) <= 0
  /\ run_next(p)

\* lab6_set_priority, called once; the turns are counted from then on.
lab6_set_priority(n) ==
  /\ current # None
  /\ priority[current] = 0
  /\ priority' = [priority EXCEPT ![current] = IF n = 0 THEN 1 ELSE n]
  /\ turns' = [turns EXCEPT ![current] = 0]
  /\ UNCHANGED <<stride, pool, current, total>>

\* user/priority.c: the processes run for MAX_TIME and stop.
time_over == (\E p \in Procs : turns[p] = MaxTurns) /\ UNCHANGED vars

Next ==
  \/ time_over
  \/ \E p \in Procs : schedule(p)
  \/ \E n \in 0..MaxPriority : lab6_set_priority(n)

Spec == Init /\ [][Next]_vars

-----------------------------------------------------------------------------
\* The types of the variables.
TypeOK ==
  /\ stride \in [Procs -> 0..(2 * HALF - 1)]
  /\ priority \in [Procs -> 0..BIG_STRIDE]
  /\ pool \in SUBSET Procs
  /\ current \in Procs \cup {None}
  /\ total \in [Procs -> Int]
  /\ turns \in [Procs -> Nat]

\* No process gets ahead of another by more than one pass of the lowest
\* priority (and the odd 1 that a first turn without a priority takes off):
\* nobody starves.
StridesClose == \A p, q \in Procs : total[p] - total[q] <= BIG_STRIDE + 1

\* The 32-bit comparison tells which process really is behind, however often
\* the strides have wrapped around.
ComparisonTrue ==
  \A p, q \in Procs : proc_stride_comp_f(p, q) = total[p] - total[q]

\* The turns of two processes are in proportion to their priorities, up to the
\* last turn: what the report calls time slices proportional to priority.
ProportionalShare ==
  \A p, q \in Procs : priority[p] > 0 /\ priority[q] > 0 =>
    turns[p] * (BIG_STRIDE \div priority[p])
      <= turns[q] * (BIG_STRIDE \div priority[q]) + BIG_STRIDE + 1
=============================================================================
