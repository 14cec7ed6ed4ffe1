--------------------------------- MODULE Pid ---------------------------------
(***************************************************************************)
(* get_pid of lab8/kern/process/proc.c, with the two callers that change   *)
(* proc_list: do_fork (set_links, at the head) and do_wait (remove_links). *)
(*                                                                         *)
(* get_pid keeps the two statics last_pid and next_safe: no living process *)
(* has a pid strictly between them, so as long as last_pid stays below     *)
(* next_safe the next pid is free without a scan.  The scan is one action  *)
(* per list element.  In the kernel it runs with interrupts off, so the    *)
(* callers' steps are possible only between two calls.                     *)
(***************************************************************************)
EXTENDS Integers, Sequences

CONSTANTS MAX_PID, MAX_PROCESS

\* static_assert(MAX_PID > MAX_PROCESS); idle and init exist.
ASSUME BoundsAssumption ==
  /\ MAX_PID \in Nat /\ MAX_PROCESS \in Nat
  /\ MAX_PID > MAX_PROCESS /\ MAX_PROCESS > 1

VARIABLES
  proc_list, \* the pids along proc_list, newest first (idle is not in it)
  last_pid,
  next_safe,
  le,        \* the list element the scan looks at next, Len + 1 at the end
  pc         \* "idle", "scan" inside the loop, "found" about to return

pidvars == <<proc_list, last_pid, next_safe, le, pc>>

PidInit ==
  /\ proc_list = <<>>
  /\ last_pid = MAX_PID
  /\ next_safe = MAX_PID
  /\ le = 1
  /\ pc = "idle"

(***************************************************************************)
(* Operators named M_... are deliberate bugs: each is the mutated form of  *)
(* the definition that follows it and occurs nowhere in the specification. *)
(***************************************************************************)
\* Off by one: the pid next_safe itself is taken to be free.
M_enter ==
  /\ pc = "idle"
  /\ Len(proc_list) + 1 < MAX_PROCESS
  /\ last_pid' = IF last_pid + 1 >= MAX_PID THEN 1 ELSE last_pid + 1
  /\ IF last_pid + 1 >= MAX_PID \/ last_pid + 1 > next_safe
     THEN next_safe' = MAX_PID /\ le' = 1 /\ pc' = "scan"
     ELSE pc' = "found" /\ UNCHANGED <<next_safe, le>>
  /\ UNCHANGED proc_list

\* do_fork's test of nr_process, then get_pid up to its loop.
enter ==
  /\ pc = "idle"
  /\ Len(proc_list) + 1 < MAX_PROCESS
  /\ last_pid' = IF last_pid + 1 >= MAX_PID THEN 1 ELSE last_pid + 1
  /\ IF last_pid + 1 >= MAX_PID \/ last_pid + 1 >= next_safe
     THEN next_safe' = MAX_PID /\ le' = 1 /\ pc' = "scan"
     ELSE pc' = "found" /\ UNCHANGED <<next_safe, le>>
  /\ UNCHANGED proc_list

\* The loop starts over with the same candidate.
M_collideStuck ==
  /\ pc = "scan"
  /\ le <= Len(proc_list)
  /\ proc_list[le] = last_pid
  /\ le' = 1
  /\ next_safe' = MAX_PID
  /\ UNCHANGED <<proc_list, last_pid, pc>>

\* The candidate is taken: try the next one, from the start of the list (goto
\* repeat) if that is no longer known to be below next_safe.
collide ==
  /\ pc = "scan"
  /\ le <= Len(proc_list)
  /\ proc_list[le] = last_pid
  /\ IF last_pid + 1 >= next_safe
     THEN /\ last_pid' = IF last_pid + 1 >= MAX_PID THEN 1 ELSE last_pid + 1
          /\ next_safe' = MAX_PID
          /\ le' = 1
     ELSE /\ last_pid' = last_pid + 1
          /\ le' = le + 1
          /\ UNCHANGED next_safe
  /\ UNCHANGED <<proc_list, pc>>

\* next_safe is not lowered.
M_pass ==
  /\ pc = "scan"
  /\ le <= Len(proc_list)
  /\ proc_list[le] # last_pid
  /\ le' = le + 1
  /\ UNCHANGED <<proc_list, last_pid, next_safe, pc>>

\* Another pid: a larger one lowers next_safe.
pass ==
  /\ pc = "scan"
  /\ le <= Len(proc_list)
  /\ proc_list[le] # last_pid
  /\ next_safe' = IF proc_list[le] > last_pid /\ next_safe > proc_list[le]
                  THEN proc_list[le] ELSE next_safe
  /\ le' = le + 1
  /\ UNCHANGED <<proc_list, last_pid, pc>>

scan_end ==
  /\ pc = "scan"
  /\ le = Len(proc_list) + 1
  /\ pc' = "found"
  /\ UNCHANGED <<proc_list, last_pid, next_safe, le>>

\* proc->pid = get_pid(); set_links()
set_links ==
  /\ pc = "found"
  /\ proc_list' = <<last_pid>> \o proc_list
  /\ pc' = "idle"
  /\ UNCHANGED <<last_pid, next_safe, le>>

\* do_wait reclaims the process at place i: remove_links()
remove_links(i) ==
  /\ pc = "idle"
  /\ i \in 1..Len(proc_list)
  /\ proc_list' = [j \in 1..(Len(proc_list) - 1) |->
                     IF j < i THEN proc_list[j] ELSE proc_list[j + 1]]
  /\ UNCHANGED <<last_pid, next_safe, le, pc>>

get_pid == enter \/ collide \/ pass \/ scan_end \/ set_links

PidNext == get_pid \/ \E i \in 1..Len(proc_list) : remove_links(i)

PidSpec == PidInit /\ [][PidNext]_pidvars

\* get_pid and its caller run to the end.
PidFairSpec == PidSpec /\ WF_pidvars(collide \/ pass \/ scan_end \/ set_links)

-----------------------------------------------------------------------------
Pids == 1..(MAX_PID - 1)

\* The types of the variables; get_pid returns a pid from 1 to MAX_PID - 1,
\* the range find_proc accepts.
PidTypeOK ==
  /\ proc_list \in Seq(Pids)
  /\ last_pid \in 1..MAX_PID
  /\ next_safe \in 1..MAX_PID
  /\ le \in Nat \ {0}
  /\ pc \in {"idle", "scan", "found"}
  /\ pc # "idle" => last_pid \in Pids

\* "alloc a unique pid for process": no two living processes share a pid,
\* although processes come and go in any order and the numbers wrap around.
UniquePids ==
  \A i, j \in DOMAIN proc_list : proc_list[i] = proc_list[j] => i = j

\* The meaning of the two statics between calls, on which the path without a
\* scan relies.
SafeInterval ==
  pc = "idle" =>
    \A i \in DOMAIN proc_list : proc_list[i] <= last_pid \/ proc_list[i] >= next_safe

\* get_pid returns: with MAX_PID > MAX_PROCESS there always is a free pid, and
\* the scan, though it may start over many times, finds it.
GetPidReturns == pc = "scan" ~> pc = "found"
=============================================================================
