------------------------------ MODULE TimerList ------------------------------
(***************************************************************************)
(* The timer list of lab8/kern/schedule/sched.c: add_timer, del_timer and  *)
(* run_timer_list.  A timer stores in `expires' the ticks that remain      *)
(* after the timer before it in the list has expired, so that a tick       *)
(* touches only the first one.                                             *)
(*                                                                         *)
(* The three functions run with interrupts off; their loops are one action *)
(* per iteration, and a new call starts only when pc is "idle".  A process *)
(* has at most one timer, the one on its stack in do_sleep.  What the      *)
(* wake-up does to the process is in module Proc, whose variable timer is  *)
(* the auxiliary variable due of this module.                              *)
(***************************************************************************)
EXTENDS Integers, Sequences, SequencesExt

CONSTANTS Procs, MaxExpires

ASSUME MaxExpiresAssumption == MaxExpires \in Nat

VARIABLES
  timer_list, \* the processes whose timers are linked, in list order
  expires,    \* timer->expires
  le,         \* the list element at which add_timer's loop is
  new,        \* the timer add_timer was called with, as a set of one or none
  pc,         \* "idle", "add" or "run"
  due         \* auxiliary: the ticks left of what the caller asked for, 0: none

timervars == <<timer_list, expires, le, new, pc, due>>

TimerInit ==
  /\ timer_list = <<>>
  /\ expires = [p \in Procs |-> 0]
  /\ le = 1
  /\ new = {}
  /\ pc = "idle"
  /\ due = [p \in Procs |-> 0]

\* list_empty(&timer->timer_link) is its negation.
Linked(p) == \E i \in 1..Len(timer_list) : timer_list[i] = p

(***************************************************************************)
(* Operators named M_... are deliberate bugs: each is the mutated form of  *)
(* the definition that follows it and occurs nowhere in the specification. *)
(***************************************************************************)
\* add_timer(timer) is called with timer->expires = n.
add_timer(p, n) ==
  /\ pc = "idle"
  /\ n > 0 /\ ~Linked(p)
  /\ expires' = [expires EXCEPT ![p] = n]
  /\ due' = [due EXCEPT ![p] = n]
  /\ le' = 1
  /\ new' = {p}
  /\ pc' = "add"
  /\ UNCHANGED timer_list

\* The loop goes past a timer that expires no later.
add_pass(p) ==
  /\ pc = "add" /\ p \in new
  /\ le <= Len(timer_list)
  /\ expires[p] >= expires[timer_list[le]]
  /\ expires' = [expires EXCEPT ![p] = @ - expires[timer_list[le]]]
  /\ le' = le + 1
  /\ UNCHANGED <<timer_list, new, pc, due>>

\* The timer that follows is not charged for the new one.
M_add_link(p) ==
  /\ pc = "add" /\ p \in new
  /\ le <= Len(timer_list) => expires[p] < expires[timer_list[le]]
  /\ timer_list' = InsertAt(timer_list, le, p)
  /\ new' = {}
  /\ pc' = "idle"
  /\ UNCHANGED <<expires, le, due>>

\* The loop stops, at a later timer or at the end; list_add_before.
add_link(p) ==
  /\ pc = "add" /\ p \in new
  /\ le <= Len(timer_list) => expires[p] < expires[timer_list[le]]
  /\ expires' = IF le <= Len(timer_list)
                THEN [expires EXCEPT ![timer_list[le]] = @ - expires[p]]
                ELSE expires
  /\ timer_list' = InsertAt(timer_list, le, p)
  /\ new' = {}
  /\ pc' = "idle"
  /\ UNCHANGED <<le, due>>

\* The ticks of a deleted timer are lost.
M_del_timer(p) ==
  /\ pc = "idle"
  /\ \E i \in 1..Len(timer_list) :
       /\ timer_list[i] = p
       /\ timer_list' = RemoveAt(timer_list, i)
  /\ due' = [due EXCEPT ![p] = 0]
  /\ UNCHANGED <<expires, le, new, pc>>

\* del_timer of a linked timer, by a sleeper that was woken early: the next
\* timer takes over its ticks.
del_timer(p) ==
  /\ pc = "idle"
  /\ \E i \in 1..Len(timer_list) :
       /\ timer_list[i] = p
       /\ expires' = IF expires[p] # 0 /\ i < Len(timer_list)
                     THEN [expires EXCEPT ![timer_list[i + 1]] = @ + expires[p]]
                     ELSE expires
       /\ timer_list' = RemoveAt(timer_list, i)
  /\ due' = [due EXCEPT ![p] = 0]
  /\ UNCHANGED <<le, new, pc>>

\* run_timer_list up to its loop, with a timer in the list.
run_timer_list ==
  /\ pc = "idle"
  /\ timer_list # <<>>
  /\ expires' = [expires EXCEPT ![timer_list[1]] = @ - 1]
  /\ due' = [p \in Procs |-> IF due[p] > 0 THEN due[p] - 1 ELSE 0]
  /\ pc' = "run"
  /\ UNCHANGED <<timer_list, le, new>>

\* An iteration of the loop: wakeup_proc, and del_timer of the first timer.
run_expire ==
  /\ pc = "run"
  /\ timer_list # <<>>
  /\ expires[timer_list[1]] = 0
  /\ timer_list' = Tail(timer_list)
  /\ UNCHANGED <<expires, le, new, pc, due>>

run_end ==
  /\ pc = "run"
  /\ timer_list # <<>> => expires[timer_list[1]] # 0
  /\ pc' = "idle"
  /\ UNCHANGED <<timer_list, expires, le, new, due>>

TimerNext ==
  \/ \E p \in Procs, n \in 1..MaxExpires : add_timer(p, n)
  \/ \E p \in Procs : add_pass(p) \/ add_link(p) \/ del_timer(p)
  \/ run_timer_list
  \/ run_expire
  \/ run_end

TimerSpec == TimerInit /\ [][TimerNext]_timervars

-----------------------------------------------------------------------------
\* The types of the variables; expires is unsigned in the code, so no
\* subtraction may go below zero.
TimerTypeOK ==
  /\ timer_list \in Seq(Procs)
  /\ expires \in [Procs -> Nat]
  /\ le \in Nat \ {0}
  /\ new \in SUBSET Procs
  /\ pc \in {"idle", "add", "run"}
  /\ due \in [Procs -> Nat]

\* The assertion of run_timer_list: the first timer never is one that should
\* have expired before, in whatever order timers are added and deleted.
HeadNotDue == pc = "idle" /\ timer_list # <<>> => expires[timer_list[1]] # 0

\* The differences stored along the list are those of the ticks the callers
\* asked for: of the first timer, and between each timer and the next.
DifferencesExact ==
  \A i \in 1..Len(timer_list) :
    due[timer_list[i]] =
      expires[timer_list[i]] + (IF i = 1 THEN 0 ELSE due[timer_list[i - 1]])

\* A sleeper is woken at the tick its do_sleep asked for, neither before (its
\* timer is linked as long as ticks are left) nor after (it is not linked once
\* none are left), although other timers are added and deleted around it.
OnTime == pc = "idle" => \A p \in Procs : Linked(p) <=> due[p] > 0
=============================================================================
