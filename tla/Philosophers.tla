---------------------------- MODULE Philosophers ----------------------------
(***************************************************************************)
(* The monitor of lab8/kern/sync/monitor.c and the program that exercises  *)
(* it, check_sync (kern/sync/check_sync.c): N philosophers, kernel threads,*)
(* eat TIMES times with forks guarded by semaphores; when the last of them *)
(* has quit, N others do the same with a monitor and a condition variable  *)
(* each.                                                                   *)
(*                                                                         *)
(* up() and down() are the semaphore of FifoSemaphore: up hands its token  *)
(* to the first waiter, who goes on when it runs.  Kernel threads are not  *)
(* preempted on this hart; the model nevertheless lets the others in       *)
(* around every semaphore operation, so nothing here depends on that.      *)
(* do_sleep(SLEEP_TIME), while thinking and eating, is a step that may     *)
(* take as long as it likes.                                               *)
(***************************************************************************)
EXTENDS Integers, Sequences, FiniteSets

CONSTANTS
  N,      \* how many philosophers
  TIMES   \* how often each eats

ASSUME NAssumption == N \in Nat /\ N >= 3
ASSUME TimesAssumption == TIMES \in Nat \ {0}

Phil == 0 .. N - 1
LEFT(i) == (i - 1 + N) % N
RIGHT(i) == (i + 1) % N

VARIABLES
  phase,      \* which part of check_sync runs: "sema", "condvar", "done"
  sem,        \* the semaphores: value and who waits, first come first
  state,      \* state_sema, then state_condvar
  next_count, \* mt.next_count
  count,      \* mt.cv[i].count
  iter,       \* meals a philosopher has begun
  pc,         \* where a philosopher goes on
  ret         \* where it returns to from cond_signal

vars == <<phase, sem, state, next_count, count, iter, pc, ret>>

\* The semaphores: mutex and s[i] of the first part, those of the monitor.
mutex   == <<"mutex", 0>>
s(i)    == <<"s", i>>
mtmutex == <<"mt.mutex", 0>>
mtnext  == <<"mt.next", 0>>
cv(i)   == <<"mt.cv", i>>
Sems == {mutex, mtmutex, mtnext} \cup {s(i) : i \in Phil} \cup {cv(i) : i \in Phil}

\* Philosopher i is blocked in down().
Asleep(i) == \E x \in Sems : \E k \in DOMAIN sem[x].queue : sem[x].queue[k] = i

At(i, l) == pc[i] = l /\ ~Asleep(i)

Goto(i, l) == pc' = [pc EXCEPT ![i] = l]

\* up(x) on the semaphores f.
up(f, x) ==
  IF f[x].queue = <<>> THEN [f EXCEPT ![x].value = @ + 1]
                       ELSE [f EXCEPT ![x].queue = Tail(@)]

\* down(x) by philosopher i, who goes on at l when it has the token.
down(i, x, l) ==
  /\ sem' = IF sem[x].value > 0 THEN [sem EXCEPT ![x].value = @ - 1]
                                ELSE [sem EXCEPT ![x].queue = Append(@, i)]
  /\ Goto(i, l)
  /\ UNCHANGED <<phase, state, next_count, count, iter, ret>>

-----------------------------------------------------------------------------
\* check_sync has initialised the semaphores and started the first philosophers.
Init ==
  /\ phase = "sema"
  /\ sem = [x \in Sems |-> [value |-> IF x = mutex THEN 1 ELSE 0, queue |-> <<>>]]
  /\ state = [i \in Phil |-> "THINKING"]
  /\ next_count = 0
  /\ count = [i \in Phil |-> 0]
  /\ iter = [i \in Phil |-> 1]
  /\ pc = [i \in Phil |-> "thinking"]
  /\ ret = [i \in Phil |-> "none"]

(***************************************************************************)
(* Operators named M_... are deliberate bugs: each is the mutated form of  *)
(* the definition that follows it and occurs nowhere in the specification. *)
(***************************************************************************)
\* The right neighbour is forgotten.
M_MayEat(st, j) == st[j] = "HUNGRY" /\ st[LEFT(j)] # "EATING"

\* The condition of phi_test_sema and phi_test_condvar.
MayEat(st, j) ==
  /\ st[j] = "HUNGRY"
  /\ st[LEFT(j)] # "EATING"
  /\ st[RIGHT(j)] # "EATING"

\* After a meal: again, or quit.
AfterMeal(i) == IF iter[i] < TIMES THEN "thinking" ELSE "quit"

-----------------------------------------------------------------------------
(* The philosophers that use semaphores. *)

\* phi_take_forks_sema up to its first down, and to the second.
take_sema_enter(i) == phase = "sema" /\ At(i, "thinking") /\ down(i, mutex, "take")

take_sema(i) ==
  LET st == [state EXCEPT ![i] = "HUNGRY"]
      ok == MayEat(st, i)
  IN  /\ At(i, "take")
      /\ state' = IF ok THEN [st EXCEPT ![i] = "EATING"] ELSE st
      /\ sem' = up(IF ok THEN up(sem, s(i)) ELSE sem, mutex)
      /\ Goto(i, "taken")
      /\ UNCHANGED <<phase, next_count, count, iter, ret>>

take_sema_wait(i) == At(i, "taken") /\ down(i, s(i), "eating")

\* phi_put_forks_sema
put_sema_enter(i) == phase = "sema" /\ At(i, "eating") /\ down(i, mutex, "put")

put_sema(i) ==
  LET st0 == [state EXCEPT ![i] = "THINKING"]
      l == MayEat(st0, LEFT(i))
      st1 == IF l THEN [st0 EXCEPT ![LEFT(i)] = "EATING"] ELSE st0
      r == MayEat(st1, RIGHT(i))
      f == IF l THEN up(sem, s(LEFT(i))) ELSE sem
  IN  /\ At(i, "put")
      /\ state' = IF r THEN [st1 EXCEPT ![RIGHT(i)] = "EATING"] ELSE st1
      /\ sem' = up(IF r THEN up(f, s(RIGHT(i))) ELSE f, mutex)
      /\ iter' = [iter EXCEPT ![i] = @ + 1]
      /\ Goto(i, AfterMeal(i))
      /\ UNCHANGED <<phase, next_count, count, ret>>

-----------------------------------------------------------------------------
(* The monitor and the philosophers that use it. *)

\* Leaving the monitor, at the end of a routine or in cond_wait: a signaller
\* that waits inside goes first.
LeaveMonitor == IF next_count > 0 THEN up(sem, mtnext) ELSE up(sem, mtmutex)

\* phi_test_condvar(j) by philosopher i, going on at l.  A signal for somebody
\* who waits enters cond_signal up to its up(); one for nobody is lost.
phi_test_condvar(i, j, st, l) ==
  IF MayEat(st, j)
  THEN /\ state' = [st EXCEPT ![j] = "EATING"]
       /\ IF count[j] > 0
          THEN /\ next_count' = next_count + 1
               /\ sem' = up(sem, cv(j))
               /\ ret' = [ret EXCEPT ![i] = l]
               /\ Goto(i, "signal")
          ELSE /\ Goto(i, l)
               /\ UNCHANGED <<sem, next_count, ret>>
  ELSE /\ state' = st
       /\ Goto(i, l)
       /\ UNCHANGED <<sem, next_count, ret>>

\* The rest of cond_signal: wait in the monitor until somebody leaves it.
cond_signal_wait(i) == At(i, "signal") /\ down(i, mtnext, "signalled")

\* The signaller forgets that it is no longer waiting.
M_cond_signal_done(i) ==
  /\ At(i, "signalled")
  /\ ret' = [ret EXCEPT ![i] = "none"]
  /\ Goto(i, ret[i])
  /\ UNCHANGED <<phase, sem, state, next_count, count, iter>>

cond_signal_done(i) ==
  /\ At(i, "signalled")
  /\ next_count' = next_count - 1
  /\ ret' = [ret EXCEPT ![i] = "none"]
  /\ Goto(i, ret[i])
  /\ UNCHANGED <<phase, sem, state, count, iter>>

\* phi_take_forks_condvar: enter, declare hunger and test, then either wait
\* or leave.
take_condvar_enter(i) == phase = "condvar" /\ At(i, "thinking") /\ down(i, mtmutex, "mtake")

take_condvar(i) ==
  /\ At(i, "mtake")
  /\ phi_test_condvar(i, i, [state EXCEPT ![i] = "HUNGRY"], "mtested")
  /\ UNCHANGED <<phase, count, iter>>

\* cond_wait up to its down(), when the forks are not there.
cond_wait(i) ==
  /\ At(i, "mtested")
  /\ state[i] = "HUNGRY"
  /\ count' = [count EXCEPT ![i] = @ + 1]
  /\ sem' = LeaveMonitor
  /\ Goto(i, "mwait")
  /\ UNCHANGED <<phase, state, next_count, iter, ret>>

cond_wait_down(i) == At(i, "mwait") /\ down(i, cv(i), "mwoken")

cond_wait_done(i) ==
  /\ At(i, "mwoken")
  /\ count' = [count EXCEPT ![i] = @ - 1]
  /\ Goto(i, "mtaken")
  /\ UNCHANGED <<phase, sem, state, next_count, iter, ret>>

\* The end of phi_take_forks_condvar.
take_condvar_leave(i) ==
  /\ At(i, "mtaken") \/ (At(i, "mtested") /\ state[i] # "HUNGRY")
  /\ sem' = LeaveMonitor
  /\ Goto(i, "eating")
  /\ UNCHANGED <<phase, state, next_count, count, iter, ret>>

\* phi_put_forks_condvar: enter, test the left neighbour, the right one, leave.
put_condvar_enter(i) == phase = "condvar" /\ At(i, "eating") /\ down(i, mtmutex, "mput")

put_condvar_left(i) ==
  /\ At(i, "mput")
  /\ phi_test_condvar(i, LEFT(i), [state EXCEPT ![i] = "THINKING"], "mputr")
  /\ UNCHANGED <<phase, count, iter>>

put_condvar_right(i) ==
  /\ At(i, "mputr")
  /\ phi_test_condvar(i, RIGHT(i), state, "mputl")
  /\ UNCHANGED <<phase, count, iter>>

\* The meal is not counted.
M_put_condvar_leave(i) ==
  /\ At(i, "mputl")
  /\ sem' = LeaveMonitor
  /\ Goto(i, AfterMeal(i))
  /\ UNCHANGED <<phase, state, next_count, count, iter, ret>>

put_condvar_leave(i) ==
  /\ At(i, "mputl")
  /\ sem' = LeaveMonitor
  /\ iter' = [iter EXCEPT ![i] = @ + 1]
  /\ Goto(i, AfterMeal(i))
  /\ UNCHANGED <<phase, state, next_count, count, ret>>

-----------------------------------------------------------------------------
\* check_sync: the first philosophers have all been waited for; monitor_init,
\* and the second ones are started.
check_sync_condvar ==
  /\ phase = "sema"
  /\ \A i \in Phil : pc[i] = "quit"
  /\ phase' = "condvar"
  /\ sem' = [sem EXCEPT ![mtmutex] = [value |-> 1, queue |-> <<>>]]
  /\ state' = [i \in Phil |-> "THINKING"]
  /\ iter' = [i \in Phil |-> 1]
  /\ pc' = [i \in Phil |-> "thinking"]
  /\ UNCHANGED <<next_count, count, ret>>

\* check_sync returns.
check_sync_done ==
  /\ phase = "condvar"
  /\ \A i \in Phil : pc[i] = "quit"
  /\ phase' = "done"
  /\ UNCHANGED <<sem, state, next_count, count, iter, pc, ret>>

\* What one philosopher does.
philosopher(i) ==
  \/ take_sema_enter(i) \/ take_sema(i) \/ take_sema_wait(i)
  \/ put_sema_enter(i) \/ put_sema(i)
  \/ take_condvar_enter(i) \/ take_condvar(i)
  \/ cond_wait(i) \/ cond_wait_down(i) \/ cond_wait_done(i)
  \/ take_condvar_leave(i)
  \/ put_condvar_enter(i) \/ put_condvar_left(i) \/ put_condvar_right(i)
  \/ put_condvar_leave(i)
  \/ cond_signal_wait(i) \/ cond_signal_done(i)

Next ==
  \/ \E i \in Phil : philosopher(i)
  \/ check_sync_condvar
  \/ check_sync_done
  \/ phase = "done" /\ UNCHANGED vars

Spec == Init /\ [][Next]_vars

\* A runnable thread is run, and a sleep ends.
FairSpec ==
  /\ Spec
  /\ \A i \in Phil : WF_vars(philosopher(i))
  /\ WF_vars(check_sync_condvar \/ check_sync_done)

-----------------------------------------------------------------------------
\* The philosophers inside the monitor and able to run.  One that has signalled
\* and is about to wait in `next' has given the monitor away.
Active ==
  {i \in Phil : ~Asleep(i) /\
     pc[i] \in {"mtake", "mtested", "mwoken", "mtaken", "mput", "mputr", "mputl", "signalled"}}

\* A fork is never in two hands, whichever way the forks are guarded, and who
\* eats, or was told by a signal that it may, holds its two: a philosopher
\* woken by cond_signal goes on without testing its condition again.
ForksExclusive ==
  \A i \in Phil :
    /\ state[i] = "EATING" => state[RIGHT(i)] # "EATING"
    /\ At(i, "eating") \/ At(i, "mwoken") \/ At(i, "mtaken") => state[i] = "EATING"

\* "Only one process at a time may be active in a monitor" (monitor.h), with
\* the waiters and signallers counted right: next_count and cv.count decide to
\* whom the monitor is handed over.
MonitorExclusive ==
  /\ Cardinality(Active) <= 1
  /\ next_count = Cardinality({i \in Phil : pc[i] \in {"signal", "signalled"}})
  /\ \A i \in Phil : count[i] = IF pc[i] \in {"mwait", "mwoken"} THEN 1 ELSE 0

\* check_sync returns: nobody is left waiting for forks or for the monitor.
CheckSyncReturns == <>(phase = "done")
=============================================================================
