-------------------------------- MODULE Proc --------------------------------
(***************************************************************************)
(* Processes, scheduling and traps of the lab8 kernel: do_fork, do_exit,   *)
(* do_wait, do_kill, do_yield, do_sleep (kern/process/proc.c), schedule,   *)
(* wakeup_proc and the timer tick (kern/schedule/sched.c), and the way     *)
(* trap() (kern/trap/trap.c) leaves the kernel.                            *)
(*                                                                         *)
(* One hart runs `current'.  A system call runs with interrupts off from   *)
(* the trap until it returns to user mode or calls schedule(); only user   *)
(* code and the two kernel threads (idle, init) can be interrupted.  So a  *)
(* kernel path is cut exactly where another process or the clock can get   *)
(* in: before schedule(), after schedule(), and before trap() tests        *)
(* PF_EXITING and need_resched.                                            *)
(*                                                                         *)
(* Abstracted here: which runnable process the scheduling class picks (any *)
(* of them; see Stride), how timer_list stores the timers (their remaining *)
(* ticks; see TimerList), the links between relatives (the parent), memory *)
(* and files.                                                              *)
(***************************************************************************)
EXTENDS Integers, FiniteSets

CONSTANTS
  Procs,          \* the proc_structs that can be allocated at one time
  idleproc,
  initproc,
  None,           \* NULL, and the pid 0 of do_wait
  MAX_TIME_SLICE,
  MaxSleep        \* bound on the argument of do_sleep

ASSUME ProcsAssumption ==
  /\ idleproc \in Procs /\ initproc \in Procs /\ idleproc # initproc
  /\ None \notin Procs
ASSUME BoundsAssumption == MAX_TIME_SLICE \in Nat \ {0} /\ MaxSleep \in Nat

VARIABLES
  current,      \* who has the hart
  insched,      \* current has got as far as calling schedule()
  state,        \* proc->state, and "FREE" for a proc_struct not allocated
  wait_state,   \* proc->wait_state
  exiting,      \* the processes with PF_EXITING in proc->flags
  need_resched, \* the processes with proc->need_resched
  time_slice,   \* proc->time_slice
  parent,       \* proc->parent
  rq,           \* how many times the run queue holds the process
  timer,        \* ticks until the process's timer expires, 0: no timer
  waitfor,      \* the child a process waits for in do_wait, None: any
  pc            \* where the process goes on when it has the hart again

vars == <<current, insched, state, wait_state, exiting, need_resched, time_slice,
          parent, rq, timer, waitfor, pc>>

UserProcs == Procs \ {idleproc, initproc}

Children(p) == {q \in Procs : state[q] # "FREE" /\ parent[q] = p}

\* The wait states that contain the bit WT_INTERRUPTED.
Interruptible == {"WT_CHILD", "WT_TIMER"}

\* Interrupts reach the hart in user mode and in the two kernel threads, which
\* never run inside a trap.
IntrOn == current \in {idleproc, initproc} \/ (pc[current] = "user" /\ ~insched)

-----------------------------------------------------------------------------
\* After proc_init: idle has the hart, init_main is runnable.
Init ==
  /\ current = idleproc
  /\ insched = FALSE
  /\ state = [p \in Procs |-> IF p \in {idleproc, initproc} THEN "RUNNABLE" ELSE "FREE"]
  /\ wait_state = [p \in Procs |-> "none"]
  /\ exiting = {}
  /\ need_resched = {idleproc}
  /\ time_slice = [p \in Procs |-> IF p = initproc THEN MAX_TIME_SLICE ELSE 0]
  /\ parent = [p \in Procs |-> IF p = initproc THEN idleproc ELSE None]
  /\ rq = [p \in Procs |-> IF p = initproc THEN 1 ELSE 0]
  /\ timer = [p \in Procs |-> 0]
  /\ waitfor = [p \in Procs |-> None]
  /\ pc = [p \in Procs |-> CASE p = idleproc -> "idle"
                             [] p = initproc -> "start"
                             [] OTHER -> "user"]

(***************************************************************************)
(* Operators named M_... are deliberate bugs: each is the mutated form of  *)
(* the definition that follows it and occurs nowhere in the specification. *)
(***************************************************************************)
\* The slice of a process that is put on the run queue (stride_enqueue).
SliceOnEnqueue(s) == IF s = 0 THEN MAX_TIME_SLICE ELSE s

\* sched_class_enqueue of the processes in S, none of which is idle.
Enqueue(S) ==
  /\ rq' = [p \in Procs |-> IF p \in S THEN rq[p] + 1 ELSE rq[p]]
  /\ time_slice' = [p \in Procs |-> IF p \in S THEN SliceOnEnqueue(time_slice[p])
                                                ELSE time_slice[p]]

\* wakeup_proc enqueues without looking at the state.
M_WakeupEnqueued(S, st) == S \ {current, idleproc}

\* What wakeup_proc of every process in S does, given that `st' and `ws' are the
\* states and wait states at the call.
WakeupState(S, st) == [p \in Procs |-> IF p \in S THEN "RUNNABLE" ELSE st[p]]
WakeupWaitState(S, st) ==
  [p \in Procs |-> IF p \in S /\ st[p] # "RUNNABLE" THEN "none" ELSE wait_state[p]]
WakeupEnqueued(S, st) == {p \in S : st[p] # "RUNNABLE"} \ {current, idleproc}

wakeup(S, st) ==
  /\ state' = WakeupState(S, st)
  /\ wait_state' = WakeupWaitState(S, st)
  /\ Enqueue(WakeupEnqueued(S, st))

-----------------------------------------------------------------------------
\* schedule(): current goes back to the run queue if it is runnable, the
\* scheduling class picks and dequeues, idle runs when there is nobody.
schedule(next) ==
  LET back == IF state[current] = "RUNNABLE" THEN {current} \ {idleproc} ELSE {}
      q    == [p \in Procs |-> IF p \in back THEN rq[p] + 1 ELSE rq[p]]
  IN  /\ insched
      /\ IF \E p \in Procs : q[p] > 0 THEN q[next] > 0 ELSE next = idleproc
      /\ current' = next
      /\ rq' = [q EXCEPT ![next] = IF @ > 0 THEN @ - 1 ELSE 0]
      /\ time_slice' = [p \in Procs |-> IF p \in back THEN SliceOnEnqueue(time_slice[p])
                                                      ELSE time_slice[p]]
      /\ need_resched' = need_resched \ {current}
      /\ insched' = FALSE
      /\ UNCHANGED <<state, wait_state, exiting, parent, timer, waitfor, pc>>

\* The timer interrupt: run_timer_list() wakes the processes whose timer
\* expires and unlinks their timers, sched_class_proc_tick() charges the tick
\* to current; trap() then returns to a kernel thread, or goes on to its tests.
tick ==
  LET expired == {p \in Procs : timer[p] = 1}
      s == IF time_slice[current] > 0 THEN time_slice[current] - 1 ELSE 0
  IN  /\ IntrOn
      /\ pc[initproc] # "done"
      /\ timer' = [p \in Procs |-> IF timer[p] > 0 THEN timer[p] - 1 ELSE 0]
      /\ state' = WakeupState(expired, state)
      /\ wait_state' = WakeupWaitState(expired, state)
      /\ LET woken == WakeupEnqueued(expired, state)
             ts == [p \in Procs |-> IF p \in woken THEN SliceOnEnqueue(time_slice[p])
                                                   ELSE time_slice[p]]
         IN  /\ rq' = [p \in Procs |-> IF p \in woken THEN rq[p] + 1 ELSE rq[p]]
             /\ time_slice' = IF current = idleproc THEN ts ELSE [ts EXCEPT ![current] = s]
      /\ need_resched' = IF current = idleproc \/ s = 0
                         THEN need_resched \cup {current} ELSE need_resched
      /\ pc' = IF current \in UserProcs THEN [pc EXCEPT ![current] = "trapret"] ELSE pc
      /\ UNCHANGED <<current, insched, exiting, parent, waitfor>>

\* cpu_idle
cpu_idle ==
  /\ current = idleproc
  /\ ~insched
  /\ idleproc \in need_resched
  /\ insched' = TRUE
  /\ UNCHANGED <<current, state, wait_state, exiting, need_resched, time_slice,
                 parent, rq, timer, waitfor, pc>>

-----------------------------------------------------------------------------
\* The current process is at control point l and has not called schedule().
At(l) == ~insched /\ pc[current] = l

Goto(l) == pc' = [pc EXCEPT ![current] = l]

\* do_fork by a user process, or by init_main through kernel_thread(): the
\* child is linked under current, made runnable and enqueued.
do_fork(q) ==
  /\ q \in UserProcs
  /\ state[q] = "FREE"
  /\ At("user") \/ At("start")
  /\ parent' = [parent EXCEPT ![q] = current]
  /\ state' = [state EXCEPT ![q] = "RUNNABLE"]
  /\ rq' = [rq EXCEPT ![q] = @ + 1]
  /\ time_slice' = [time_slice EXCEPT ![q] = MAX_TIME_SLICE]
  /\ pc' = [pc EXCEPT ![q] = "user",
                      ![current] = IF current = initproc THEN "loop" ELSE "trapret"]
  /\ UNCHANGED <<current, insched, wait_state, exiting, need_resched, timer, waitfor>>

\* do_exit wakes init only for the exiting process itself, not for the zombies
\* it leaves behind.
M_ExitWakes == IF wait_state[parent[current]] = "WT_CHILD" THEN {parent[current]} ELSE {}

\* do_exit leaves it to the parent to look.
M_ExitWakesNobody == {}

\* The processes do_exit wakes: the parent that waits for a child, and init
\* when it waits and inherits a zombie.
ExitWakes ==
  LET p == parent[current]
  IN  (IF wait_state[p] = "WT_CHILD" THEN {p} ELSE {})
        \cup (IF wait_state[initproc] = "WT_CHILD"
                 /\ \E q \in Children(current) : state[q] = "ZOMBIE"
              THEN {initproc} ELSE {})

\* do_exit does not hand the children to init.
M_do_exit ==
  /\ wakeup(ExitWakes, [state EXCEPT ![current] = "ZOMBIE"])
  /\ insched' = TRUE
  /\ Goto("exit")
  /\ UNCHANGED <<current, exiting, need_resched, parent, timer, waitfor>>

\* do_exit: current becomes a zombie, its children become init's, and it calls
\* schedule() for the last time.
do_exit ==
  /\ wakeup(ExitWakes, [state EXCEPT ![current] = "ZOMBIE"])
  /\ parent' = [q \in Procs |-> IF q \in Children(current) THEN initproc ELSE parent[q]]
  /\ insched' = TRUE
  /\ Goto("exit")
  /\ UNCHANGED <<current, exiting, need_resched, timer, waitfor>>

\* sys_exit
sys_exit ==
  /\ current \in UserProcs
  /\ At("user")
  /\ do_exit

\* The children do_wait looks at.
Awaited(p) == IF waitfor[p] = None THEN Children(p) ELSE {waitfor[p]} \cap Children(p)

\* do_wait is called; whom it waits for is recorded for the scan.
sys_wait(target) ==
  /\ current \in UserProcs
  /\ At("user")
  /\ waitfor' = [waitfor EXCEPT ![current] = target]
  /\ Goto("scan")
  /\ UNCHANGED <<current, insched, state, wait_state, exiting, need_resched,
                 time_slice, parent, rq, timer>>

\* Where do_wait returns to.
AfterWait == IF current = initproc THEN "loop" ELSE "trapret"

\* do_wait's scan finds a zombie and reclaims it; init_main's loop then calls
\* schedule().
do_wait_found(z) ==
  /\ At("scan") \/ At("loop")
  /\ z \in Awaited(current)
  /\ state[z] = "ZOMBIE"
  /\ state' = [state EXCEPT ![z] = "FREE"]
  /\ parent' = [parent EXCEPT ![z] = None]
  /\ exiting' = exiting \ {z}
  /\ need_resched' = need_resched \ {z}
  /\ time_slice' = [time_slice EXCEPT ![z] = 0]
  /\ waitfor' = [waitfor EXCEPT ![z] = None, ![current] = None]
  /\ pc' = [pc EXCEPT ![z] = "user", ![current] = AfterWait]
  /\ insched' = (current = initproc)
  /\ UNCHANGED <<current, wait_state, rq, timer>>

\* The scan finds children but no zombie: sleep.
do_wait_block ==
  /\ At("scan") \/ At("loop")
  /\ Awaited(current) # {}
  /\ \A q \in Awaited(current) : state[q] # "ZOMBIE"
  /\ state' = [state EXCEPT ![current] = "SLEEPING"]
  /\ wait_state' = [wait_state EXCEPT ![current] = "WT_CHILD"]
  /\ insched' = TRUE
  /\ Goto("wait")
  /\ UNCHANGED <<current, exiting, need_resched, time_slice, parent, rq, timer, waitfor>>

\* do_wait gives up when no child is a zombie (haskid is never set).
M_do_wait_none ==
  /\ At("scan") \/ At("loop")
  /\ \A q \in Awaited(current) : state[q] # "ZOMBIE"
  /\ waitfor' = [waitfor EXCEPT ![current] = None]
  /\ Goto(IF current = initproc THEN "done" ELSE "trapret")
  /\ UNCHANGED <<current, insched, state, wait_state, exiting, need_resched,
                 time_slice, parent, rq, timer>>

\* The scan finds no child: -E_BAD_PROC, which also ends init_main's loop.
do_wait_none ==
  /\ At("scan") \/ At("loop")
  /\ Awaited(current) = {}
  /\ waitfor' = [waitfor EXCEPT ![current] = None]
  /\ Goto(IF current = initproc THEN "done" ELSE "trapret")
  /\ UNCHANGED <<current, insched, state, wait_state, exiting, need_resched,
                 time_slice, parent, rq, timer>>

\* do_wait after its schedule() returns: a killed process exits, any other one
\* scans again.
do_wait_resume ==
  /\ At("wait")
  /\ IF current \in exiting
     THEN do_exit
     ELSE /\ Goto(IF current = initproc THEN "loop" ELSE "scan")
          /\ UNCHANGED <<current, insched, state, wait_state, exiting, need_resched,
                         time_slice, parent, rq, timer, waitfor>>

\* do_kill.  It is never asked to kill init here: init would exit from do_wait,
\* and do_exit panics.
do_kill(q) ==
  /\ current \in UserProcs
  /\ At("user")
  /\ q \in UserProcs /\ state[q] # "FREE" /\ q \notin exiting
  /\ exiting' = exiting \cup {q}
  /\ wakeup(IF wait_state[q] \in Interruptible THEN {q} ELSE {}, state)
  /\ Goto("trapret")
  /\ UNCHANGED <<current, insched, need_resched, parent, timer, waitfor>>

\* A system call that changes nothing: getpid, do_fork with no proc_struct left,
\* do_kill of nobody or of a process being killed already, do_sleep(0).
sys_other ==
  /\ current \in UserProcs
  /\ At("user")
  /\ Goto("trapret")
  /\ UNCHANGED <<current, insched, state, wait_state, exiting, need_resched,
                 time_slice, parent, rq, timer, waitfor>>

\* do_yield
do_yield ==
  /\ current \in UserProcs
  /\ At("user")
  /\ need_resched' = need_resched \cup {current}
  /\ Goto("trapret")
  /\ UNCHANGED <<current, insched, state, wait_state, exiting, time_slice, parent,
                 rq, timer, waitfor>>

\* The timer is off by one.
M_do_sleep(t) ==
  /\ current \in UserProcs
  /\ At("user")
  /\ state' = [state EXCEPT ![current] = "SLEEPING"]
  /\ wait_state' = [wait_state EXCEPT ![current] = "WT_TIMER"]
  /\ timer' = [timer EXCEPT ![current] = t - 1]
  /\ insched' = TRUE
  /\ Goto("sleep")
  /\ UNCHANGED <<current, exiting, need_resched, time_slice, parent, rq, waitfor>>

\* do_sleep up to its schedule().
do_sleep(t) ==
  /\ current \in UserProcs
  /\ At("user")
  /\ state' = [state EXCEPT ![current] = "SLEEPING"]
  /\ wait_state' = [wait_state EXCEPT ![current] = "WT_TIMER"]
  /\ timer' = [timer EXCEPT ![current] = t]
  /\ insched' = TRUE
  /\ Goto("sleep")
  /\ UNCHANGED <<current, exiting, need_resched, time_slice, parent, rq, waitfor>>

\* do_sleep returns without del_timer.
M_do_sleep_resume ==
  /\ At("sleep")
  /\ Goto("trapret")
  /\ UNCHANGED <<current, insched, state, wait_state, exiting, need_resched,
                 time_slice, parent, rq, timer, waitfor>>

\* do_sleep after its schedule(): del_timer, which does nothing when the timer
\* has expired.
do_sleep_resume ==
  /\ At("sleep")
  /\ timer' = [timer EXCEPT ![current] = 0]
  /\ Goto("trapret")
  /\ UNCHANGED <<current, insched, state, wait_state, exiting, need_resched,
                 time_slice, parent, rq, waitfor>>

\* trap() does not test PF_EXITING.
M_trap_return ==
  /\ At("trapret")
  /\ Goto("user")
  /\ insched' = (current \in need_resched)
  /\ UNCHANGED <<current, state, wait_state, exiting, need_resched, time_slice,
                 parent, rq, timer, waitfor>>

\* The end of trap() on the way back to user mode.  A process rescheduled here
\* goes to user mode when it is run again, without a second look at PF_EXITING.
trap_return ==
  /\ At("trapret")
  /\ IF current \in exiting
     THEN do_exit
     ELSE /\ Goto("user")
          /\ insched' = (current \in need_resched)
          /\ UNCHANGED <<current, state, wait_state, exiting, need_resched, time_slice,
                         parent, rq, timer, waitfor>>

\* init_main has returned: do_exit panics with "initproc exit" and the machine
\* is shut down.
initproc_exit == pc[initproc] = "done" /\ UNCHANGED vars

-----------------------------------------------------------------------------
\* What the kernel does on its own account, once there.
KernelStep ==
  \/ cpu_idle
  \/ \E z \in Procs : do_wait_found(z)
  \/ do_wait_block
  \/ do_wait_none
  \/ do_wait_resume
  \/ do_sleep_resume
  \/ trap_return

\* What a user process may ask for.
Syscall ==
  \/ \E q \in Procs : do_fork(q)
  \/ sys_exit
  \/ \E t \in Procs \cup {None} : sys_wait(t)
  \/ \E q \in Procs : do_kill(q)
  \/ do_yield
  \/ sys_other
  \/ \E t \in 1..MaxSleep : do_sleep(t)

Next ==
  \/ KernelStep
  \/ Syscall
  \/ tick
  \/ \E next \in Procs : schedule(next)
  \/ initproc_exit

Spec == Init /\ [][Next]_vars

(***************************************************************************)
(* Kernel code runs on; init_main starts its child; a timer interrupt that *)
(* is pending is taken when interrupts come on; the scheduling class does  *)
(* not pass over a runnable process for ever.  User processes are obliged  *)
(* to nothing: they may compute for ever without a system call.            *)
(***************************************************************************)
Fairness ==
  /\ WF_vars(KernelStep)
  /\ WF_vars(At("start") /\ \E q \in Procs : do_fork(q))
  /\ SF_vars(tick)
  /\ \A p \in Procs : SF_vars(schedule(p))

FairSpec == Spec /\ Fairness

-----------------------------------------------------------------------------
\* The types of the variables.
TypeOK ==
  /\ current \in Procs
  /\ insched \in BOOLEAN
  /\ state \in [Procs -> {"FREE", "RUNNABLE", "SLEEPING", "ZOMBIE"}]
  /\ wait_state \in [Procs -> {"none", "WT_CHILD", "WT_TIMER"}]
  /\ exiting \in SUBSET UserProcs
  /\ need_resched \in SUBSET Procs
  /\ time_slice \in [Procs -> 0..MAX_TIME_SLICE]
  /\ parent \in [Procs -> Procs \cup {None}]
  /\ rq \in [Procs -> Nat]
  /\ timer \in [Procs -> 0..MaxSleep]
  /\ waitfor \in [Procs -> Procs \cup {None}]
  /\ pc \in [Procs -> {"idle", "start", "loop", "done", "user", "scan", "wait", "sleep",
                        "trapret", "exit"}]

\* The run queue holds exactly the runnable processes that do not have the
\* hart, each once: wakeup_proc, schedule and do_fork never enqueue a process
\* twice (which would tie a knot in the heap) and never leave one out (which
\* would never run again).  So no zombie or sleeper is given the hart.
RunQueueExact ==
  /\ \A p \in Procs :
       rq[p] = IF state[p] = "RUNNABLE" /\ p \notin {current, idleproc} THEN 1 ELSE 0
  /\ ~insched => state[current] = "RUNNABLE"

\* No wake-up is lost between do_wait and do_exit: a process asleep in do_wait
\* has a child to wait for, and none of the children it waits for is a zombie.
NoLostChildExit ==
  \A p \in Procs : wait_state[p] = "WT_CHILD" =>
    /\ Awaited(p) # {}
    /\ \A q \in Awaited(p) : state[q] # "ZOMBIE"

\* A timer lives on the kernel stack of a process inside do_sleep: a sleeper
\* has one, and none belongs to a process that has left do_sleep, is a zombie
\* or was freed (run_timer_list would touch a dead stack or wake a zombie).
TimersOfSleepers ==
  \A p \in Procs :
    /\ wait_state[p] = "WT_TIMER" => timer[p] > 0
    /\ timer[p] > 0 => pc[p] = "sleep" /\ state[p] \in {"SLEEPING", "RUNNABLE"}

\* Every process has a parent that can still reap it: do_exit hands the
\* children to init, so no parent is a zombie or freed.
ParentCanReap ==
  \A p \in Procs \ {idleproc} : state[p] # "FREE" =>
    parent[p] \in Procs /\ state[parent[p]] \in {"RUNNABLE", "SLEEPING"}

\* init_main's assertions when its loop ends: every process but idle and init
\* has been reclaimed.
InitLeavesNobody ==
  pc[initproc] = "done" => \A p \in UserProcs : state[p] = "FREE" /\ timer[p] = 0

\* A process inherited by or born to init does not stay a zombie.
InitReaps ==
  \A p \in UserProcs :
    state[p] = "ZOMBIE" /\ parent[p] = initproc ~> state[p] = "FREE"

\* A process that is killed while it executes user code, or is preempted there,
\* does not compute on: the next trap ends it, unless it is a system call that
\* blocks.
KilledStopsComputing ==
  \A p \in UserProcs : p \in exiting /\ pc[p] = "user" ~> state[p] # "RUNNABLE"

\* do_sleep ends.
SleeperWakes == \A p \in UserProcs : wait_state[p] = "WT_TIMER" ~> state[p] = "RUNNABLE"
=============================================================================
