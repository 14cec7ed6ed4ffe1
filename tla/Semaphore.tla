------------------------------ MODULE Semaphore ------------------------------
(***************************************************************************)
(* The kernel semaphore of lab8 (kern/sync/sem.c) on the wait queues of    *)
(* kern/sync/wait.c: hand-off semantics.  up() with a waiter does not      *)
(* increment the value, it removes the first wait_t from the queue, marks  *)
(* it with the wait state and wakes its process, which already owns the    *)
(* token when it resumes inside __down().                                  *)
(*                                                                         *)
(* A process is between two semaphore calls ("out"), asleep or just woken  *)
(* inside __down() ("down"), past a successful down() ("in"), or gone      *)
(* through do_exit() ("dead").                                             *)
(*                                                                         *)
(* Interrupts are off in every section between local_intr_save() and       *)
(* local_intr_restore(), and the hart is single, so each section is one    *)
(* action.  Any runnable process may take the next step: this contains     *)
(* every order the scheduler can produce.                                  *)
(***************************************************************************)
EXTENDS Integers, Sequences, FiniteSets

CONSTANTS Procs,    \* the processes that use the semaphore
          InitValue \* the value given to sem_init()

ASSUME ProcsAssumption == IsFiniteSet(Procs)
ASSUME InitValueAssumption == InitValue \in Nat

VARIABLES
  value,        \* sem->value
  wait_queue,   \* sem->wait_queue, the processes of its wait_t entries
  state,        \* proc->state
  wait_state,   \* proc->wait_state
  wakeup_flags, \* wakeup_flags of the wait_t on the process's kernel stack
  exiting,      \* the processes with PF_EXITING in proc->flags
  pc            \* where the process is, see above

vars == <<value, wait_queue, state, wait_state, wakeup_flags, exiting, pc>>

\* wait_in_queue
InQueue(p) == \E i \in DOMAIN wait_queue : wait_queue[i] = p

\* Only a process with PROC_RUNNABLE is ever chosen by schedule().
CanRun(p) == state[p] = "RUNNABLE"

-----------------------------------------------------------------------------
sem_init ==
  /\ value = InitValue
  /\ wait_queue = <<>>

Init ==
  /\ sem_init
  /\ state = [p \in Procs |-> "RUNNABLE"]
  /\ wait_state = [p \in Procs |-> "none"]
  /\ wakeup_flags = [p \in Procs |-> "none"]
  /\ exiting = {}
  /\ pc = [p \in Procs |-> "out"]

\* wait_current_set: current sleeps and its wait_t goes to the queue's tail.
wait_current_set(p, ws) ==
  /\ wakeup_flags' = [wakeup_flags EXCEPT ![p] = "WT_INTERRUPTED"]
  /\ state' = [state EXCEPT ![p] = "SLEEPING"]
  /\ wait_state' = [wait_state EXCEPT ![p] = ws]
  /\ wait_queue' = Append(wait_queue, p)

\* wait_current_del: unlink p's wait_t if it still is in the queue.
wait_current_del(p) ==
  wait_queue' =
    IF InQueue(p)
    THEN LET i == CHOOSE i \in DOMAIN wait_queue : wait_queue[i] = p
         IN  SubSeq(wait_queue, 1, i - 1) \o SubSeq(wait_queue, i + 1, Len(wait_queue))
    ELSE wait_queue

\* wakeup_proc: a process that is already runnable is only warned about.
wakeup_proc(p) ==
  IF state[p] # "RUNNABLE"
  THEN /\ state' = [state EXCEPT ![p] = "RUNNABLE"]
       /\ wait_state' = [wait_state EXCEPT ![p] = "none"]
  ELSE UNCHANGED <<state, wait_state>>

\* wakeup_wait with del = 1, applied to the first wait_t of the queue.
wakeup_wait_first(flags) ==
  /\ wait_queue' = Tail(wait_queue)
  /\ wakeup_flags' = [wakeup_flags EXCEPT ![Head(wait_queue)] = flags]
  /\ wakeup_proc(Head(wait_queue))

-----------------------------------------------------------------------------
(***************************************************************************)
(* Operators named M_... are deliberate bugs: each is the mutated form of  *)
(* the definition that follows it and occurs nowhere in the specification. *)
(***************************************************************************)
\* __down (or try_down, when it returns 1) finding the value positive.
DownAtOnce(p) ==
  /\ CanRun(p)
  /\ pc[p] = "out"
  /\ value > 0
  /\ value' = value - 1
  /\ pc' = [pc EXCEPT ![p] = "in"]
  /\ UNCHANGED <<wait_queue, state, wait_state, wakeup_flags, exiting>>

\* __down finding no token, up to its schedule().
DownBlock(p) ==
  /\ CanRun(p)
  /\ pc[p] = "out"
  /\ value <= 0
  /\ wait_current_set(p, "WT_KSEM")
  /\ pc' = [pc EXCEPT ![p] = "down"]
  /\ UNCHANGED <<value, exiting>>

\* __down after its schedule() returns.
DownResume(p) ==
  /\ CanRun(p)
  /\ pc[p] = "down"
  /\ wait_current_del(p)
  /\ pc' = [pc EXCEPT ![p] = "in"]
  /\ UNCHANGED <<value, state, wait_state, wakeup_flags, exiting>>

\* The value is incremented also when the token is handed to a waiter.
M_UpCountsTwice(p) ==
  /\ CanRun(p)
  /\ pc[p] = "in"
  /\ value' = value + 1
  /\ IF wait_queue = <<>>
     THEN UNCHANGED <<wait_queue, state, wait_state, wakeup_flags>>
     ELSE wakeup_wait_first("WT_KSEM")
  /\ pc' = [pc EXCEPT ![p] = "out"]
  /\ UNCHANGED exiting

\* The value is incremented and the waiters are left asleep.
M_UpNoWakeup(p) ==
  /\ CanRun(p)
  /\ pc[p] = "in"
  /\ value' = value + 1
  /\ pc' = [pc EXCEPT ![p] = "out"]
  /\ UNCHANGED <<wait_queue, state, wait_state, wakeup_flags, exiting>>

\* The last waiter is woken (wait_queue_last for wait_queue_first).
M_UpLifo(p) ==
  /\ CanRun(p)
  /\ pc[p] = "in"
  /\ IF wait_queue = <<>>
     THEN value' = value + 1 /\ UNCHANGED <<wait_queue, state, wait_state, wakeup_flags>>
     ELSE LET n == Len(wait_queue) IN
          /\ wait_queue' = SubSeq(wait_queue, 1, n - 1)
          /\ wakeup_flags' = [wakeup_flags EXCEPT ![wait_queue[n]] = "WT_KSEM"]
          /\ wakeup_proc(wait_queue[n])
          /\ UNCHANGED value
  /\ pc' = [pc EXCEPT ![p] = "out"]
  /\ UNCHANGED exiting

\* __up
Up(p) ==
  /\ CanRun(p)
  /\ pc[p] = "in"
  /\ \/ /\ wait_queue = <<>>
        /\ value' = value + 1
        /\ UNCHANGED <<wait_queue, state, wait_state, wakeup_flags>>
     \/ /\ wait_queue # <<>>
        /\ wakeup_wait_first("WT_KSEM")
        /\ UNCHANGED value
  /\ pc' = [pc EXCEPT ![p] = "out"]
  /\ UNCHANGED exiting

\* WT_KSEM defined with the bit WT_INTERRUPTED, as the other wait states are.
M_Interruptible == {"WT_CHILD", "WT_TIMER", "WT_KBD", "WT_KSEM"}

\* The wait states that contain the bit WT_INTERRUPTED.
Interruptible == {"WT_CHILD", "WT_TIMER", "WT_KBD"}

\* do_kill of p by any other process.
Kill(p) ==
  /\ p \notin exiting
  /\ exiting' = exiting \cup {p}
  /\ IF wait_state[p] \in Interruptible
     THEN wakeup_proc(p) ELSE UNCHANGED <<state, wait_state>>
  /\ UNCHANGED <<value, wait_queue, wakeup_flags, pc>>

\* A killed process meets trap()'s PF_EXITING test once it is out of the
\* system call, and do_exit() makes it a zombie.
Exit(p) ==
  /\ CanRun(p)
  /\ pc[p] = "out"
  /\ p \in exiting
  /\ state' = [state EXCEPT ![p] = "ZOMBIE"]
  /\ pc' = [pc EXCEPT ![p] = "dead"]
  /\ UNCHANGED <<value, wait_queue, wait_state, wakeup_flags, exiting>>

Next ==
  \E p \in Procs : \/ DownAtOnce(p) \/ DownBlock(p) \/ DownResume(p)
                   \/ Up(p) \/ Kill(p) \/ Exit(p)

Spec == Init /\ [][Next]_vars

\* The scheduler runs every runnable process again, and the holder of a token
\* leaves its critical section; nobody is obliged to ask for a token.
Fairness == \A p \in Procs : WF_vars(DownResume(p)) /\ WF_vars(Up(p))

FairSpec == Spec /\ Fairness

-----------------------------------------------------------------------------
PStates == {"RUNNABLE", "SLEEPING", "ZOMBIE"}
WaitStates == {"none", "WT_KSEM"}
PCs == {"out", "down", "in", "dead"}

\* The types of the variables; the value never becomes negative.
TypeOK ==
  /\ value \in Nat
  /\ wait_queue \in Seq(Procs)
  /\ state \in [Procs -> PStates]
  /\ wait_state \in [Procs -> WaitStates]
  /\ wakeup_flags \in [Procs -> {"none", "WT_KSEM", "WT_INTERRUPTED"}]
  /\ exiting \in SUBSET Procs
  /\ pc \in [Procs -> PCs]

\* Woken by up() with the token in hand, but not run since.
Granted(p) == pc[p] = "down" /\ ~InQueue(p)

\* Who owns a token: past down(), or handed one by up().
Owners == {p \in Procs : pc[p] = "in" \/ Granted(p)}

\* The tokens are conserved: the value and the owners always add up to what
\* sem_init() put in, so no up() is lost between the wake-up and the resumed
\* __down(), and no kill or exit makes a token.
TokensConserved == value + Cardinality(Owners) = InitValue

\* At most InitValue processes are past down() (mutual exclusion when the
\* semaphore is used as a lock, sem_init(sem, 1)).
MutualExclusion == Cardinality({p \in Procs : pc[p] = "in"}) <= InitValue

\* No token lies idle while somebody waits: __down() waits only when there is
\* none and __up() increments only when nobody waits.
NoIdleToken == value > 0 => wait_queue = <<>>

\* The assertions of sem.c, wait.c and sched.c on the way through __up: the
\* queued processes are asleep in WT_KSEM, each in one place of the queue
\* (wait_queue_add's assert), and none of them is a zombie (wakeup_proc's).
QueuedAreAsleep ==
  \A i \in DOMAIN wait_queue :
    /\ pc[wait_queue[i]] = "down"
    /\ state[wait_queue[i]] = "SLEEPING"
    /\ wait_state[wait_queue[i]] = "WT_KSEM"
    /\ \A j \in DOMAIN wait_queue : wait_queue[i] = wait_queue[j] => i = j

\* down's assert(flags == 0): a process that resumes inside __down() was woken
\* by an up(), with WT_KSEM in its wait_t, never by a kill.
ResumedByUp ==
  \A p \in Procs : pc[p] = "down" /\ state[p] = "RUNNABLE" =>
    ~InQueue(p) /\ wakeup_flags[p] = "WT_KSEM"

\* Every process that waits in down() gets through it.
WaiterGetsThrough == \A p \in Procs : pc[p] = "down" ~> pc[p] = "in"

\* The semaphore implements the abstract one, in which an up() with waiters
\* makes the first of them the owner in the same step.
Fifo == INSTANCE FifoSemaphore
          WITH avail <- value, waiting <- wait_queue, owners <- Owners
FifoSpec == Fifo!Spec
=============================================================================
