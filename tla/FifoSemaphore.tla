---------------------------- MODULE FifoSemaphore ----------------------------
(***************************************************************************)
(* What the semaphore of lab8/kern/sync/sem.c promises its users: tokens   *)
(* are neither lost nor made up, and a process that has to wait receives   *)
(* its token from up() directly, in the order in which the waiters came.   *)
(* Nothing here says how a waiter sleeps or is woken.                      *)
(***************************************************************************)
EXTENDS Integers, Sequences

CONSTANTS Procs, InitValue

VARIABLES
  avail,   \* the tokens nobody owns
  waiting, \* who waits, first come first
  owners   \* who owns a token

vars == <<avail, waiting, owners>>

Waits(p) == \E i \in DOMAIN waiting : waiting[i] = p

Init ==
  /\ avail = InitValue
  /\ waiting = <<>>
  /\ owners = {}

\* A free token is taken at once, which never overtakes a waiter.
Acquire(p) ==
  /\ p \notin owners
  /\ waiting = <<>>
  /\ avail > 0
  /\ avail' = avail - 1
  /\ owners' = owners \cup {p}
  /\ UNCHANGED waiting

Wait(p) ==
  /\ p \notin owners
  /\ ~Waits(p)
  /\ avail = 0
  /\ waiting' = Append(waiting, p)
  /\ UNCHANGED <<avail, owners>>

\* The first waiter, if any, owns the token in the very step that gives it up.
Release(p) ==
  /\ p \in owners
  /\ \/ /\ waiting = <<>>
        /\ avail' = avail + 1
        /\ owners' = owners \ {p}
        /\ UNCHANGED waiting
     \/ /\ waiting # <<>>
        /\ waiting' = Tail(waiting)
        /\ owners' = (owners \ {p}) \cup {Head(waiting)}
        /\ UNCHANGED avail

Next == \E p \in Procs : Acquire(p) \/ Wait(p) \/ Release(p)

Spec == Init /\ [][Next]_vars
=============================================================================
