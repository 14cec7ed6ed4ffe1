----------------------------- MODULE UserMemory -----------------------------
(***************************************************************************)
(* What the memory of user processes is to the processes themselves: each  *)
(* has its own pages and nobody else changes them.  There are no frames,   *)
(* page tables, reference counts or swap slots here.                       *)
(***************************************************************************)
CONSTANTS
  Procs,   \* those who can have user memory
  Values,  \* contents of a page
  Images,  \* the loadable programs: functions from pages to contents
  Stack,   \* the pages of the stack a program starts with
  Growth   \* the pages that appear when they are touched

VARIABLE mem \* what each process finds in its pages

Nothing == [la \in {} |-> 0]

Init == mem = [p \in Procs |-> Nothing]

\* A program is loaded: its own pages hold what its file says, the stack
\* anything.
Load(p) ==
  \E im \in Images : \E s \in [Stack -> Values] :
    mem' = [mem EXCEPT ![p] =
              [la \in DOMAIN im \cup Stack |-> IF la \in DOMAIN im THEN im[la] ELSE s[la]]]

Fork(p, c) == mem[c] = Nothing /\ mem' = [mem EXCEPT ![c] = mem[p]]

Write(p, la) ==
  /\ la \in DOMAIN mem[p]
  /\ \E v \in Values : mem' = [mem EXCEPT ![p][la] = v]

\* A new page holds anything.
Touch(p, la) ==
  /\ la \notin DOMAIN mem[p]
  /\ \E v \in Values :
       mem' = [mem EXCEPT ![p] = [a \in DOMAIN @ \cup {la} |-> IF a = la THEN v ELSE @[a]]]

Clear(p) == mem' = [mem EXCEPT ![p] = Nothing]

Next ==
  \E p \in Procs :
    \/ Load(p)
    \/ Clear(p)
    \/ \E c \in Procs \ {p} : Fork(p, c)
    \/ \E la \in DOMAIN mem[p] : Write(p, la)
    \/ \E la \in Growth : Touch(p, la)

Spec == Init /\ [][Next]_mem
=============================================================================
