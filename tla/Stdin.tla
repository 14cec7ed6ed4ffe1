-------------------------------- MODULE Stdin --------------------------------
(***************************************************************************)
(* Console input of the lab8 kernel, from the serial line to a process     *)
(* that reads stdin: cons_intr and cons_getc (kern/driver/console.c), the  *)
(* part of the timer interrupt that feeds stdin (kern/trap/trap.c),        *)
(* dev_stdin_write and dev_stdin_read (kern/fs/devs/dev_stdin.c) with the  *)
(* wait queue (kern/sync/wait.c), and do_kill of a reader.                 *)
(*                                                                         *)
(* The characters typed are numbered 1, 2, 3 ...  Interrupts are off in    *)
(* dev_stdin_read except between going to sleep and being run again.       *)
(***************************************************************************)
EXTENDS Integers, Sequences, SequencesExt

CONSTANTS
  Readers,
  CONSBUFSIZE,
  STDIN_BUFSIZE,
  MaxChars, \* bound on the characters typed
  MaxBurst, \* bound on the characters typed between two ticks
  MaxLen    \* bound on the length of a read

ASSUME StdinAssumption ==
  /\ CONSBUFSIZE \in Nat \ {0} /\ STDIN_BUFSIZE \in Nat \ {0}
  /\ MaxChars \in Nat /\ MaxBurst \in Nat /\ MaxLen \in Nat

VARIABLES
  typed,                       \* how many characters were typed
  cons_buf, cons_rpos, cons_wpos,
  stdin_buffer, p_rpos, p_wpos,
  wait_queue,                  \* the readers whose wait_t is linked
  wakeup_flags,                \* wait->wakeup_flags
  rd,                          \* where a reader is
  len,                         \* how many characters it still wants
  killed,                      \* the readers with PF_EXITING
  got,                         \* auxiliary: all that was read, in order
  overrun                      \* auxiliary: has a ring been written when full?

consvars == <<cons_buf, cons_rpos, cons_wpos>>
stdinvars == <<stdin_buffer, p_rpos, p_wpos>>
vars == <<typed, consvars, stdinvars, wait_queue, wakeup_flags, rd, len, killed,
          got, overrun>>

Init ==
  /\ typed = 0
  /\ cons_buf = [i \in 0..(CONSBUFSIZE - 1) |-> 0]
  /\ cons_rpos = 0 /\ cons_wpos = 0
  /\ stdin_buffer = [i \in 0..(STDIN_BUFSIZE - 1) |-> 0]
  /\ p_rpos = 0 /\ p_wpos = 0
  /\ wait_queue = <<>>
  /\ wakeup_flags = [r \in Readers |-> "WT_INTERRUPTED"]
  /\ rd = [r \in Readers |-> "user"]
  /\ len = [r \in Readers |-> 0]
  /\ killed = {}
  /\ got = <<>>
  /\ overrun = FALSE

-----------------------------------------------------------------------------
(***************************************************************************)
(* Operators named M_... are deliberate bugs: each is the mutated form of  *)
(* the definition that follows it and occurs nowhere in the specification. *)
(***************************************************************************)
\* How many characters the console ring holds.
ConsHeld == (cons_wpos - cons_rpos) % CONSBUFSIZE

\* cons_intr: the n characters that have come in go to the ring, without a test
\* for room.
ConsBufAfter(n) ==
  [i \in 0..(CONSBUFSIZE - 1) |->
     LET mine == {k \in 1..n : (cons_wpos + k - 1) % CONSBUFSIZE = i}
     IN  IF mine = {} THEN cons_buf[i]
         ELSE typed + (CHOOSE k \in mine : \A j \in mine : j <= k)]

\* The write position wraps one place early.
M_ConsWposAfter(n) == (cons_wpos + n) % (CONSBUFSIZE - 1)

\* cons.wpos once they are stored.
ConsWposAfter(n) == (cons_wpos + n) % CONSBUFSIZE

\* cons_getc, 0 when there is nothing.
Getc(buf, wpos) == IF cons_rpos = wpos THEN 0 ELSE buf[cons_rpos]

\* dev_stdin_write: a full ring keeps its length, but its oldest character has
\* been overwritten.
StdinWpos == IF p_wpos - p_rpos < STDIN_BUFSIZE THEN p_wpos + 1 ELSE p_wpos

\* Only the first reader is woken.
M_WokenUpTo == IF wait_queue = <<>> THEN 0 ELSE 1

\* wakeup_queue takes readers from the front of the queue and wakes them, up to
\* the last one.
WokenUpTo == Len(wait_queue)
Woken == {wait_queue[i] : i \in 1..WokenUpTo}

\* The timer interrupt, after n characters were typed: one character moves from
\* the console ring to stdin.
tick(n) ==
  /\ typed + n <= MaxChars
  /\ typed' = typed + n
  /\ cons_buf' = ConsBufAfter(n)
  /\ cons_wpos' = ConsWposAfter(n)
  /\ LET c == Getc(ConsBufAfter(n), ConsWposAfter(n))
     IN  IF c = 0
         THEN /\ overrun' = (overrun \/ ConsHeld + n >= CONSBUFSIZE)
              /\ UNCHANGED <<cons_rpos, stdinvars, wait_queue, wakeup_flags, rd>>
         ELSE /\ cons_rpos' = (cons_rpos + 1) % CONSBUFSIZE
              /\ stdin_buffer' = [stdin_buffer EXCEPT ![p_wpos % STDIN_BUFSIZE] = c]
              /\ p_wpos' = StdinWpos
              /\ overrun' = (\/ overrun
                             \/ ConsHeld + n >= CONSBUFSIZE
                             \/ p_wpos - p_rpos >= STDIN_BUFSIZE)
              /\ wait_queue' = SubSeq(wait_queue, WokenUpTo + 1, Len(wait_queue))
              /\ wakeup_flags' = [r \in Readers |-> IF r \in Woken THEN "WT_KBD"
                                                    ELSE wakeup_flags[r]]
              /\ rd' = [r \in Readers |-> IF r \in Woken THEN "woken" ELSE rd[r]]
              /\ UNCHANGED p_rpos
  /\ UNCHANGED <<len, killed, got>>

-----------------------------------------------------------------------------
\* Where a reader goes when dev_stdin_read returns: trap() ends a killed one.
Leave(r) == IF r \in killed THEN "dead" ELSE "user"

\* The loop of dev_stdin_read, with n characters to go and the wait_t of r not in
\* q: take what there is, and sleep if that is not enough.
ReadLoop(r, n, q) ==
  LET k == IF p_wpos - p_rpos < n THEN p_wpos - p_rpos ELSE n
  IN  /\ got' = got \o [i \in 1..k |-> stdin_buffer[(p_rpos + i - 1) % STDIN_BUFSIZE]]
      /\ p_rpos' = p_rpos + k
      /\ len' = [len EXCEPT ![r] = n - k]
      /\ IF k = n
         THEN /\ rd' = [rd EXCEPT ![r] = Leave(r)]
              /\ wait_queue' = q
              /\ UNCHANGED wakeup_flags
         ELSE /\ rd' = [rd EXCEPT ![r] = "asleep"]
              /\ wait_queue' = Append(q, r)
              /\ wakeup_flags' = [wakeup_flags EXCEPT ![r] = "WT_INTERRUPTED"]
      /\ UNCHANGED <<stdin_buffer, p_wpos>>

\* A read of n characters; a process killed in user mode may get here too.
dev_stdin_read(r, n) ==
  /\ rd[r] = "user"
  /\ ReadLoop(r, n, wait_queue)
  /\ UNCHANGED <<typed, consvars, killed, overrun>>

\* The entry is left in the queue.
M_wait_current_del(r) == wait_queue

\* wait_current_del: unlink the wait_t of r if it still is in the queue.
wait_current_del(r) ==
  IF r \in ToSet(wait_queue)
  THEN RemoveAt(wait_queue, CHOOSE i \in 1..Len(wait_queue) : wait_queue[i] = r)
  ELSE wait_queue

\* After schedule() in dev_stdin_read: go on if a character has come, return
\* what there is if not.
read_resume(r) ==
  /\ rd[r] = "woken"
  /\ IF wakeup_flags[r] = "WT_KBD"
     THEN ReadLoop(r, len[r], wait_current_del(r))
     ELSE /\ rd' = [rd EXCEPT ![r] = Leave(r)]
          /\ wait_queue' = wait_current_del(r)
          /\ UNCHANGED <<stdinvars, got, len, wakeup_flags>>
  /\ UNCHANGED <<typed, consvars, killed, overrun>>

\* do_kill: WT_KBD can be interrupted, so a sleeping reader is woken; its wait_t
\* stays in the queue until it runs.
do_kill(r) ==
  /\ r \notin killed
  /\ killed' = killed \cup {r}
  /\ rd' = [rd EXCEPT ![r] = IF @ = "asleep" THEN "woken" ELSE @]
  /\ UNCHANGED <<typed, consvars, stdinvars, wait_queue, wakeup_flags, len, got, overrun>>

\* A killed process that is in user mode is ended by the next trap.
exit(r) ==
  /\ r \in killed /\ rd[r] = "user"
  /\ rd' = [rd EXCEPT ![r] = "dead"]
  /\ UNCHANGED <<typed, consvars, stdinvars, wait_queue, wakeup_flags, len, killed, got,
                 overrun>>

Next ==
  \/ \E n \in 0..MaxBurst : tick(n)
  \/ \E r \in Readers :
       \/ \E n \in 1..MaxLen : dev_stdin_read(r, n)
       \/ read_resume(r)
       \/ do_kill(r)
       \/ exit(r)

Spec == Init /\ [][Next]_vars

-----------------------------------------------------------------------------
\* The types of the variables; stdin never holds more than its size, so that no
\* character is delivered twice.
TypeOK ==
  /\ typed \in 0..MaxChars
  /\ cons_rpos \in 0..(CONSBUFSIZE - 1) /\ cons_wpos \in 0..(CONSBUFSIZE - 1)
  /\ p_rpos \in Nat /\ p_wpos \in Nat /\ p_wpos - p_rpos \in 0..STDIN_BUFSIZE
  /\ wait_queue \in Seq(Readers)
  /\ wakeup_flags \in [Readers -> {"WT_INTERRUPTED", "WT_KBD"}]
  /\ rd \in [Readers -> {"user", "asleep", "woken", "dead"}]
  /\ len \in [Readers -> 0..MaxLen]
  /\ killed \in SUBSET Readers

\* What waits in the two rings, oldest first.
StdinHeld == [i \in 1..(p_wpos - p_rpos) |-> stdin_buffer[(p_rpos + i - 1) % STDIN_BUFSIZE]]
ConsHeldChars == [i \in 1..ConsHeld |-> cons_buf[(cons_rpos + i - 1) % CONSBUFSIZE]]

\* As long as no ring was written when full, no character is lost, repeated or
\* out of order on its way, whoever reads: what was read and what waits in the
\* rings is what was typed.
InputExact ==
  ~overrun => got \o StdinHeld \o ConsHeldChars = [i \in 1..typed |-> i]

\* No reader sleeps while there is something to read.
NoSleeperWithInput ==
  \A r \in Readers : rd[r] = "asleep" => p_rpos = p_wpos

\* The queue links only entries on the stacks of readers inside
\* dev_stdin_read, each once; wakeup_queue would follow any other into a stack
\* frame that is gone.
EntriesAlive ==
  /\ \A i, j \in 1..Len(wait_queue) : wait_queue[i] = wait_queue[j] => i = j
  /\ \A r \in Readers : rd[r] = "asleep" => r \in ToSet(wait_queue)
  /\ \A r \in ToSet(wait_queue) : rd[r] = "asleep" \/ (rd[r] = "woken" /\ r \in killed)
=============================================================================
