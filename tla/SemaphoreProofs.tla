--------------------------- MODULE SemaphoreProofs ---------------------------
(***************************************************************************)
(* The semaphore of lab8/kern/sync/sem.c is correct for every finite set   *)
(* of processes and every initial value, and implements FifoSemaphore.     *)
(***************************************************************************)
EXTENDS Semaphore, FiniteSetTheorems, TLAPS

\* Neither the conservation of tokens nor the queue discipline is inductive
\* alone: up() hands the token to the head of the queue, which gains an owner
\* only if the head is asleep and occurs nowhere else in the queue.
IInv ==
  /\ TypeOK
  /\ TokensConserved
  /\ NoIdleToken
  /\ QueuedAreAsleep
  /\ ResumedByUp

\* The queue after a waiter was appended (wait_queue_add).
LEMMA InQueueAppend ==
  ASSUME TypeOK, NEW p \in Procs, wait_queue' = Append(wait_queue, p), NEW q
  PROVE  InQueue(q)' <=> InQueue(q) \/ q = p
<1>1. wait_queue \in Seq(Procs) BY DEF TypeOK
<1>2. /\ Len(wait_queue') = Len(wait_queue) + 1
      /\ wait_queue'[Len(wait_queue) + 1] = p
      /\ \A i \in 1..Len(wait_queue) : wait_queue'[i] = wait_queue[i]
      /\ DOMAIN wait_queue' = 1..(Len(wait_queue) + 1)
  BY <1>1
<1>3. Len(wait_queue) \in Nat /\ DOMAIN wait_queue = 1..Len(wait_queue) BY <1>1
<1>4. ASSUME InQueue(q)' PROVE InQueue(q) \/ q = p
  <2>1. PICK i \in DOMAIN wait_queue' : wait_queue'[i] = q BY <1>4 DEF InQueue
  <2>2. CASE i = Len(wait_queue) + 1 BY <2>1, <2>2, <1>2
  <2>3. CASE i \in 1..Len(wait_queue) BY <2>1, <2>3, <1>2, <1>3 DEF InQueue
  <2>4. QED BY <2>1, <2>2, <2>3, <1>2, <1>3
<1>5. ASSUME InQueue(q) PROVE InQueue(q)'
  <2>1. PICK i \in DOMAIN wait_queue : wait_queue[i] = q BY <1>5 DEF InQueue
  <2>2. i \in DOMAIN wait_queue' /\ wait_queue'[i] = q BY <2>1, <1>2, <1>3
  <2>3. QED BY <2>2 DEF InQueue
<1>6. ASSUME q = p PROVE InQueue(q)'
  <2>1. Len(wait_queue) + 1 \in DOMAIN wait_queue' BY <1>2, <1>3
  <2>2. QED BY <2>1, <1>2, <1>6 DEF InQueue
<1>7. QED BY <1>4, <1>5, <1>6

\* The queue after its first waiter was removed (wakeup_wait with del = 1).
LEMMA InQueueTail ==
  ASSUME TypeOK, QueuedAreAsleep, wait_queue # <<>>,
         wait_queue' = Tail(wait_queue), NEW q
  PROVE  /\ Head(wait_queue) \in Procs
         /\ InQueue(Head(wait_queue))
         /\ InQueue(q)' <=> InQueue(q) /\ q # Head(wait_queue)
<1>1. wait_queue \in Seq(Procs) BY DEF TypeOK
<1>2. /\ Len(wait_queue) \in Nat \ {0}
      /\ DOMAIN wait_queue = 1..Len(wait_queue)
      /\ Head(wait_queue) = wait_queue[1]
      /\ Head(wait_queue) \in Procs
      /\ 1 \in DOMAIN wait_queue
  BY <1>1
<1>3. /\ Len(wait_queue') = Len(wait_queue) - 1
      /\ DOMAIN wait_queue' = 1..(Len(wait_queue) - 1)
      /\ \A i \in 1..(Len(wait_queue) - 1) : wait_queue'[i] = wait_queue[i + 1]
  BY <1>1, <1>2
<1>4. InQueue(Head(wait_queue)) BY <1>2 DEF InQueue
<1>5. ASSUME InQueue(q)' PROVE InQueue(q) /\ q # Head(wait_queue)
  <2>1. PICK i \in DOMAIN wait_queue' : wait_queue'[i] = q BY <1>5 DEF InQueue
  <2>2. i + 1 \in DOMAIN wait_queue /\ wait_queue[i + 1] = q /\ i + 1 # 1
    BY <2>1, <1>2, <1>3
  <2>3. QED BY <2>2, <1>2 DEF InQueue, QueuedAreAsleep
<1>6. ASSUME InQueue(q), q # Head(wait_queue) PROVE InQueue(q)'
  <2>1. PICK i \in DOMAIN wait_queue : wait_queue[i] = q BY <1>6 DEF InQueue
  <2>2. i - 1 \in DOMAIN wait_queue' /\ wait_queue'[i - 1] = q
    BY <2>1, <1>2, <1>3, <1>6
  <2>3. QED BY <2>2 DEF InQueue
<1>7. QED BY <1>2, <1>4, <1>5, <1>6

\* The owners are finitely many, so that their number makes sense.
LEMMA OwnersFinite == IsFiniteSet(Owners)
<1>1. Owners \subseteq Procs BY DEF Owners
<1>2. QED BY <1>1, ProcsAssumption, FS_Subset

-----------------------------------------------------------------------------
\* What each operation does to the owners.
LEMMA DownAtOnceOwners ==
  ASSUME IInv, NEW p \in Procs, DownAtOnce(p)
  PROVE  Owners' = Owners \cup {p} /\ p \notin Owners
<1>1. \A q : InQueue(q)' <=> InQueue(q) BY DEF DownAtOnce, InQueue
<1>2. QED BY <1>1 DEF DownAtOnce, Owners, Granted, IInv, TypeOK

LEMMA DownBlockOwners ==
  ASSUME IInv, NEW p \in Procs, DownBlock(p)
  PROVE  Owners' = Owners /\ p \notin Owners /\ ~InQueue(p)
<1>1. \A q : InQueue(q)' <=> InQueue(q) \/ q = p
  BY InQueueAppend DEF DownBlock, wait_current_set, IInv
<1>2. ~InQueue(p) BY DEF DownBlock, InQueue, IInv, QueuedAreAsleep
<1>3. QED BY <1>1, <1>2 DEF DownBlock, Owners, Granted, IInv, TypeOK

LEMMA DownResumeOwners ==
  ASSUME IInv, NEW p \in Procs, DownResume(p)
  PROVE  Owners' = Owners /\ wait_queue' = wait_queue
<1>1. ~InQueue(p) BY DEF DownResume, CanRun, IInv, ResumedByUp
<1>2. wait_queue' = wait_queue BY <1>1 DEF DownResume, wait_current_del
<1>3. \A q : InQueue(q)' <=> InQueue(q) BY <1>2 DEF InQueue
<1>4. QED BY <1>1, <1>2, <1>3 DEF DownResume, Owners, Granted, IInv, TypeOK

LEMMA UpEmptyOwners ==
  ASSUME IInv, NEW p \in Procs, Up(p), wait_queue = <<>>
  PROVE  Owners' = Owners \ {p} /\ p \in Owners /\ wait_queue' = wait_queue
<1>1. wait_queue' = wait_queue BY DEF Up
<1>2. \A q : InQueue(q)' <=> InQueue(q) BY <1>1 DEF InQueue
<1>3. QED BY <1>1, <1>2 DEF Up, Owners, Granted, IInv, TypeOK

LEMMA UpHandOffOwners ==
  ASSUME IInv, NEW p \in Procs, Up(p), wait_queue # <<>>
  PROVE  /\ Owners' = (Owners \ {p}) \cup {Head(wait_queue)}
         /\ p \in Owners
         /\ Head(wait_queue) \notin Owners
         /\ Head(wait_queue) # p
         /\ Head(wait_queue) \in Procs
<1> DEFINE h == Head(wait_queue)
<1>1. wait_queue' = Tail(wait_queue) BY DEF Up, wakeup_wait_first
<1>2. h \in Procs /\ InQueue(h) /\ \A q : InQueue(q)' <=> InQueue(q) /\ q # h
  BY <1>1, InQueueTail DEF IInv
<1>3. pc[h] = "down" BY <1>2 DEF InQueue, IInv, QueuedAreAsleep
<1>4. h # p BY <1>3 DEF Up
<1>5. pc' = [pc EXCEPT ![p] = "out"] /\ pc[p] = "in" BY DEF Up
<1>6. QED BY <1>2, <1>3, <1>4, <1>5 DEF Owners, Granted, IInv, TypeOK

-----------------------------------------------------------------------------
LEMMA InitIInv == Init => IInv
<1> SUFFICES ASSUME Init PROVE IInv OBVIOUS
<1>1. TypeOK BY InitValueAssumption DEF Init, sem_init, TypeOK, PStates, WaitStates, PCs
<1>2. Owners = {} BY DEF Init, sem_init, Owners, Granted
<1>3. TokensConserved
  BY <1>2, FS_EmptySet, InitValueAssumption DEF TokensConserved, Init, sem_init
<1>4. NoIdleToken /\ QueuedAreAsleep BY DEF Init, sem_init, NoIdleToken, QueuedAreAsleep
<1>5. ResumedByUp BY DEF Init, ResumedByUp
<1>6. QED BY <1>1, <1>3, <1>4, <1>5 DEF IInv

LEMMA DownAtOnceIInv ==
  ASSUME IInv, NEW p \in Procs, DownAtOnce(p) PROVE IInv'
<1> USE DEF IInv
<1>1. TypeOK' BY DEF DownAtOnce, TypeOK, PCs
<1>2. TokensConserved'
  <2>1. Cardinality(Owners') = Cardinality(Owners) + 1
    BY DownAtOnceOwners, OwnersFinite, FS_AddElement
  <2>2. Cardinality(Owners) \in Nat BY OwnersFinite, FS_CardinalityType
  <2>3. QED BY <2>1, <2>2, InitValueAssumption DEF TokensConserved, DownAtOnce, TypeOK
<1>3. NoIdleToken' BY DEF NoIdleToken, DownAtOnce, TypeOK
<1>4. QueuedAreAsleep' BY DEF QueuedAreAsleep, DownAtOnce, TypeOK
<1>5. ResumedByUp' BY DEF ResumedByUp, DownAtOnce, TypeOK, InQueue
<1>6. QED BY <1>1, <1>2, <1>3, <1>4, <1>5

LEMMA DownBlockIInv ==
  ASSUME IInv, NEW p \in Procs, DownBlock(p) PROVE IInv'
<1> USE DEF IInv
<1>1. TypeOK' BY DEF DownBlock, wait_current_set, TypeOK, PCs, PStates, WaitStates
<1>2. TokensConserved'
  BY DownBlockOwners DEF TokensConserved, DownBlock
<1>3. NoIdleToken' BY DEF NoIdleToken, DownBlock, TypeOK
<1>4. /\ wait_queue \in Seq(Procs) /\ Len(wait_queue) \in Nat
      /\ DOMAIN wait_queue = 1..Len(wait_queue)
      /\ wait_queue' = Append(wait_queue, p)
      /\ DOMAIN wait_queue' = 1..(Len(wait_queue) + 1)
      /\ wait_queue'[Len(wait_queue) + 1] = p
      /\ \A i \in DOMAIN wait_queue : wait_queue'[i] = wait_queue[i] /\ wait_queue[i] # p
  <2>1. wait_queue \in Seq(Procs) /\ wait_queue' = Append(wait_queue, p)
    BY DEF TypeOK, DownBlock, wait_current_set
  <2>2. \A i \in DOMAIN wait_queue : wait_queue[i] # p BY DownBlockOwners DEF InQueue
  <2>3. QED BY <2>1, <2>2
<1>5. QueuedAreAsleep'
  <2>1. ASSUME NEW i \in DOMAIN wait_queue'
        PROVE  /\ pc'[wait_queue'[i]] = "down"
               /\ state'[wait_queue'[i]] = "SLEEPING"
               /\ wait_state'[wait_queue'[i]] = "WT_KSEM"
    <3>1. CASE i = Len(wait_queue) + 1
      BY <3>1, <1>4 DEF DownBlock, wait_current_set, TypeOK
    <3>2. CASE i \in DOMAIN wait_queue
      BY <3>2, <1>4 DEF DownBlock, wait_current_set, TypeOK, QueuedAreAsleep
    <3>3. QED BY <3>1, <3>2, <1>4
  <2>2. ASSUME NEW i \in DOMAIN wait_queue', NEW j \in DOMAIN wait_queue',
               wait_queue'[i] = wait_queue'[j]
        PROVE  i = j
    BY <2>2, <1>4 DEF QueuedAreAsleep
  <2>3. QED BY <2>1, <2>2 DEF QueuedAreAsleep
<1>6. ResumedByUp'
  <2>1. \A q : InQueue(q)' <=> InQueue(q) \/ q = p
    BY InQueueAppend DEF DownBlock, wait_current_set
  <2>2. QED BY <2>1 DEF ResumedByUp, DownBlock, wait_current_set, TypeOK
<1>7. QED BY <1>1, <1>2, <1>3, <1>5, <1>6

LEMMA DownResumeIInv ==
  ASSUME IInv, NEW p \in Procs, DownResume(p) PROVE IInv'
<1> USE DEF IInv
<1>1. wait_queue' = wait_queue /\ Owners' = Owners BY DownResumeOwners
<1>2. TypeOK' BY <1>1 DEF DownResume, TypeOK, PCs
<1>3. TokensConserved' BY <1>1 DEF TokensConserved, DownResume
<1>4. NoIdleToken' BY <1>1 DEF NoIdleToken, DownResume
<1>5. QueuedAreAsleep'
  BY <1>1 DEF QueuedAreAsleep, DownResume, CanRun, TypeOK
<1>6. ResumedByUp' BY <1>1 DEF ResumedByUp, DownResume, TypeOK, InQueue
<1>7. QED BY <1>2, <1>3, <1>4, <1>5, <1>6

LEMMA UpIInv ==
  ASSUME IInv, NEW p \in Procs, Up(p) PROVE IInv'
<1> USE DEF IInv
<1>0. Cardinality(Owners) \in Nat BY OwnersFinite, FS_CardinalityType
<1>1. CASE wait_queue = <<>>
  <2>1. wait_queue' = <<>> BY <1>1, UpEmptyOwners
  <2>2. TypeOK' BY <1>1, <2>1 DEF Up, TypeOK, PCs
  <2>3. Cardinality(Owners') = Cardinality(Owners) - 1
    BY <1>1, UpEmptyOwners, OwnersFinite, FS_RemoveElement
  <2>4. TokensConserved'
    BY <1>0, <1>1, <2>3, InitValueAssumption DEF TokensConserved, Up, TypeOK
  <2>5. NoIdleToken' /\ QueuedAreAsleep' BY <2>1 DEF NoIdleToken, QueuedAreAsleep
  <2>6. ResumedByUp' BY <1>1, <2>1 DEF ResumedByUp, Up, TypeOK, InQueue
  <2>7. QED BY <2>2, <2>4, <2>5, <2>6
<1>2. CASE wait_queue # <<>>
  <2> DEFINE h == Head(wait_queue)
  <2>1. /\ h \in Procs /\ h # p /\ h \notin Owners /\ p \in Owners
        /\ Owners' = (Owners \ {p}) \cup {h}
    BY <1>2, UpHandOffOwners
  <2>2. wait_queue' = Tail(wait_queue) /\ value' = value BY <1>2 DEF Up, wakeup_wait_first
  <2>3. InQueue(h) /\ \A q : InQueue(q)' <=> InQueue(q) /\ q # h
    BY <1>2, <2>2, InQueueTail
  <2>4. state[h] = "SLEEPING" BY <2>3 DEF InQueue, QueuedAreAsleep
  <2>5. /\ state' = [state EXCEPT ![h] = "RUNNABLE"]
        /\ wait_state' = [wait_state EXCEPT ![h] = "none"]
        /\ wakeup_flags' = [wakeup_flags EXCEPT ![h] = "WT_KSEM"]
        /\ pc' = [pc EXCEPT ![p] = "out"]
        /\ pc[p] = "in"
        /\ exiting' = exiting
    BY <1>2, <2>4 DEF Up, wakeup_wait_first, wakeup_proc
  <2>6. wait_queue' \in Seq(Procs) BY <1>2, <2>2 DEF TypeOK
  <2>7. TypeOK' BY <2>1, <2>2, <2>5, <2>6 DEF TypeOK, PStates, WaitStates, PCs
  <2>8. TokensConserved'
    <3>1. Cardinality(Owners \ {p}) = Cardinality(Owners) - 1 /\ IsFiniteSet(Owners \ {p})
      BY <2>1, OwnersFinite, FS_RemoveElement
    <3>2. Cardinality(Owners') = Cardinality(Owners \ {p}) + 1
      BY <2>1, <3>1, FS_AddElement
    <3>3. QED BY <1>0, <2>2, <3>1, <3>2 DEF TokensConserved
  <2>9. NoIdleToken' BY <1>2, <2>2 DEF NoIdleToken, TypeOK
  <2>10. QueuedAreAsleep'
    <3>1. /\ wait_queue \in Seq(Procs) /\ Len(wait_queue) \in Nat \ {0}
          /\ DOMAIN wait_queue = 1..Len(wait_queue)
          /\ DOMAIN wait_queue' = 1..(Len(wait_queue) - 1)
          /\ \A i \in DOMAIN wait_queue' : wait_queue'[i] = wait_queue[i + 1]
      BY <1>2, <2>2 DEF TypeOK
    <3>2. ASSUME NEW i \in DOMAIN wait_queue'
          PROVE  /\ pc'[wait_queue'[i]] = "down"
                 /\ state'[wait_queue'[i]] = "SLEEPING"
                 /\ wait_state'[wait_queue'[i]] = "WT_KSEM"
      <4>1. h = wait_queue[1] /\ 1 \in DOMAIN wait_queue BY <3>1
      <4>2. i + 1 # 1 /\ i + 1 \in DOMAIN wait_queue BY <3>1
      <4>3. /\ wait_queue'[i] = wait_queue[i + 1]
            /\ wait_queue[i + 1] \in Procs
            /\ wait_queue[i + 1] # h
        BY <3>1, <4>1, <4>2 DEF QueuedAreAsleep
      <4>4. /\ pc[wait_queue[i + 1]] = "down" /\ state[wait_queue[i + 1]] = "SLEEPING"
            /\ wait_state[wait_queue[i + 1]] = "WT_KSEM"
        BY <4>2 DEF QueuedAreAsleep
      <4>5. QED BY <4>3, <4>4, <2>5 DEF TypeOK
    <3>3. ASSUME NEW i \in DOMAIN wait_queue', NEW j \in DOMAIN wait_queue',
                 wait_queue'[i] = wait_queue'[j]
          PROVE  i = j
      BY <3>1, <3>3 DEF QueuedAreAsleep
    <3>4. QED BY <3>2, <3>3 DEF QueuedAreAsleep
  <2>11. ResumedByUp' BY <2>1, <2>3, <2>5 DEF ResumedByUp, TypeOK
  <2>12. QED BY <2>7, <2>8, <2>9, <2>10, <2>11
<1>3. QED BY <1>1, <1>2

LEMMA KillIInv ==
  ASSUME IInv, NEW p \in Procs, Kill(p) PROVE IInv'
<1> USE DEF IInv
<1>1. UNCHANGED <<value, wait_queue, state, wait_state, wakeup_flags, pc>>
  BY DEF Kill, TypeOK, WaitStates, Interruptible
<1>2. TypeOK' BY <1>1 DEF Kill, TypeOK
<1>3. Owners' = Owners BY <1>1 DEF Owners, Granted, InQueue
<1>4. TokensConserved' /\ NoIdleToken' BY <1>1, <1>3 DEF TokensConserved, NoIdleToken
<1>5. QueuedAreAsleep' BY <1>1 DEF QueuedAreAsleep
<1>6. ResumedByUp' BY <1>1 DEF ResumedByUp, InQueue
<1>7. QED BY <1>2, <1>4, <1>5, <1>6

LEMMA ExitIInv ==
  ASSUME IInv, NEW p \in Procs, Exit(p) PROVE IInv'
<1> USE DEF IInv
<1>1. TypeOK' BY DEF Exit, TypeOK, PCs, PStates
<1>2. \A q : InQueue(q)' <=> InQueue(q) BY DEF Exit, InQueue
<1>3. Owners' = Owners BY <1>2 DEF Exit, Owners, Granted, TypeOK
<1>4. TokensConserved' /\ NoIdleToken' BY <1>3 DEF Exit, TokensConserved, NoIdleToken
<1>5. QueuedAreAsleep' BY DEF Exit, QueuedAreAsleep, TypeOK
<1>6. ResumedByUp' BY <1>2 DEF Exit, ResumedByUp, TypeOK
<1>7. QED BY <1>1, <1>4, <1>5, <1>6

LEMMA StepIInv == IInv /\ [Next]_vars => IInv'
<1> SUFFICES ASSUME IInv, [Next]_vars PROVE IInv' OBVIOUS
<1>1. ASSUME NEW p \in Procs, DownAtOnce(p) PROVE IInv' BY <1>1, DownAtOnceIInv
<1>2. ASSUME NEW p \in Procs, DownBlock(p) PROVE IInv' BY <1>2, DownBlockIInv
<1>3. ASSUME NEW p \in Procs, DownResume(p) PROVE IInv' BY <1>3, DownResumeIInv
<1>4. ASSUME NEW p \in Procs, Up(p) PROVE IInv' BY <1>4, UpIInv
<1>5. ASSUME NEW p \in Procs, Kill(p) PROVE IInv' BY <1>5, KillIInv
<1>6. ASSUME NEW p \in Procs, Exit(p) PROVE IInv' BY <1>6, ExitIInv
<1>7. CASE UNCHANGED vars
  <2>1. Owners' = Owners BY <1>7 DEF vars, Owners, Granted, InQueue
  <2>2. QED BY <1>7, <2>1 DEF vars, IInv, TypeOK, TokensConserved, NoIdleToken,
                              QueuedAreAsleep, ResumedByUp, InQueue
<1>8. QED BY <1>1, <1>2, <1>3, <1>4, <1>5, <1>6, <1>7 DEF Next

\* The inductive invariant holds throughout.
THEOREM Invariance == Spec => []IInv
BY InitIInv, StepIInv, PTL DEF Spec

\* sem.c never lets the value go negative, whatever the processes do.
THEOREM TypeCorrect == Spec => []TypeOK
<1>1. IInv => TypeOK BY DEF IInv
<1>2. QED BY <1>1, Invariance, PTL

\* No interleaving of down, up, kill and exit loses or makes a token.
THEOREM Conservation == Spec => []TokensConserved
<1>1. IInv => TokensConserved BY DEF IInv
<1>2. QED BY <1>1, Invariance, PTL

\* At most InitValue processes are past down().
THEOREM Exclusion == Spec => []MutualExclusion
<1>1. IInv => MutualExclusion
  <2> SUFFICES ASSUME IInv PROVE MutualExclusion OBVIOUS
  <2> DEFINE In == {p \in Procs : pc[p] = "in"}
  <2>1. In \subseteq Owners BY DEF Owners
  <2>2. Cardinality(In) <= Cardinality(Owners) /\ IsFiniteSet(In)
    BY <2>1, OwnersFinite, FS_Subset
  <2>3. Cardinality(In) \in Nat /\ Cardinality(Owners) \in Nat
    BY <2>2, OwnersFinite, FS_CardinalityType
  <2>4. value \in Nat /\ value + Cardinality(Owners) = InitValue
    BY DEF IInv, TypeOK, TokensConserved
  <2>5. Cardinality(In) <= InitValue BY <2>2, <2>3, <2>4, InitValueAssumption
  <2>6. QED BY <2>5 DEF MutualExclusion
<1>2. QED BY <1>1, Invariance, PTL

\* The assertions on the way through __up and the one in down() hold: a
\* queued process is asleep in WT_KSEM, and a resumed one was woken by up().
THEOREM AssertionsHold == Spec => [](QueuedAreAsleep /\ ResumedByUp)
<1>1. IInv => QueuedAreAsleep /\ ResumedByUp BY DEF IInv
<1>2. QED BY <1>1, Invariance, PTL

-----------------------------------------------------------------------------
LEMMA InitRefines == Init => Fifo!Init
<1> SUFFICES ASSUME Init PROVE Fifo!Init OBVIOUS
<1>1. Owners = {} BY DEF Init, sem_init, Owners, Granted
<1>2. QED BY <1>1 DEF Init, sem_init, Fifo!Init

LEMMA StepRefines == IInv /\ [Next]_vars => [Fifo!Next]_Fifo!vars
<1> SUFFICES ASSUME IInv, [Next]_vars PROVE [Fifo!Next]_Fifo!vars OBVIOUS
<1>1. ASSUME NEW p \in Procs, DownAtOnce(p) PROVE Fifo!Acquire(p)
  BY <1>1, DownAtOnceOwners DEF DownAtOnce, Fifo!Acquire, IInv, NoIdleToken
<1>2. ASSUME NEW p \in Procs, DownBlock(p) PROVE Fifo!Wait(p)
  <2>1. Owners' = Owners /\ p \notin Owners /\ ~InQueue(p) BY <1>2, DownBlockOwners
  <2>2. value = 0 BY <1>2 DEF DownBlock, IInv, TypeOK
  <2>3. QED BY <1>2, <2>1, <2>2
            DEF DownBlock, wait_current_set, InQueue, Fifo!Wait, Fifo!Waits
<1>3. ASSUME NEW p \in Procs, DownResume(p) PROVE UNCHANGED Fifo!vars
  BY <1>3, DownResumeOwners DEF DownResume, Fifo!vars
<1>4. ASSUME NEW p \in Procs, Up(p) PROVE Fifo!Release(p)
  <2>1. CASE wait_queue = <<>>
    BY <1>4, <2>1, UpEmptyOwners DEF Up, Fifo!Release
  <2>2. CASE wait_queue # <<>>
    BY <1>4, <2>2, UpHandOffOwners DEF Up, wakeup_wait_first, Fifo!Release
  <2>3. QED BY <2>1, <2>2
<1>5. ASSUME NEW p \in Procs, Kill(p) PROVE UNCHANGED Fifo!vars
  <2>1. UNCHANGED <<value, wait_queue, pc>> BY <1>5 DEF Kill
  <2>2. QED BY <2>1 DEF Owners, Granted, InQueue, Fifo!vars
<1>6. ASSUME NEW p \in Procs, Exit(p) PROVE UNCHANGED Fifo!vars
  <2>1. \A q : InQueue(q)' <=> InQueue(q) BY <1>6 DEF Exit, InQueue
  <2>2. Owners' = Owners BY <1>6, <2>1 DEF Exit, Owners, Granted, IInv, TypeOK
  <2>3. QED BY <1>6, <2>2 DEF Exit, Fifo!vars
<1>7. CASE UNCHANGED vars
  BY <1>7 DEF vars, Owners, Granted, InQueue, Fifo!vars
<1>8. QED
  BY <1>1, <1>2, <1>3, <1>4, <1>5, <1>6, <1>7 DEF Next, Fifo!Next

\* The semaphore of sem.c implements the first-come-first-served semaphore.
THEOREM Refinement == Spec => FifoSpec
BY InitRefines, StepRefines, Invariance, PTL DEF Spec, FifoSpec, Fifo!Spec
=============================================================================
