------------------------------ MODULE ProcProofs ------------------------------
(***************************************************************************)
(* The life cycle of processes in lab8 is correct for every set of         *)
(* proc_structs, every slice and every length of sleep.                    *)
(***************************************************************************)
EXTENDS Proc, TLAPS

\* Which control points a process can be at.  init is never asked to wait for
\* a particular child, and when its loop has ended nobody else gets the hart.
ControlPoints ==
  /\ pc[idleproc] = "idle"
  /\ pc[initproc] \in {"start", "loop", "wait", "done"}
  /\ \A p \in UserProcs : pc[p] \in {"user", "scan", "wait", "sleep", "trapret", "exit"}
  /\ waitfor[initproc] = None
  /\ pc[initproc] = "done" => current = initproc /\ ~insched

\* A process sleeps exactly while it has a wait state, which says in which call;
\* idle always runs and init is never a zombie.
SleepStates ==
  /\ \A p \in Procs : state[p] = "SLEEPING" <=> wait_state[p] # "none"
  /\ \A p \in Procs : wait_state[p] = "WT_CHILD" => pc[p] = "wait"
  /\ \A p \in Procs : wait_state[p] = "WT_TIMER" => pc[p] = "sleep"
  /\ state[idleproc] = "RUNNABLE"
  /\ state[initproc] \in {"RUNNABLE", "SLEEPING"}

LiveUsers == {p \in UserProcs : state[p] # "FREE"}

\* Going from parent to parent one leaves every set of user processes: there is
\* no cycle among them, and what one comes to in the end is init.
Ancestry ==
  /\ \A p \in LiveUsers : parent[p] # idleproc
  /\ \A S \in SUBSET LiveUsers : S # {} => \E p \in S : parent[p] \notin S

IInv ==
  /\ TypeOK
  /\ ControlPoints
  /\ SleepStates
  /\ RunQueueExact
  /\ TimersOfSleepers
  /\ NoLostChildExit
  /\ ParentCanReap
  /\ Ancestry
  /\ InitLeavesNobody

-----------------------------------------------------------------------------
\* The step lemmas: no processes are born, and orphans go to init.
LEMMA AncestryKept ==
  ASSUME Ancestry, LiveUsers' \subseteq LiveUsers,
         \A p \in LiveUsers' : parent'[p] \in {parent[p], initproc}
  PROVE  Ancestry'
<1>1. \A p \in LiveUsers' : parent'[p] # idleproc BY ProcsAssumption DEF Ancestry
<1>2. ASSUME NEW S \in SUBSET LiveUsers', S # {} PROVE \E p \in S : parent'[p] \notin S
  <2>1. PICK p \in S : parent[p] \notin S BY <1>2 DEF Ancestry
  <2>2. initproc \notin S BY <1>2 DEF LiveUsers, UserProcs
  <2>3. QED BY <2>1, <2>2
<1>3. QED BY <1>1, <1>2 DEF Ancestry

LEMMA InitIInv == Init => IInv
<1> SUFFICES ASSUME Init PROVE IInv OBVIOUS
<1> USE ProcsAssumption, BoundsAssumption DEF Init, UserProcs
<1>1. TypeOK
  <2>1. pc \in [Procs -> {"idle", "start", "user"}] OBVIOUS
  <2>2. /\ time_slice \in [Procs -> 0..MAX_TIME_SLICE] /\ rq \in [Procs -> Nat]
        /\ timer \in [Procs -> 0..MaxSleep]
    OBVIOUS
  <2>3. parent \in [Procs -> Procs \cup {None}] /\ waitfor \in [Procs -> Procs \cup {None}]
    OBVIOUS
  <2>4. QED BY <2>1, <2>2, <2>3 DEF TypeOK
<1>2. ControlPoints /\ SleepStates BY DEF ControlPoints, SleepStates
<1>3. RunQueueExact /\ TimersOfSleepers BY DEF RunQueueExact, TimersOfSleepers
<1>4. NoLostChildExit /\ ParentCanReap /\ InitLeavesNobody
  BY DEF NoLostChildExit, ParentCanReap, InitLeavesNobody
<1>5. LiveUsers = {} BY DEF LiveUsers
<1>6. Ancestry BY <1>5 DEF Ancestry
<1>7. QED BY <1>1, <1>2, <1>3, <1>4, <1>6 DEF IInv

LEMMA CpuIdleIInv ==
  ASSUME IInv, cpu_idle PROVE IInv'
<1> USE ProcsAssumption, BoundsAssumption DEF IInv, UserProcs
<1>1. TypeOK' BY DEF TypeOK, cpu_idle
<1>2. ControlPoints' BY DEF ControlPoints, cpu_idle, TypeOK, RunQueueExact
<1>3. SleepStates' BY DEF SleepStates, cpu_idle, TypeOK, ControlPoints, RunQueueExact
<1>4. RunQueueExact' BY DEF RunQueueExact, cpu_idle, TypeOK, ControlPoints, SleepStates
<1>5. TimersOfSleepers'
  BY DEF TimersOfSleepers, cpu_idle, TypeOK, ControlPoints, SleepStates, RunQueueExact
<1>6. NoLostChildExit'
  BY DEF NoLostChildExit, cpu_idle, TypeOK, ControlPoints, SleepStates, RunQueueExact,
      Awaited, Children
<1>7. ParentCanReap' BY DEF ParentCanReap, cpu_idle, TypeOK, SleepStates, RunQueueExact
<1>8. Ancestry' BY AncestryKept DEF cpu_idle, LiveUsers, TypeOK
<1>9. InitLeavesNobody' BY DEF InitLeavesNobody, cpu_idle, TypeOK, ControlPoints
<1>10. QED BY <1>1, <1>2, <1>3, <1>4, <1>5, <1>6, <1>7, <1>8, <1>9

LEMMA SysWaitIInv ==
  ASSUME IInv, NEW t \in Procs \cup {None}, sys_wait(t) PROVE IInv'
<1> USE ProcsAssumption, BoundsAssumption DEF IInv, UserProcs
<1>1. TypeOK' BY DEF TypeOK, sys_wait, At, Goto
<1>2. ControlPoints' BY DEF ControlPoints, sys_wait, At, Goto, TypeOK, RunQueueExact
<1>3. SleepStates'
  BY DEF SleepStates, sys_wait, At, Goto, TypeOK, ControlPoints, RunQueueExact
<1>4. RunQueueExact'
  BY DEF RunQueueExact, sys_wait, At, Goto, TypeOK, ControlPoints, SleepStates
<1>5. TimersOfSleepers'
  BY DEF TimersOfSleepers, sys_wait, At, Goto, TypeOK, ControlPoints, SleepStates,
      RunQueueExact
<1>6. NoLostChildExit'
  BY DEF NoLostChildExit, sys_wait, At, Goto, TypeOK, ControlPoints, SleepStates,
      RunQueueExact, Awaited, Children
<1>7. ParentCanReap'
  BY DEF ParentCanReap, sys_wait, At, Goto, TypeOK, SleepStates, RunQueueExact
<1>8. Ancestry' BY AncestryKept DEF sys_wait, At, Goto, LiveUsers, TypeOK
<1>9. InitLeavesNobody' BY DEF InitLeavesNobody, sys_wait, At, Goto, TypeOK, ControlPoints
<1>10. QED BY <1>1, <1>2, <1>3, <1>4, <1>5, <1>6, <1>7, <1>8, <1>9

LEMMA SysOtherIInv ==
  ASSUME IInv, sys_other PROVE IInv'
<1> USE ProcsAssumption, BoundsAssumption DEF IInv, UserProcs
<1>1. TypeOK' BY DEF TypeOK, sys_other, At, Goto
<1>2. ControlPoints' BY DEF ControlPoints, sys_other, At, Goto, TypeOK, RunQueueExact
<1>3. SleepStates'
  BY DEF SleepStates, sys_other, At, Goto, TypeOK, ControlPoints, RunQueueExact
<1>4. RunQueueExact'
  BY DEF RunQueueExact, sys_other, At, Goto, TypeOK, ControlPoints, SleepStates
<1>5. TimersOfSleepers'
  BY DEF TimersOfSleepers, sys_other, At, Goto, TypeOK, ControlPoints, SleepStates,
      RunQueueExact
<1>6. NoLostChildExit'
  BY DEF NoLostChildExit, sys_other, At, Goto, TypeOK, ControlPoints, SleepStates,
      RunQueueExact, Awaited, Children
<1>7. ParentCanReap'
  BY DEF ParentCanReap, sys_other, At, Goto, TypeOK, SleepStates, RunQueueExact
<1>8. Ancestry' BY AncestryKept DEF sys_other, At, Goto, LiveUsers, TypeOK
<1>9. InitLeavesNobody' BY DEF InitLeavesNobody, sys_other, At, Goto, TypeOK, ControlPoints
<1>10. QED BY <1>1, <1>2, <1>3, <1>4, <1>5, <1>6, <1>7, <1>8, <1>9

LEMMA DoYieldIInv ==
  ASSUME IInv, do_yield PROVE IInv'
<1> USE ProcsAssumption, BoundsAssumption DEF IInv, UserProcs
<1>1. TypeOK' BY DEF TypeOK, do_yield, At, Goto
<1>2. ControlPoints' BY DEF ControlPoints, do_yield, At, Goto, TypeOK, RunQueueExact
<1>3. SleepStates'
  BY DEF SleepStates, do_yield, At, Goto, TypeOK, ControlPoints, RunQueueExact
<1>4. RunQueueExact'
  BY DEF RunQueueExact, do_yield, At, Goto, TypeOK, ControlPoints, SleepStates
<1>5. TimersOfSleepers'
  BY DEF TimersOfSleepers, do_yield, At, Goto, TypeOK, ControlPoints, SleepStates,
      RunQueueExact
<1>6. NoLostChildExit'
  BY DEF NoLostChildExit, do_yield, At, Goto, TypeOK, ControlPoints, SleepStates,
      RunQueueExact, Awaited, Children
<1>7. ParentCanReap'
  BY DEF ParentCanReap, do_yield, At, Goto, TypeOK, SleepStates, RunQueueExact
<1>8. Ancestry' BY AncestryKept DEF do_yield, At, Goto, LiveUsers, TypeOK
<1>9. InitLeavesNobody' BY DEF InitLeavesNobody, do_yield, At, Goto, TypeOK, ControlPoints
<1>10. QED BY <1>1, <1>2, <1>3, <1>4, <1>5, <1>6, <1>7, <1>8, <1>9

LEMMA DoSleepIInv ==
  ASSUME IInv, NEW t \in 1..MaxSleep, do_sleep(t) PROVE IInv'
<1> USE ProcsAssumption, BoundsAssumption DEF IInv, UserProcs
<1>1. TypeOK' BY DEF TypeOK, do_sleep, At, Goto
<1>2. ControlPoints' BY DEF ControlPoints, do_sleep, At, Goto, TypeOK, RunQueueExact
<1>3. SleepStates'
  BY DEF SleepStates, do_sleep, At, Goto, TypeOK, ControlPoints, RunQueueExact
<1>4. RunQueueExact'
  BY DEF RunQueueExact, do_sleep, At, Goto, TypeOK, ControlPoints, SleepStates
<1>5. TimersOfSleepers'
  BY DEF TimersOfSleepers, do_sleep, At, Goto, TypeOK, ControlPoints, SleepStates,
      RunQueueExact
<1>6. NoLostChildExit'
  BY DEF NoLostChildExit, do_sleep, At, Goto, TypeOK, ControlPoints, SleepStates,
      RunQueueExact, Awaited, Children
<1>7. ParentCanReap'
  BY DEF ParentCanReap, do_sleep, At, Goto, TypeOK, SleepStates, RunQueueExact
<1>8. Ancestry' BY AncestryKept DEF do_sleep, At, Goto, LiveUsers, TypeOK, RunQueueExact
<1>9. InitLeavesNobody' BY DEF InitLeavesNobody, do_sleep, At, Goto, TypeOK, ControlPoints
<1>10. QED BY <1>1, <1>2, <1>3, <1>4, <1>5, <1>6, <1>7, <1>8, <1>9

LEMMA DoSleepResumeIInv ==
  ASSUME IInv, do_sleep_resume PROVE IInv'
<1> USE ProcsAssumption, BoundsAssumption DEF IInv, UserProcs
<1>1. TypeOK' BY DEF TypeOK, do_sleep_resume, At, Goto
<1>2. ControlPoints' BY DEF ControlPoints, do_sleep_resume, At, Goto, TypeOK, RunQueueExact
<1>3. SleepStates'
  BY DEF SleepStates, do_sleep_resume, At, Goto, TypeOK, ControlPoints, RunQueueExact
<1>4. RunQueueExact'
  BY DEF RunQueueExact, do_sleep_resume, At, Goto, TypeOK, ControlPoints, SleepStates
<1>5. TimersOfSleepers'
  BY DEF TimersOfSleepers, do_sleep_resume, At, Goto, TypeOK, ControlPoints,
      SleepStates, RunQueueExact
<1>6. NoLostChildExit'
  BY DEF NoLostChildExit, do_sleep_resume, At, Goto, TypeOK, ControlPoints, SleepStates,
      RunQueueExact, Awaited, Children
<1>7. ParentCanReap'
  BY DEF ParentCanReap, do_sleep_resume, At, Goto, TypeOK, SleepStates, RunQueueExact
<1>8. Ancestry' BY AncestryKept DEF do_sleep_resume, At, Goto, LiveUsers, TypeOK
<1>9. InitLeavesNobody'
  BY DEF InitLeavesNobody, do_sleep_resume, At, Goto, TypeOK, ControlPoints
<1>10. QED BY <1>1, <1>2, <1>3, <1>4, <1>5, <1>6, <1>7, <1>8, <1>9

LEMMA DoWaitBlockIInv ==
  ASSUME IInv, do_wait_block PROVE IInv'
<1> USE ProcsAssumption, BoundsAssumption DEF IInv, UserProcs
<1>1. TypeOK' BY DEF TypeOK, do_wait_block, At, Goto
<1>2. ControlPoints' BY DEF ControlPoints, do_wait_block, At, Goto, TypeOK, RunQueueExact
<1>3. SleepStates'
  BY DEF SleepStates, do_wait_block, At, Goto, TypeOK, ControlPoints, RunQueueExact
<1>4. RunQueueExact'
  BY DEF RunQueueExact, do_wait_block, At, Goto, TypeOK, ControlPoints, SleepStates
<1>5. TimersOfSleepers'
  BY DEF TimersOfSleepers, do_wait_block, At, Goto, TypeOK, ControlPoints, SleepStates,
      RunQueueExact
<1>6. NoLostChildExit'
  BY DEF NoLostChildExit, do_wait_block, At, Goto, TypeOK, ControlPoints, SleepStates,
      RunQueueExact, Awaited, Children
<1>7. ParentCanReap'
  BY DEF ParentCanReap, do_wait_block, At, Goto, TypeOK, SleepStates, RunQueueExact
<1>8. Ancestry' BY AncestryKept DEF do_wait_block, At, Goto, LiveUsers, TypeOK, RunQueueExact
<1>9. InitLeavesNobody'
  BY DEF InitLeavesNobody, do_wait_block, At, Goto, TypeOK, ControlPoints
<1>10. QED BY <1>1, <1>2, <1>3, <1>4, <1>5, <1>6, <1>7, <1>8, <1>9

\* The loop of init ends when it has no child: nobody else is left either, since
\* from any process that is left one would come to a child of init.
LEMMA DoWaitNoneIInv ==
  ASSUME IInv, do_wait_none PROVE IInv'
<1> USE ProcsAssumption, BoundsAssumption DEF IInv, UserProcs
<1>1. TypeOK' BY DEF TypeOK, do_wait_none, At, Goto
<1>2. ControlPoints' BY DEF ControlPoints, do_wait_none, At, Goto, TypeOK, RunQueueExact
<1>3. SleepStates'
  BY DEF SleepStates, do_wait_none, At, Goto, TypeOK, ControlPoints, RunQueueExact
<1>4. RunQueueExact'
  BY DEF RunQueueExact, do_wait_none, At, Goto, TypeOK, ControlPoints, SleepStates
<1>5. TimersOfSleepers'
  BY DEF TimersOfSleepers, do_wait_none, At, Goto, TypeOK, ControlPoints, SleepStates,
      RunQueueExact
<1>6. NoLostChildExit'
  BY DEF NoLostChildExit, do_wait_none, At, Goto, TypeOK, ControlPoints, SleepStates,
      RunQueueExact, Awaited, Children
<1>7. ParentCanReap'
  BY DEF ParentCanReap, do_wait_none, At, Goto, TypeOK, SleepStates, RunQueueExact
<1>8. Ancestry' BY AncestryKept DEF do_wait_none, At, Goto, LiveUsers, TypeOK
<1>9. InitLeavesNobody'
  <2> SUFFICES ASSUME pc'[initproc] = "done"
               PROVE  \A p \in UserProcs : state'[p] = "FREE" /\ timer'[p] = 0
    BY DEF InitLeavesNobody
  <2>1. CASE current # initproc
    BY <2>1 DEF do_wait_none, At, Goto, TypeOK, InitLeavesNobody
  <2>2. CASE current = initproc
    <3>1. Children(initproc) = {} BY <2>2 DEF do_wait_none, Awaited, ControlPoints
    <3>2. \A p \in LiveUsers : parent[p] \in LiveUsers
      BY <3>1 DEF LiveUsers, Ancestry, ParentCanReap, Children
    <3>3. LiveUsers = {} BY <3>2 DEF Ancestry
    <3>4. QED BY <3>3 DEF LiveUsers, do_wait_none, TimersOfSleepers, TypeOK
  <2>3. QED BY <2>1, <2>2
<1>10. QED BY <1>1, <1>2, <1>3, <1>4, <1>5, <1>6, <1>7, <1>8, <1>9

LEMMA DoWaitFoundIInv ==
  ASSUME IInv, NEW z \in Procs, do_wait_found(z) PROVE IInv'
<1> USE ProcsAssumption, BoundsAssumption DEF IInv, UserProcs
<1>1. TypeOK' BY DEF TypeOK, do_wait_found, AfterWait, At
<1>2. ControlPoints'
  BY DEF ControlPoints, do_wait_found, AfterWait, At, TypeOK, RunQueueExact, SleepStates
<1>3. SleepStates'
  BY DEF SleepStates, do_wait_found, AfterWait, At, TypeOK, ControlPoints, RunQueueExact
<1>4. RunQueueExact'
  BY DEF RunQueueExact, do_wait_found, AfterWait, At, TypeOK, ControlPoints, SleepStates
<1>5. TimersOfSleepers'
  BY DEF TimersOfSleepers, do_wait_found, AfterWait, At, TypeOK, ControlPoints,
      SleepStates, RunQueueExact
<1>6. NoLostChildExit'
  BY DEF NoLostChildExit, do_wait_found, AfterWait, At, TypeOK, ControlPoints,
      SleepStates, RunQueueExact, Awaited, Children
<1>7. ParentCanReap'
  BY DEF ParentCanReap, do_wait_found, AfterWait, At, TypeOK, SleepStates, RunQueueExact
<1>8. Ancestry' BY AncestryKept DEF do_wait_found, AfterWait, At, LiveUsers, TypeOK
<1>9. InitLeavesNobody'
  BY DEF InitLeavesNobody, do_wait_found, AfterWait, At, TypeOK, ControlPoints
<1>10. QED BY <1>1, <1>2, <1>3, <1>4, <1>5, <1>6, <1>7, <1>8, <1>9

\* Nobody has the new process for a parent yet.
LEMMA DoForkIInv ==
  ASSUME IInv, NEW q \in Procs, do_fork(q) PROVE IInv'
<1> USE ProcsAssumption, BoundsAssumption DEF IInv, UserProcs
<1>1. TypeOK' BY DEF TypeOK, do_fork, At
<1>2. ControlPoints' BY DEF ControlPoints, do_fork, At, TypeOK, RunQueueExact
<1>3. SleepStates' BY DEF SleepStates, do_fork, At, TypeOK, ControlPoints, RunQueueExact
<1>4. RunQueueExact' BY DEF RunQueueExact, do_fork, At, TypeOK, ControlPoints, SleepStates
<1>5. TimersOfSleepers'
  BY DEF TimersOfSleepers, do_fork, At, TypeOK, ControlPoints, SleepStates,
      RunQueueExact
<1>6. NoLostChildExit'
  BY DEF NoLostChildExit, do_fork, At, TypeOK, ControlPoints, SleepStates,
      RunQueueExact, Awaited, Children
<1>7. ParentCanReap' BY DEF ParentCanReap, do_fork, At, TypeOK, SleepStates, RunQueueExact
<1>8. Ancestry'
  <2>1. /\ q \notin LiveUsers /\ LiveUsers' = LiveUsers \cup {q}
        /\ parent'[q] = current /\ current \notin {q, idleproc}
        /\ \A p \in LiveUsers : parent'[p] = parent[p] /\ parent[p] # q
    BY DEF LiveUsers, do_fork, At, TypeOK, RunQueueExact, ControlPoints, ParentCanReap
  <2>2. ASSUME NEW S \in SUBSET LiveUsers', S # {} PROVE \E p \in S : parent'[p] \notin S
    <3>1. CASE S \subseteq {q} BY <2>1, <2>2, <3>1
    <3>2. CASE ~(S \subseteq {q})
      <4>1. S \ {q} \in SUBSET LiveUsers /\ S \ {q} # {} BY <2>1, <2>2, <3>2
      <4>2. PICK p \in S \ {q} : parent[p] \notin S \ {q} BY <4>1 DEF Ancestry
      <4>3. QED BY <4>1, <4>2, <2>1
    <3>3. QED BY <3>1, <3>2
  <2>3. QED BY <2>1, <2>2 DEF Ancestry
<1>9. InitLeavesNobody' BY DEF InitLeavesNobody, do_fork, At, TypeOK, ControlPoints
<1>10. QED BY <1>1, <1>2, <1>3, <1>4, <1>5, <1>6, <1>7, <1>8, <1>9

LEMMA DoKillIInv ==
  ASSUME IInv, NEW q \in Procs, do_kill(q) PROVE IInv'
<1> USE ProcsAssumption, BoundsAssumption DEF IInv, UserProcs
<1>1. TypeOK'
  BY DEF TypeOK, do_kill, wakeup, Enqueue, SliceOnEnqueue, WakeupState, WakeupWaitState,
      WakeupEnqueued, Interruptible, At, Goto
<1>2. ControlPoints'
  BY DEF ControlPoints, do_kill, wakeup, Enqueue, SliceOnEnqueue, WakeupState,
      WakeupWaitState, WakeupEnqueued, Interruptible, At, Goto, TypeOK, RunQueueExact
<1>3. SleepStates'
  BY DEF SleepStates, do_kill, wakeup, Enqueue, SliceOnEnqueue, WakeupState,
      WakeupWaitState, WakeupEnqueued, Interruptible, At, Goto, TypeOK, ControlPoints,
      RunQueueExact
<1>4. RunQueueExact'
  BY DEF RunQueueExact, do_kill, wakeup, Enqueue, SliceOnEnqueue, WakeupState,
      WakeupWaitState, WakeupEnqueued, Interruptible, At, Goto, TypeOK, ControlPoints,
      SleepStates
<1>5. TimersOfSleepers'
  BY DEF TimersOfSleepers, do_kill, wakeup, Enqueue, SliceOnEnqueue, WakeupState,
      WakeupWaitState, WakeupEnqueued, Interruptible, At, Goto, TypeOK, ControlPoints,
      SleepStates, RunQueueExact
<1>6. NoLostChildExit'
  BY DEF NoLostChildExit, do_kill, wakeup, Enqueue, SliceOnEnqueue, WakeupState,
      WakeupWaitState, WakeupEnqueued, Interruptible, At, Goto, TypeOK, ControlPoints,
      SleepStates, RunQueueExact, Awaited, Children
<1>7. ParentCanReap'
  BY DEF ParentCanReap, do_kill, wakeup, Enqueue, SliceOnEnqueue, WakeupState,
      WakeupWaitState, WakeupEnqueued, Interruptible, At, Goto, TypeOK, SleepStates,
      RunQueueExact
<1>8. Ancestry'
  BY AncestryKept DEF do_kill, wakeup, Enqueue, SliceOnEnqueue, WakeupState,
      WakeupWaitState, WakeupEnqueued, Interruptible, At, Goto, LiveUsers, TypeOK
<1>9. InitLeavesNobody'
  BY DEF InitLeavesNobody, do_kill, wakeup, Enqueue, SliceOnEnqueue, WakeupState,
      WakeupWaitState, WakeupEnqueued, Interruptible, At, Goto, TypeOK, ControlPoints
<1>10. QED BY <1>1, <1>2, <1>3, <1>4, <1>5, <1>6, <1>7, <1>8, <1>9

\* do_exit by a process that is not inside do_sleep.
LEMMA DoExitIInv ==
  ASSUME IInv, current \in UserProcs, ~insched, timer[current] = 0, do_exit PROVE IInv'
<1> USE ProcsAssumption, BoundsAssumption DEF IInv, UserProcs
<1>1. TypeOK'
  BY DEF TypeOK, do_exit, ExitWakes, wakeup, Enqueue, SliceOnEnqueue, WakeupState,
      WakeupWaitState, WakeupEnqueued, Children, Goto
<1>2. ControlPoints'
  BY DEF ControlPoints, do_exit, ExitWakes, wakeup, Enqueue, SliceOnEnqueue,
      WakeupState, WakeupWaitState, WakeupEnqueued, Children, Goto, TypeOK,
      RunQueueExact
<1>3. SleepStates'
  BY DEF SleepStates, do_exit, ExitWakes, wakeup, Enqueue, SliceOnEnqueue, WakeupState,
      WakeupWaitState, WakeupEnqueued, Children, Goto, TypeOK, ControlPoints,
      RunQueueExact
<1>4. RunQueueExact'
  BY DEF RunQueueExact, do_exit, ExitWakes, wakeup, Enqueue, SliceOnEnqueue,
      WakeupState, WakeupWaitState, WakeupEnqueued, Children, Goto, TypeOK,
      ControlPoints, SleepStates
<1>5. TimersOfSleepers'
  BY DEF TimersOfSleepers, do_exit, ExitWakes, wakeup, Enqueue, SliceOnEnqueue,
      WakeupState, WakeupWaitState, WakeupEnqueued, Children, Goto, TypeOK,
      ControlPoints, SleepStates, RunQueueExact
<1>6. NoLostChildExit'
  <2>1. ASSUME NEW p \in Procs, wait_state'[p] = "WT_CHILD"
        PROVE  /\ wait_state[p] = "WT_CHILD" /\ p # current /\ p # parent[current]
               /\ p = initproc => \A q \in Children(current) : state[q] # "ZOMBIE"
    BY <2>1 DEF do_exit, ExitWakes, wakeup, WakeupWaitState, TypeOK, SleepStates, RunQueueExact
  <2>2. \A q \in Procs : /\ state'[q] = "FREE" <=> state[q] = "FREE"
                         /\ state'[q] = "ZOMBIE" => state[q] = "ZOMBIE" \/ q = current
    BY DEF do_exit, ExitWakes, wakeup, WakeupState, TypeOK, SleepStates, RunQueueExact
  <2>3. ASSUME NEW p \in Procs, wait_state'[p] = "WT_CHILD"
        PROVE  /\ Children(p) \subseteq Children(p)'
               /\ Children(p)' \subseteq Children(p) \cup
                                       (IF p = initproc THEN Children(current) ELSE {})
               /\ current \notin Children(p)'
               /\ waitfor'[p] = waitfor[p]
    <3>1. {current} \in SUBSET LiveUsers BY DEF LiveUsers, TypeOK, RunQueueExact
    <3>2. parent[current] # current BY <3>1 DEF Ancestry
    <3>3. QED BY <2>1, <2>2, <2>3, <3>2 DEF do_exit, Children, TypeOK
  <2>4. ASSUME NEW p \in Procs, wait_state'[p] = "WT_CHILD"
        PROVE  Awaited(p)' # {} /\ \A q \in Awaited(p)' : state'[q] # "ZOMBIE"
    <3>1. Awaited(p) # {} /\ \A q \in Awaited(p) : state[q] # "ZOMBIE"
      BY <2>1, <2>4 DEF NoLostChildExit
    <3>2. Awaited(p)' # {} BY <3>1, <2>3, <2>4 DEF Awaited
    <3>3. ASSUME NEW q \in Awaited(p)' PROVE state'[q] # "ZOMBIE"
      <4>1. q \in Children(p)' /\ q \in Procs /\ q # current
        BY <2>3, <2>4, <3>3 DEF Awaited, Children
      <4>2. CASE q \in Children(p)
        <5>1. q \in Awaited(p) BY <2>3, <2>4, <3>3, <4>2 DEF Awaited
        <5>2. QED BY <5>1, <3>1, <4>1, <2>2
      <4>3. CASE p = initproc /\ q \in Children(current) BY <4>1, <4>3, <2>1, <2>2, <2>4
      <4>4. QED BY <4>1, <4>2, <4>3, <2>3, <2>4
    <3>4. QED BY <3>2, <3>3
  <2>5. QED BY <2>4 DEF NoLostChildExit
<1>7. ParentCanReap'
  BY DEF ParentCanReap, do_exit, ExitWakes, wakeup, Enqueue, SliceOnEnqueue,
      WakeupState, WakeupWaitState, WakeupEnqueued, Children, Goto, TypeOK, SleepStates,
      RunQueueExact
<1>8. Ancestry'
  <2>1. LiveUsers' = LiveUsers
    BY DEF LiveUsers, do_exit, ExitWakes, wakeup, WakeupState, TypeOK, SleepStates, RunQueueExact
  <2>2. QED BY <2>1, AncestryKept DEF do_exit, TypeOK, LiveUsers
<1>9. InitLeavesNobody'
  BY DEF InitLeavesNobody, do_exit, ExitWakes, wakeup, Enqueue, SliceOnEnqueue,
      WakeupState, WakeupWaitState, WakeupEnqueued, Children, Goto, TypeOK,
      ControlPoints
<1>10. QED BY <1>1, <1>2, <1>3, <1>4, <1>5, <1>6, <1>7, <1>8, <1>9

LEMMA TickIInv ==
  ASSUME IInv, tick PROVE IInv'
<1> USE ProcsAssumption, BoundsAssumption DEF IInv, UserProcs
<1>1. TypeOK'
  BY DEF TypeOK, tick, IntrOn, SliceOnEnqueue, WakeupState, WakeupWaitState,
      WakeupEnqueued
<1>2. ControlPoints'
  BY DEF ControlPoints, tick, IntrOn, SliceOnEnqueue, WakeupState, WakeupWaitState,
      WakeupEnqueued, TypeOK, RunQueueExact
<1>3. SleepStates'
  BY DEF SleepStates, tick, IntrOn, SliceOnEnqueue, WakeupState, WakeupWaitState,
      WakeupEnqueued, TypeOK, ControlPoints, RunQueueExact
<1>4. RunQueueExact'
  BY DEF RunQueueExact, tick, IntrOn, SliceOnEnqueue, WakeupState, WakeupWaitState,
      WakeupEnqueued, TypeOK, ControlPoints, SleepStates
<1>5. TimersOfSleepers'
  BY DEF TimersOfSleepers, tick, IntrOn, SliceOnEnqueue, WakeupState, WakeupWaitState,
      WakeupEnqueued, TypeOK, ControlPoints, SleepStates, RunQueueExact
<1>6. NoLostChildExit'
  BY DEF NoLostChildExit, tick, IntrOn, SliceOnEnqueue, WakeupState, WakeupWaitState,
      WakeupEnqueued, TypeOK, ControlPoints, SleepStates, RunQueueExact, Awaited,
      Children
<1>7. ParentCanReap'
  BY DEF ParentCanReap, tick, WakeupState, TypeOK, TimersOfSleepers
<1>8. Ancestry'
  <2>1. LiveUsers' = LiveUsers BY DEF LiveUsers, tick, WakeupState, TypeOK, TimersOfSleepers
  <2>2. QED BY <2>1, AncestryKept DEF tick, TypeOK, LiveUsers
<1>9. InitLeavesNobody'
  BY DEF InitLeavesNobody, tick, IntrOn, SliceOnEnqueue, WakeupState, WakeupWaitState,
      WakeupEnqueued, TypeOK, ControlPoints
<1>10. QED BY <1>1, <1>2, <1>3, <1>4, <1>5, <1>6, <1>7, <1>8, <1>9

LEMMA ScheduleIInv ==
  ASSUME IInv, NEW next \in Procs, schedule(next) PROVE IInv'
<1> USE ProcsAssumption, BoundsAssumption DEF IInv, UserProcs
<1>1. TypeOK'
  <2>1. rq' \in [Procs -> Nat] BY DEF schedule, TypeOK
  <2>2. time_slice' \in [Procs -> 0..MAX_TIME_SLICE] BY DEF schedule, TypeOK, SliceOnEnqueue
  <2>3. QED BY <2>1, <2>2 DEF schedule, TypeOK
<1>2. ControlPoints' BY DEF ControlPoints, schedule, SliceOnEnqueue, TypeOK, RunQueueExact
<1>3. SleepStates'
  BY DEF SleepStates, schedule, SliceOnEnqueue, TypeOK, ControlPoints, RunQueueExact
<1>4. RunQueueExact'
  BY DEF RunQueueExact, schedule, SliceOnEnqueue, TypeOK, ControlPoints, SleepStates
<1>5. TimersOfSleepers'
  BY DEF TimersOfSleepers, schedule, SliceOnEnqueue, TypeOK, ControlPoints, SleepStates,
      RunQueueExact
<1>6. NoLostChildExit'
  BY DEF NoLostChildExit, schedule, SliceOnEnqueue, TypeOK, ControlPoints, SleepStates,
      RunQueueExact, Awaited, Children
<1>7. ParentCanReap'
  BY DEF ParentCanReap, schedule, SliceOnEnqueue, TypeOK, SleepStates, RunQueueExact
<1>8. Ancestry' BY AncestryKept DEF schedule, SliceOnEnqueue, LiveUsers, TypeOK
<1>9. InitLeavesNobody'
  BY DEF InitLeavesNobody, schedule, SliceOnEnqueue, TypeOK, ControlPoints
<1>10. QED BY <1>1, <1>2, <1>3, <1>4, <1>5, <1>6, <1>7, <1>8, <1>9

LEMMA DoWaitResumeIInv ==
  ASSUME IInv, do_wait_resume, current \notin exiting PROVE IInv'
<1> USE ProcsAssumption, BoundsAssumption DEF IInv, UserProcs
<1>1. TypeOK' BY DEF TypeOK, do_wait_resume, At, Goto
<1>2. ControlPoints' BY DEF ControlPoints, do_wait_resume, At, Goto, TypeOK, RunQueueExact
<1>3. SleepStates'
  BY DEF SleepStates, do_wait_resume, At, Goto, TypeOK, ControlPoints, RunQueueExact
<1>4. RunQueueExact'
  BY DEF RunQueueExact, do_wait_resume, At, Goto, TypeOK, ControlPoints, SleepStates
<1>5. TimersOfSleepers'
  BY DEF TimersOfSleepers, do_wait_resume, At, Goto, TypeOK, ControlPoints, SleepStates,
      RunQueueExact
<1>6. NoLostChildExit'
  BY DEF NoLostChildExit, do_wait_resume, At, Goto, TypeOK, ControlPoints, SleepStates,
      RunQueueExact, Awaited, Children
<1>7. ParentCanReap'
  BY DEF ParentCanReap, do_wait_resume, At, Goto, TypeOK, SleepStates, RunQueueExact
<1>8. Ancestry' BY AncestryKept DEF do_wait_resume, At, Goto, LiveUsers, TypeOK
<1>9. InitLeavesNobody'
  BY DEF InitLeavesNobody, do_wait_resume, At, Goto, TypeOK, ControlPoints
<1>10. QED BY <1>1, <1>2, <1>3, <1>4, <1>5, <1>6, <1>7, <1>8, <1>9

LEMMA TrapReturnIInv ==
  ASSUME IInv, trap_return, current \notin exiting PROVE IInv'
<1> USE ProcsAssumption, BoundsAssumption DEF IInv, UserProcs
<1>1. TypeOK' BY DEF TypeOK, trap_return, At, Goto
<1>2. ControlPoints' BY DEF ControlPoints, trap_return, At, Goto, TypeOK, RunQueueExact
<1>3. SleepStates'
  BY DEF SleepStates, trap_return, At, Goto, TypeOK, ControlPoints, RunQueueExact
<1>4. RunQueueExact'
  BY DEF RunQueueExact, trap_return, At, Goto, TypeOK, ControlPoints, SleepStates
<1>5. TimersOfSleepers'
  BY DEF TimersOfSleepers, trap_return, At, Goto, TypeOK, ControlPoints, SleepStates,
      RunQueueExact
<1>6. NoLostChildExit'
  BY DEF NoLostChildExit, trap_return, At, Goto, TypeOK, ControlPoints, SleepStates,
      RunQueueExact, Awaited, Children
<1>7. ParentCanReap'
  BY DEF ParentCanReap, trap_return, At, Goto, TypeOK, SleepStates, RunQueueExact
<1>8. Ancestry' BY AncestryKept DEF trap_return, At, Goto, LiveUsers, TypeOK
<1>9. InitLeavesNobody'
  BY DEF InitLeavesNobody, trap_return, At, Goto, TypeOK, ControlPoints
<1>10. QED BY <1>1, <1>2, <1>3, <1>4, <1>5, <1>6, <1>7, <1>8, <1>9

LEMMA UnchangedIInv == ASSUME IInv, UNCHANGED vars PROVE IInv'
  BY DEF IInv, vars, TypeOK, ControlPoints, SleepStates, RunQueueExact, TimersOfSleepers,
         NoLostChildExit, Awaited, Children, ParentCanReap, Ancestry, LiveUsers,
         InitLeavesNobody

-----------------------------------------------------------------------------
LEMMA StepIInv == IInv /\ [Next]_vars => IInv'
<1> SUFFICES ASSUME IInv, [Next]_vars PROVE IInv' OBVIOUS
<1>1. ASSUME KernelStep PROVE IInv'
  <2>1. CASE do_wait_resume
    <3>1. CASE current \in exiting
      <4>1. current \in UserProcs /\ ~insched /\ timer[current] = 0 /\ do_exit
        BY <2>1, <3>1, BoundsAssumption DEF do_wait_resume, At, IInv, TypeOK, TimersOfSleepers
      <4>2. QED BY <4>1, DoExitIInv
    <3>2. CASE current \notin exiting BY <2>1, <3>2, DoWaitResumeIInv
    <3>3. QED BY <3>1, <3>2
  <2>2. CASE trap_return
    <3>1. CASE current \in exiting
      <4>1. current \in UserProcs /\ ~insched /\ timer[current] = 0 /\ do_exit
        BY <2>2, <3>1, BoundsAssumption DEF trap_return, At, IInv, TypeOK, TimersOfSleepers
      <4>2. QED BY <4>1, DoExitIInv
    <3>2. CASE current \notin exiting BY <2>2, <3>2, TrapReturnIInv
    <3>3. QED BY <3>1, <3>2
  <2>3. QED BY <1>1, <2>1, <2>2, CpuIdleIInv, DoWaitFoundIInv, DoWaitBlockIInv, DoWaitNoneIInv,
               DoSleepResumeIInv DEF KernelStep
<1>2. ASSUME Syscall PROVE IInv'
  <2>1. CASE sys_exit
    <3>1. current \in UserProcs /\ ~insched /\ timer[current] = 0 /\ do_exit
      BY <2>1, BoundsAssumption DEF sys_exit, At, IInv, TypeOK, TimersOfSleepers, UserProcs
    <3>2. QED BY <3>1, DoExitIInv
  <2>2. QED BY <1>2, <2>1, DoForkIInv, SysWaitIInv, DoKillIInv, DoYieldIInv, SysOtherIInv,
               DoSleepIInv DEF Syscall
<1>3. CASE initproc_exit \/ UNCHANGED vars BY <1>3, UnchangedIInv DEF initproc_exit
<1>4. QED BY <1>1, <1>2, <1>3, TickIInv, ScheduleIInv DEF Next

\* The inductive invariant holds throughout.
THEOREM Invariance == Spec => []IInv
<1>1. Init => IInv BY InitIInv
<1>2. IInv /\ [Next]_vars => IInv' BY StepIInv
<1>3. QED BY <1>1, <1>2, PTL DEF Spec

\* wakeup_proc, schedule, do_fork and do_exit keep the run queue exact: every
\* runnable process that does not have the hart is on it once, nobody else is.
THEOREM RunQueueAlwaysExact == Spec => []RunQueueExact
<1>1. IInv => RunQueueExact BY DEF IInv
<1>2. QED BY <1>1, Invariance, PTL

\* No exit is missed: nobody sleeps in do_wait when a child it waits for is a
\* zombie or when it has none.
THEOREM NoExitIsMissed == Spec => []NoLostChildExit
<1>1. IInv => NoLostChildExit BY DEF IInv
<1>2. QED BY <1>1, Invariance, PTL

\* No timer outlives the do_sleep on whose stack it is, however the sleeper was
\* woken and whatever became of it.
THEOREM TimersEndWithSleep == Spec => []TimersOfSleepers
<1>1. IInv => TimersOfSleepers BY DEF IInv
<1>2. QED BY <1>1, Invariance, PTL

\* do_exit leaves no process without a living parent that can reap it.
THEOREM EveryProcessHasAReaper == Spec => []ParentCanReap
<1>1. IInv => ParentCanReap BY DEF IInv
<1>2. QED BY <1>1, Invariance, PTL

\* When init_main's loop ends every user process has been reaped, so that the
\* assertions behind it hold.
THEOREM InitIsTheLast == Spec => []InitLeavesNobody
<1>1. IInv => InitLeavesNobody BY DEF IInv
<1>2. QED BY <1>1, Invariance, PTL

=============================================================================
