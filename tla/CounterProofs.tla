---------------------------- MODULE CounterProofs ----------------------------
(***************************************************************************)
(* Theorems about the two numbers of a process that wrap around, its pid   *)
(* (get_pid) and its stride, and about the skew heap that keeps the        *)
(* processes in the order of their strides.                                *)
(***************************************************************************)
EXTENDS Pid, StrideHeap, FiniteSetTheorems, WellFoundedInduction, TLAPS

-----------------------------------------------------------------------------
(* get_pid gives out unique pids, whatever MAX_PID and MAX_PROCESS are.    *)

\* Uniqueness is not inductive: the path of get_pid without a scan trusts what
\* an earlier scan left in last_pid and next_safe.  Inside the loop the
\* elements already passed lie outside the interval [last_pid, next_safe), at
\* the end all of them do, and between calls none lies strictly inside.
ScanInv ==
  /\ pc = "scan" =>
       /\ le \in 1..(Len(proc_list) + 1)
       /\ last_pid < next_safe
       /\ \A i \in 1..(le - 1) : proc_list[i] < last_pid \/ proc_list[i] >= next_safe
  /\ pc = "found" =>
       \A i \in 1..Len(proc_list) : proc_list[i] < last_pid \/ proc_list[i] >= next_safe
  /\ pc = "found" => last_pid < next_safe

PidInv == PidTypeOK /\ UniquePids /\ ScanInv /\ SafeInterval

LEMMA InitPidInv == PidInit => PidInv
BY BoundsAssumption DEF PidInit, PidInv, PidTypeOK, UniquePids, ScanInv, SafeInterval, Pids

LEMMA EnterPidInv == ASSUME PidInv, enter PROVE PidInv'
<1> USE BoundsAssumption DEF PidInv, Pids
<1>0. Len(proc_list) \in Nat /\ DOMAIN proc_list = 1..Len(proc_list) BY DEF PidTypeOK
<1>1. PidTypeOK' BY DEF enter, PidTypeOK
<1>2. UniquePids' BY DEF enter, UniquePids
<1>3. SafeInterval' BY DEF enter, SafeInterval
<1>4. ScanInv'
  <2>1. CASE last_pid + 1 >= MAX_PID \/ last_pid + 1 >= next_safe
    BY <1>0, <2>1 DEF enter, ScanInv, PidTypeOK
  <2>2. CASE ~(last_pid + 1 >= MAX_PID \/ last_pid + 1 >= next_safe)
    <3>1. last_pid' = last_pid + 1 /\ next_safe' = next_safe /\ pc' = "found"
          /\ proc_list' = proc_list /\ last_pid + 1 < next_safe
      BY <2>2 DEF enter, PidTypeOK
    <3>2. \A i \in 1..Len(proc_list) : /\ proc_list[i] <= last_pid \/ proc_list[i] >= next_safe
                                       /\ proc_list[i] \in Int
      BY <1>0 DEF enter, SafeInterval, PidTypeOK
    <3>3. QED BY <3>1, <3>2 DEF ScanInv, PidTypeOK
  <2>3. QED BY <2>1, <2>2
<1>5. QED BY <1>1, <1>2, <1>3, <1>4

LEMMA CollidePidInv == ASSUME PidInv, collide PROVE PidInv'
<1> USE BoundsAssumption DEF PidInv, Pids
<1>0. /\ Len(proc_list) \in Nat /\ DOMAIN proc_list = 1..Len(proc_list)
      /\ \A i \in 1..Len(proc_list) : proc_list[i] \in Int
  BY DEF PidTypeOK
<1>1. PidTypeOK'
  <2>1. CASE last_pid + 1 >= next_safe BY <2>1 DEF collide, PidTypeOK
  <2>2. CASE ~(last_pid + 1 >= next_safe)
    <3>1. last_pid' = last_pid + 1 /\ next_safe' = next_safe /\ le' = le + 1
          /\ pc' = pc /\ proc_list' = proc_list
      BY <2>2 DEF collide, PidTypeOK
    <3>2. last_pid + 1 \in 1..(MAX_PID - 1) BY <2>2 DEF PidTypeOK
    <3>3. QED BY <3>1, <3>2 DEF PidTypeOK
  <2>3. QED BY <2>1, <2>2
<1>2. UniquePids' /\ SafeInterval' BY DEF collide, UniquePids, SafeInterval
<1>3. ScanInv'
  <2>1. CASE last_pid + 1 >= next_safe BY <1>0, <2>1 DEF collide, ScanInv, PidTypeOK
  <2>2. CASE ~(last_pid + 1 >= next_safe)
    <3>1. /\ last_pid' = last_pid + 1 /\ next_safe' = next_safe /\ le' = le + 1
          /\ pc' = "scan" /\ proc_list' = proc_list
          /\ le \in 1..Len(proc_list) /\ proc_list[le] = last_pid
          /\ last_pid + 1 < next_safe
      BY <1>0, <2>2 DEF collide, PidTypeOK
    <3>2. ASSUME NEW i \in 1..le
          PROVE  proc_list[i] < last_pid + 1 \/ proc_list[i] >= next_safe
      <4>1. CASE i = le BY <4>1, <3>1 DEF PidTypeOK
      <4>2. CASE i # le
        <5>1. i \in 1..(le - 1) /\ i \in 1..Len(proc_list) BY <4>2, <3>1, <1>0
        <5>2. proc_list[i] < last_pid \/ proc_list[i] >= next_safe
          BY <5>1 DEF collide, ScanInv
        <5>3. QED BY <5>1, <5>2, <1>0 DEF PidTypeOK
      <4>3. QED BY <4>1, <4>2
    <3>3. le + 1 \in 1..(Len(proc_list) + 1) /\ (le + 1) - 1 = le BY <3>1, <1>0
    <3>4. QED BY <3>1, <3>2, <3>3 DEF ScanInv
  <2>3. QED BY <2>1, <2>2
<1>4. QED BY <1>1, <1>2, <1>3

LEMMA PassPidInv == ASSUME PidInv, pass PROVE PidInv'
<1> USE BoundsAssumption DEF PidInv, Pids
<1>0. /\ Len(proc_list) \in Nat /\ DOMAIN proc_list = 1..Len(proc_list)
      /\ \A i \in 1..Len(proc_list) : proc_list[i] \in Pids
  BY DEF PidTypeOK
<1>1. PidTypeOK' BY <1>0 DEF pass, PidTypeOK
<1>2. UniquePids' /\ SafeInterval' BY DEF pass, UniquePids, SafeInterval
<1>3. ScanInv' BY <1>0 DEF pass, ScanInv, PidTypeOK
<1>4. QED BY <1>1, <1>2, <1>3

LEMMA ScanEndPidInv == ASSUME PidInv, scan_end PROVE PidInv'
<1> USE DEF PidInv
<1>0. Len(proc_list) \in Nat BY DEF PidTypeOK
<1>1. PidTypeOK' BY DEF scan_end, PidTypeOK
<1>2. UniquePids' /\ SafeInterval' BY DEF scan_end, UniquePids, SafeInterval
<1>3. ScanInv' BY <1>0 DEF scan_end, ScanInv, PidTypeOK
<1>4. QED BY <1>1, <1>2, <1>3

LEMMA SetLinksPidInv == ASSUME PidInv, set_links PROVE PidInv'
<1> USE DEF PidInv
<1>0. /\ proc_list \in Seq(Pids)
      /\ last_pid \in Pids
      /\ proc_list' = <<last_pid>> \o proc_list
      /\ \A x \in Pids : x \in Int
  <2>1. \A x \in Pids : x \in Int BY BoundsAssumption DEF Pids
  <2>2. QED BY <2>1 DEF set_links, PidTypeOK
<1>1. /\ Len(proc_list) \in Nat /\ DOMAIN proc_list = 1..Len(proc_list)
      /\ \A i \in 1..Len(proc_list) : proc_list[i] \in Int
      /\ last_pid \in Pids
      /\ proc_list' = <<last_pid>> \o proc_list
      /\ proc_list' \in Seq(Pids)
  <2>1. <<last_pid>> \in Seq(Pids) BY <1>0
  <2>2. proc_list' \in Seq(Pids) BY <2>1, <1>0
  <2>3. \A i \in 1..Len(proc_list) : proc_list[i] \in Pids BY <1>0
  <2>4. QED BY <1>0, <2>2, <2>3
<1>2. /\ Len(proc_list') = Len(proc_list) + 1
      /\ DOMAIN proc_list' = 1..(Len(proc_list) + 1)
      /\ proc_list'[1] = last_pid
      /\ \A i \in 2..(Len(proc_list) + 1) : proc_list'[i] = proc_list[i - 1]
  BY <1>1 DEF PidTypeOK
<1>3. \A i \in 1..Len(proc_list) : proc_list[i] < last_pid \/ proc_list[i] >= next_safe
  BY DEF set_links, ScanInv
<1>4. last_pid < next_safe BY DEF set_links, ScanInv
<1>5. PidTypeOK' BY <1>1 DEF set_links, PidTypeOK
<1>6. \A i \in 1..Len(proc_list) : proc_list[i] # last_pid
  BY <1>1, <1>3, <1>4 DEF PidTypeOK
<1>7. UniquePids'
  <2> SUFFICES ASSUME NEW i \in 1..(Len(proc_list) + 1), NEW j \in 1..(Len(proc_list) + 1),
                      proc_list'[i] = proc_list'[j]
               PROVE  i = j
    BY <1>2 DEF UniquePids
  <2>1. CASE i = 1 /\ j = 1 BY <2>1
  <2>2. CASE i = 1 /\ j # 1 BY <2>2, <1>1, <1>2, <1>6
  <2>3. CASE i # 1 /\ j = 1 BY <2>3, <1>1, <1>2, <1>6
  <2>4. CASE i # 1 /\ j # 1
    <3>1. proc_list[i - 1] = proc_list[j - 1] BY <2>4, <1>1, <1>2
    <3>2. i - 1 \in DOMAIN proc_list /\ j - 1 \in DOMAIN proc_list BY <2>4, <1>1
    <3>3. i - 1 = j - 1 BY <3>1, <3>2 DEF UniquePids
    <3>4. QED BY <3>3, <1>1
  <2>5. QED BY <2>1, <2>2, <2>3, <2>4
<1>8. SafeInterval'
  <2>1. ASSUME NEW i \in 1..(Len(proc_list) + 1)
        PROVE  proc_list'[i] <= last_pid \/ proc_list'[i] >= next_safe
    <3>1. CASE i = 1 BY <3>1, <1>2 DEF PidTypeOK
    <3>2. CASE i # 1
      <4>1. i - 1 \in 1..Len(proc_list) /\ proc_list'[i] = proc_list[i - 1]
        BY <3>2, <1>1, <1>2
      <4>2. QED BY <4>1, <1>1, <1>3 DEF PidTypeOK
    <3>3. QED BY <3>1, <3>2
  <2>2. QED BY <2>1, <1>2 DEF SafeInterval, set_links
<1>9. ScanInv' BY DEF ScanInv, set_links
<1>10. QED BY <1>5, <1>7, <1>8, <1>9

LEMMA RemoveLinksPidInv ==
  ASSUME PidInv, NEW k \in 1..Len(proc_list), remove_links(k) PROVE PidInv'
<1> USE DEF PidInv
<1>1. /\ Len(proc_list) \in Nat \ {0} /\ DOMAIN proc_list = 1..Len(proc_list)
      /\ k \in 1..Len(proc_list)
      /\ \A i \in 1..Len(proc_list) : proc_list[i] \in Pids
  BY DEF PidTypeOK
<1>2. proc_list' = [j \in 1..(Len(proc_list) - 1) |->
                      IF j < k THEN proc_list[j] ELSE proc_list[j + 1]]
  BY DEF remove_links
<1>3. proc_list' \in Seq(Pids) /\ DOMAIN proc_list' = 1..(Len(proc_list) - 1)
  BY <1>1, <1>2
<1>4. PidTypeOK' BY <1>3 DEF remove_links, PidTypeOK
<1>5. UniquePids'
  <2> SUFFICES ASSUME NEW i \in 1..(Len(proc_list) - 1), NEW j \in 1..(Len(proc_list) - 1),
                      proc_list'[i] = proc_list'[j]
               PROVE  i = j
    BY <1>3 DEF UniquePids
  <2> DEFINE old(n) == IF n < k THEN n ELSE n + 1
  <2>1. /\ old(i) \in DOMAIN proc_list /\ old(j) \in DOMAIN proc_list
        /\ proc_list'[i] = proc_list[old(i)] /\ proc_list'[j] = proc_list[old(j)]
    BY <1>1, <1>2
  <2>2. old(i) = old(j) BY <2>1 DEF UniquePids
  <2>3. QED BY <2>2, <1>1
<1>6. SafeInterval'
  <2>1. \A i \in DOMAIN proc_list' : \E j \in DOMAIN proc_list : proc_list'[i] = proc_list[j]
    <3> SUFFICES ASSUME NEW i \in 1..(Len(proc_list) - 1)
                 PROVE  \E j \in DOMAIN proc_list : proc_list'[i] = proc_list[j]
      BY <1>3
    <3>1. CASE i < k BY <3>1, <1>1, <1>2
    <3>2. CASE ~(i < k)
      <4>1. i + 1 \in DOMAIN proc_list /\ proc_list'[i] = proc_list[i + 1]
        BY <3>2, <1>1, <1>2
      <4>2. QED BY <4>1
    <3>3. QED BY <3>1, <3>2
  <2>2. QED BY <2>1 DEF SafeInterval, remove_links
<1>7. ScanInv' BY DEF ScanInv, remove_links
<1>8. QED BY <1>4, <1>5, <1>6, <1>7

LEMMA StepPidInv == PidInv /\ [PidNext]_pidvars => PidInv'
<1> SUFFICES ASSUME PidInv, [PidNext]_pidvars PROVE PidInv' OBVIOUS
<1>1. CASE enter BY <1>1, EnterPidInv
<1>2. CASE collide BY <1>2, CollidePidInv
<1>3. CASE pass BY <1>3, PassPidInv
<1>4. CASE scan_end BY <1>4, ScanEndPidInv
<1>5. CASE set_links BY <1>5, SetLinksPidInv
<1>6. ASSUME NEW i \in 1..Len(proc_list), remove_links(i) PROVE PidInv'
  BY <1>6, RemoveLinksPidInv
<1>7. CASE UNCHANGED pidvars
  BY <1>7 DEF pidvars, PidInv, PidTypeOK, UniquePids, ScanInv, SafeInterval
<1>8. QED BY <1>1, <1>2, <1>3, <1>4, <1>5, <1>6, <1>7 DEF PidNext, get_pid

\* No two living processes ever share a pid, and every pid is in the range
\* find_proc accepts, for every MAX_PID > MAX_PROCESS > 1.
THEOREM PidsUnique == PidSpec => [](PidTypeOK /\ UniquePids)
<1>1. PidInv => PidTypeOK /\ UniquePids BY DEF PidInv
<1>2. QED BY <1>1, InitPidInv, StepPidInv, PTL DEF PidSpec

\* What get_pid's two static variables mean between two calls.
THEOREM StaticsMeaning == PidSpec => []SafeInterval
<1>1. PidInv => SafeInterval BY DEF PidInv
<1>2. QED BY <1>1, InitPidInv, StepPidInv, PTL DEF PidSpec

-----------------------------------------------------------------------------
(* Processes that set their priority first share the hart in proportion to *)
(* their priorities, for ever and although the strides wrap around.        *)

\* A pass is at most BIG_STRIDE.
LEMMA PassRange == ASSUME NEW n \in 1..BIG_STRIDE PROVE BIG_STRIDE \div n \in 0..BIG_STRIDE
BY StrideAssumption

LEMMA OneMoreTurn == ASSUME NEW t \in Nat, NEW d \in Nat PROVE (t + 1) * d = t * d + d
OBVIOUS

\* The unsigned addition keeps the signed difference exact as long as the true
\* difference is less than HALF.
LEMMA SignedAfterPlus ==
  ASSUME NEW s \in 0..(2 * HALF - 1), NEW r \in 0..(2 * HALF - 1),
         NEW d \in (-1)..BIG_STRIDE,
         Signed(s - r) + d < HALF, Signed(s - r) + d > -HALF
  PROVE  /\ Plus(s, d) \in 0..(2 * HALF - 1)
         /\ Signed(Plus(s, d) - r) = Signed(s - r) + d
         /\ Signed(r - Plus(s, d)) = -(Signed(s - r) + d)
BY StrideAssumption DEF Signed, Plus

(***************************************************************************)
(* The inductive invariant adds to the properties that all processes are   *)
(* runnable, that a process which has not run has total 0 and the bound    *)
(* without the odd 1, and what the auxiliary totals consist of.            *)
(***************************************************************************)
Fresh(p) == priority[p] = 0 /\ p # current

Accounting ==
  \A p \in Procs :
    /\ Fresh(p) => total[p] = 0
    /\ priority[p] = 0 /\ p = current => total[p] = -1
    /\ priority[p] # 0 => total[p] + 1 = turns[p] * (BIG_STRIDE \div priority[p])

FreshClose == \A p, q \in Procs : Fresh(q) => total[p] - total[q] <= BIG_STRIDE

StrideInv ==
  /\ TypeOK
  /\ Runnable = Procs
  /\ StridesClose
  /\ FreshClose
  /\ ComparisonTrue
  /\ Accounting

LEMMA InitStrideInv == Init => StrideInv
<1> SUFFICES ASSUME Init PROVE StrideInv OBVIOUS
<1>1. TypeOK BY StrideAssumption DEF Init, TypeOK
<1>2. Runnable = Procs BY DEF Init, Runnable
<1>3. StridesClose /\ FreshClose BY StrideAssumption DEF Init, StridesClose, FreshClose
<1>4. ComparisonTrue
  BY StrideAssumption DEF Init, ComparisonTrue, proc_stride_comp_f, Signed
<1>5. Accounting BY StrideAssumption DEF Init, Accounting, Fresh
<1>6. QED BY <1>1, <1>2, <1>3, <1>4, <1>5 DEF StrideInv

LEMMA SetPriorityStrideInv ==
  ASSUME StrideInv, NEW n \in 0..MaxPriority, lab6_set_priority(n) PROVE StrideInv'
<1> DEFINE m == IF n = 0 THEN 1 ELSE n
<1>1. /\ current \in Procs /\ priority[current] = 0
      /\ priority' = [priority EXCEPT ![current] = m]
      /\ turns' = [turns EXCEPT ![current] = 0]
      /\ stride' = stride /\ pool' = pool /\ current' = current /\ total' = total
  BY DEF lab6_set_priority, StrideInv, TypeOK
<1>2. m \in 1..BIG_STRIDE
  BY StrideAssumption
<1>3. TypeOK' BY <1>1, <1>2, StrideAssumption DEF StrideInv, TypeOK
<1>4. Runnable' = Procs BY <1>1 DEF StrideInv, Runnable
<1>5. StridesClose' BY <1>1 DEF StrideInv, StridesClose
<1>6. \A p \in Procs : Fresh(p)' => Fresh(p) BY <1>1 DEF Fresh, StrideInv, TypeOK
<1>7. FreshClose' BY <1>1, <1>6 DEF StrideInv, FreshClose
<1>8. ComparisonTrue' BY <1>1 DEF StrideInv, ComparisonTrue, proc_stride_comp_f
<1>9. Accounting'
  <2> SUFFICES ASSUME NEW p \in Procs
               PROVE  /\ Fresh(p)' => total[p] = 0
                      /\ priority'[p] = 0 /\ p = current => total[p] = -1
                      /\ priority'[p] # 0 =>
                           total[p] + 1 = turns'[p] * (BIG_STRIDE \div priority'[p])
    BY <1>1 DEF Accounting
  <2>1. CASE p = current
    <3>1. total[p] = -1 BY <2>1, <1>1 DEF StrideInv, Accounting
    <3>2. priority'[p] = m /\ turns'[p] = 0 BY <2>1, <1>1 DEF StrideInv, TypeOK
    <3>3. BIG_STRIDE \div m \in 0..BIG_STRIDE BY <1>2, PassRange
    <3>4. total[p] + 1 = turns'[p] * (BIG_STRIDE \div priority'[p])
      BY <3>1, <3>2, <3>3, StrideAssumption
    <3>5. ~Fresh(p)' /\ priority'[p] # 0 BY <2>1, <3>2, <1>1, <1>2 DEF Fresh
    <3>6. QED BY <3>4, <3>5
  <2>2. CASE p # current
    <3>1. priority'[p] = priority[p] /\ turns'[p] = turns[p] BY <2>2, <1>1 DEF StrideInv, TypeOK
    <3>2. QED BY <2>2, <3>1, <1>6 DEF StrideInv, Accounting
  <2>3. QED BY <2>1, <2>2
<1>10. QED BY <1>3, <1>4, <1>5, <1>7, <1>8, <1>9 DEF StrideInv

LEMMA ScheduleStrideInv ==
  ASSUME SetFirst, StrideInv, NEW p \in Procs, schedule(p) PROVE StrideInv'
<1> DEFINE d == Pass(priority[p])
<1>1. /\ stride' = [stride EXCEPT ![p] = Plus(@, d)]
      /\ total' = [total EXCEPT ![p] = @ + d]
      /\ turns' = [turns EXCEPT ![p] = @ + 1]
      /\ pool' = Procs \ {p} /\ current' = p /\ priority' = priority
  BY DEF schedule, run_next, StrideInv
<1>2. d \in (-1)..BIG_STRIDE
  <2>1. CASE priority[p] = 0 BY <2>1, StrideAssumption DEF Pass
  <2>2. CASE priority[p] # 0
    <3>1. priority[p] \in 1..BIG_STRIDE BY <2>2, StrideAssumption DEF StrideInv, TypeOK
    <3>2. QED BY <2>2, <3>1, PassRange, StrideAssumption DEF Pass
  <2>3. QED BY <2>1, <2>2
<1>3. \A q \in Procs : total[q] \in Int /\ stride[q] \in 0..(2 * HALF - 1)
  BY DEF StrideInv, TypeOK
\* The process picked really is behind.
<1>4. ASSUME NEW q \in Procs PROVE total[p] <= total[q]
  <2>1. proc_stride_comp_f(p, q) <= 0 BY DEF schedule, run_next, StrideInv
  <2>2. proc_stride_comp_f(p, q) = total[p] - total[q] BY DEF StrideInv, ComparisonTrue
  <2>3. total[p] \in Int /\ total[q] \in Int BY <1>3
  <2>4. total[p] - total[q] <= 0 BY <2>1, <2>2
  <2>5. QED BY <2>3, <2>4
\* A process without a priority runs its first turn.
<1>5. priority[p] = 0 => Fresh(p)
  BY StrideAssumption DEF schedule, run_next, Fresh
<1>6. \A q \in Procs : q # p => total[q] - total[p] - d <= BIG_STRIDE + 1
  <2> SUFFICES ASSUME NEW q \in Procs PROVE total[q] - total[p] - d <= BIG_STRIDE + 1
    OBVIOUS
  <2>1. CASE priority[p] = 0
    <3>1. total[q] - total[p] <= BIG_STRIDE BY <2>1, <1>5 DEF StrideInv, FreshClose
    <3>2. d = -1 BY <2>1 DEF Pass
    <3>3. QED BY <3>1, <3>2, <1>3, StrideAssumption
  <2>2. CASE priority[p] # 0
    <3>1. total[q] - total[p] <= BIG_STRIDE + 1 BY DEF StrideInv, StridesClose
    <3>2. priority[p] \in 1..BIG_STRIDE BY <2>2, StrideAssumption DEF StrideInv, TypeOK
    <3>3. d \in 0..BIG_STRIDE BY <2>2, <3>2, PassRange DEF Pass
    <3>4. QED BY <3>1, <3>3, <1>3, StrideAssumption
  <2>3. QED BY <2>1, <2>2
<1> HIDE DEF d
<1>7. ASSUME NEW q \in Procs PROVE total[p] + d - total[q] <= BIG_STRIDE
  <2>1. total[p] <= total[q] /\ total[p] \in Int /\ total[q] \in Int BY <1>3, <1>4
  <2>2. QED BY <2>1, <1>2, StrideAssumption
<1>8. /\ total'[p] = total[p] + d
      /\ \A q \in Procs : q # p => total'[q] = total[q] /\ stride'[q] = stride[q]
      /\ stride'[p] = Plus(stride[p], d)
  BY <1>1 DEF StrideInv, TypeOK
<1>9. StridesClose'
  <2> SUFFICES ASSUME NEW a \in Procs, NEW b \in Procs
               PROVE  total'[a] - total'[b] <= BIG_STRIDE + 1
    BY DEF StridesClose
  <2>1. CASE a = b
    <3>1. total'[a] \in Int BY <1>2, <1>3, <1>8
    <3>2. QED BY <2>1, <3>1, StrideAssumption
  <2>2. CASE a # b /\ a = p BY <2>2, <1>2, <1>3, <1>7, <1>8, StrideAssumption
  <2>3. CASE a # b /\ b = p BY <2>3, <1>2, <1>3, <1>6, <1>8, StrideAssumption
  <2>4. CASE a # p /\ b # p BY <2>4, <1>8 DEF StrideInv, StridesClose
  <2>5. QED BY <2>1, <2>2, <2>3, <2>4
<1>10. \A q \in Procs : Fresh(q)' => Fresh(q) /\ q # p
  BY <1>1, StrideAssumption DEF Fresh, schedule, run_next
<1>11. FreshClose'
  <2> SUFFICES ASSUME NEW a \in Procs, NEW b \in Procs, Fresh(b), b # p
               PROVE  total'[a] - total'[b] <= BIG_STRIDE
    BY <1>10 DEF FreshClose
  <2>1. CASE a = p
    <3>1. total'[a] = total[p] + d /\ total'[b] = total[b] BY <2>1, <1>8
    <3>2. total[p] + d - total[b] <= BIG_STRIDE BY <1>7
    <3>3. QED BY <3>1, <3>2, <1>2, <1>3
  <2>2. CASE a # p BY <2>2, <1>8 DEF StrideInv, FreshClose
  <2>3. QED BY <2>1, <2>2
\* Each pair's difference stays below HALF, so wrapping does no harm.
<1>12. \A q \in Procs : q # p =>
         /\ Plus(stride[p], d) \in 0..(2 * HALF - 1)
         /\ Signed(Plus(stride[p], d) - stride[q]) = total[p] + d - total[q]
         /\ Signed(stride[q] - Plus(stride[p], d)) = total[q] - (total[p] + d)
  <2> SUFFICES ASSUME NEW q \in Procs, q # p
               PROVE  /\ Plus(stride[p], d) \in 0..(2 * HALF - 1)
                      /\ Signed(Plus(stride[p], d) - stride[q]) = total[p] + d - total[q]
                      /\ Signed(stride[q] - Plus(stride[p], d)) = total[q] - (total[p] + d)
    OBVIOUS
  <2>1. Signed(stride[p] - stride[q]) = total[p] - total[q]
    BY DEF StrideInv, ComparisonTrue, proc_stride_comp_f
  <2>2. total[p] - total[q] + d < HALF /\ total[p] - total[q] + d > -HALF
    BY <1>2, <1>3, <1>6, <1>7, StrideAssumption
  <2>3. /\ Plus(stride[p], d) \in 0..(2 * HALF - 1)
        /\ Signed(Plus(stride[p], d) - stride[q]) = total[p] - total[q] + d
        /\ Signed(stride[q] - Plus(stride[p], d)) = -(total[p] - total[q] + d)
    BY <2>1, <2>2, <1>2, <1>3, SignedAfterPlus
  <2>4. QED BY <2>3, <1>2, <1>3, StrideAssumption
<1>13. ComparisonTrue'
  <2> SUFFICES ASSUME NEW a \in Procs, NEW b \in Procs
               PROVE  Signed(stride'[a] - stride'[b]) = total'[a] - total'[b]
    BY DEF ComparisonTrue, proc_stride_comp_f
  <2>1. CASE a = b
    <3>1. total'[a] \in Int BY <1>2, <1>3, <1>8
    <3>2. stride'[a] \in Int BY <1>2, <1>3, <1>8, StrideAssumption DEF Plus
    <3>3. QED BY <2>1, <3>1, <3>2, StrideAssumption DEF Signed
  <2>2. CASE a # b /\ a = p
    <3>1. /\ total'[a] = total[p] + d /\ total'[b] = total[b]
          /\ stride'[a] = Plus(stride[p], d) /\ stride'[b] = stride[b]
      BY <2>2, <1>8
    <3>2. Signed(Plus(stride[p], d) - stride[b]) = total[p] + d - total[b]
      BY <2>2, <1>12
    <3>3. QED BY <3>1, <3>2, <1>2, <1>3
  <2>3. CASE a # b /\ b = p
    <3>1. /\ total'[b] = total[p] + d /\ total'[a] = total[a]
          /\ stride'[b] = Plus(stride[p], d) /\ stride'[a] = stride[a]
      BY <2>3, <1>8
    <3>2. QED BY <2>3, <3>1, <1>12
  <2>4. CASE a # p /\ b # p BY <2>4, <1>8 DEF StrideInv, ComparisonTrue, proc_stride_comp_f
  <2>5. QED BY <2>1, <2>2, <2>3, <2>4
<1>14. TypeOK'
  <2>1. Plus(stride[p], d) \in 0..(2 * HALF - 1)
    BY <1>2, <1>3, StrideAssumption DEF Plus
  <2>2. stride' \in [Procs -> 0..(2 * HALF - 1)] BY <2>1, <1>1 DEF StrideInv, TypeOK
  <2>3. total' \in [Procs -> Int] BY <1>1, <1>2 DEF StrideInv, TypeOK
  <2>4. turns' \in [Procs -> Nat] BY <1>1 DEF StrideInv, TypeOK
  <2>5. QED BY <2>2, <2>3, <2>4, <1>1 DEF StrideInv, TypeOK
<1>15. Runnable' = Procs BY <1>1, StrideAssumption DEF Runnable
<1>16. Accounting'
  <2> SUFFICES ASSUME NEW q \in Procs
               PROVE  /\ Fresh(q)' => total'[q] = 0
                      /\ priority[q] = 0 /\ q = p => total'[q] = -1
                      /\ priority[q] # 0 =>
                           total'[q] + 1 = turns'[q] * (BIG_STRIDE \div priority[q])
    BY <1>1 DEF Accounting
  <2>1. CASE q = p
    <3>1. ~Fresh(q)' BY <2>1, <1>1 DEF Fresh
    <3>2. ASSUME priority[p] = 0 PROVE total'[p] = -1
      <4>1. total[p] = 0 BY <3>2, <1>5 DEF StrideInv, Accounting
      <4>2. d = -1 BY <3>2 DEF d, Pass
      <4>3. QED BY <4>1, <4>2, <1>8
    <3>3. ASSUME priority[p] # 0
          PROVE  total'[p] + 1 = turns'[p] * (BIG_STRIDE \div priority[p])
      <4>1. d = BIG_STRIDE \div priority[p] BY <3>3 DEF d, Pass
      <4>2. total[p] + 1 = turns[p] * d BY <3>3, <4>1 DEF StrideInv, Accounting
      <4>3. turns'[p] = turns[p] + 1 /\ turns[p] \in Nat BY <1>1 DEF StrideInv, TypeOK
      <4>4. d \in Nat
        <5>1. priority[p] \in 1..BIG_STRIDE BY <3>3, StrideAssumption DEF StrideInv, TypeOK
        <5>2. QED BY <4>1, <5>1, PassRange, StrideAssumption
      <4>5. (turns[p] + 1) * d = turns[p] * d + d BY <4>3, <4>4, OneMoreTurn
      <4>6. total'[p] + 1 = turns[p] * d + d BY <4>2, <4>4, <1>3, <1>8
      <4>7. QED BY <4>1, <4>3, <4>5, <4>6
    <3>4. QED BY <2>1, <3>1, <3>2, <3>3
  <2>2. CASE q # p
    <3>1. total'[q] = total[q] /\ turns'[q] = turns[q] BY <2>2, <1>1, <1>8 DEF StrideInv, TypeOK
    <3>2. QED BY <2>2, <3>1, <1>10 DEF StrideInv, Accounting
  <2>3. QED BY <2>1, <2>2
<1>17. QED BY <1>9, <1>11, <1>13, <1>14, <1>15, <1>16 DEF StrideInv

LEMMA StepStrideInv == SetFirst /\ StrideInv /\ [Next]_vars => StrideInv'
<1> SUFFICES ASSUME SetFirst, StrideInv, [Next]_vars PROVE StrideInv' OBVIOUS
<1>1. ASSUME NEW p \in Procs, schedule(p) PROVE StrideInv' BY <1>1, ScheduleStrideInv
<1>2. ASSUME NEW n \in 0..MaxPriority, lab6_set_priority(n) PROVE StrideInv'
  BY <1>2, SetPriorityStrideInv
<1>3. CASE UNCHANGED vars
  BY <1>3 DEF vars, StrideInv, TypeOK, Runnable, StridesClose, FreshClose, ComparisonTrue,
              Accounting, Fresh, proc_stride_comp_f
<1>4. QED BY <1>1, <1>2, <1>3 DEF Next, time_over

LEMMA StrideInvShare == StrideInv => ProportionalShare
<1> SUFFICES ASSUME StrideInv, NEW p \in Procs, NEW q \in Procs, priority[p] > 0, priority[q] > 0
             PROVE  turns[p] * (BIG_STRIDE \div priority[p])
                      <= turns[q] * (BIG_STRIDE \div priority[q]) + BIG_STRIDE + 1
  BY DEF ProportionalShare
<1>1. /\ total[p] + 1 = turns[p] * (BIG_STRIDE \div priority[p])
      /\ total[q] + 1 = turns[q] * (BIG_STRIDE \div priority[q])
  BY DEF StrideInv, Accounting, TypeOK
<1>2. total[p] - total[q] <= BIG_STRIDE + 1 BY DEF StrideInv, StridesClose
<1>3. total[p] + 1 <= (total[q] + 1) + BIG_STRIDE + 1
  BY <1>2, StrideAssumption DEF StrideInv, TypeOK
<1>4. QED BY <1>1, <1>3

\* Nobody starves: no process gets ahead of another by more than one pass of
\* the lowest priority, when processes set their priority first.
THEOREM NobodyAhead == ASSUME SetFirst PROVE Spec => []StridesClose
<1>1. StrideInv => StridesClose BY DEF StrideInv
<1>2. StrideInv /\ [Next]_vars => StrideInv' BY StepStrideInv
<1>3. QED BY <1>1, <1>2, InitStrideInv, PTL DEF Spec

\* The signed 32-bit comparison of strides is right for ever, for any width that
\* leaves BIG_STRIDE + 1 below half of the range.
THEOREM ComparisonAlwaysTrue == ASSUME SetFirst PROVE Spec => []ComparisonTrue
<1>1. StrideInv => ComparisonTrue BY DEF StrideInv
<1>2. StrideInv /\ [Next]_vars => StrideInv' BY StepStrideInv
<1>3. QED BY <1>1, <1>2, InitStrideInv, PTL DEF Spec

\* "Time slices in proportion to the priority", within one pass.
THEOREM SharesProportional == ASSUME SetFirst PROVE Spec => []ProportionalShare
<1>1. StrideInv /\ [Next]_vars => StrideInv' BY StepStrideInv
<1>2. QED BY <1>1, StrideInvShare, InitStrideInv, PTL DEF Spec

-----------------------------------------------------------------------------
(* The run pool of StrideHeap is a heap-ordered tree, for any finite set of *)
(* processes, and implements the set of Stride.                            *)

PN == Procs \cup {NULL}
Pairs == PN \X PN
Heaps == [parent : [Procs -> PN], left : [Procs -> PN], right : [Procs -> PN], root : PN]
Subs == [PN -> SUBSET Procs]

\* The comparison of strides tells which total is less.
Compares ==
  /\ total \in [Procs -> Int]
  /\ \A p, q \in Procs : Above(p, q) <=> total[p] < total[q]

\* The entries of W and what is below each of them (t): trees in which nobody
\* comes before the entry above it.
Forest(h, t, W) ==
  /\ W \subseteq Procs /\ t[NULL] = {}
  /\ \A p \in W :
       /\ h.left[p] \in W \cup {NULL} /\ h.right[p] \in W \cup {NULL}
       /\ t[p] = {p} \cup t[h.left[p]] \cup t[h.right[p]] /\ t[p] \subseteq W
       /\ p \notin t[h.left[p]] /\ p \notin t[h.right[p]] /\ t[h.left[p]] \cap t[h.right[p]] = {}
       /\ h.left[p] # NULL => h.parent[h.left[p]] = p
       /\ h.right[p] # NULL => h.parent[h.right[p]] = p
       /\ \A q \in t[p] : total[p] <= total[q] /\ t[q] \subseteq t[p]

\* h has become g: the entries of W are one tree, the others are as they were.
Merged(h, g, t, W) ==
  /\ g \in Heaps /\ t \in Subs /\ Forest(g, t, W)
  /\ g.root \in W \cup {NULL} /\ t[g.root] = W
  /\ \A p \in Procs \ W : g.left[p] = h.left[p] /\ g.right[p] = h.right[p] /\ g.parent[p] = h.parent[p]
  /\ g.root # NULL => g.parent[g.root] = h.parent[g.root]

\* x stays on top of what was merged below it.
LEMMA TopIs ==
  ASSUME Compares, NEW h \in Heaps, NEW t \in Subs, NEW W, Forest(h, t, W),
         NEW x \in W, NEW y \in W, t[x] \cap t[y] = {}, total[x] <= total[y],
         NEW l, NEW u, Merged(h, l, u, t[h.right[x]] \cup t[y])
  PROVE  /\ [Top(l, x, l.root) EXCEPT !.root = x].root = x
         /\ \E v : Merged(h, [Top(l, x, l.root) EXCEPT !.root = x], v, t[x] \cup t[y])
<1> DEFINE V == t[h.right[x]] \cup t[y]
           U == t[x] \cup t[y]
           k == h.left[x]
           g == [Top(l, x, l.root) EXCEPT !.root = x]
           v == [p \in PN |-> IF p = x THEN U ELSE IF p \in V THEN u[p] ELSE t[p]]
<1>0. NULL \notin Procs BY HeapAssumption
<1>1. /\ W \subseteq Procs /\ t[NULL] = {} /\ x \in Procs /\ y \in Procs
      /\ k \in W \cup {NULL} /\ h.right[x] \in W \cup {NULL}
      /\ t[x] = {x} \cup t[k] \cup t[h.right[x]] /\ t[x] \subseteq W
      /\ x \notin t[k] /\ x \notin t[h.right[x]] /\ t[k] \cap t[h.right[x]] = {}
      /\ k # NULL => h.parent[k] = x
      /\ t[y] \subseteq W /\ y \in t[y]
  BY DEF Forest
<1>2. x \notin V /\ V \subseteq W /\ V \subseteq Procs /\ y \in V /\ U = {x} \cup V \cup t[k]
      /\ t[k] \cap V = {} /\ U \subseteq W
  BY <1>1
<1>3. /\ l \in Heaps /\ u \in Subs /\ Forest(l, u, V)
      /\ l.root \in V \cup {NULL} /\ u[l.root] = V
      /\ \A p \in Procs \ V : l.left[p] = h.left[p] /\ l.right[p] = h.right[p] /\ l.parent[p] = h.parent[p]
  BY DEF Merged
<1>4. u[NULL] = {} BY <1>3 DEF Forest
<1>5. l.root \in V /\ l.root # NULL /\ l.root \in Procs /\ l.root # x
  BY <1>0, <1>2, <1>3, <1>4
<1> HIDE DEF V, U
<1>6. /\ g \in Heaps /\ g.root = x
      /\ \A p \in Procs : /\ g.left[p] = IF p = x THEN l.root ELSE l.left[p]
                          /\ g.right[p] = IF p = x THEN l.left[x] ELSE l.right[p]
                          /\ g.parent[p] = IF p = l.root THEN x ELSE l.parent[p]
  BY <1>1, <1>3, <1>5 DEF Top, SetParent, Heaps, PN
<1>7. l.left[x] = k BY <1>1, <1>2, <1>3
<1> HIDE DEF g, k
<1>8. v \in Subs BY <1>1, <1>2, <1>3 DEF Subs, PN
<1>9. /\ v[x] = U /\ v[NULL] = {} /\ \A p \in V : v[p] = u[p]
      /\ \A p \in PN : p \notin V /\ p # x => v[p] = t[p]
  BY <1>0, <1>1, <1>2, <1>3 DEF PN
<1> HIDE DEF v
<1>10. k \in PN /\ k \notin V /\ k # x /\ v[k] = t[k] /\ (k # NULL => k \in t[k])
  <2>1. CASE k = NULL BY <2>1, <1>0, <1>1, <1>2, <1>9 DEF PN
  <2>2. CASE k # NULL
    <3>1. k \in W /\ k \in t[k] BY <2>2, <1>1 DEF Forest
    <3>2. QED BY <3>1, <1>1, <1>2, <1>9 DEF PN
  <2>3. QED BY <2>1, <2>2
<1>11. ASSUME NEW p \in t[k]
       PROVE  p \in W /\ p \in Procs /\ p # x /\ p \notin V /\ t[p] \subseteq t[k] /\ v[p] = t[p]
  <2>1. k \in W BY <1>1
  <2>2. t[k] \subseteq W /\ t[p] \subseteq t[k] BY <2>1 DEF Forest
  <2>3. QED BY <2>2, <1>1, <1>2, <1>9 DEF PN
<1>18. \A p \in V : u[p] \subseteq V BY <1>3 DEF Forest
<1>19. \A q \in U : v[q] \subseteq U BY <1>2, <1>9, <1>11, <1>18
<1>12. ASSUME NEW p \in U
       PROVE  /\ g.left[p] \in U \cup {NULL} /\ g.right[p] \in U \cup {NULL}
              /\ v[p] = {p} \cup v[g.left[p]] \cup v[g.right[p]] /\ v[p] \subseteq U
              /\ p \notin v[g.left[p]] /\ p \notin v[g.right[p]] /\ v[g.left[p]] \cap v[g.right[p]] = {}
              /\ g.left[p] # NULL => g.parent[g.left[p]] = p
              /\ g.right[p] # NULL => g.parent[g.right[p]] = p
              /\ \A q \in v[p] : total[p] <= total[q] /\ v[q] \subseteq v[p]
  <2>0. p \in Procs BY <1>1, <1>2
  <2>1. CASE p = x
    <3>1. g.left[p] = l.root /\ g.right[p] = k BY <2>1, <2>0, <1>6, <1>7
    <3>2. v[l.root] = V BY <1>3, <1>5, <1>9
    <3>3. g.parent[l.root] = x BY <1>5, <1>6
    <3>4. k # NULL => g.parent[k] = x
      <4>1. ASSUME k # NULL PROVE g.parent[k] = x
        <5>1. k \in Procs /\ k # l.root BY <4>1, <1>5, <1>10 DEF PN
        <5>2. g.parent[k] = h.parent[k] BY <5>1, <1>3, <1>6, <1>10
        <5>3. QED BY <4>1, <5>2, <1>1
      <4>2. QED BY <4>1
    <3>5. ASSUME NEW q \in U PROVE total[x] <= total[q]
      <4>1. CASE q \in t[x] BY <4>1 DEF Forest
      <4>2. CASE q \in t[y]
        <5>1. total[y] <= total[q] BY <4>2 DEF Forest
        <5>2. q \in Procs BY <1>1, <1>2
        <5>3. total[x] \in Int /\ total[y] \in Int /\ total[q] \in Int BY <5>2, <1>1 DEF Compares
        <5>4. QED BY <5>1, <5>3
      <4>3. QED BY <4>1, <4>2 DEF U
    <3>6. v[p] = U /\ k \in U \cup {NULL} /\ l.root \in U BY <2>1, <1>2, <1>5, <1>9, <1>10
    <3>7. /\ g.left[x] \in U \cup {NULL} /\ g.right[x] \in U \cup {NULL}
          /\ g.left[x] # NULL => g.parent[g.left[x]] = x
          /\ g.right[x] # NULL => g.parent[g.right[x]] = x
      BY <2>1, <3>1, <3>3, <3>4, <3>6
    <3>8. v[g.left[x]] = V /\ v[g.right[x]] = t[k] BY <2>1, <3>1, <3>2, <1>10
    <3>9. x \notin V /\ x \notin t[k] /\ V \cap t[k] = {} /\ U = {x} \cup V \cup t[k] BY <1>1, <1>2
    <3>10. /\ v[x] = {x} \cup v[g.left[x]] \cup v[g.right[x]] /\ v[x] \subseteq U
           /\ x \notin v[g.left[x]] /\ x \notin v[g.right[x]] /\ v[g.left[x]] \cap v[g.right[x]] = {}
      BY <3>8, <3>9, <1>9
    <3>11. \A q \in v[x] : total[x] <= total[q] /\ v[q] \subseteq v[x] BY <3>5, <1>9, <1>19
    <3>12. QED BY <2>1, <3>7, <3>10, <3>11
  <2>2. CASE p \in V
    <3>1. p # x BY <2>2, <1>2
    <3>2. g.left[p] = l.left[p] /\ g.right[p] = l.right[p] BY <2>0, <3>1, <1>6
    <3>3. /\ l.left[p] \in V \cup {NULL} /\ l.right[p] \in V \cup {NULL}
          /\ u[p] = {p} \cup u[l.left[p]] \cup u[l.right[p]] /\ u[p] \subseteq V
          /\ p \notin u[l.left[p]] /\ p \notin u[l.right[p]] /\ u[l.left[p]] \cap u[l.right[p]] = {}
          /\ l.left[p] # NULL => l.parent[l.left[p]] = p
          /\ l.right[p] # NULL => l.parent[l.right[p]] = p
          /\ \A q \in u[p] : total[p] <= total[q] /\ u[q] \subseteq u[p]
      BY <2>2, <1>3 DEF Forest
    <3>4. l.left[p] # l.root /\ l.right[p] # l.root BY <2>2, <3>3, <1>3
    <3>5. v[l.left[p]] = u[l.left[p]] /\ v[l.right[p]] = u[l.right[p]] /\ v[p] = u[p]
      BY <2>2, <3>3, <1>4, <1>9
    <3>6. \A q \in V : q # l.root => g.parent[q] = l.parent[q] BY <1>2, <1>6
    <3>7. \A q \in v[p] : total[p] <= total[q] /\ v[q] \subseteq v[p] BY <2>2, <3>3, <3>5, <1>9
    <3>8. V \subseteq U BY <1>2
    <3>9. QED BY <2>2, <3>2, <3>3, <3>4, <3>5, <3>6, <3>7, <3>8
  <2>3. CASE p \in t[k]
    <3>1. p # x /\ p \notin V /\ v[p] = t[p] /\ p \in W /\ t[p] \subseteq t[k] BY <2>3, <1>11
    <3>2. g.left[p] = h.left[p] /\ g.right[p] = h.right[p] BY <2>0, <3>1, <1>3, <1>6
    <3>3. /\ h.left[p] \in W \cup {NULL} /\ h.right[p] \in W \cup {NULL}
          /\ t[p] = {p} \cup t[h.left[p]] \cup t[h.right[p]]
          /\ p \notin t[h.left[p]] /\ p \notin t[h.right[p]] /\ t[h.left[p]] \cap t[h.right[p]] = {}
          /\ h.left[p] # NULL => h.parent[h.left[p]] = p
          /\ h.right[p] # NULL => h.parent[h.right[p]] = p
          /\ \A q \in t[p] : total[p] <= total[q] /\ t[q] \subseteq t[p]
      BY <3>1 DEF Forest
    <3>4. \A q \in W : q \in t[q] BY DEF Forest
    <3>5. h.left[p] \in t[k] \cup {NULL} /\ h.right[p] \in t[k] \cup {NULL} BY <3>1, <3>3, <3>4
    <3>6. v[h.left[p]] = t[h.left[p]] /\ v[h.right[p]] = t[h.right[p]] BY <3>5, <1>1, <1>9, <1>11
    <3>7. \A q \in t[k] : q # l.root /\ g.parent[q] = h.parent[q] BY <1>3, <1>5, <1>6, <1>11
    <3>8. /\ g.left[p] # NULL => g.parent[g.left[p]] = p
          /\ g.right[p] # NULL => g.parent[g.right[p]] = p
      BY <3>2, <3>3, <3>5, <3>7
    <3>9. \A q \in v[p] : total[p] <= total[q] /\ v[q] \subseteq v[p] BY <3>1, <3>3, <1>11
    <3>10. t[k] \subseteq U BY <1>2
    <3>11. QED BY <3>1, <3>2, <3>3, <3>5, <3>6, <3>8, <3>9, <3>10
  <2>4. QED BY <2>1, <2>2, <2>3, <1>2
<1>13. Forest(g, v, U) BY <1>1, <1>2, <1>9, <1>12 DEF Forest
<1>14. ASSUME NEW p \in Procs \ U
       PROVE  g.left[p] = h.left[p] /\ g.right[p] = h.right[p] /\ g.parent[p] = h.parent[p]
  BY <1>2, <1>3, <1>5, <1>6
<1>15. g.parent[x] = h.parent[x] BY <1>1, <1>2, <1>3, <1>5, <1>6
<1>16. Merged(h, g, v, U) BY <1>2, <1>6, <1>8, <1>9, <1>13, <1>14, <1>15 DEF Merged
<1>17. QED BY <1>6, <1>16 DEF g, U, V

\* A set of naturals has a least element: the form in which induction over the
\* size of trees is used below.
LEMMA NatLeast ==
  ASSUME NEW T \in SUBSET Nat, T # {}
  PROVE  \E x \in T : \A y \in T : x <= y
<1> DEFINE R == OpToRel(<, Nat)
<1>1. IsWellFoundedOn(R, Nat) BY NatLessThanWellFounded
<1>2. \A x, y \in Nat : x < y => <<x, y>> \in R BY DEF OpToRel
<1> HIDE DEF R
<1>3. PICK x \in T : \A y \in T : ~(<<y, x>> \in R) BY <1>1, WFMin
<1>4. \A y \in T : ~(y < x) BY <1>2, <1>3
<1>5. \A y \in T : x \in Nat /\ y \in Nat OBVIOUS
<1>6. QED BY <1>4, <1>5

\* How many entries are below x and below y, themselves included.
Size(t, x, y) == Cardinality(t[x]) + Cardinality(t[y])

LEMMA SizeIs ==
  ASSUME NEW h \in Heaps, NEW t \in Subs, Forest(h, t, Procs), NEW x \in PN, NEW y \in PN
  PROVE  /\ Size(t, x, y) \in Nat /\ Size(t, x, y) <= Cardinality(Procs) + Cardinality(Procs)
         /\ x # NULL => h.right[x] \in PN /\ Size(t, h.right[x], y) < Size(t, x, y)
         /\ y # NULL => h.right[y] \in PN /\ Size(t, x, h.right[y]) < Size(t, x, y)
<1>1. ASSUME NEW z \in PN
      PROVE  /\ Cardinality(t[z]) \in Nat /\ Cardinality(t[z]) <= Cardinality(Procs)
             /\ Cardinality(Procs) \in Nat
  <2>1. t[z] \in SUBSET Procs BY DEF Subs
  <2>2. QED BY <2>1, HeapAssumption, FS_CardinalityType, FS_Subset
<1>2. ASSUME NEW z \in PN, z # NULL
      PROVE  h.right[z] \in PN /\ Cardinality(t[h.right[z]]) < Cardinality(t[z])
  <2>1. z \in Procs BY <1>2 DEF PN
  <2>2. h.right[z] \in PN BY <2>1 DEF Heaps
  <2>3. t[h.right[z]] \subseteq t[z] /\ z \in t[z] /\ z \notin t[h.right[z]] BY <2>1 DEF Forest
  <2>4. t[z] \in SUBSET Procs BY DEF Subs
  <2>5. IsFiniteSet(t[z]) BY <2>4, HeapAssumption, FS_Subset
  <2>6. Cardinality(t[h.right[z]]) <= Cardinality(t[z]) /\ Cardinality(t[h.right[z]]) # Cardinality(t[z])
    BY <2>3, <2>5, FS_Subset
  <2>7. QED BY <2>2, <2>6, <1>1
<1>3. QED BY <1>1, <1>2 DEF Size

\* One call of skew_heap_merge, l being the result of the call within it.
Merge(h, x, y, l) ==
  IF x = NULL THEN [h EXCEPT !.root = y]
  ELSE IF y = NULL THEN [h EXCEPT !.root = x]
  ELSE LET n == IF Above(x, y) THEN x ELSE y IN [Top(l, n, l.root) EXCEPT !.root = n]

\* Where it descends to.
Down(h, x, y) == IF Above(x, y) THEN <<h.right[x], y>> ELSE <<x, h.right[y]>>

LEMMA MergeType ==
  ASSUME NEW h \in Heaps, NEW x \in PN, NEW y \in PN, NEW l \in Heaps
  PROVE  Merge(h, x, y, l) \in Heaps
<1>1. CASE x = NULL BY <1>1 DEF Merge, Heaps
<1>2. CASE x # NULL /\ y = NULL BY <1>2 DEF Merge, Heaps
<1>3. CASE x # NULL /\ y # NULL
  <2>1. PICK n \in Procs : n = IF Above(x, y) THEN x ELSE y BY <1>3 DEF PN
  <2>2. Merge(h, x, y, l) = [Top(l, n, l.root) EXCEPT !.root = n] BY <2>1, <1>3 DEF Merge
  <2>3. [l EXCEPT !.left[n] = l.root, !.right[n] = l.left[n]] \in Heaps BY DEF Heaps, PN
  <2>4. Top(l, n, l.root) \in Heaps
    <3>1. CASE l.root = NULL BY <3>1, <2>3 DEF Top, SetParent
    <3>2. CASE l.root # NULL
      <4>1. l.root \in Procs BY <3>2 DEF Heaps, PN
      <4> DEFINE k == [l EXCEPT !.left[n] = l.root, !.right[n] = l.left[n]]
      <4>2. Top(l, n, l.root) = [k EXCEPT !.parent[l.root] = n] BY <3>2 DEF Top, SetParent
      <4>3. k \in Heaps BY <2>3
      <4> HIDE DEF k
      <4>4. QED BY <4>1, <4>2, <4>3 DEF Heaps, PN
    <3>3. QED BY <3>1, <3>2
  <2> DEFINE k == Top(l, n, l.root)
  <2>5. [k EXCEPT !.root = n] \in Heaps
    <3>1. k \in Heaps BY <2>4
    <3> HIDE DEF k
    <3>2. QED BY <3>1 DEF Heaps, PN
  <2>6. QED BY <2>2, <2>5
<1>4. QED BY <1>1, <1>2, <1>3

\* The recursion is well founded, so that skew_heap_merge is what its body says.
LEMMA MergeUnfolds ==
  ASSUME NEW h \in Heaps, NEW t \in Subs, Forest(h, t, Procs), NEW x \in PN, NEW y \in PN
  PROVE  skew_heap_merge(h, x, y) =
           Merge(h, x, y, skew_heap_merge(h, Down(h, x, y)[1], Down(h, x, y)[2]))
<1> DEFINE step(f, z) == Merge(h, z[1], z[2], f[Down(h, z[1], z[2])])
           body(f) == [z \in Pairs |-> step(f, z)]
           m == CHOOSE f : f = body(f)
           sz(z) == Size(t, z[1], z[2])
           code(f, z) ==
             LET a == z[1]
                 b == z[2]
                 l == IF Above(a, b) THEN f[<<h.right[a], b>>] ELSE f[<<a, h.right[b]>>]
                 n == IF Above(a, b) THEN a ELSE b
             IN  IF a = NULL THEN [h EXCEPT !.root = b]
                 ELSE IF b = NULL THEN [h EXCEPT !.root = a]
                 ELSE [Top(l, n, l.root) EXCEPT !.root = n]
           T == {n \in Nat : \E f \in [Pairs -> Heaps] : \A z \in Pairs : sz(z) < n => f[z] = step(f, z)}
<1>1. \A a, b \in PN : skew_heap_merge(h, a, b) = m[<<a, b>>]
  <2>1. \A f, z : code(f, z) = step(f, z) BY DEF Merge, Down
  <2>2. \A a, b : skew_heap_merge(h, a, b) = (CHOOSE f : f = [z \in Pairs |-> code(f, z)])[<<a, b>>]
    BY DEF skew_heap_merge, PN, Pairs
  <2>3. m = CHOOSE f : f = [z \in Pairs |-> step(f, z)] OBVIOUS
  <2> HIDE DEF code, step, m
  <2>4. (CHOOSE f : f = [z \in Pairs |-> code(f, z)]) = (CHOOSE f : f = [z \in Pairs |-> step(f, z)])
    BY <2>1
  <2>5. QED BY <2>2, <2>3, <2>4
<1>2. ASSUME NEW z \in Pairs
      PROVE  /\ z[1] \in PN /\ z[2] \in PN /\ sz(z) \in Nat
             /\ sz(z) < Cardinality(Procs) + Cardinality(Procs) + 1
             /\ z[1] # NULL /\ z[2] # NULL => Down(h, z[1], z[2]) \in Pairs /\ sz(Down(h, z[1], z[2])) < sz(z)
  <2>1. z[1] \in PN /\ z[2] \in PN BY DEF Pairs
  <2>2. Cardinality(Procs) \in Nat BY HeapAssumption, FS_CardinalityType
  <2>3. /\ sz(z) \in Nat /\ sz(z) <= Cardinality(Procs) + Cardinality(Procs)
        /\ z[1] # NULL => h.right[z[1]] \in PN /\ Size(t, h.right[z[1]], z[2]) < sz(z)
        /\ z[2] # NULL => h.right[z[2]] \in PN /\ Size(t, z[1], h.right[z[2]]) < sz(z)
    BY <2>1, SizeIs
  <2>4. QED BY <2>1, <2>2, <2>3 DEF Down, Pairs
<1>3. \A f \in [Pairs -> Heaps] : \A z \in Pairs : step(f, z) \in Heaps
  <2> SUFFICES ASSUME NEW f \in [Pairs -> Heaps], NEW z \in Pairs PROVE step(f, z) \in Heaps OBVIOUS
  <2>1. z[1] \in PN /\ z[2] \in PN BY <1>2
  <2>2. CASE z[1] = NULL \/ z[2] = NULL BY <2>1, <2>2 DEF Merge, Heaps
  <2>3. CASE z[1] # NULL /\ z[2] # NULL
    <3>1. f[Down(h, z[1], z[2])] \in Heaps BY <2>3, <1>2
    <3>2. QED BY <2>1, <3>1, MergeType
  <2>4. QED BY <2>2, <2>3
<1>4. 0 \in T
  <2>1. [z \in Pairs |-> h] \in [Pairs -> Heaps] OBVIOUS
  <2>2. \A z \in Pairs : ~(sz(z) < 0) BY <1>2
  <2> HIDE DEF sz, step
  <2>3. QED BY <2>1, <2>2
<1>5. ASSUME NEW n \in T PROVE n + 1 \in T
  <2>1. PICK f \in [Pairs -> Heaps] : \A z \in Pairs : sz(z) < n => f[z] = step(f, z) OBVIOUS
  <2> DEFINE g == [z \in Pairs |-> step(f, z)]
  <2>2. g \in [Pairs -> Heaps] BY <1>3
  <2>3. ASSUME NEW z \in Pairs, sz(z) < n + 1 PROVE g[z] = step(g, z)
    <3>1. g[z] = step(f, z) OBVIOUS
    <3>2. CASE z[1] = NULL \/ z[2] = NULL BY <3>1, <3>2 DEF Merge
    <3>3. CASE z[1] # NULL /\ z[2] # NULL
      <4> DEFINE d == Down(h, z[1], z[2])
      <4>1. d \in Pairs /\ sz(d) < sz(z) /\ sz(z) \in Nat /\ sz(d) \in Nat BY <3>3, <1>2
      <4>2. sz(d) < n
        <5>1. sz(z) < n + 1 /\ n \in Nat BY <2>3
        <5> HIDE DEF sz, d
        <5>2. QED BY <5>1, <4>1
      <4>3. f[d] = step(f, d) BY <4>1, <4>2, <2>1
      <4>4. g[d] = f[d]
        <5> HIDE DEF step, d
        <5>1. QED BY <4>1, <4>3
      <4>5. QED BY <3>1, <4>4
    <3>4. QED BY <3>2, <3>3
  <2>4. n + 1 \in Nat OBVIOUS
  <2> HIDE DEF g, sz, step
  <2>5. QED BY <2>2, <2>3, <2>4
<1>6. Nat \subseteq T
  <2> HIDE DEF T
  <2>1. SUFFICES ASSUME Nat \ T # {} PROVE FALSE OBVIOUS
  <2>2. PICK a \in Nat \ T : \A b \in Nat \ T : a <= b BY <2>1, NatLeast
  <2>3. a # 0 BY <1>4
  <2>4. a - 1 \in Nat /\ a - 1 \notin Nat \ T BY <2>2, <2>3
  <2>5. (a - 1) + 1 \in T BY <2>4, <1>5
  <2>6. QED BY <2>5
<1>7. \E f : f = body(f)
  <2> DEFINE N == Cardinality(Procs) + Cardinality(Procs) + 1
  <2>1. N \in Nat BY HeapAssumption, FS_CardinalityType
  <2>2. N \in T BY <2>1, <1>6
  <2>3. PICK f \in [Pairs -> Heaps] : \A z \in Pairs : sz(z) < N => f[z] = step(f, z) BY <2>2
  <2>4. \A z \in Pairs : sz(z) < N BY <1>2
  <2> HIDE DEF sz, step, N
  <2>5. \A z \in Pairs : f[z] = step(f, z) BY <2>3, <2>4
  <2>6. f = body(f) BY <2>5
  <2>7. QED BY <2>6
<1>8. m = body(m)
  <2> HIDE DEF body
  <2>1. QED BY <1>7
<1> HIDE DEF m
<1>9. <<x, y>> \in Pairs BY DEF Pairs
<1>10. m[<<x, y>>] = step(m, <<x, y>>)
  <2> HIDE DEF step
  <2>1. QED BY <1>8, <1>9
<1> DEFINE d == Down(h, x, y)
<1>11. skew_heap_merge(h, x, y) = Merge(h, x, y, m[d]) BY <1>1, <1>10
<1>12. CASE x = NULL \/ y = NULL BY <1>11, <1>12 DEF Merge
<1>13. CASE x # NULL /\ y # NULL
  <2>1. d \in Pairs BY <1>13, <1>2, <1>9
  <2>2. d = <<d[1], d[2]>> /\ d[1] \in PN /\ d[2] \in PN
    <3> HIDE DEF d
    <3>1. QED BY <2>1 DEF Pairs
  <2>3. skew_heap_merge(h, d[1], d[2]) = m[d]
    <3> HIDE DEF d
    <3>1. QED BY <2>2, <1>1
  <2>4. QED BY <1>11, <2>3
<1>14. QED BY <1>12, <1>13

\* What is below an entry is a tree of its own.
LEMMA BelowIs ==
  ASSUME NEW h \in Heaps, NEW t \in Subs, Forest(h, t, Procs), NEW x \in PN
  PROVE  Merged(h, [h EXCEPT !.root = x], t, t[x])
<1> DEFINE g == [h EXCEPT !.root = x]
<1>1. g \in Heaps /\ g.root = x /\ g.left = h.left /\ g.right = h.right /\ g.parent = h.parent
  BY DEF Heaps
<1> HIDE DEF g
<1>2. ASSUME NEW p \in Procs PROVE p \in t[p]
  <2>1. t[p] = {p} \cup t[h.left[p]] \cup t[h.right[p]] BY DEF Forest
  <2>2. QED BY <2>1
<1>3. t[x] \subseteq Procs /\ x \in t[x] \cup {NULL} /\ \A p \in t[x] : p \in Procs /\ t[p] \subseteq t[x]
  <2>1. CASE x = NULL BY <2>1 DEF Forest
  <2>2. CASE x # NULL BY <2>2 DEF Forest, PN
  <2>3. QED BY <2>1, <2>2
<1>4. ASSUME NEW p \in t[x] PROVE h.left[p] \in t[x] \cup {NULL} /\ h.right[p] \in t[x] \cup {NULL}
  <2>1. p \in Procs /\ t[p] \subseteq t[x] BY <1>3
  <2>2. /\ h.left[p] \in Procs \cup {NULL} /\ h.right[p] \in Procs \cup {NULL}
        /\ t[h.left[p]] \subseteq t[p] /\ t[h.right[p]] \subseteq t[p]
    BY <2>1 DEF Forest
  <2>3. QED BY <2>1, <2>2, <1>2
<1>5. Forest(g, t, t[x]) BY <1>1, <1>3, <1>4 DEF Forest
<1>6. Merged(h, g, t, t[x]) BY <1>1, <1>3, <1>5 DEF Merged
<1>7. QED BY <1>6 DEF g

\* skew_heap_merge makes one tree of two.
LEMMA MergeIs ==
  ASSUME Compares, NEW h \in Heaps, NEW t \in Subs, Forest(h, t, Procs),
         NEW x \in PN, NEW y \in PN, t[x] \cap t[y] = {}
  PROVE  /\ skew_heap_merge(h, x, y).root \in {x, y}
         /\ \E v : Merged(h, skew_heap_merge(h, x, y), v, t[x] \cup t[y])
<1> DEFINE good(a, b) ==
             t[a] \cap t[b] = {} =>
               /\ skew_heap_merge(h, a, b).root \in {a, b}
               /\ \E v : Merged(h, skew_heap_merge(h, a, b), v, t[a] \cup t[b])
           Bad == {z \in Pairs : ~good(z[1], z[2])}
           S == {Size(t, z[1], z[2]) : z \in Bad}
<1>1. \A z \in Bad : z \in Pairs /\ z[1] \in PN /\ z[2] \in PN BY DEF Pairs
<1>2. S \subseteq Nat
  <2>1. \A z \in Bad : Size(t, z[1], z[2]) \in Nat BY <1>1, SizeIs
  <2> HIDE DEF Bad
  <2>2. QED BY <2>1
<1>3. ASSUME NEW a \in PN, NEW b \in PN,
             \A c, d \in PN : Size(t, c, d) < Size(t, a, b) => good(c, d)
      PROVE  good(a, b)
  <2> DEFINE l == skew_heap_merge(h, Down(h, a, b)[1], Down(h, a, b)[2])
  <2> SUFFICES ASSUME t[a] \cap t[b] = {}
               PROVE  /\ skew_heap_merge(h, a, b).root \in {a, b}
                      /\ \E v : Merged(h, skew_heap_merge(h, a, b), v, t[a] \cup t[b])
    OBVIOUS
  <2>1. skew_heap_merge(h, a, b) = Merge(h, a, b, l) BY MergeUnfolds
  <2>2. t[NULL] = {} BY DEF Forest
  <2>3. CASE a = NULL
    <3>1. skew_heap_merge(h, a, b) = [h EXCEPT !.root = b] BY <2>1, <2>3 DEF Merge
    <3>2. t[a] \cup t[b] = t[b] BY <2>2, <2>3
    <3>3. [h EXCEPT !.root = b].root = b BY DEF Heaps
    <3>4. QED BY <3>1, <3>2, <3>3, BelowIs
  <2>4. CASE a # NULL /\ b = NULL
    <3>1. skew_heap_merge(h, a, b) = [h EXCEPT !.root = a] BY <2>1, <2>4 DEF Merge
    <3>2. t[a] \cup t[b] = t[a] BY <2>2, <2>4
    <3>3. [h EXCEPT !.root = a].root = a BY DEF Heaps
    <3>4. QED BY <3>1, <3>2, <3>3, BelowIs
  <2>5. CASE a # NULL /\ b # NULL /\ Above(a, b)
    <3>1. a \in Procs /\ b \in Procs BY <2>5 DEF PN
    <3>2. total[a] <= total[b]
      <4>1. total[a] < total[b] /\ total[a] \in Int /\ total[b] \in Int BY <2>5, <3>1 DEF Compares
      <4>2. QED BY <4>1
    <3>3. l = skew_heap_merge(h, h.right[a], b) BY <2>5 DEF Down
    <3>4. h.right[a] \in PN /\ Size(t, h.right[a], b) < Size(t, a, b) BY <2>5, SizeIs
    <3>5. t[h.right[a]] \subseteq t[a] BY <3>1 DEF Forest
    <3>6. PICK u : Merged(h, l, u, t[h.right[a]] \cup t[b]) BY <1>3, <3>3, <3>4, <3>5
    <3>7. skew_heap_merge(h, a, b) = [Top(l, a, l.root) EXCEPT !.root = a] BY <2>1, <2>5 DEF Merge
    <3> HIDE DEF l
    <3>8. /\ [Top(l, a, l.root) EXCEPT !.root = a].root = a
          /\ \E v : Merged(h, [Top(l, a, l.root) EXCEPT !.root = a], v, t[a] \cup t[b])
      BY <3>1, <3>2, <3>6, TopIs
    <3>9. QED BY <3>7, <3>8
  <2>6. CASE a # NULL /\ b # NULL /\ ~Above(a, b)
    <3>1. a \in Procs /\ b \in Procs BY <2>6 DEF PN
    <3>2. total[b] <= total[a]
      <4>1. ~(total[a] < total[b]) /\ total[a] \in Int /\ total[b] \in Int BY <2>6, <3>1 DEF Compares
      <4>2. QED BY <4>1
    <3>3. l = skew_heap_merge(h, a, h.right[b]) BY <2>6 DEF Down
    <3>4. h.right[b] \in PN /\ Size(t, a, h.right[b]) < Size(t, a, b) BY <2>6, SizeIs
    <3>5. t[h.right[b]] \subseteq t[b] BY <3>1 DEF Forest
    <3>6. PICK u : Merged(h, l, u, t[a] \cup t[h.right[b]]) BY <1>3, <3>3, <3>4, <3>5
    <3>7. skew_heap_merge(h, a, b) = [Top(l, b, l.root) EXCEPT !.root = b] BY <2>1, <2>6 DEF Merge
    <3> HIDE DEF l
    <3>8. t[a] \cup t[h.right[b]] = t[h.right[b]] \cup t[a] /\ t[a] \cup t[b] = t[b] \cup t[a] OBVIOUS
    <3>9. Merged(h, l, u, t[h.right[b]] \cup t[a]) BY <3>6, <3>8
    <3>10. t[b] \cap t[a] = {} OBVIOUS
    <3>11. /\ [Top(l, b, l.root) EXCEPT !.root = b].root = b
           /\ \E v : Merged(h, [Top(l, b, l.root) EXCEPT !.root = b], v, t[b] \cup t[a])
      BY <3>1, <3>2, <3>9, <3>10, TopIs
    <3>12. QED BY <3>7, <3>8, <3>11
  <2>7. QED BY <2>3, <2>4, <2>5, <2>6
<1> HIDE DEF good
<1>4. Bad = {}
  <2> SUFFICES ASSUME Bad # {} PROVE FALSE OBVIOUS
  <2>1. S # {} OBVIOUS
  <2>2. PICK n \in S : \A k \in S : n <= k BY <2>1, <1>2, NatLeast
  <2>3. PICK z \in Bad : n = Size(t, z[1], z[2]) OBVIOUS
  <2>4. ASSUME NEW c \in PN, NEW d \in PN, Size(t, c, d) < n PROVE good(c, d)
    <3>1. <<c, d>> \in Pairs /\ <<c, d>>[1] = c /\ <<c, d>>[2] = d BY DEF Pairs
    <3>2. ASSUME ~good(c, d) PROVE FALSE
      <4>1. <<c, d>> \in Bad BY <3>1, <3>2
      <4>2. Size(t, c, d) \in S BY <4>1
      <4>3. n <= Size(t, c, d) BY <2>2, <4>2
      <4>4. n \in Nat /\ Size(t, c, d) \in Nat BY <1>2, <4>2
      <4>5. QED BY <2>4, <4>3, <4>4
    <3>3. QED BY <3>2
  <2>5. good(z[1], z[2]) BY <1>1, <1>3, <2>3, <2>4
  <2>6. QED BY <2>5
<1>5. <<x, y>> \in Pairs /\ <<x, y>>[1] = x /\ <<x, y>>[2] = y BY DEF Pairs
<1>6. good(x, y) BY <1>4, <1>5
<1>7. QED BY <1>6 DEF good

\* The heap is one tree with exactly the entries of W.
Tree(h, t, W) ==
  /\ h \in Heaps /\ t \in Subs /\ Forest(h, t, W)
  /\ h.root \in W \cup {NULL} /\ t[h.root] = W
  /\ h.root # NULL => h.parent[h.root] = NULL

\* stride_enqueue of the process that was running.
LEMMA InsertIs ==
  ASSUME Compares, NEW c \in Procs, NEW h, NEW t, Tree(h, t, Procs \ {c})
  PROVE  \E v : Tree(skew_heap_insert(h, c), v, Procs)
<1> DEFINE k == [h EXCEPT !.parent[c] = NULL, !.left[c] = NULL, !.right[c] = NULL]
           u == [t EXCEPT ![c] = {c}]
           m == skew_heap_merge(k, k.root, c)
<1>0. NULL \notin Procs /\ c # NULL /\ c \in PN /\ NULL \in PN BY HeapAssumption DEF PN
<1>1. h \in Heaps /\ t \in Subs /\ Forest(h, t, Procs \ {c}) /\ h.root \in PN /\ h.root # c
      /\ t[h.root] = Procs \ {c} /\ (h.root # NULL => h.parent[h.root] = NULL)
  BY <1>0 DEF Tree, PN
<1>2. /\ k \in Heaps /\ k.root = h.root
      /\ \A p \in Procs : /\ k.left[p] = IF p = c THEN NULL ELSE h.left[p]
                          /\ k.right[p] = IF p = c THEN NULL ELSE h.right[p]
                          /\ k.parent[p] = IF p = c THEN NULL ELSE h.parent[p]
  BY <1>0, <1>1 DEF Heaps, PN
<1>3. u \in Subs /\ u[c] = {c} /\ \A p \in PN : p # c => u[p] = t[p] BY <1>0, <1>1 DEF Subs
<1>4. skew_heap_insert(h, c) = m BY <1>1, <1>2 DEF skew_heap_insert
<1> HIDE DEF k, u
<1>5. u[NULL] = {} BY <1>0, <1>1, <1>3 DEF Forest
<1>6. Forest(k, u, Procs)
  <2>1. ASSUME NEW p \in Procs
        PROVE  /\ k.left[p] \in Procs \cup {NULL} /\ k.right[p] \in Procs \cup {NULL}
               /\ u[p] = {p} \cup u[k.left[p]] \cup u[k.right[p]] /\ u[p] \subseteq Procs
               /\ p \notin u[k.left[p]] /\ p \notin u[k.right[p]] /\ u[k.left[p]] \cap u[k.right[p]] = {}
               /\ k.left[p] # NULL => k.parent[k.left[p]] = p
               /\ k.right[p] # NULL => k.parent[k.right[p]] = p
               /\ \A q \in u[p] : total[p] <= total[q] /\ u[q] \subseteq u[p]
    <3>1. CASE p = c
      <4>1. k.left[p] = NULL /\ k.right[p] = NULL /\ u[p] = {p} BY <3>1, <1>2, <1>3
      <4>2. total[p] \in Int BY DEF Compares
      <4>3. total[p] <= total[p] BY <4>2
      <4>4. QED BY <4>1, <4>3, <1>5
    <3>2. CASE p # c
      <4>1. p \in Procs \ {c} /\ p \in PN BY <3>2 DEF PN
      <4>2. k.left[p] = h.left[p] /\ k.right[p] = h.right[p] /\ u[p] = t[p] BY <4>1, <1>2, <1>3
      <4>3. /\ h.left[p] \in (Procs \ {c}) \cup {NULL} /\ h.right[p] \in (Procs \ {c}) \cup {NULL}
            /\ t[p] = {p} \cup t[h.left[p]] \cup t[h.right[p]] /\ t[p] \subseteq Procs \ {c}
            /\ p \notin t[h.left[p]] /\ p \notin t[h.right[p]] /\ t[h.left[p]] \cap t[h.right[p]] = {}
            /\ h.left[p] # NULL => h.parent[h.left[p]] = p
            /\ h.right[p] # NULL => h.parent[h.right[p]] = p
            /\ \A q \in t[p] : total[p] <= total[q] /\ t[q] \subseteq t[p]
        BY <4>1, <1>1 DEF Forest
      <4>4. h.left[p] \in PN /\ h.right[p] \in PN /\ h.left[p] # c /\ h.right[p] # c
        BY <4>3, <1>0 DEF PN
      <4>5. u[h.left[p]] = t[h.left[p]] /\ u[h.right[p]] = t[h.right[p]] BY <4>4, <1>3
      <4>6. /\ h.left[p] # NULL => k.parent[h.left[p]] = p
            /\ h.right[p] # NULL => k.parent[h.right[p]] = p
        BY <4>3, <4>4, <1>2 DEF PN
      <4>7. \A q \in t[p] : q \in PN /\ q # c /\ u[q] = t[q] BY <4>3, <1>3 DEF PN
      <4>8. QED BY <4>2, <4>3, <4>5, <4>6, <4>7
    <3>3. QED BY <3>1, <3>2
  <2>2. QED BY <2>1, <1>5 DEF Forest
<1>7. u[k.root] = Procs \ {c} BY <1>1, <1>2, <1>3
<1>8. u[k.root] \cap u[c] = {} /\ u[k.root] \cup u[c] = Procs BY <1>3, <1>7
<1>9. m.root \in {k.root, c} /\ \E v : Merged(k, m, v, Procs)
  <2>1. k.root \in PN BY <1>1, <1>2
  <2>2. m.root \in {k.root, c} /\ \E v : Merged(k, m, v, u[k.root] \cup u[c])
    BY <2>1, <1>0, <1>2, <1>3, <1>6, <1>8, MergeIs
  <2>3. QED BY <2>2, <1>8
<1> HIDE DEF m
<1>10. PICK v : Merged(k, m, v, Procs) BY <1>9
<1>11. m.root # NULL => m.parent[m.root] = NULL
  <2>1. ASSUME m.root # NULL PROVE m.parent[m.root] = NULL
    <3>1. m.parent[m.root] = k.parent[m.root] /\ m.root \in Procs BY <2>1, <1>10 DEF Merged
    <3>2. k.parent[m.root] = NULL BY <2>1, <3>1, <1>1, <1>2, <1>9
    <3>3. QED BY <3>1, <3>2
  <2>2. QED BY <2>1
<1>12. Tree(m, v, Procs) BY <1>10, <1>11 DEF Merged, Tree
<1>13. QED BY <1>4, <1>12

\* stride_dequeue of the root, which has a least total.
LEMMA RemoveIs ==
  ASSUME Compares, NEW h, NEW t, Tree(h, t, Procs)
  PROVE  /\ h.root \in Procs /\ \A q \in Procs : total[h.root] <= total[q]
         /\ \E v : Tree(skew_heap_remove(h, h.root), v, Procs \ {h.root})
<1> DEFINE n == h.root
           a == h.left[n]
           b == h.right[n]
           m == skew_heap_merge(h, a, b)
           g == SetParent(m, m.root, NULL)
           W == Procs \ {n}
<1>0. NULL \notin Procs /\ Procs # {} BY HeapAssumption
<1>1. /\ h \in Heaps /\ t \in Subs /\ Forest(h, t, Procs) /\ n \in Procs /\ t[n] = Procs
      /\ h.parent[n] = NULL
  BY <1>0 DEF Tree, Forest
<1> HIDE DEF n
<1>2. /\ a \in PN /\ b \in PN /\ t[n] = {n} \cup t[a] \cup t[b] /\ n \notin t[a] /\ n \notin t[b]
      /\ t[a] \cap t[b] = {} /\ \A q \in t[n] : total[n] <= total[q]
  BY <1>1 DEF Forest, PN
<1>3. t[a] \cup t[b] = W BY <1>1, <1>2
<1>4. PICK v : Merged(h, m, v, W)
  <2>1. \E v : Merged(h, m, v, t[a] \cup t[b]) BY <1>1, <1>2, MergeIs
  <2>2. QED BY <2>1, <1>3
<1>5. skew_heap_remove(h, n) = g BY <1>1 DEF skew_heap_remove
<1> HIDE DEF m, a, b, W
<1>6. /\ m \in Heaps /\ v \in Subs /\ Forest(m, v, W) /\ m.root \in W \cup {NULL} /\ v[m.root] = W
  BY <1>4 DEF Merged
<1>7. Tree(g, v, W)
  <2>1. CASE m.root = NULL BY <2>1, <1>6 DEF Tree, SetParent
  <2>2. CASE m.root # NULL
    <3>1. m.root \in Procs BY <2>2, <1>6 DEF Forest
    <3>2. g = [m EXCEPT !.parent[m.root] = NULL] BY <2>2 DEF SetParent
    <3> HIDE DEF g
    <3>3. /\ g \in Heaps /\ g.root = m.root /\ g.left = m.left /\ g.right = m.right
          /\ g.parent[m.root] = NULL
          /\ \A p \in Procs : p # m.root => g.parent[p] = m.parent[p]
      BY <3>1, <3>2, <1>6 DEF Heaps, PN
    <3>4. ASSUME NEW p \in W PROVE m.left[p] # m.root /\ m.right[p] # m.root
      BY <1>6 DEF Forest
    <3>5. ASSUME NEW p \in W
          PROVE  /\ m.left[p] # NULL => g.parent[m.left[p]] = p
                 /\ m.right[p] # NULL => g.parent[m.right[p]] = p
      <4>1. /\ m.left[p] # NULL => m.parent[m.left[p]] = p /\ m.left[p] \in Procs
            /\ m.right[p] # NULL => m.parent[m.right[p]] = p /\ m.right[p] \in Procs
        BY <1>6 DEF Forest
      <4>2. QED BY <4>1, <3>3, <3>4
    <3>6. Forest(g, v, W) BY <3>3, <3>5, <1>6 DEF Forest
    <3>7. QED BY <3>3, <3>6, <1>6 DEF Tree
  <2>3. QED BY <2>1, <2>2
<1>8. n \in Procs /\ \A q \in Procs : total[n] <= total[q] BY <1>1, <1>2
<1>9. \E w : Tree(skew_heap_remove(h, n), w, Procs \ {n}) BY <1>5, <1>7 DEF W
<1>10. QED BY <1>8, <1>9 DEF n

\* The tree has the processes that are not running.  No property mentions the
\* sets of entries below each one, but without them nothing bounds the recursion
\* of skew_heap_merge or separates the two trees it is given.
HeapInv ==
  /\ StrideInv
  /\ pool = Procs \ {current}
  /\ \E t : Tree(Heap, t, pool)

LEMMA ComparesIs == StrideInv => Compares
<1> SUFFICES ASSUME StrideInv PROVE Compares OBVIOUS
<1>1. total \in [Procs -> Int] BY DEF StrideInv, TypeOK
<1>2. ASSUME NEW p \in Procs, NEW q \in Procs PROVE Above(p, q) <=> total[p] < total[q]
  <2>1. proc_stride_comp_f(p, q) = total[p] - total[q] BY DEF StrideInv, ComparisonTrue
  <2>2. total[p] \in Int /\ total[q] \in Int BY <1>1
  <2>3. QED BY <2>1, <2>2 DEF Above
<1>3. QED BY <1>1, <1>2 DEF Compares

\* At the start the entry enqueued i-th has the i - 1 before it below itself.
LEMMA InitHeapInv == HeapInit => HeapInv
<1> SUFFICES ASSUME HeapInit PROVE HeapInv OBVIOUS
<1> DEFINE n == Cardinality(Procs)
<1>0. Init /\ NULL \notin Procs /\ n \in Nat /\ n # 0
  BY HeapAssumption, FS_CardinalityType, FS_EmptySet DEF HeapInit
<1>1. PICK s \in Bijection(1..n, Procs) :
        LET place(p) == CHOOSE i \in 1..n : s[i] = p
        IN  /\ root = s[n]
            /\ left = [p \in Procs |-> IF place(p) = 1 THEN NULL ELSE s[place(p) - 1]]
            /\ right = [p \in Procs |-> NULL]
            /\ parent = [p \in Procs |-> IF place(p) = n THEN NULL ELSE s[place(p) + 1]]
  BY DEF HeapInit
<1> DEFINE place(p) == CHOOSE i \in 1..n : s[i] = p
           t == [p \in PN |-> IF p = NULL THEN {} ELSE {q \in Procs : place(q) <= place(p)}]
<1>2. /\ root = s[n]
      /\ left = [p \in Procs |-> IF place(p) = 1 THEN NULL ELSE s[place(p) - 1]]
      /\ right = [p \in Procs |-> NULL]
      /\ parent = [p \in Procs |-> IF place(p) = n THEN NULL ELSE s[place(p) + 1]]
  BY <1>1
<1> HIDE DEF n
<1>3. /\ s \in [1..n -> Procs] /\ \A p \in Procs : \E i \in 1..n : s[i] = p
      /\ \A i, j \in 1..n : s[i] = s[j] => i = j
  BY DEF Bijection, Injection, Surjection, IsInjective
<1>4. \A p \in Procs : place(p) \in 1..n /\ s[place(p)] = p BY <1>3
<1>5. \A i \in 1..n : s[i] \in Procs /\ place(s[i]) = i BY <1>3, <1>4
<1> HIDE DEF place
<1>6. total = [p \in Procs |-> 0] /\ pool = Procs /\ current = None BY <1>0 DEF Init
<1>7. t \in Subs BY DEF Subs
<1>8. t[NULL] = {} /\ \A p \in Procs : t[p] = {q \in Procs : place(q) <= place(p)}
  BY <1>0 DEF PN
<1> HIDE DEF t
<1>9. Heap \in Heaps
  <2>1. root \in PN BY <1>0, <1>2, <1>5 DEF PN
  <2>2. left \in [Procs -> PN]
    <3>1. \A p \in Procs : place(p) # 1 => place(p) - 1 \in 1..n BY <1>0, <1>4
    <3>2. QED BY <3>1, <1>2, <1>5 DEF PN
  <2>3. right \in [Procs -> PN] BY <1>2 DEF PN
  <2>4. parent \in [Procs -> PN]
    <3>1. \A p \in Procs : place(p) # n => place(p) + 1 \in 1..n BY <1>0, <1>4
    <3>2. QED BY <3>1, <1>2, <1>5 DEF PN
  <2>5. QED BY <2>1, <2>2, <2>3, <2>4 DEF Heap, Heaps
<1>10. ASSUME NEW p \in Procs
       PROVE  /\ left[p] \in Procs \cup {NULL} /\ right[p] = NULL
              /\ t[p] = {p} \cup t[left[p]] /\ t[p] \subseteq Procs /\ p \notin t[left[p]]
              /\ left[p] # NULL => parent[left[p]] = p
              /\ \A q \in t[p] : total[p] <= total[q] /\ t[q] \subseteq t[p]
  <2>0. right[p] = NULL /\ place(p) \in 1..n BY <1>2, <1>4
  <2>1. \A q \in t[p] : q \in Procs /\ place(q) <= place(p) BY <1>8
  <2>2. \A q \in t[p] : total[p] <= total[q] BY <2>1, <1>6
  <2>3. ASSUME NEW q \in t[p] PROVE t[q] \subseteq t[p]
    <3>1. \A r \in t[q] : r \in Procs /\ place(r) <= place(q) BY <2>1, <1>8
    <3>2. \A r \in t[q] : place(r) <= place(p) BY <3>1, <2>1, <1>4
    <3>3. QED BY <3>1, <3>2, <1>8
  <2>4. CASE place(p) = 1
    <3>1. left[p] = NULL BY <2>4, <1>2
    <3>2. ASSUME NEW q \in Procs PROVE q \in t[p] <=> q = p
      <4>1. q \in t[p] <=> place(q) <= 1 BY <2>4, <1>8
      <4>2. place(q) <= 1 <=> place(q) = 1 BY <1>4, <1>0
      <4>3. place(q) = 1 <=> q = p BY <2>4, <1>4
      <4>4. QED BY <4>1, <4>2, <4>3
    <3>3. t[p] = {p} BY <3>2, <2>1
    <3>4. QED BY <3>1, <3>3, <2>0, <2>2, <2>3, <1>8
  <2>5. CASE place(p) # 1
    <3> DEFINE k == s[place(p) - 1]
    <3>1. place(p) - 1 \in 1..n BY <2>0, <2>5, <1>0
    <3>2. left[p] = k /\ k \in Procs /\ place(k) = place(p) - 1 BY <3>1, <2>5, <1>2, <1>5
    <3> HIDE DEF k
    <3>3. ASSUME NEW q \in Procs PROVE q \in t[p] <=> q = p \/ q \in t[k]
      <4>1. (q \in t[p] <=> place(q) <= place(p)) /\ (q \in t[k] <=> place(q) <= place(p) - 1)
        BY <3>2, <1>8
      <4>2. place(q) <= place(p) <=> place(q) = place(p) \/ place(q) <= place(p) - 1
        BY <2>0, <1>0, <1>4
      <4>3. place(q) = place(p) <=> q = p BY <1>4
      <4>4. QED BY <4>1, <4>2, <4>3
    <3>4. t[k] \subseteq Procs /\ t[p] \subseteq Procs BY <3>2, <1>8
    <3>5. p \notin t[k]
      <4>1. ~(place(p) <= place(p) - 1) BY <2>0, <1>0
      <4>2. QED BY <4>1, <3>2, <1>8
    <3>6. parent[k] = p
      <4>1. place(k) # n /\ place(k) + 1 = place(p) BY <3>2, <2>0, <1>0
      <4>2. parent[k] = s[place(k) + 1] BY <4>1, <3>2, <1>2
      <4>3. QED BY <4>1, <4>2, <1>4
    <3>7. t[p] = {p} \cup t[k] BY <3>3, <3>4
    <3>8. QED BY <3>2, <3>4, <3>5, <3>6, <3>7, <2>0, <2>2, <2>3
  <2>6. QED BY <2>4, <2>5
<1>11. Forest(Heap, t, Procs) BY <1>8, <1>10 DEF Forest, Heap
<1>12. root \in Procs /\ t[root] = Procs /\ parent[root] = NULL
  <2>1. n \in 1..n BY <1>0
  <2>2. root \in Procs /\ place(root) = n BY <2>1, <1>2, <1>5
  <2>3. \A q \in Procs : place(q) <= n BY <1>0, <1>4
  <2>4. t[root] = Procs BY <2>2, <2>3, <1>8
  <2>5. QED BY <2>2, <2>4, <1>2
<1>13. Tree(Heap, t, Procs) BY <1>7, <1>9, <1>11, <1>12 DEF Tree, Heap
<1>14. pool = Procs \ {current} BY <1>6, StrideAssumption
<1>15. QED BY <1>0, <1>6, <1>13, <1>14, InitStrideInv DEF HeapInv

\* The root that is picked is a minimal process of the set.
LEMMA HeapScheduleIs ==
  ASSUME SetFirst, HeapInv, heap_schedule
  PROVE  HeapInv' /\ \E p \in Procs : schedule(p)
<1> DEFINE h == IF current = None THEN Heap ELSE skew_heap_insert(Heap, current)
<1>1. PICK n, g : /\ n = h.root /\ g = skew_heap_remove(h, n) /\ run_next(n)
                  /\ root' = g.root /\ parent' = g.parent /\ left' = g.left /\ right' = g.right
  BY DEF heap_schedule
<1>2. StrideInv /\ Compares /\ Runnable = Procs /\ current \in Procs \cup {None} /\ None \notin Procs
  BY ComparesIs, StrideAssumption DEF HeapInv, StrideInv, TypeOK
<1>3. PICK u : Tree(Heap, u, Procs \ {current}) BY DEF HeapInv
<1>4. \E v : Tree(h, v, Procs)
  <2>1. CASE current = None
    <3>1. h = Heap /\ Procs \ {current} = Procs BY <2>1, <1>2
    <3>2. QED BY <3>1, <1>3
  <2>2. CASE current # None
    <3>1. h = skew_heap_insert(Heap, current) /\ current \in Procs BY <2>2, <1>2
    <3>2. QED BY <3>1, <1>2, <1>3, InsertIs
  <2>3. QED BY <2>1, <2>2
<1> HIDE DEF h
<1>5. PICK v : Tree(h, v, Procs) BY <1>4
<1>6. n \in Procs /\ \A q \in Procs : total[n] <= total[q] BY <1>1, <1>2, <1>5, RemoveIs
<1>7. PICK w : Tree(g, w, Procs \ {n}) BY <1>1, <1>2, <1>5, RemoveIs
<1>8. schedule(n)
  <2>1. ASSUME NEW q \in Procs PROVE proc_stride_comp_f(n, q) <= 0
    <3>1. proc_stride_comp_f(n, q) = total[n] - total[q] BY <1>2, <1>6 DEF StrideInv, ComparisonTrue
    <3>2. total[n] \in Int /\ total[q] \in Int /\ total[n] <= total[q] BY <1>2, <1>6 DEF Compares
    <3>3. QED BY <3>1, <3>2
  <2>2. QED BY <2>1, <1>1, <1>2, <1>6 DEF schedule
<1>9. StrideInv' BY <1>2, <1>6, <1>8, ScheduleStrideInv
<1>10. pool' = Procs \ {n} /\ current' = n /\ \A q \in Procs : q # n => total'[q] = total[q]
  BY <1>1, <1>2 DEF run_next, Compares
<1>11. Heap' = g
  <2>1. g \in Heaps BY <1>7 DEF Tree
  <2>2. QED BY <2>1, <1>1 DEF Heaps, Heap
<1>12. Tree(g, w, Procs \ {n})'
  <2>1. Forest(g, w, Procs \ {n}) BY <1>7 DEF Tree
  <2>2. ASSUME NEW p \in Procs \ {n}, NEW q \in w[p] PROVE total'[p] <= total'[q]
    <3>1. q \in Procs \ {n} /\ total[p] <= total[q] BY <2>1 DEF Forest
    <3>2. QED BY <3>1, <1>10
  <2>3. Forest(g, w, Procs \ {n})' BY <2>1, <2>2, <1>11 DEF Forest
  <2>4. QED BY <2>3, <1>7 DEF Tree
<1>13. QED BY <1>6, <1>8, <1>9, <1>10, <1>11, <1>12 DEF HeapInv

\* Every step keeps the heap a tree and is a step of the abstract specification.
LEMMA StepHeapInv ==
  ASSUME SetFirst, HeapInv, [HeapNext]_<<vars, heapvars>> PROVE HeapInv' /\ [Next]_vars
<1>1. ASSUME heapvars' = heapvars, pool' = pool, current' = current, total' = total, StrideInv'
      PROVE  HeapInv'
  <2>1. PICK t : Tree(Heap, t, pool) BY DEF HeapInv
  <2>2. Heap' = Heap BY <1>1 DEF Heap, heapvars
  <2>3. Tree(Heap, t, pool)' BY <1>1, <2>1, <2>2 DEF Tree, Forest
  <2>4. pool' = Procs \ {current'} BY <1>1 DEF HeapInv
  <2>5. QED BY <1>1, <2>3, <2>4 DEF HeapInv
<1>2. StrideInv BY DEF HeapInv
<1>3. CASE heap_schedule BY <1>3, HeapScheduleIs DEF Next
<1>4. CASE UNCHANGED <<vars, heapvars>>
  <2>1. StrideInv' BY <1>2, <1>4, StepStrideInv
  <2>2. QED BY <1>1, <1>4, <2>1 DEF vars
<1>5. CASE time_over /\ UNCHANGED heapvars
  <2>1. UNCHANGED vars BY <1>5 DEF time_over
  <2>2. QED BY <1>4, <1>5, <2>1
<1>6. CASE (\E n \in 0..MaxPriority : lab6_set_priority(n)) /\ UNCHANGED heapvars
  <2>1. PICK n \in 0..MaxPriority : lab6_set_priority(n) BY <1>6
  <2>2. StrideInv' BY <1>2, <2>1, SetPriorityStrideInv
  <2>3. pool' = pool /\ current' = current /\ total' = total BY <2>1 DEF lab6_set_priority
  <2>4. HeapInv' BY <1>1, <1>6, <2>2, <2>3
  <2>5. Next BY <2>1 DEF Next
  <2>6. QED BY <2>4, <2>5
<1>7. QED BY <1>3, <1>4, <1>5, <1>6 DEF HeapNext

\* An entry other than the root is a child of the lowest entry that is above it.
LEMMA AboveIs ==
  ASSUME NEW h \in Heaps, NEW t \in Subs, NEW W, Forest(h, t, W), NEW r \in W, t[r] = W, NEW p \in W, p # r
  PROVE  \E q \in W : h.left[q] = p \/ h.right[q] = p
<1> DEFINE Up == {q \in W : p \in t[q] /\ p # q}
           S == {Cardinality(t[q]) : q \in Up}
<1>1. \A q \in W : IsFiniteSet(t[q])
  <2>1. \A q \in W : t[q] \subseteq Procs BY DEF Forest
  <2>2. QED BY <2>1, HeapAssumption, FS_Subset
<1>2. S \subseteq Nat BY <1>1, FS_CardinalityType
<1>3. r \in Up OBVIOUS
<1>4. PICK k \in S : \A j \in S : k <= j
  <2>1. S # {} BY <1>3
  <2> HIDE DEF S
  <2>2. QED BY <2>1, <1>2, NatLeast
<1>5. PICK q \in Up : k = Cardinality(t[q]) OBVIOUS
<1>6. ASSUME NEW c, c = h.left[q] \/ c = h.right[q], p \in t[c] PROVE c = p
  <2>1. c \in W /\ t[c] \subseteq t[q] /\ q \in t[q] /\ q \notin t[c] BY <1>6 DEF Forest
  <2>2. Cardinality(t[c]) <= Cardinality(t[q]) /\ Cardinality(t[c]) # Cardinality(t[q])
    BY <2>1, <1>1, FS_Subset
  <2>3. Cardinality(t[c]) \in Nat /\ Cardinality(t[q]) \in Nat BY <2>1, <1>1, FS_CardinalityType
  <2>4. Cardinality(t[c]) \notin S
    <3> HIDE DEF S
    <3>1. QED BY <2>2, <2>3, <1>4, <1>5
  <2>5. c \notin Up BY <2>4
  <2>6. QED BY <2>1, <2>5, <1>6
<1>7. t[q] = {q} \cup t[h.left[q]] \cup t[h.right[q]] BY DEF Forest
<1>8. p \in t[h.left[q]] \/ p \in t[h.right[q]] BY <1>7
<1>9. QED BY <1>6, <1>8

\* Who has the root and with an entry its children has the whole tree.
LEMMA AllBelow ==
  ASSUME NEW h \in Heaps, NEW t \in Subs, NEW W, Forest(h, t, W), NEW S \in SUBSET W,
         \A p \in S : {h.left[p], h.right[p]} \ {NULL} \subseteq S, NEW r \in S
  PROVE  t[r] \subseteq S
<1> DEFINE Bad == {p \in S : ~(t[p] \subseteq S)}
           N == {Cardinality(t[p]) : p \in Bad}
<1>1. \A q \in W : IsFiniteSet(t[q])
  <2>1. \A q \in W : t[q] \subseteq Procs BY DEF Forest
  <2>2. QED BY <2>1, HeapAssumption, FS_Subset
<1>2. N \subseteq Nat BY <1>1, FS_CardinalityType
<1>3. ASSUME Bad # {} PROVE FALSE
  <2>1. PICK k \in N : \A j \in N : k <= j
    <3>1. N # {} BY <1>3
    <3> HIDE DEF N
    <3>2. QED BY <3>1, <1>2, NatLeast
  <2>2. PICK p \in Bad : k = Cardinality(t[p]) OBVIOUS
  <2>3. ASSUME NEW c, c = h.left[p] \/ c = h.right[p] PROVE t[c] \subseteq S
    <3>1. CASE c = NULL BY <3>1 DEF Forest
    <3>2. CASE c # NULL
      <4>1. c \in S /\ t[c] \subseteq t[p] /\ p \in t[p] /\ p \notin t[c] BY <2>3, <3>2 DEF Forest
      <4>2. Cardinality(t[c]) <= Cardinality(t[p]) /\ Cardinality(t[c]) # Cardinality(t[p])
        BY <4>1, <1>1, FS_Subset
      <4>3. Cardinality(t[c]) \in Nat /\ Cardinality(t[p]) \in Nat BY <4>1, <1>1, FS_CardinalityType
      <4>4. Cardinality(t[c]) \notin N
        <5> HIDE DEF N
        <5>1. QED BY <4>2, <4>3, <2>1, <2>2
      <4>5. QED BY <4>1, <4>4
    <3>3. QED BY <3>1, <3>2
  <2>4. t[p] = {p} \cup t[h.left[p]] \cup t[h.right[p]] BY DEF Forest
  <2>5. QED BY <2>3, <2>4
<1>4. QED BY <1>3

LEMMA HeapInvTree == HeapInv => PoolIsTree
<1> SUFFICES ASSUME HeapInv PROVE PoolIsTree OBVIOUS
<1>1. PICK t : Tree(Heap, t, pool) BY DEF HeapInv
<1>2. /\ Heap.root = root /\ Heap.left = left /\ Heap.right = right /\ Heap.parent = parent
      /\ NULL \notin Procs /\ pool \subseteq Procs
  BY HeapAssumption DEF Heap, HeapInv
<1>3. /\ Heap \in Heaps /\ t \in Subs /\ Forest(Heap, t, pool) /\ root \in pool \cup {NULL}
      /\ t[root] = pool /\ (root # NULL => parent[root] = NULL) /\ t[NULL] = {}
  BY <1>1, <1>2 DEF Tree, Forest
<1>4. \A p \in pool :
        /\ left[p] \in pool \cup {NULL} /\ right[p] \in pool \cup {NULL} /\ p \in t[p]
        /\ t[left[p]] \cap t[right[p]] = {}
        /\ left[p] # NULL => parent[left[p]] = p
        /\ right[p] # NULL => parent[right[p]] = p
  BY <1>2, <1>3 DEF Forest
<1>5. ASSUME NEW p \in pool
      PROVE  /\ Children(p) \subseteq pool
             /\ parent[p] = NULL <=> p = root
             /\ p # root => parent[p] \in pool /\ (left[parent[p]] = p) # (right[parent[p]] = p)
             /\ \A q \in Children(p) : parent[q] = p
  <2>1. Children(p) \subseteq pool /\ \A q \in Children(p) : parent[q] = p BY <1>4 DEF Children
  <2>2. root \in pool /\ parent[root] = NULL BY <1>3
  <2>3. ASSUME p # root
        PROVE  parent[p] \in pool /\ (left[parent[p]] = p) # (right[parent[p]] = p)
    <3>1. PICK q \in pool : left[q] = p \/ right[q] = p BY <2>2, <2>3, <1>2, <1>3, AboveIs
    <3>2. parent[p] = q BY <3>1, <1>2, <1>4
    <3>3. ~(left[q] = p /\ right[q] = p) BY <1>4
    <3>4. QED BY <3>1, <3>2, <3>3
  <2>4. QED BY <2>1, <2>2, <2>3, <1>2
<1>6. ASSUME NEW S \in SUBSET pool, root \in S \cup {NULL}, \A p \in S : Children(p) \subseteq S
      PROVE  S = pool
  <2>1. CASE root = NULL BY <2>1, <1>3
  <2>2. CASE root # NULL
    <3>1. \A p \in S : {Heap.left[p], Heap.right[p]} \ {NULL} \subseteq S BY <1>2, <1>6 DEF Children
    <3>2. t[root] \subseteq S BY <2>2, <3>1, <1>3, <1>6, AllBelow
    <3>3. QED BY <3>2, <1>3
  <2>3. QED BY <2>1, <2>2
<1>7. QED BY <1>3, <1>5, <1>6 DEF PoolIsTree

\* The skew heap never loses a process, holds one twice or keeps a parent pointer
\* that skew_heap_remove would follow wrongly, for any number of processes.
THEOREM PoolAlwaysTree == ASSUME SetFirst PROVE HeapSpec => []PoolIsTree
<1>1. HeapInv /\ [HeapNext]_<<vars, heapvars>> => HeapInv' BY StepHeapInv
<1>2. QED BY <1>1, InitHeapInv, HeapInvTree, PTL DEF HeapSpec

\* Taking the root of the skew heap, whose key stride_pick_next changes in place,
\* implements taking a minimal process of a set.
THEOREM HeapPicksMinimal == ASSUME SetFirst PROVE HeapSpec => PicksMinimal
<1>1. HeapInv /\ [HeapNext]_<<vars, heapvars>> => HeapInv' /\ [Next]_vars BY StepHeapInv
<1>2. HeapInit => Init BY DEF HeapInit
<1>3. QED BY <1>1, <1>2, InitHeapInv, PTL DEF HeapSpec, PicksMinimal, Spec
=============================================================================
